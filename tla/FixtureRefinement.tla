------------------------- MODULE FixtureRefinement -------------------------
(***************************************************************************)
(* The fixture implements SealedLedger: the effects of an attempt are the  *)
(* requests its audit ledger shows, and its seal is what the audit of its  *)
(* last final snapshot showed when the attempt was finalized.              *)
(***************************************************************************)
EXTENDS Fixture

CONSTANT Unsealed   \* an attempt that has no seal

PhaseOf == [s \in AttemptStates |->
  CASE s = "NONE"                -> "unused"
    [] s \in {"PREPARED", "OPEN"} -> "accepting"
    [] s = "FENCED"              -> "closed"
    [] s = "FINALIZED"           -> "sealed"
    [] s = "RECOVERY_REQUIRED"   -> "interrupted"
    [] s = "ABORTED"             -> "void"]

Shown(ledger) == {ledger[s].request : s \in DOMAIN ledger}

phaseBar   == [a \in Attempts |-> PhaseOf[state[a]]]
effectsBar == [a \in Attempts |-> Shown(audit[a])]
sealedBar  == [a \in Attempts |->
                 IF state[a] = "FINALIZED" THEN Shown(evidence[a].audit) ELSE Unsealed]

Ledger == INSTANCE SealedLedger
            WITH phase <- phaseBar, effects <- effectsBar, sealed <- sealedBar

\* Every behaviour of the store is one the gate may rely on: one attempt at a
\* time, each request's effect once, seals that are whole, no seal after a restart.
ImplementsSealedLedger == Ledger!Spec
=============================================================================
