---------------------------- MODULE SealedLedger ----------------------------
(***************************************************************************)
(* What the fixture promises the gate, without tables, counters or hashes. *)
(* At most one attempt is under way.  It gathers the effects of requests,  *)
(* each once, while it accepts them.  An attempt closed in the normal way  *)
(* may be sealed, and its seal is exactly its effects; one that was        *)
(* interrupted can only be given up.                                       *)
(***************************************************************************)
CONSTANTS Attempts, Requests, Unsealed

VARIABLES
  phase,      \* where each attempt stands
  effects,    \* the requests whose effects each attempt holds
  sealed      \* the effects certified for each attempt, or Unsealed

ledgerVars == <<phase, effects, sealed>>

UnderWay == {"accepting", "closed", "interrupted"}

Init ==
  /\ phase   = [a \in Attempts |-> "unused"]
  /\ effects = [a \in Attempts |-> {}]
  /\ sealed  = [a \in Attempts |-> Unsealed]

Begin(a) ==
  /\ phase[a] = "unused"
  /\ \A b \in Attempts : phase[b] \notin UnderWay
  /\ phase' = [phase EXCEPT ![a] = "accepting"]
  /\ UNCHANGED <<effects, sealed>>

Effect(a, q) ==
  /\ phase[a] = "accepting"
  /\ q \notin effects[a]
  /\ effects' = [effects EXCEPT ![a] = @ \cup {q}]
  /\ UNCHANGED <<phase, sealed>>

Close(a) ==
  /\ phase[a] = "accepting"
  /\ phase' = [phase EXCEPT ![a] = "closed"]
  /\ UNCHANGED <<effects, sealed>>

Interrupt(a) ==
  /\ phase[a] \in {"accepting", "closed"}
  /\ phase' = [phase EXCEPT ![a] = "interrupted"]
  /\ UNCHANGED <<effects, sealed>>

Seal(a) ==
  /\ phase[a] = "closed"
  /\ phase'  = [phase EXCEPT ![a] = "sealed"]
  /\ sealed' = [sealed EXCEPT ![a] = effects[a]]
  /\ UNCHANGED effects

GiveUp(a) ==
  /\ phase[a] = "interrupted"
  /\ phase' = [phase EXCEPT ![a] = "void"]
  /\ UNCHANGED <<effects, sealed>>

Next ==
  \E a \in Attempts :
    \/ Begin(a) \/ Close(a) \/ Interrupt(a) \/ Seal(a) \/ GiveUp(a)
    \/ \E q \in Requests : Effect(a, q)

Spec == Init /\ [][Next]_ledgerVars
=============================================================================
