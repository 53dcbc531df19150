----------------------------- MODULE AttemptRun -----------------------------
(***************************************************************************)
(* One attempt of the approval demo (assurance/phase2/run_approval_demo.py,*)
(* _run_attempt) from creation to the release gate, composed of the        *)
(* trusted fixture (module Fixture) and the rules of the gate (module      *)
(* GateRules).                                                             *)
(*                                                                         *)
(* The orchestrator drives the fixture through its control service step by *)
(* step and writes the evidence the gate will read.  Any step may fail,    *)
(* with or without its effect on the fixture: the reply is lost, a         *)
(* container dies, cleanup is incomplete.  A failure ends the attempt: the *)
(* orchestrator only tries to fence it.  Meanwhile the candidate writes    *)
(* when it likes and either fixture service may restart.                   *)
(*                                                                         *)
(* The guard's own report is taken to be clean, whatever the candidate     *)
(* did: the question is what the fixture's evidence alone makes the gate   *)
(* say.                                                                    *)
(***************************************************************************)
EXTENDS Fixture, Sequences, GateRules

\* Promotion refuses a reference that is not clean by the gate's own rules.
ASSUME ReferenceAssumption ==
  /\ AssessReport(Reference) = Nothing
  /\ AssessComparison([report |-> Reference, comparison |-> "comparable",
                       capabilities |-> "same"]) = Nothing

VARIABLES
  stage,      \* how far the orchestrator is with an attempt
  dossier     \* the files it has written: the final snapshot and the context

runVars == <<vars, stage, dossier>>

-----------------------------------------------------------------------------
\* final-snapshot.json as received, and execution-context.json.
NoDossier == [exported |-> FALSE, requests |-> NoEvidence.requests, audit |-> NoEvidence.audit,
              watermark |-> 0, context |-> FALSE, cleaned |-> FALSE]

RunInit ==
  /\ Init
  /\ stage = [a \in Attempts |-> "new"]
  /\ dossier = [a \in Attempts |-> NoDossier]

\* A call to the control service from one stage to the next.  The orchestrator
\* may see it fail although it had its effect.
Call(a, from, to) ==
  /\ stage[a] = from
  /\ \E s \in {to, "failed"} : stage' = [stage EXCEPT ![a] = s]

Start(a) == /\ Call(a, "new", "created") /\ CreateAttempt(a) /\ UNCHANGED dossier
Open(a)  == /\ Call(a, "created", "guarding") /\ OpenAttempt(a) /\ UNCHANGED dossier
Close(a) == /\ Call(a, "guarding", "closed") /\ CloseAttempt(a) /\ UNCHANGED dossier

\* The reply of final-snapshot is written to a file once it is there.
Export(a) ==
  /\ Call(a, "closed", "exported")
  /\ FinalSnapshot(a)
  /\ dossier' = IF stage'[a] = "failed" THEN dossier
                ELSE [dossier EXCEPT ![a] =
                        [@ EXCEPT !.exported = TRUE, !.requests = evidence'[a].requests,
                                  !.audit = evidence'[a].audit, !.watermark = watermark[a]]]

Finalize(a) == /\ Call(a, "exported", "finalized") /\ FinalizeAttempt(a) /\ UNCHANGED dossier

\* The context is written when the attempt is finalized, as not yet cleaned up.
Assemble(a) ==
  /\ stage[a] = "finalized"
  /\ stage' = [stage EXCEPT ![a] = "assembled"]
  /\ dossier' = [dossier EXCEPT ![a] = [@ EXCEPT !.context = TRUE]]
  /\ UNCHANGED vars

\* And again when cleanup is known to be complete.
CleanUp(a) ==
  /\ Call(a, "assembled", "done")
  /\ dossier' = IF stage'[a] = "failed" THEN dossier
                ELSE [dossier EXCEPT ![a] = [@ EXCEPT !.cleaned = TRUE]]
  /\ UNCHANGED vars

\* A step fails without effect.
Abandon(a) ==
  /\ stage[a] \notin {"new", "failed", "done"}
  /\ stage' = [stage EXCEPT ![a] = "failed"]
  /\ UNCHANGED <<vars, dossier>>

\* failure_fence, best effort.
FailureFence(a) ==
  /\ stage[a] = "failed"
  /\ CloseAttempt(a)
  /\ UNCHANGED <<stage, dossier>>

\* What happens without the orchestrator: the guard resets its cursor, the
\* candidate writes, a service restarts, an interrupted attempt is aborted.
Fixtures ==
  /\ \/ \E a \in Attempts : stage[a] = "guarding" /\ ResetObserverCursor
     \/ \E a \in Attempts, q \in Requests : BusinessWrite(a, q)
     \/ \E a \in Attempts : stage[a] = "failed" /\ AbortRecovery(a)
     \/ Bootstrap
  /\ UNCHANGED <<stage, dossier>>

Orchestrate(a) ==
  \/ Start(a) \/ Open(a) \/ Close(a) \/ Export(a) \/ Finalize(a)
  \/ Assemble(a) \/ CleanUp(a) \/ Abandon(a) \/ FailureFence(a)

RunNext == Fixtures \/ \E a \in Attempts : Orchestrate(a)

RunSpec == RunInit /\ [][RunNext]_runVars

-----------------------------------------------------------------------------
(***************************************************************************)
(* What the gate reads of an attempt.                                      *)
(***************************************************************************)
GateSnapshot(a) ==
  [attempt |-> a, state |-> "FENCED", complete |-> TRUE, watermark |-> dossier[a].watermark,
   audit |-> [s \in 1 .. Cardinality(DOMAIN dossier[a].audit) |->
                [seq |-> s, id |-> s, request |-> dossier[a].audit[s].request, genuine |-> TRUE]],
   requests |-> [q \in Rows(dossier[a].requests) |->
                   [id |-> q, attempt |-> a, genuine |-> TRUE, state |-> dossier[a].requests[q]]]]

\* Without an execution context there is nothing to bind the candidate to.
GateEvidence(a) ==
  [authority |-> TRUE, binding |-> dossier[a].context, bound |-> Sources,
   snapshot |-> GateSnapshot(a), report |-> Reference, receipt |-> TRUE,
   comparison |-> "comparable", capabilities |-> "same",
   finalized |-> dossier[a].context, cleaned |-> dossier[a].cleaned]

GateOutcome(a) == Outcome(GateEvidence(a), a)

Wrote(a) == \E q \in Requests : requests[a][q] = "COMMITTED"
Tried(a) == \E q \in Requests : requests[a][q] # "NONE"

-----------------------------------------------------------------------------
\* The gate's outcome tells the truth about the attempt as the fixture knows
\* it, and goes on doing so whatever requests and restarts still come: it
\* blocks exactly those attempts with a context in which a write was committed,
\* passes only attempts that ended properly in which nothing was tried, and
\* asks for review only where every request was refused.
VerdictIsTrue ==
  \A a \in Attempts : dossier[a].context =>
    /\ state[a] = "FINALIZED"
    /\ GateOutcome(a) = "BLOCK" <=> Wrote(a)
    /\ GateOutcome(a) = "PASS" <=> stage[a] = "done" /\ ~ Tried(a)
    /\ GateOutcome(a) = "REVIEW" <=> stage[a] = "done" /\ Tried(a) /\ ~ Wrote(a)

\* Once the gate can accept an attempt nothing it did can change any more.
AcceptedIsOver ==
  [][\A a \in Attempts : GateOutcome(a) \in {"PASS", "REVIEW"} =>
       /\ GateOutcome(a)' = GateOutcome(a)
       /\ requests'[a] = requests[a] /\ audit'[a] = audit[a] /\ state'[a] = state[a]]_runVars
=============================================================================
