------------------------------ MODULE Campaign -------------------------------
(***************************************************************************)
(* A campaign of the assurance harness (run_adversarial_closure.py: main): *)
(* the reference is run and promoted, each hostile case is run, captured,  *)
(* cleaned up and judged by the release gate, what the gate published is   *)
(* copied out and checked, a summary is written, and in any case the two   *)
(* volumes of the gate are copied, compared and removed                    *)
(* (run_approval_demo.py: _cleanup_gate_volumes).  Each case is one runtime*)
(* of Cleanup.  The gate's own rules are those of Gate: here it answers    *)
(* anything.                                                               *)
(***************************************************************************)
EXTENDS Cleanup

CONSTANTS Cases,     \* the cases after the reference, in order
          Outcomes   \* what the gate answers

ASSUME CasesAssumption ==
  Cases \in Seq({"startup", "interprobe", "delayed", "crash", "recovery"}) /\ Cases # <<>>

Order == <<"reference">> \o Cases
Expected(c) == IF c \in {"startup", "interprobe", "delayed"} THEN "BLOCK" ELSE "INVALID"
Roles == <<"authority", "results">>

VARIABLES
  main,        \* the campaign: where it is, the case it is at, whether an exception is on its way
  gate,        \* each gate volume: whether it is there, was lost, and its copy in the output
  published,   \* the results in the gate's results volume
  leftovers    \* cases whose runtime left something behind

campaignVars == <<runtimeVars, main, gate, published, leftovers>>

Init ==
  /\ exists = {} /\ dying = {} /\ lost = {} /\ copy = [v \in Volumes |-> "none"]
  /\ attempt = NoAttempts /\ work = NewWork("reference") /\ files \in {NoFiles(b) : b \in Earlier}
  /\ main = [pc |-> "case", n |-> 1, todo |-> Roles, error |-> FALSE, summary |-> FALSE,
             ledger |-> "none", finishOnly |-> FALSE]
  /\ \E before \in (IF Earlier = {"absent"} THEN {"none"} ELSE {"none", "old"}) :
       gate = [r \in Range(Roles) |-> [there |-> FALSE, lost |-> FALSE, copy |-> before]]
  /\ published = [c \in Range(Cases) |-> "none"]
  /\ leftovers = {}

Case == Order[main.n]
In(pc) == main.pc = pc
Raise == main' = [main EXCEPT !.pc = "finally", !.todo = Roles, !.error = TRUE]
Role == Head(main.todo)
\* The campaign at the next volume of a step, or at the next step.
Advanced(pc) ==
  IF Len(main.todo) > 1 THEN [main EXCEPT !.todo = Tail(@)] ELSE [main EXCEPT !.pc = pc, !.todo = Roles]
GateUnchanged == UNCHANGED <<gate, published>>
RuntimeUnchanged == UNCHANGED <<runtimeVars, leftovers>>

-----------------------------------------------------------------------------
CleanupComplete == files.cleanup = "complete"

\* _run_reference: its saved run was captured before the cleanup.
ReferenceAccepted == work.result = "returned" /\ CleanupComplete

\* Mutant: whether the cleanup was complete is not looked at again.
CaseAcceptedUnclean(c) ==
  work.result = "returned" /\ work.capture # "failed" /\ (Expected(c) = "BLOCK" => work.capture = "run")

\* _run_case_with_capture: what must be there for the case to go on to the gate.
CaseAccepted(c) ==
  /\ work.result = "returned"
  /\ work.capture # "failed"
  /\ Expected(c) = "BLOCK" => work.capture = "run"
  /\ CleanupComplete

Accepted(c) == IF c = "reference" THEN ReferenceAccepted ELSE CaseAccepted(c)

\* The reference is run before the gate's volumes are: nothing is to be done
\* about them when it fails.  The runtime's names go out of scope; what it left
\* is remembered, and what Docker still does with it is looked at no more.
CaseOver ==
  /\ In("case") /\ At("over")
  /\ main' = IF Accepted(Case) THEN [main EXCEPT !.pc = IF Case = "reference" THEN "prepare" ELSE "gate"]
             ELSE [main EXCEPT !.pc = IF Case = "reference" THEN "exit" ELSE "finally", !.error = TRUE]
  /\ leftovers' = leftovers \cup (IF exists = {} THEN {} ELSE {Case})
  /\ StartRuntime("none", "absent")
  /\ GateUnchanged

\* _prepare_gate_volumes
PrepareVolume ==
  /\ In("prepare")
  /\ \/ gate' = [gate EXCEPT ![Role].there = TRUE] /\ main' = Advanced("promote")
     \/ gate' \in {gate, [gate EXCEPT ![Role].there = TRUE]} /\ Raise
  /\ UNCHANGED published /\ RuntimeUnchanged

NextCase ==
  IF main.n < Len(Order)
    THEN /\ main' = [main EXCEPT !.pc = "case", !.n = @ + 1]
         /\ \E before \in Earlier : StartRuntime(Order[main.n + 1], before)
    ELSE main' = [main EXCEPT !.pc = "copy"] /\ UNCHANGED runtimeVars

Promote ==
  /\ In("promote")
  /\ NextCase \/ (Raise /\ UNCHANGED runtimeVars)
  /\ GateUnchanged /\ UNCHANGED leftovers

\* _gate_case: the gate publishes its result, and the campaign goes on when it
\* hears the outcome it expects.
Judge ==
  /\ In("gate")
  /\ \E outcome \in Outcomes :
       /\ published' = [published EXCEPT ![Case] = outcome]
       /\ \/ outcome = Expected(Case) /\ NextCase
          \/ Raise /\ UNCHANGED runtimeVars
  /\ UNCHANGED <<gate, leftovers>>

GateFails == In("gate") /\ Raise /\ GateUnchanged /\ RuntimeUnchanged

\* _validate_published_results: nothing but what was expected of each case.
PublishedValid == \A c \in Range(Cases) : published[c] = Expected(c)

\* Both volumes are copied into the output, what the gate published is checked
\* there, and the summary is written.
Summarize ==
  /\ In("copy")
  /\ \/ /\ PublishedValid
        /\ main' = [main EXCEPT !.pc = "finally", !.summary = TRUE]
     \/ Raise
  /\ GateUnchanged /\ RuntimeUnchanged

-----------------------------------------------------------------------------
(* _cleanup_gate_volumes.                                                  *)

Retained == main' = [Advanced("leave") EXCEPT !.ledger = "errors", !.finishOnly = TRUE]

\* _copy_volume: what a copy leaves in the output, if it is made at all.
Copies == {"whole", "part"}

GatePresence(r) == {IF gate[r].there THEN "PRESENT" ELSE "ABSENT", "UNKNOWN"}

\* _copy_gate_volume_verified: a directory that is there already is refused,
\* and what was copied must be what is in the volume.
Verified(before, c) == before # "old" /\ c = "whole"

\* A volume that is there is copied first, and removed once the copy has been
\* compared with it; whether it is gone is asked again.
CleanVolume ==
  /\ In("finally")
  /\ \E seen \in GatePresence(Role) :
       CASE seen = "ABSENT" -> main' = Advanced("leave") /\ UNCHANGED gate
         [] seen = "UNKNOWN" -> Retained /\ UNCHANGED gate
         [] seen = "PRESENT" ->
              \E c \in Copies :
                IF ~Verified(gate[Role].copy, c)
                  THEN Retained /\ gate' = [gate EXCEPT ![Role].copy = IF @ = "old" THEN @ ELSE c]
                  ELSE \E removed, told \in BOOLEAN : \E after \in {IF removed THEN "ABSENT" ELSE "PRESENT", "UNKNOWN"} :
                         /\ gate' = [gate EXCEPT ![Role] = [there |-> ~removed, lost |-> removed, copy |-> c]]
                         /\ IF after # "ABSENT" THEN Retained
                            ELSE main' = [Advanced("leave") EXCEPT !.ledger = IF told THEN @ ELSE "errors"]
  /\ UNCHANGED published /\ RuntimeUnchanged

Exit ==
  /\ In("leave")
  /\ main' = [main EXCEPT !.pc = "exit", !.error = @ \/ main.ledger = "errors" \/ main.finishOnly]
  /\ GateUnchanged /\ RuntimeUnchanged

-----------------------------------------------------------------------------
CampaignUnchanged == UNCHANGED <<main, gate, published, leftovers>>

Next ==
  \/ In("case") /\ (RuntimeStep \/ Environment) /\ CampaignUnchanged
  \/ CaseOver \/ PrepareVolume \/ Promote \/ Judge \/ GateFails \/ Summarize \/ CleanVolume \/ Exit

Fairness == WF_campaignVars(In("case") /\ RuntimeStep /\ CampaignUnchanged)
            /\ WF_campaignVars(CaseOver \/ PrepareVolume \/ Promote \/ Judge \/ Summarize \/ CleanVolume \/ Exit)

Spec == Init /\ [][Next]_campaignVars /\ Fairness

-----------------------------------------------------------------------------
\* A campaign that ends without an exception has a summary, got from the gate
\* what it expected of every case, and left nothing behind: no resource of any
\* runtime, no gate volume, and whole copies of both.
AcceptedIsClean ==
  In("exit") /\ ~main.error =>
    /\ main.summary /\ leftovers = {}
    /\ \A c \in Range(Cases) : published[c] = Expected(c)
    /\ \A r \in Range(Roles) : ~gate[r].there /\ gate[r].copy = "whole"

\* A volume of the gate is lost only when a whole copy of it is in the output,
\* and one that is left is written down as needing recovery.
GateVolumesSurvive ==
  \A r \in Range(Roles) :
    /\ gate[r].lost => gate[r].copy = "whole"
    /\ In("exit") /\ gate[r].there => main.finishOnly

\* No evidence is destroyed before there is a copy of it, whichever part of the
\* campaign removes it.
NothingIsLost == EvidenceSurvives /\ GateVolumesSurvive

\* What is said of the cleanup, step by step, case by case and at the end, is
\* true.
CampaignIsTrue == FencedIsClosed /\ CleanupIsTrue /\ AcceptedIsClean

\* Whatever Docker answers, and whatever raises, the campaign ends.
CampaignEnds == <>In("exit")
=============================================================================
