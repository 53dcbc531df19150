------------------------------- MODULE Cleanup -------------------------------
(***************************************************************************)
(* One runtime of the assurance harness, from its first Docker command to  *)
(* the last line of its cleanup (run_adversarial_closure.py: _start_runtime*)
(* and _cleanup; failure_evidence.py: cleanup_resources).                  *)
(*                                                                         *)
(* Docker is a service that may refuse a command, lose its answer, or      *)
(* outlast the harness' time limit, which raises; a removal that was not   *)
(* confirmed may still take effect later.  When Docker says whether a      *)
(* resource is there, it says the truth, or nothing (_presence: PRESENT,   *)
(* ABSENT, UNKNOWN).  A creation that was not confirmed has taken effect by *)
(* the time its answer is given up, or never does.                         *)
(*                                                                         *)
(* The three networks are one resource here, and so are the two fixture    *)
(* services: nothing tells them apart.                                     *)
(***************************************************************************)
EXTENDS Naturals, Sequences, SequencesExt

CONSTANT Earlier  \* what an earlier use of the directory may have left as cleanup.json

ASSUME EarlierAssumption == Earlier \subseteq {"absent", "complete", "incomplete"} /\ Earlier # {}

Creation == <<"network", "state", "output", "fixture", "evaluator", "candidate">>
Owned == Range(Creation)
Containers == {"fixture", "evaluator", "candidate"}
Volumes == {"state", "output"}
Mounts(c) == CASE c = "fixture" -> {"state"} [] c = "evaluator" -> {"output"} [] OTHER -> {}

VARIABLES
  exists,      \* resources that Docker has
  dying,       \* resources whose removal was asked for and not confirmed
  lost,        \* volumes that existed and were removed
  copy,        \* of each volume: its preserved copy, "none", "part", "whole" or "stale"
  attempt,     \* the runtime's attempts in the trusted fixture: its own, and the recovery case's new one
  work,        \* the harness process: where it is and what it holds
  files        \* what it left in the evidence directory

runtimeVars == <<exists, dying, lost, copy, attempt, work, files>>

\* fence: the attempt the failure path is to fence (cleanup_attempt_id).
\* guard: a Guard that runs in the background (the interprobe case).
NewWork(case) ==
  [case |-> case, pc |-> "create", todo |-> Creation, fence |-> "none", guard |-> FALSE,
   error |-> FALSE, preserve |-> FALSE, capture |-> "none", fenced |-> FALSE,
   errors |-> FALSE, unpreserved |-> FALSE, writers |-> FALSE,
   seen |-> [v \in Volumes |-> "ABSENT"], ok |-> [v \in Volumes |-> TRUE], result |-> "none"]

\* refused: committed_pass_permitted is written down as false.
NoFiles(before) == [cleanup |-> before, finishOnly |-> FALSE, refused |-> FALSE, left |-> {}]

NoAttempts == [own |-> "none", new |-> "none"]

StartRuntime(case, before) ==
  /\ exists' = {} /\ dying' = {} /\ lost' = {} /\ copy' = [v \in Volumes |-> "none"]
  /\ attempt' = NoAttempts /\ work' = NewWork(case) /\ files' = NoFiles(before)

At(pc) == work.pc = pc
Item == Head(work.todo)
\* The work at the next item of a step, or at the next step.
Advance(next, todo) ==
  IF Len(work.todo) > 1 THEN [work EXCEPT !.todo = Tail(@)] ELSE [work EXCEPT !.pc = next, !.todo = todo]
Raised(pc) == [work EXCEPT !.pc = pc, !.error = TRUE, !.preserve = TRUE]

DockerUnchanged == UNCHANGED <<exists, dying, lost>>
Running == <<"fixture", "evaluator", "candidate">>

-----------------------------------------------------------------------------
(* Docker.                                                                 *)

InUse(r) == \E c \in Containers \cap exists : r \in Mounts(c)
Gone(r) == exists' = exists \ {r} /\ dying' = dying \ {r} /\ lost' = lost \cup ({r} \cap Volumes)

Removed(r) == r \in exists /\ ~InUse(r) /\ Gone(r)
NotConfirmed(r) == dying' = dying \cup ({r} \cap exists) /\ UNCHANGED <<exists, lost>>

LateEffect ==
  /\ \E r \in dying : ~InUse(r) /\ Gone(r)
  /\ UNCHANGED <<copy, attempt, work, files>>

Presence(r) == {IF r \in exists THEN "PRESENT" ELSE "ABSENT", "UNKNOWN"}

\* A service that runs goes on writing to the volume it mounts.
Write ==
  /\ \E c \in Containers \cap exists : \E v \in Mounts(c) :
       copy[v] = "whole" /\ copy' = [copy EXCEPT ![v] = "stale"]
  /\ DockerUnchanged /\ UNCHANGED <<attempt, work, files>>

-----------------------------------------------------------------------------
(* _start_runtime and the case.  Every name is owned before the first      *)
(* command; an exception leads to the cleanup, on the failure path.        *)

SetupFails == work' = Raised("fence")

Create ==
  /\ At("create") /\ (Item = "candidate" => attempt.own = "OPEN")
  /\ \/ exists' = exists \cup {Item} /\ work' = Advance("case", <<>>)
     \/ exists' \in {exists, exists \cup {Item}} /\ SetupFails
  /\ UNCHANGED <<dying, lost, copy, attempt, files>>

\* The attempt is created, then opened, once the services answer.  It is the
\* one to fence before it is asked for.
OpenAttempt ==
  /\ At("create") /\ Item = "candidate" /\ attempt.own \in {"none", "PREPARED"}
  /\ LET next == IF attempt.own = "none" THEN "PREPARED" ELSE "OPEN"
     IN  \/ attempt' = [attempt EXCEPT !.own = next] /\ work' = [work EXCEPT !.fence = "own"]
         \/ /\ attempt' \in {attempt, [attempt EXCEPT !.own = next]}
            /\ work' = [Raised("fence") EXCEPT !.fence = "own"]
  /\ DockerUnchanged /\ UNCHANGED <<copy, files>>

\* An exception in the case: its finally clause is next.
CaseRaises == work' = Raised("finally")
To(pc) == work' = [work EXCEPT !.pc = pc]
CaseStep(case, pc, step) ==
  At(pc) /\ work.case = case /\ (step \/ CaseRaises) /\ DockerUnchanged /\ UNCHANGED <<copy, files>>

\* The Guard runs to its end; then _finalize.
Startup == \E case \in {"reference", "startup"} :
  CaseStep(case, "case", To("close")) /\ UNCHANGED attempt

\* The writer is released after the Guard has ended, and waited for.
Delayed ==
  /\ \/ CaseStep("delayed", "case", To("release"))
     \/ CaseStep("delayed", "release", To("close"))
  /\ UNCHANGED attempt

\* The writer is released while the Guard runs; both are waited for.  A Guard
\* that still runs at the end is killed: if that fails the evidence is
\* preserved, and the failure raised after the cleanup.
Interprobe ==
  /\ \/ CaseStep("interprobe", "case", work' = [work EXCEPT !.pc = "release", !.guard = TRUE])
     \/ CaseStep("interprobe", "release", To("wait"))
     \/ CaseStep("interprobe", "wait", work' = [work EXCEPT !.pc = "close", !.guard = FALSE])
     \/ /\ At("finally") /\ work.guard
        /\ \E killed \in BOOLEAN :
             work' = [work EXCEPT !.guard = FALSE, !.error = @ \/ ~killed, !.preserve = @ \/ ~killed]
        /\ DockerUnchanged /\ UNCHANGED <<copy, files>>
  /\ UNCHANGED attempt

\* The candidate is to crash: the evidence is preserved whatever happens, and
\* the attempt never finalized.
Crash ==
  /\ CaseStep("crash", "case", work' = [work EXCEPT !.pc = "finally", !.preserve = TRUE])
  /\ UNCHANGED attempt

\* The fixture's services are removed and run again, under the same names: the
\* attempt awaits its recovery and is aborted, and a new one is created, opened
\* and finalized.  The new one is to be fenced once it has been created, before
\* it is open.  (The removal and the second run are one step here with what they
\* do to the attempt: an exception among them may leave the services away, which
\* the cleanup meets after an exception in Create too.)
RecoveryStep(was, is, next) ==
  /\ attempt = was
  /\ \/ work' = next /\ attempt' = is
     \/ CaseRaises /\ attempt' \in {was, is}

Recovery ==
  /\ work.case = "recovery" /\ At("case")
  /\ LET at(own, new) == [own |-> own, new |-> new]
     IN  \/ RecoveryStep(at("OPEN", "none"), at("RECOVERY_REQUIRED", "none"), work)
         \/ RecoveryStep(at("RECOVERY_REQUIRED", "none"), at("ABORTED", "none"), work)
         \/ RecoveryStep(at("ABORTED", "none"), at("ABORTED", "PREPARED"), [work EXCEPT !.fence = "new"])
         \/ RecoveryStep(at("ABORTED", "PREPARED"), at("ABORTED", "OPEN"), [work EXCEPT !.pc = "close"])
  /\ DockerUnchanged /\ UNCHANGED <<copy, files>>

\* _finalize: close, final snapshot, finalize; any of them may fail, with or
\* without effect.
Finalize ==
  /\ At("close")
  /\ LET next == [attempt EXCEPT ![work.fence] = IF @ = "OPEN" THEN "FENCED" ELSE "FINALIZED"]
     IN  \/ /\ attempt' = next
            /\ IF next[work.fence] = "FINALIZED" THEN To("finally") ELSE UNCHANGED work
         \/ attempt' \in {attempt, next} /\ CaseRaises
  /\ DockerUnchanged /\ UNCHANGED <<copy, files>>

\* before_cleanup_capture (the reference captures its run before): an exception
\* turns the cleanup into one that preserves.
Capture ==
  /\ At("finally") /\ ~work.guard
  /\ \E c \in IF work.case = "reference" THEN {"none"} ELSE {"run", "no-run", "failed"} :
       LET preserve == work.preserve \/ c = "failed"
       IN  work' = [work EXCEPT !.pc = IF preserve THEN "fence" ELSE "stop", !.todo = Reverse(Running),
                                !.capture = c, !.preserve = preserve]
  /\ DockerUnchanged /\ UNCHANGED <<copy, attempt, files>>

-----------------------------------------------------------------------------
(* cleanup_resources.                                                      *)

Closed(a) ==
  IF a # "none" /\ attempt[a] = "OPEN" THEN [attempt EXCEPT ![a] = "FENCED"] ELSE attempt

\* _best_effort_fence: an open attempt is closed, as far as the services answer;
\* whatever comes of it, the cleanup goes on.
Fence ==
  /\ At("fence")
  /\ LET answers == work.fence = "none" \/ ({"fixture", "evaluator"} \subseteq exists /\ attempt[work.fence] # "none")
         closed == Closed(work.fence)
     IN  \E done \in {FALSE, answers} :
           /\ attempt' \in (IF done THEN {closed} ELSE {attempt, closed})
           /\ work' = [work EXCEPT !.pc = "stop", !.todo = Reverse(Running), !.fenced = done]
  /\ DockerUnchanged /\ UNCHANGED <<copy, files>>

\* docker rm -f; that there is no such container is no error.
StopContainer ==
  /\ At("stop")
  /\ \E failed \in BOOLEAN :
       /\ IF failed THEN NotConfirmed(Item)
          ELSE Removed(Item) \/ (Item \notin exists /\ DockerUnchanged)
       /\ work' = [Advance("verify", Running) EXCEPT !.errors = @ \/ failed]
  /\ UNCHANGED <<copy, attempt, files>>

VerifyContainer ==
  /\ At("verify")
  /\ \E p \in Presence(Item) :
       work' = [Advance("volumes", <<"state", "output">>) EXCEPT
                  !.writers = @ \/ p # "ABSENT", !.errors = @ \/ p # "ABSENT"]
  /\ DockerUnchanged /\ UNCHANGED <<copy, attempt, files>>

InspectVolume ==
  /\ At("volumes")
  /\ \E p \in Presence(Item) :
       work' = [(IF work.preserve THEN Advance("preserve", <<"state", "output">>)
                 ELSE Advance("network", <<"network">>)) EXCEPT
                  !.seen[Item] = p, !.ok[Item] = (p = "ABSENT"), !.unpreserved = @ \/ p = "UNKNOWN"]
  /\ DockerUnchanged /\ UNCHANGED <<copy, attempt, files>>

\* _preserve_state, _preserve_output: a copy that was made and, for the state,
\* found sound; or not.
Copied(v, good) == copy' = [copy EXCEPT ![v] = IF good THEN "whole" ELSE "part"]

\* Only a volume that is there is copied, and only once every writer has been
\* seen to be gone.
Preserve ==
  /\ At("preserve")
  /\ LET there == work.seen[Item] = "PRESENT"
     IN  IF there /\ ~work.writers
           THEN \E good \in BOOLEAN :
                  /\ Copied(Item, good)
                  /\ work' = [Advance("network", <<"network">>) EXCEPT
                                !.ok[Item] = good, !.unpreserved = @ \/ ~good]
           ELSE /\ work' = [Advance("network", <<"network">>) EXCEPT !.unpreserved = @ \/ there]
                /\ UNCHANGED copy
  /\ DockerUnchanged /\ UNCHANGED <<attempt, files>>

\* docker network rm, docker volume rm: when it fails, Docker is asked again.
RemoveNamed(next, todo) ==
  \/ Removed(Item) /\ work' = Advance(next, todo)
  \/ /\ NotConfirmed(Item)
     /\ \E p \in Presence(Item) :
          work' = [Advance(next, todo) EXCEPT !.errors = @ \/ p # "ABSENT"]

RemoveNetwork ==
  /\ At("network") /\ RemoveNamed("volume", <<"output", "state">>)
  /\ UNCHANGED <<copy, attempt, files>>

\* Mutant: a volume is removed once its copy was tried.
MayRemoveTried(v) == work.preserve => ~work.writers

\* On the failure path only what has been copied, or was seen not to be there;
\* otherwise nothing once something has failed.
MayRemove(v) == IF work.preserve THEN ~work.writers /\ work.ok[v] ELSE ~work.errors

RemoveVolume ==
  /\ At("volume")
  /\ IF MayRemove(Item) THEN RemoveNamed("ledger", <<"all">>)
     ELSE DockerUnchanged /\ work' = Advance("ledger", <<"all">>)
  /\ UNCHANGED <<copy, attempt, files>>

Complete(left) == ~work.errors /\ left = {}

\* Every owned resource is looked for once more, and the files are written.
WriteLedger ==
  /\ At("ledger")
  /\ \E unknown \in SUBSET {r \in Owned : "UNKNOWN" \in Presence(r)} :
       LET remains == unknown \cup {r \in Owned : "ABSENT" \notin Presence(r)}
           preserved == work.preserve => ~work.writers /\ \A v \in Volumes : work.ok[v]
       IN  files' = [cleanup |-> IF Complete(remains) THEN "complete" ELSE "incomplete",
                     finishOnly |-> remains # {} \/ work.errors \/ work.unpreserved \/ ~preserved,
                     refused |-> work.preserve \/ ~Complete(remains),
                     left |-> remains]
  /\ work' = [work EXCEPT !.pc = "leave", !.todo = <<>>]
  /\ DockerUnchanged /\ UNCHANGED <<copy, attempt>>

\* A command that outlasts its time limit, or a file that cannot be written,
\* ends the helper.
HelperStops ==
  /\ work.pc \in {"stop", "verify", "volumes", "preserve", "network", "volume", "ledger"}
  /\ IF At("stop") \/ At("network") \/ (At("volume") /\ MayRemove(Item))
       THEN NotConfirmed(Item) ELSE DockerUnchanged

\* All that the runtime owns is written down.
HelperRaises ==
  /\ HelperStops
  /\ files' = [files EXCEPT !.finishOnly = TRUE, !.refused = TRUE, !.left = Owned]
  /\ work' = [work EXCEPT !.pc = "leave", !.todo = <<"broken">>]
  /\ UNCHANGED <<copy, attempt>>

\* The record of the error, of the helper's or of the capture's before it, cannot
\* be written either: this exception leaves _cleanup as it is.
RecordRaises ==
  /\ \/ HelperStops
     \/ At("finally") /\ ~work.guard /\ work.case # "reference" /\ DockerUnchanged
  /\ work' = [work EXCEPT !.pc = "leave", !.todo = <<"unwritten">>, !.error = TRUE,
                          !.preserve = @ \/ At("finally")]
  /\ UNCHANGED <<copy, attempt, files>>

\* Mutant: the cleanup is not left before everything is gone.
LeaveWhenGone ==
  /\ At("leave") /\ files.left = {}
  /\ work' = [work EXCEPT !.pc = "over", !.result = IF work.error THEN "raised" ELSE "returned"]
  /\ DockerUnchanged /\ UNCHANGED <<copy, attempt, files>>

\* The end of _cleanup: what is raised when there is no earlier exception.
Leave ==
  /\ At("leave")
  /\ LET primary == work.error \/ work.case = "crash"
         failed == work.todo = <<"broken">> \/ files.cleanup = "incomplete"
         raised == work.error \/ (failed /\ ~work.preserve) \/ (work.capture = "failed" /\ ~primary)
     IN  work' = [work EXCEPT !.pc = "over", !.result = IF raised THEN "raised" ELSE "returned"]
  /\ DockerUnchanged /\ UNCHANGED <<copy, attempt, files>>

RuntimeStep ==
  \/ Create \/ OpenAttempt \/ Startup \/ Delayed \/ Interprobe \/ Crash \/ Recovery \/ Finalize \/ Capture
  \/ Fence \/ StopContainer \/ VerifyContainer \/ InspectVolume \/ Preserve \/ RemoveNetwork
  \/ RemoveVolume \/ WriteLedger \/ HelperRaises \/ RecordRaises \/ Leave

Environment == LateEffect \/ Write

-----------------------------------------------------------------------------
\* On the failure path no volume is lost before a whole copy of what it held
\* last was made; otherwise the trusted state goes last, when nothing that could
\* still fail is left.
EvidenceSurvives ==
  IF work.preserve THEN \A v \in lost : copy[v] = "whole"
  ELSE "state" \in lost => exists = {}

\* When the fence of the failure path has answered that all is well, no attempt
\* of the runtime is open: what is preserved then is of attempts that are over.
FencedIsClosed == work.fenced => \A a \in DOMAIN attempt : attempt[a] # "OPEN"

\* What is written down as complete is complete: nothing the runtime ever
\* created is left.  And whatever is left when the cleanup is over is written
\* down, with the word that no PASS may be committed; or the record itself could
\* not be written, and the exception that says so ends the runtime.
CleanupIsTrue ==
  At("over") =>
    /\ files.cleanup = "complete" => exists = {}
    /\ exists # {} => \/ exists \subseteq files.left /\ files.refused /\ files.finishOnly
                      \/ work.todo = <<"unwritten">> /\ work.result = "raised"
=============================================================================
