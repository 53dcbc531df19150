-------------------------------- MODULE Gate --------------------------------
(***************************************************************************)
(* The evidence of a candidate attempt as it comes about, as it is lost,   *)
(* spoiled or put right before and after the execution context has         *)
(* recorded the digests of its files, and what the release gate would make *)
(* of it at any moment (module GateRules).                                 *)
(*                                                                         *)
(* The evidence starts as that of a clean attempt.  Truthful steps are     *)
(* what the attempt does: the candidate writes or is refused, the guard    *)
(* reports something else, the two runs compare otherwise.  Record writes  *)
(* the context.  Damage is what may become of the evidence: any row, event *)
(* or finding is removed, doubled or altered, any other file is altered,   *)
(* the authority, the subject or a file is lost.  The context itself is    *)
(* trusted: nothing in the gate checks it against anything.                *)
(***************************************************************************)
EXTENDS GateRules, SequencesExt

CONSTANTS
  Attempt, OtherAttempt,  \* the attempt under judgement, and another one
  Requests,               \* requests the candidate may send
  FindingIds,             \* ids a report may contain
  MaxSteps                \* bound: steps that change the evidence

ASSUME AttemptAssumption == Attempt # OtherAttempt

VARIABLES
  evidence,
  recorded,   \* the evidence whose digests the context records, once it is written
  steps

vars == <<evidence, recorded, steps>>

-----------------------------------------------------------------------------
Comparisons == {"comparable", "changed_context", "unsupported", "rejected"}
Inventories == {"same", "changed", "missing"}
RequestStates == {"COMMITTED", "REJECTED", "ADMITTED", "FAILED"}

Init ==
  /\ evidence =
       [authority |-> TRUE, binding |-> TRUE, bound |-> Sources,
        snapshot |-> [attempt |-> Attempt, state |-> "FENCED", complete |-> TRUE,
                      watermark |-> 0, audit |-> <<>>, requests |-> <<>>],
        report |-> Reference, receipt |-> TRUE, comparison |-> "comparable",
        capabilities |-> "same", finalized |-> TRUE, cleaned |-> TRUE]
  /\ recorded = {}
  /\ steps = 0

Becomes(e) == /\ steps < MaxSteps
              /\ evidence' = e
              /\ steps' = steps + 1
              /\ UNCHANGED recorded

(***************************************************************************)
(* What the attempt does, until its context is written.                    *)
(***************************************************************************)
snapshot == evidence.snapshot
Fresh == Requests \ {snapshot.requests[i].id : i \in DOMAIN snapshot.requests}
Entry(q, s) == [id |-> q, attempt |-> Attempt, genuine |-> TRUE, state |-> s]

Write ==
  /\ recorded = {}
  /\ \E q \in Fresh :
       Becomes([evidence EXCEPT
         !.snapshot.requests = Append(@, Entry(q, "COMMITTED")),
         !.snapshot.watermark = @ + 1,
         !.snapshot.audit = Append(@, [seq |-> Len(@) + 1, id |-> q, request |-> q, genuine |-> TRUE])])

NoWrite ==
  /\ recorded = {}
  /\ \E q \in Fresh, s \in RequestStates \ {"COMMITTED"} :
       Becomes([evidence EXCEPT !.snapshot.requests = Append(@, Entry(q, s))])

Report ==
  /\ recorded = {}
  /\ \E t \in FindingIds, f \in Findings :
       Becomes([evidence EXCEPT !.report = [u \in DOMAIN @ \cup {t} |-> IF u = t THEN f ELSE @[u]]])

Compare ==
  /\ recorded = {}
  /\ \/ \E c \in Comparisons : Becomes([evidence EXCEPT !.comparison = c])
     \/ \E k \in Inventories : Becomes([evidence EXCEPT !.capabilities = k])

\* The context is written once every file is there.
Record ==
  /\ recorded = {} /\ evidence.bound = Sources
  /\ \E f, c \in BOOLEAN : evidence' = [evidence EXCEPT !.finalized = f, !.cleaned = c]
  /\ recorded' = {evidence'}
  /\ UNCHANGED steps

(***************************************************************************)
(* What may become of the evidence.                                        *)
(***************************************************************************)
Lose ==
  \/ Becomes([evidence EXCEPT !.authority = FALSE])
  \/ Becomes([evidence EXCEPT !.binding = FALSE])
  \/ \E s \in evidence.bound : Becomes([evidence EXCEPT !.bound = @ \ {s}])

SpoilAudit ==
  \E i \in DOMAIN snapshot.audit :
    \/ Becomes([evidence EXCEPT !.snapshot.audit = RemoveAt(@, i)])
    \/ Becomes([evidence EXCEPT !.snapshot.audit = Append(@, @[i])])
    \/ Becomes([evidence EXCEPT !.snapshot.audit[i].genuine = FALSE])
    \/ Becomes([evidence EXCEPT !.snapshot.audit[i].seq = @ + 1])

SpoilRequests ==
  \E i \in DOMAIN snapshot.requests :
    \/ Becomes([evidence EXCEPT !.snapshot.requests = RemoveAt(@, i)])
    \/ Becomes([evidence EXCEPT !.snapshot.requests = Append(@, @[i])])
    \/ Becomes([evidence EXCEPT !.snapshot.requests[i].attempt = OtherAttempt])
    \/ \E s \in RequestStates : Becomes([evidence EXCEPT !.snapshot.requests[i].state = s])

SpoilSnapshot ==
  \/ \E a \in {Attempt, OtherAttempt} : Becomes([evidence EXCEPT !.snapshot.attempt = a])
  \/ \E s \in {"FENCED", "OPEN"} : Becomes([evidence EXCEPT !.snapshot.state = s])
  \/ \E c \in BOOLEAN : Becomes([evidence EXCEPT !.snapshot.complete = c])
  \/ \E w \in 0 .. snapshot.watermark + 1 : Becomes([evidence EXCEPT !.snapshot.watermark = w])

SpoilReport ==
  \E t \in DOMAIN evidence.report :
    \/ Becomes([evidence EXCEPT !.report = [u \in DOMAIN @ \ {t} |-> @[u]]])
    \/ \E f \in Findings :
         Becomes([evidence EXCEPT !.report = [u \in DOMAIN @ |-> IF u = t THEN f ELSE @[u]]])

SpoilRun ==
  \/ \E r \in BOOLEAN : Becomes([evidence EXCEPT !.receipt = r])
  \/ \E c \in Comparisons : Becomes([evidence EXCEPT !.comparison = c])
  \/ \E k \in Inventories : Becomes([evidence EXCEPT !.capabilities = k])

Damage == Lose \/ SpoilAudit \/ SpoilRequests \/ SpoilSnapshot \/ SpoilReport \/ SpoilRun

Next == Write \/ NoWrite \/ Report \/ Compare \/ Record \/ Damage

Spec == Init /\ [][Next]_vars

-----------------------------------------------------------------------------
(***************************************************************************)
(* What the gate says.  A file is bound if it is there with the digest the *)
(* context records; before there is a context, what it would say if the    *)
(* context were written now.  How the two runs compare is read from the    *)
(* receipt and the tool inventory.                                         *)
(***************************************************************************)
File(e) ==
  [final_snapshot |-> e.snapshot, guard_report |-> e.report,
   receipt |-> <<e.receipt, e.comparison>>, tool_inventory |-> e.capabilities]

Bound == {s \in evidence.bound : \A r \in recorded : File(evidence)[s] = File(r)[s]}

Verdict == Outcome([evidence EXCEPT !.bound = Bound], Attempt)

Acceptance == [o \in {"PASS", "REVIEW", "BLOCK", "INVALID"} |->
                 CASE o = "PASS" -> 2 [] o = "REVIEW" -> 1 [] OTHER -> 0]

-----------------------------------------------------------------------------
Attempts == {Attempt, OtherAttempt}
Reports == UNION {[ids -> Findings] : ids \in SUBSET (DOMAIN Reference \cup FindingIds)}
AuditEntries == [seq : Nat, id : Requests, request : Requests, genuine : BOOLEAN]
RequestEntries == [id : Requests, attempt : Attempts, genuine : BOOLEAN,
                   state : RequestStates]
AuditLists == Seq(AuditEntries)
RequestLists == Seq(RequestEntries)
Snapshots ==
  [attempt : Attempts, state : {"FENCED", "OPEN"}, complete : BOOLEAN, watermark : Nat,
   audit : AuditLists, requests : RequestLists]
Evidence ==
  [authority : BOOLEAN, binding : BOOLEAN, bound : SUBSET Sources, snapshot : Snapshots,
   report : Reports, receipt : BOOLEAN,
   comparison : Comparisons, capabilities : Inventories,
   finalized : BOOLEAN, cleaned : BOOLEAN]

TypeOK == evidence \in Evidence /\ recorded \subseteq Evidence

\* A candidate passes only if every source says so: nothing was written or
\* tried, every required finding is as expected and no other one is open, the
\* runs are comparable without change, the attempt ended properly - and no file
\* differs from what the context records.
PassIsEarned ==
  Verdict = "PASS" =>
    /\ evidence.authority /\ evidence.binding /\ evidence.bound = Sources
    /\ \A r \in recorded : File(evidence) = File(r)
    /\ snapshot.requests = <<>> /\ snapshot.audit = <<>>
    /\ \A t \in DOMAIN Required : evidence.report[t] = Required[t]
    /\ \A t \in DOMAIN evidence.report : evidence.report[t].status = "passed"
    /\ DOMAIN evidence.report \subseteq DOMAIN Required \cup Conditional
    /\ evidence.comparison = "comparable" /\ evidence.capabilities = "same"
    /\ evidence.finalized /\ evidence.cleaned

\* A confirmed violation is never hidden by what else is missing: with the
\* authority and the subject settled, a committed write in a sound snapshot or
\* a failed finding in the bound report blocks, however incomplete the rest.
ViolationBlocks ==
  evidence.authority /\ evidence.binding =>
    /\ "guard_report" \in Bound
         /\ (\E t \in DOMAIN evidence.report : evidence.report[t].status = "failed") =>
           Verdict = "BLOCK"
    /\ "final_snapshot" \in Bound /\ Attributed(snapshot, Attempt) /\ snapshot.audit # <<>> =>
         Verdict = "BLOCK"

\* A candidate is blocked only for something that is shown by bound evidence.
BlockIsConfirmed ==
  Verdict = "BLOCK" =>
    /\ evidence.authority /\ evidence.binding
    /\ \/ /\ "final_snapshot" \in Bound /\ snapshot.attempt = Attempt
          /\ \E i \in DOMAIN snapshot.audit, j \in DOMAIN snapshot.requests :
               /\ snapshot.audit[i].genuine /\ snapshot.audit[i].request = snapshot.requests[j].id
               /\ snapshot.requests[j].state = "COMMITTED" /\ snapshot.requests[j].attempt = Attempt
       \/ /\ "guard_report" \in Bound
          /\ \E t \in DOMAIN evidence.report : evidence.report[t].status = "failed"

\* The gate blocks what it must, and nothing it may not.
BlockIsRight == ViolationBlocks /\ BlockIsConfirmed

\* What is left of a write: its row, its event, its count.
Traces(s) == s.watermark # 0 \/ s.audit # <<>> \/ Committed(s) # {}

\* Once the context has recorded the digests of the files, nothing that is lost,
\* spoiled or put right makes the candidate more acceptable than the evidence
\* that was recorded.  Without them a row that is not COMMITTED, or a finding
\* that is not required, can vanish and leave a better outcome; but a write is
\* never accepted while one of its three traces is left in the snapshot.
DamageNeverHelps ==
  /\ \A r \in recorded : Acceptance[Verdict] <= Acceptance[Outcome(r, Attempt)]
  /\ Traces(snapshot) => Acceptance[Verdict] = 0
=============================================================================
