----------------------------- MODULE GateProofs -----------------------------
(***************************************************************************)
(* The release gate: what it says (module Gate) and how it publishes it    *)
(* (module Publication).                                                   *)
(*                                                                         *)
(* First, for any policy, any reference, any number of requests and        *)
(* findings, and any number of steps: an approval is earned, a block is    *)
(* right, and what is lost, spoiled or put right never makes a candidate   *)
(* more acceptable than the evidence that was recorded.  For the last the  *)
(* invariant says, beside the type, what the trusted context holds fast    *)
(* (Held): how the attempt ended does not change, an authority or a        *)
(* subject that is settled now was settled then.  An outcome other than    *)
(* BLOCK and INVALID takes every file bound, so with the digests recorded  *)
(* the evidence judged is the evidence recorded, field by field.           *)
(*                                                                         *)
(* Then, for any number of gates, results and files: what is published is  *)
(* whole, and what was reported stays, whoever crashes and whatever a      *)
(* power failure undoes.                                                   *)
(***************************************************************************)
EXTENDS Gate, Publication, SequenceTheorems, TLAPS

-----------------------------------------------------------------------------
(***************************************************************************)
(* Lists.                                                                  *)
(***************************************************************************)
LEMMA NothingListed ==
  ASSUME NEW S, NEW list \in Seq(S), DOMAIN list = {}
  PROVE  list = <<>> /\ Len(list) = 0
<1>1. DOMAIN list = 1 .. Len(list) /\ Len(list) \in Nat
  BY LenProperties
<1>2. Len(list) = 0
  BY <1>1, SMT
<1> QED
  BY <1>2, EmptySeq

LEMMA Listed ==
  ASSUME NEW S, NEW list \in Seq(S), NEW i \in DOMAIN list
  PROVE  list[i] \in S /\ i \in Nat /\ i \in 1 .. Len(list)
<1>1. DOMAIN list = 1 .. Len(list)
  BY LenProperties
<1> QED
  BY <1>1, ElementOfSeq, LenProperties

LEMMA RemovedFrom ==
  ASSUME NEW S, NEW list \in Seq(S), NEW i \in DOMAIN list
  PROVE  RemoveAt(list, i) \in Seq(S)
<1>1. Len(list) \in Nat /\ i \in 1 .. Len(list)
  BY LenProperties, Listed
<1>2. \A j \in 1 .. Len(list) : list[j] \in S
  BY ElementOfSeq
<1>3. SubSeq(list, 1, i - 1) \in Seq(S)
  BY <1>1, <1>2, SubSeqProperties
<1>4. SubSeq(list, i + 1, Len(list)) \in Seq(S)
  BY <1>1, <1>2, SubSeqProperties
<1> QED
  BY <1>3, <1>4, ConcatProperties DEF RemoveAt

-----------------------------------------------------------------------------
(***************************************************************************)
(* The rules.                                                              *)
(***************************************************************************)
LEMMA Assessments ==
  ASSUME NEW e, NEW a
  PROVE  /\ Assessment(e, a, "final_snapshot") = AssessSnapshot(e.snapshot, a)
         /\ Assessment(e, a, "guard_report") = AssessReport(e.report)
         /\ Assessment(e, a, "receipt") = [Nothing EXCEPT !.invalid = ~ e.receipt]
         /\ Assessment(e, a, "tool_inventory") = Nothing
         /\ Assessment(e, a, "comparator") = AssessComparison(e)
BY DEF Assessment

\* What every outcome other than BLOCK and INVALID takes.
Acceptable(e, a) ==
  /\ e.authority /\ e.binding /\ e.finalized /\ e.cleaned /\ e.receipt
  /\ e.bound = Sources
  /\ Attributed(e.snapshot, a) /\ Completed(e.snapshot) /\ Committed(e.snapshot) = {}
  /\ ~ AssessReport(e.report).violation /\ ~ AssessReport(e.report).invalid
  /\ ~ AssessComparison(e).violation /\ ~ AssessComparison(e).invalid

LEMMA Accepted ==
  ASSUME NEW e, NEW a, Outcome(e, a) \in {"PASS", "REVIEW"}
  PROVE  Acceptable(e, a)
<1>1. /\ e.authority /\ e.binding /\ ~ Violated(e, a) /\ ~ Incomplete(e, a)
  BY DEF Outcome
<1>2. e.bound = Sources /\ e.finalized /\ e.cleaned
  BY <1>1 DEF Incomplete
<1>3. Evaluated(e) = Sources \cup {"comparator"}
  BY <1>2 DEF Evaluated, Comparable
<1>4. \A s \in Sources \cup {"comparator"} :
        ~ Assessment(e, a, s).violation /\ ~ Assessment(e, a, s).invalid
  BY <1>1, <1>3 DEF Violated, Incomplete
<1>5. ~ AssessSnapshot(e.snapshot, a).violation /\ ~ AssessSnapshot(e.snapshot, a).invalid
  BY <1>4, Assessments DEF Sources
<1>6. Attributed(e.snapshot, a) /\ Completed(e.snapshot) /\ Committed(e.snapshot) = {}
  BY <1>5 DEF AssessSnapshot
<1>7. e.receipt
  BY <1>4, Assessments DEF Sources, Nothing
<1>8. ~ AssessReport(e.report).violation /\ ~ AssessReport(e.report).invalid
  BY <1>4, Assessments DEF Sources
<1>9. ~ AssessComparison(e).violation /\ ~ AssessComparison(e).invalid
  BY <1>4, Assessments
<1> QED
  BY <1>1, <1>2, <1>6, <1>7, <1>8, <1>9 DEF Acceptable

LEMMA Unacceptable ==
  ASSUME NEW e, ~ Acceptable(e, Attempt)
  PROVE  Acceptance[Outcome(e, Attempt)] = 0
<1>1. Outcome(e, Attempt) \in {"BLOCK", "INVALID"}
  BY Accepted DEF Outcome
<1> QED
  BY <1>1 DEF Acceptance

LEMMA OutcomesRank ==
  ASSUME NEW e
  PROVE  Acceptance[Outcome(e, Attempt)] \in Nat
<1>1. Outcome(e, Attempt) \in {"PASS", "REVIEW", "BLOCK", "INVALID"}
  BY DEF Outcome
<1> QED
  BY <1>1 DEF Acceptance

\* What an acceptable report says of the findings that are required.
LEMMA RequiredAreMet ==
  ASSUME NEW report, ~ AssessReport(report).violation, ~ AssessReport(report).invalid,
         NEW t \in DOMAIN Required
  PROVE  /\ t \in DOMAIN report
         /\ report[t].status = Required[t].status
         /\ report[t].observation = Required[t].observation
<1>1. ~ \E u \in DOMAIN report : report[u].status \in {"failed"}
  BY DEF AssessReport, HasStatus
<1>2. /\ t \in DOMAIN report
      /\ report[t].status \in {"failed", Required[t].status}
      /\ report[t].observation = Required[t].observation
  BY DEF AssessReport
<1> QED
  BY <1>1, <1>2

-----------------------------------------------------------------------------
(***************************************************************************)
(* The inductive invariant, and the evidence a step may leave.             *)
(***************************************************************************)
\* What the context holds fast of the evidence it recorded.
Held ==
  \A r \in recorded :
    /\ r.bound = Sources
    /\ r.finalized = evidence.finalized /\ r.cleaned = evidence.cleaned
    /\ evidence.authority => r.authority
    /\ evidence.binding => r.binding

GateInv == TypeOK /\ Held

\* Evidence that can come of this one, whatever its files hold.
Follows(e) ==
  /\ e \in Evidence
  /\ e.finalized = evidence.finalized /\ e.cleaned = evidence.cleaned
  /\ e.authority => evidence.authority
  /\ e.binding => evidence.binding

LEMMA FollowsKeeps ==
  ASSUME GateInv, NEW e, Follows(e), Becomes(e)
  PROVE  GateInv'
BY DEF GateInv, TypeOK, Held, Follows, Becomes

LEMMA Forms ==
  ASSUME NEW e \in Evidence
  PROVE  /\ e.snapshot \in Snapshots
         /\ e.report \in Reports
         /\ e.bound \subseteq Sources
         /\ e.snapshot.audit \in AuditLists
         /\ e.snapshot.requests \in RequestLists
         /\ e.snapshot.watermark \in Nat
BY DEF Evidence, Snapshots

LEMMA NewSnapshot ==
  ASSUME evidence \in Evidence, NEW s \in Snapshots
  PROVE  Follows([evidence EXCEPT !.snapshot = s])
BY DEF Evidence, Follows

WithAudit(list) == [evidence EXCEPT !.snapshot.audit = list]
WithRequests(list) == [evidence EXCEPT !.snapshot.requests = list]

LEMMA NewAudit ==
  ASSUME evidence \in Evidence, NEW list \in AuditLists
  PROVE  Follows(WithAudit(list))
<1>1. [evidence.snapshot EXCEPT !.audit = list] \in Snapshots
  BY Forms DEF Snapshots
<1>2. WithAudit(list) = [evidence EXCEPT !.snapshot = [evidence.snapshot EXCEPT !.audit = list]]
  BY DEF WithAudit
<1> QED
  BY <1>1, <1>2, NewSnapshot

LEMMA NewRequests ==
  ASSUME evidence \in Evidence, NEW list \in RequestLists
  PROVE  Follows(WithRequests(list))
<1>1. [evidence.snapshot EXCEPT !.requests = list] \in Snapshots
  BY Forms DEF Snapshots
<1>2. WithRequests(list) = [evidence EXCEPT !.snapshot = [evidence.snapshot EXCEPT !.requests = list]]
  BY DEF WithRequests
<1> QED
  BY <1>1, <1>2, NewSnapshot

LEMMA NewReport ==
  ASSUME evidence \in Evidence, NEW report \in Reports
  PROVE  Follows([evidence EXCEPT !.report = report])
BY DEF Evidence, Follows

LEMMA ReportForms ==
  ASSUME NEW ids, ids \subseteq DOMAIN Reference \cup FindingIds, NEW r \in [ids -> Findings]
  PROVE  r \in Reports
BY DEF Reports

LEMMA ReportIs ==
  ASSUME NEW r \in Reports
  PROVE  /\ DOMAIN r \subseteq DOMAIN Reference \cup FindingIds
         /\ \A t \in DOMAIN r : r[t] \in Findings
BY DEF Reports

LEMMA Longer ==
  ASSUME NEW S, NEW list \in Seq(S), NEW x \in S
  PROVE  Append(list, x) \in Seq(S)
BY AppendProperties

LEMMA Altered ==
  ASSUME NEW S, NEW list \in Seq(S), NEW i \in DOMAIN list, NEW x \in S
  PROVE  [list EXCEPT ![i] = x] \in Seq(S)
BY Listed, ExceptSeq

-----------------------------------------------------------------------------
(***************************************************************************)
(* The steps.                                                              *)
(***************************************************************************)
LEMMA GateStarts == Init => GateInv
<1> SUFFICES ASSUME Init
             PROVE  GateInv
  OBVIOUS
<1>1. Reference \in Reports
  BY FindingsAssumption, ReportForms
<1>2. <<>> \in AuditLists /\ <<>> \in RequestLists
  BY EmptySeq DEF AuditLists, RequestLists
<1>3. [attempt |-> Attempt, state |-> "FENCED", complete |-> TRUE,
       watermark |-> 0, audit |-> <<>>, requests |-> <<>>] \in Snapshots
  BY <1>2 DEF Snapshots, Attempts
<1>4. evidence \in Evidence
  BY <1>1, <1>3 DEF Init, Evidence, Comparisons, Inventories
<1> QED
  BY <1>4 DEF Init, GateInv, TypeOK, Held

LEMMA WriteSteps == GateInv /\ Write => GateInv'
<1> SUFFICES ASSUME GateInv, NEW q \in Fresh,
                    Becomes([evidence EXCEPT
                      !.snapshot.requests = Append(@, Entry(q, "COMMITTED")),
                      !.snapshot.watermark = @ + 1,
                      !.snapshot.audit = Append(@, [seq |-> Len(@) + 1, id |-> q, request |-> q,
                                                    genuine |-> TRUE])])
             PROVE  GateInv'
  BY DEF Write
<1> DEFINE s == evidence.snapshot
           requests == Append(s.requests, Entry(q, "COMMITTED"))
           audit == Append(s.audit, [seq |-> Len(s.audit) + 1, id |-> q, request |-> q, genuine |-> TRUE])
           r == [s EXCEPT !.requests = requests, !.watermark = s.watermark + 1, !.audit = audit]
<1>1. evidence \in Evidence /\ q \in Requests
  BY DEF GateInv, TypeOK, Fresh
<1>2. s \in Snapshots /\ s.audit \in AuditLists /\ s.requests \in RequestLists /\ s.watermark \in Nat
  BY <1>1, Forms
<1>3. Len(s.audit) \in Nat
  BY <1>2, LenProperties DEF AuditLists
<1>4. [seq |-> Len(s.audit) + 1, id |-> q, request |-> q, genuine |-> TRUE] \in AuditEntries
  BY <1>1, <1>3 DEF AuditEntries
<1>5. audit \in AuditLists
  BY <1>2, <1>4, Longer DEF AuditLists
<1>6. Entry(q, "COMMITTED") \in RequestEntries
  BY <1>1 DEF Entry, RequestEntries, Attempts, RequestStates
<1>7. requests \in RequestLists
  BY <1>2, <1>6, Longer DEF RequestLists
<1>8. Becomes([evidence EXCEPT !.snapshot = r])
  BY <1>1 DEF Evidence, Snapshots
<1> HIDE DEF requests, audit
<1>9. r \in Snapshots
  <2>1. s.watermark + 1 \in Nat
    BY <1>2
  <2> QED
    BY <1>2, <1>5, <1>7, <2>1 DEF Snapshots
<1> HIDE DEF r
<1> QED
  BY <1>1, <1>8, <1>9, NewSnapshot, FollowsKeeps

LEMMA NoWriteSteps == GateInv /\ NoWrite => GateInv'
<1> SUFFICES ASSUME GateInv, NEW q \in Fresh, NEW t \in RequestStates,
                    Becomes([evidence EXCEPT !.snapshot.requests = Append(@, Entry(q, t))])
             PROVE  GateInv'
  BY DEF NoWrite
<1> DEFINE requests == evidence.snapshot.requests
<1>1. evidence \in Evidence /\ q \in Requests /\ requests \in RequestLists
  BY Forms DEF GateInv, TypeOK, Fresh
<1>2. Entry(q, t) \in RequestEntries
  BY <1>1 DEF Entry, RequestEntries, Attempts
<1>3. Append(requests, Entry(q, t)) \in RequestLists
  BY <1>1, <1>2, Longer DEF RequestLists
<1>4. Becomes(WithRequests(Append(requests, Entry(q, t))))
  BY DEF WithRequests
<1> QED
  BY <1>1, <1>3, <1>4, NewRequests, FollowsKeeps

LEMMA ReportSteps == GateInv /\ Report => GateInv'
<1> SUFFICES ASSUME GateInv, NEW t \in FindingIds, NEW f \in Findings,
                    Becomes([evidence EXCEPT !.report =
                      [u \in DOMAIN @ \cup {t} |-> IF u = t THEN f ELSE @[u]]])
             PROVE  GateInv'
  BY DEF Report
<1> DEFINE report == [u \in DOMAIN evidence.report \cup {t} |-> IF u = t THEN f ELSE evidence.report[u]]
<1>1. evidence \in Evidence /\ evidence.report \in Reports
  BY Forms DEF GateInv, TypeOK
<1>2. report \in [DOMAIN evidence.report \cup {t} -> Findings]
  BY <1>1, ReportIs
<1>3. report \in Reports
  BY <1>1, <1>2, ReportIs, ReportForms
<1>4. Becomes([evidence EXCEPT !.report = report])
  OBVIOUS
<1> HIDE DEF report
<1> QED
  BY <1>1, <1>3, <1>4, NewReport, FollowsKeeps

LEMMA CompareSteps ==
  ASSUME GateInv, NEW c \in Comparisons, NEW k \in Inventories, NEW b \in BOOLEAN,
         \/ Becomes([evidence EXCEPT !.comparison = c])
         \/ Becomes([evidence EXCEPT !.capabilities = k])
         \/ Becomes([evidence EXCEPT !.receipt = b])
  PROVE  GateInv'
<1>1. evidence \in Evidence
  BY DEF GateInv, TypeOK
<1>2. /\ Follows([evidence EXCEPT !.comparison = c])
      /\ Follows([evidence EXCEPT !.capabilities = k])
      /\ Follows([evidence EXCEPT !.receipt = b])
  BY <1>1 DEF Evidence, Follows
<1> QED
  BY <1>2, FollowsKeeps

LEMMA RecordSteps == GateInv /\ Record => GateInv'
<1> SUFFICES ASSUME GateInv, evidence.bound = Sources, NEW f \in BOOLEAN, NEW c \in BOOLEAN,
                    evidence' = [evidence EXCEPT !.finalized = f, !.cleaned = c],
                    recorded' = {evidence'}
             PROVE  GateInv'
  BY DEF Record
<1>1. evidence \in Evidence
  BY DEF GateInv, TypeOK
<1>2. evidence' \in Evidence /\ evidence'.bound = Sources
  BY <1>1 DEF Evidence
<1> QED
  BY <1>2 DEF GateInv, TypeOK, Held

LEMMA LoseSteps == GateInv /\ Lose => GateInv'
<1> SUFFICES ASSUME GateInv, Lose
             PROVE  GateInv'
  OBVIOUS
<1>1. evidence \in Evidence
  BY DEF GateInv, TypeOK
<1>2. Follows([evidence EXCEPT !.authority = FALSE]) /\ Follows([evidence EXCEPT !.binding = FALSE])
  BY <1>1 DEF Evidence, Follows
<1>3. \A s : Follows([evidence EXCEPT !.bound = evidence.bound \ {s}])
  BY <1>1 DEF Evidence, Follows
<1> QED
  BY <1>2, <1>3, FollowsKeeps DEF Lose

LEMMA SpoilAuditSteps == GateInv /\ SpoilAudit => GateInv'
<1> SUFFICES ASSUME GateInv, NEW i \in DOMAIN evidence.snapshot.audit,
                    \/ Becomes([evidence EXCEPT !.snapshot.audit = RemoveAt(@, i)])
                    \/ Becomes([evidence EXCEPT !.snapshot.audit = Append(@, @[i])])
                    \/ Becomes([evidence EXCEPT !.snapshot.audit[i].genuine = FALSE])
                    \/ Becomes([evidence EXCEPT !.snapshot.audit[i].seq = @ + 1])
             PROVE  GateInv'
  BY DEF SpoilAudit, snapshot
<1> DEFINE audit == evidence.snapshot.audit
<1>1. evidence \in Evidence /\ audit \in AuditLists
  BY Forms DEF GateInv, TypeOK
<1>2. audit[i] \in AuditEntries
  BY <1>1, Listed DEF AuditLists
<1>3. RemoveAt(audit, i) \in AuditLists /\ Append(audit, audit[i]) \in AuditLists
  BY <1>1, <1>2, RemovedFrom, Longer DEF AuditLists
<1>4. \A x \in AuditEntries : [audit EXCEPT ![i] = x] \in AuditLists
  BY <1>1, Altered DEF AuditLists
<1>5. /\ [audit[i] EXCEPT !.genuine = FALSE] \in AuditEntries
      /\ [audit[i] EXCEPT !.seq = audit[i].seq + 1] \in AuditEntries
  <2>1. audit[i].seq + 1 \in Nat
    BY <1>2 DEF AuditEntries
  <2> QED
    BY <1>2, <2>1 DEF AuditEntries
<1>6. \E list \in AuditLists : Becomes(WithAudit(list))
  BY <1>3, <1>4, <1>5 DEF WithAudit
<1> QED
  BY <1>1, <1>6, NewAudit, FollowsKeeps

LEMMA SpoilRequestsSteps == GateInv /\ SpoilRequests => GateInv'
<1> SUFFICES ASSUME GateInv, NEW i \in DOMAIN evidence.snapshot.requests,
                    \/ Becomes([evidence EXCEPT !.snapshot.requests = RemoveAt(@, i)])
                    \/ Becomes([evidence EXCEPT !.snapshot.requests = Append(@, @[i])])
                    \/ Becomes([evidence EXCEPT !.snapshot.requests[i].attempt = OtherAttempt])
                    \/ \E s \in RequestStates :
                         Becomes([evidence EXCEPT !.snapshot.requests[i].state = s])
             PROVE  GateInv'
  BY DEF SpoilRequests, snapshot
<1> DEFINE requests == evidence.snapshot.requests
<1>1. evidence \in Evidence /\ requests \in RequestLists
  BY Forms DEF GateInv, TypeOK
<1>2. requests[i] \in RequestEntries
  BY <1>1, Listed DEF RequestLists
<1>3. RemoveAt(requests, i) \in RequestLists /\ Append(requests, requests[i]) \in RequestLists
  BY <1>1, <1>2, RemovedFrom, Longer DEF RequestLists
<1>4. \A x \in RequestEntries : [requests EXCEPT ![i] = x] \in RequestLists
  BY <1>1, Altered DEF RequestLists
<1>5. /\ [requests[i] EXCEPT !.attempt = OtherAttempt] \in RequestEntries
      /\ \A s \in RequestStates : [requests[i] EXCEPT !.state = s] \in RequestEntries
  BY <1>2 DEF RequestEntries, Attempts
<1>6. \E list \in RequestLists : Becomes(WithRequests(list))
  BY <1>3, <1>4, <1>5 DEF WithRequests
<1> QED
  BY <1>1, <1>6, NewRequests, FollowsKeeps

LEMMA SpoilSnapshotSteps == GateInv /\ SpoilSnapshot => GateInv'
<1> SUFFICES ASSUME GateInv, SpoilSnapshot
             PROVE  GateInv'
  OBVIOUS
<1> DEFINE s == evidence.snapshot
<1>1. evidence \in Evidence /\ s \in Snapshots /\ s.watermark \in Nat
  BY Forms DEF GateInv, TypeOK
<1>2. /\ \A a \in {Attempt, OtherAttempt} : [s EXCEPT !.attempt = a] \in Snapshots
      /\ \A t \in {"FENCED", "OPEN"} : [s EXCEPT !.state = t] \in Snapshots
      /\ \A c \in BOOLEAN : [s EXCEPT !.complete = c] \in Snapshots
      /\ \A w \in 0 .. s.watermark + 1 : [s EXCEPT !.watermark = w] \in Snapshots
  BY <1>1 DEF Snapshots, Attempts
<1>3. \E r \in Snapshots : Becomes([evidence EXCEPT !.snapshot = r])
  BY <1>2 DEF SpoilSnapshot, snapshot
<1> QED
  BY <1>1, <1>3, NewSnapshot, FollowsKeeps

LEMMA SpoilReportSteps == GateInv /\ SpoilReport => GateInv'
<1> SUFFICES ASSUME GateInv, NEW t \in DOMAIN evidence.report,
                    \/ Becomes([evidence EXCEPT !.report = [u \in DOMAIN @ \ {t} |-> @[u]]])
                    \/ \E f \in Findings :
                         Becomes([evidence EXCEPT !.report =
                           [u \in DOMAIN @ |-> IF u = t THEN f ELSE @[u]]])
             PROVE  GateInv'
  BY DEF SpoilReport
<1> DEFINE report == evidence.report
<1>1. evidence \in Evidence /\ report \in Reports
  BY Forms DEF GateInv, TypeOK
<1>2. /\ DOMAIN report \subseteq DOMAIN Reference \cup FindingIds
      /\ \A u \in DOMAIN report : report[u] \in Findings
  BY <1>1, ReportIs
<1>3. [u \in DOMAIN report \ {t} |-> report[u]] \in Reports
  <2>1. [u \in DOMAIN report \ {t} |-> report[u]] \in [DOMAIN report \ {t} -> Findings]
    BY <1>2
  <2> QED
    BY <1>2, <2>1, ReportForms
<1>4. \A f \in Findings : [u \in DOMAIN report |-> IF u = t THEN f ELSE report[u]] \in Reports
  <2> TAKE f \in Findings
  <2>1. [u \in DOMAIN report |-> IF u = t THEN f ELSE report[u]] \in [DOMAIN report -> Findings]
    BY <1>2
  <2> QED
    BY <1>2, <2>1, ReportForms
<1>5. \E r \in Reports : Becomes([evidence EXCEPT !.report = r])
  BY <1>3, <1>4
<1> QED
  BY <1>1, <1>5, NewReport, FollowsKeeps

LEMMA GateSteps == GateInv /\ [Next]_vars => GateInv'
<1> SUFFICES ASSUME GateInv, [Next]_vars
             PROVE  GateInv'
  OBVIOUS
<1>1. CASE UNCHANGED vars
  BY <1>1 DEF GateInv, TypeOK, Held, vars
<1>2. CASE Compare
  BY <1>2, CompareSteps DEF Compare, Comparisons, Inventories
<1>3. CASE SpoilRun
  BY <1>3, CompareSteps DEF SpoilRun, Comparisons, Inventories
<1> QED
  BY <1>1, <1>2, <1>3, WriteSteps, NoWriteSteps, ReportSteps, RecordSteps, LoseSteps, SpoilAuditSteps,
     SpoilRequestsSteps, SpoilSnapshotSteps, SpoilReportSteps DEF Next, Damage

\* The evidence keeps its form, whatever is done and whatever is spoiled.
THEOREM EvidenceTypes == Spec => []TypeOK
<1>1. GateInv => TypeOK
  BY DEF GateInv
<1> QED
  BY <1>1, GateStarts, GateSteps, PTL DEF Spec

-----------------------------------------------------------------------------
(***************************************************************************)
(* What the gate says, of the evidence with the sources that are bound.    *)
(***************************************************************************)
Judged == [evidence EXCEPT !.bound = Bound]

LEMMA JudgedIs ==
  ASSUME GateInv
  PROVE  /\ evidence \in Evidence /\ Judged \in Evidence
         /\ Judged.bound = Bound /\ Bound \subseteq evidence.bound /\ evidence.bound \subseteq Sources
         /\ Judged.authority = evidence.authority /\ Judged.binding = evidence.binding
         /\ Judged.snapshot = evidence.snapshot /\ Judged.report = evidence.report
         /\ Judged.receipt = evidence.receipt /\ Judged.comparison = evidence.comparison
         /\ Judged.capabilities = evidence.capabilities
         /\ Judged.finalized = evidence.finalized /\ Judged.cleaned = evidence.cleaned
         /\ Verdict = Outcome(Judged, Attempt)
<1>1. evidence \in Evidence /\ evidence.bound \subseteq Sources /\ Bound \subseteq evidence.bound
  BY Forms DEF GateInv, TypeOK, Bound
<1>2. Bound \in SUBSET Sources
  BY <1>1
<1> QED
  BY <1>1, <1>2 DEF Judged, Evidence, Verdict

\* Files that are all bound are those that were recorded.
LEMMA FilesAreRecorded ==
  ASSUME Bound = Sources, NEW r \in recorded
  PROVE  /\ evidence.snapshot = r.snapshot /\ evidence.report = r.report
         /\ evidence.receipt = r.receipt /\ evidence.comparison = r.comparison
         /\ evidence.capabilities = r.capabilities
<1>1. \A s \in Sources : File(evidence)[s] = File(r)[s]
  BY DEF Bound
<1>2. /\ File(evidence)["final_snapshot"] = File(r)["final_snapshot"]
      /\ File(evidence)["guard_report"] = File(r)["guard_report"]
      /\ File(evidence)["receipt"] = File(r)["receipt"]
      /\ File(evidence)["tool_inventory"] = File(r)["tool_inventory"]
  BY <1>1 DEF Sources
<1>3. <<evidence.receipt, evidence.comparison>> = <<r.receipt, r.comparison>>
  BY <1>2 DEF File
<1> QED
  BY <1>2, <1>3 DEF File

LEMMA NotCommitted ==
  ASSUME NEW s
  PROVE  Committed(s) = {} <=> \A i \in DOMAIN s.requests : s.requests[i].state # "COMMITTED"
BY DEF Committed

\* Acceptable evidence has no trace of a write.
LEMMA NothingAccepted ==
  ASSUME NEW e \in Evidence, Acceptable(e, Attempt)
  PROVE  /\ e.snapshot.audit = <<>> /\ e.snapshot.watermark = 0 /\ Committed(e.snapshot) = {}
         /\ \A i \in DOMAIN e.snapshot.requests : e.snapshot.requests[i].state = "REJECTED"
<1>1. /\ Attributed(e.snapshot, Attempt) /\ Completed(e.snapshot) /\ Committed(e.snapshot) = {}
  BY DEF Acceptable
<1>2. Audited(e.snapshot) = {}
  BY <1>1 DEF Attributed
<1>3. DOMAIN e.snapshot.audit = {}
  BY <1>2 DEF Audited
<1>4. e.snapshot.audit = <<>> /\ Len(e.snapshot.audit) = 0
  BY <1>3, Forms, NothingListed DEF AuditLists
<1>5. e.snapshot.watermark = 0
  BY <1>1, <1>4 DEF Completed
<1> QED
  BY <1>1, <1>4, <1>5, NotCommitted DEF Completed

\* An acceptable report of which nothing is to be reviewed: all of it passed,
\* and as it must.
LEMMA ReportPassed ==
  ASSUME NEW e \in Evidence, Acceptable(e, Attempt), ~ AssessReport(e.report).review
  PROVE  /\ \A t \in DOMAIN Required : e.report[t] = Required[t]
         /\ \A t \in DOMAIN e.report : e.report[t].status = "passed"
         /\ DOMAIN e.report \subseteq DOMAIN Required \cup Conditional
<1> DEFINE report == e.report
<1>1. \A t \in DOMAIN report : report[t] \in Findings
  BY Forms, ReportIs
<1>2. e.comparison # "rejected"
  BY DEF Acceptable, AssessComparison
<1>3. Conformance(report) \notin {"fail", "inconclusive", "not_tested"}
  BY <1>2 DEF Acceptable, AssessComparison
<1>4. \A t \in DOMAIN report : report[t].status \notin {"failed", "error", "skipped"}
  BY <1>3 DEF Conformance, HasStatus
<1>5. \A t \in DOMAIN report : report[t].status = "passed"
  BY <1>1, <1>4 DEF Findings, Statuses
<1>6. \A t \in DOMAIN Required : report[t] = Required[t]
  <2> SUFFICES ASSUME NEW t \in DOMAIN Required
               PROVE  report[t] = Required[t]
    OBVIOUS
  <2>1. /\ t \in DOMAIN report
        /\ report[t].status = Required[t].status
        /\ report[t].observation = Required[t].observation
    BY RequiredAreMet DEF Acceptable
  <2>2. report[t] \in Findings /\ Required[t] \in Findings
    BY <1>1, <2>1, FindingsAssumption
  <2> QED
    BY <2>1, <2>2 DEF Findings
<1>7. Unknown(report) = {}
  BY <1>5 DEF AssessReport, HasStatus, Unknown, Others
<1> QED
  BY <1>5, <1>6, <1>7 DEF Unknown, Others

LEMMA PassIs == GateInv => PassIsEarned
<1> SUFFICES ASSUME GateInv, Verdict = "PASS"
             PROVE  /\ evidence.authority /\ evidence.binding /\ evidence.bound = Sources
                    /\ \A r \in recorded : File(evidence) = File(r)
                    /\ snapshot.requests = <<>> /\ snapshot.audit = <<>>
                    /\ \A t \in DOMAIN Required : evidence.report[t] = Required[t]
                    /\ \A t \in DOMAIN evidence.report : evidence.report[t].status = "passed"
                    /\ DOMAIN evidence.report \subseteq DOMAIN Required \cup Conditional
                    /\ evidence.comparison = "comparable" /\ evidence.capabilities = "same"
                    /\ evidence.finalized /\ evidence.cleaned
  BY DEF PassIsEarned
<1> DEFINE e == Judged
<1>1. e \in Evidence /\ Acceptable(e, Attempt)
  BY JudgedIs, Accepted
<1>2. ~ ToReview(e, Attempt)
  BY JudgedIs DEF Outcome
<1>3. e.bound = Sources /\ evidence.bound = Sources /\ Bound = Sources
  BY <1>1, JudgedIs DEF Acceptable
<1> HIDE DEF e
<1>4. Evaluated(e) = Sources \cup {"comparator"}
  BY <1>3 DEF Evaluated, Comparable
<1>5. \A s \in Sources \cup {"comparator"} : ~ Assessment(e, Attempt, s).review
  BY <1>2, <1>4 DEF ToReview
<1>6. /\ ~ AssessSnapshot(e.snapshot, Attempt).review
      /\ ~ AssessReport(e.report).review
      /\ ~ AssessComparison(e).review
  BY <1>5, Assessments DEF Sources
<1>7. e.snapshot.requests = <<>>
  <2>1. ~ Rejected(e.snapshot)
    BY <1>1, <1>6 DEF AssessSnapshot, Acceptable
  <2>2. DOMAIN e.snapshot.requests = {}
    BY <1>1, <2>1, NothingAccepted DEF Rejected
  <2>3. e.snapshot.requests \in RequestLists
    BY <1>1, Forms
  <2> QED
    BY <2>2, <2>3, NothingListed DEF RequestLists
<1>8. e.comparison = "comparable" /\ e.capabilities = "same"
  <2>1. e.comparison # "rejected"
    BY <1>1 DEF Acceptable, AssessComparison
  <2>2. e.comparison # "unsupported"
    BY <1>1, <2>1 DEF Acceptable, AssessComparison
  <2>3. e.comparison # "changed_context" /\ e.capabilities = "same"
    BY <1>6, <2>1 DEF AssessComparison
  <2>4. e.comparison \in Comparisons
    BY <1>1 DEF Evidence
  <2> QED
    BY <2>1, <2>2, <2>3, <2>4 DEF Comparisons
<1>9. e.snapshot.audit = <<>>
  BY <1>1, NothingAccepted
<1>10. /\ \A t \in DOMAIN Required : e.report[t] = Required[t]
       /\ \A t \in DOMAIN e.report : e.report[t].status = "passed"
       /\ DOMAIN e.report \subseteq DOMAIN Required \cup Conditional
  BY <1>1, <1>6, ReportPassed
<1>11. \A r \in recorded : File(evidence) = File(r)
  BY <1>3, FilesAreRecorded DEF File
<1> USE DEF e
<1>12. /\ evidence.authority /\ evidence.binding /\ evidence.finalized /\ evidence.cleaned
  BY <1>1, JudgedIs DEF Acceptable
<1> QED
  BY <1>3, <1>7, <1>8, <1>9, <1>10, <1>11, <1>12, JudgedIs DEF snapshot

LEMMA BlockIs == GateInv => BlockIsRight
<1> SUFFICES ASSUME GateInv
             PROVE  ViolationBlocks /\ BlockIsConfirmed
  BY DEF BlockIsRight
<1> DEFINE e == Judged
<1>1. /\ e \in Evidence /\ e.bound = Bound /\ e.authority = evidence.authority
      /\ e.binding = evidence.binding /\ e.snapshot = snapshot /\ e.report = evidence.report
      /\ Verdict = Outcome(e, Attempt)
  BY JudgedIs DEF snapshot
<1> HIDE DEF e
<1>2. ASSUME e.authority, e.binding, NEW s \in Evaluated(e), Assessment(e, Attempt, s).violation
      PROVE  Verdict = "BLOCK"
  BY <1>1, <1>2 DEF Outcome, Violated
<1>3. e.bound \subseteq Evaluated(e)
  BY DEF Evaluated
<1>4. ASSUME e.authority, e.binding, "guard_report" \in e.bound,
             \E t \in DOMAIN e.report : e.report[t].status = "failed"
      PROVE  Verdict = "BLOCK"
  <2>1. AssessReport(e.report).violation
    BY <1>4 DEF AssessReport, HasStatus
  <2> QED
    BY <1>2, <1>3, <1>4, <2>1, Assessments
<1>5. ASSUME e.authority, e.binding, "final_snapshot" \in e.bound,
             Attributed(e.snapshot, Attempt), e.snapshot.audit # <<>>
      PROVE  Verdict = "BLOCK"
  <2>1. DOMAIN e.snapshot.audit # {}
    BY <1>1, <1>5, Forms, NothingListed DEF AuditLists
  <2>2. Committed(e.snapshot) # {}
    BY <1>5, <2>1 DEF Attributed, Audited
  <2>3. AssessSnapshot(e.snapshot, Attempt).violation
    BY <1>5, <2>2 DEF AssessSnapshot
  <2> QED
    BY <1>2, <1>3, <1>5, <2>3, Assessments
<1>6. ViolationBlocks
  BY <1>1, <1>4, <1>5 DEF ViolationBlocks
<1>7. ASSUME Verdict = "BLOCK"
      PROVE  /\ e.authority /\ e.binding
             /\ \/ /\ "final_snapshot" \in e.bound /\ e.snapshot.attempt = Attempt
                   /\ \E i \in DOMAIN e.snapshot.audit, j \in DOMAIN e.snapshot.requests :
                        /\ e.snapshot.audit[i].genuine
                        /\ e.snapshot.audit[i].request = e.snapshot.requests[j].id
                        /\ e.snapshot.requests[j].state = "COMMITTED"
                        /\ e.snapshot.requests[j].attempt = Attempt
                \/ /\ "guard_report" \in e.bound
                   /\ \E t \in DOMAIN e.report : e.report[t].status = "failed"
  <2>1. e.authority /\ e.binding /\ Violated(e, Attempt)
    BY <1>1, <1>7 DEF Outcome
  <2>2. PICK s \in Evaluated(e) : Assessment(e, Attempt, s).violation
    BY <2>1 DEF Violated
  <2>3. s \in Sources \cup {"comparator"}
    BY <1>1, Forms DEF Evaluated
  <2>4. CASE s = "final_snapshot"
    <3>1. "final_snapshot" \in e.bound
      BY <2>2, <2>4 DEF Evaluated
    <3>2. Attributed(e.snapshot, Attempt) /\ Committed(e.snapshot) # {}
      <4>1. AssessSnapshot(e.snapshot, Attempt).violation
        BY <2>2, <2>4, Assessments
      <4> QED
        BY <4>1 DEF AssessSnapshot
    <3>3. PICK j \in DOMAIN e.snapshot.requests : e.snapshot.requests[j].state = "COMMITTED"
      BY <3>2 DEF Committed
    <3>4. e.snapshot.requests[j].id \in Audited(e.snapshot)
      BY <3>2, <3>3 DEF Attributed, Committed
    <3>5. PICK i \in DOMAIN e.snapshot.audit : e.snapshot.audit[i].request = e.snapshot.requests[j].id
      BY <3>4 DEF Audited
    <3> QED
      BY <2>1, <3>1, <3>2, <3>3, <3>5 DEF Attributed
  <2>5. CASE s = "guard_report"
    <3>1. "guard_report" \in e.bound
      BY <2>2, <2>5 DEF Evaluated
    <3>2. AssessReport(e.report).violation
      BY <2>2, <2>5, Assessments
    <3> QED
      BY <2>1, <3>1, <3>2 DEF AssessReport, HasStatus
  <2>6. CASE s \in {"receipt", "tool_inventory"}
    BY <2>2, <2>6, Assessments DEF Nothing
  <2>7. CASE s = "comparator"
    <3>1. "guard_report" \in e.bound
      <4>1. "comparator" \notin e.bound
        BY <1>1, Forms DEF Sources
      <4> QED
        BY <2>2, <2>7, <4>1 DEF Evaluated, Comparable, Sources
    <3>2. AssessComparison(e).violation
      BY <2>2, <2>7, Assessments
    <3>3. Conformance(e.report) = "fail" \/ New(e, "failed") # {}
      BY <3>2 DEF AssessComparison
    <3>4. \E t \in DOMAIN e.report : e.report[t].status = "failed"
      BY <3>3 DEF Conformance, HasStatus, New
    <3> QED
      BY <2>1, <3>1, <3>4
  <2> QED
    BY <2>3, <2>4, <2>5, <2>6, <2>7 DEF Sources
<1>8. BlockIsConfirmed
  BY <1>1, <1>7 DEF BlockIsConfirmed
<1> QED
  BY <1>6, <1>8

\* What is acceptable now is what was recorded, so it was acceptable then.
LEMMA DamageIs == GateInv => DamageNeverHelps
<1> SUFFICES ASSUME GateInv
             PROVE  /\ \A r \in recorded : Acceptance[Verdict] <= Acceptance[Outcome(r, Attempt)]
                    /\ Traces(snapshot) => Acceptance[Verdict] = 0
  BY DEF DamageNeverHelps
<1>1. CASE ~ Acceptable(Judged, Attempt)
  <2>1. Acceptance[Verdict] = 0
    BY <1>1, JudgedIs, Unacceptable
  <2>2. \A r \in recorded : Acceptance[Outcome(r, Attempt)] \in Nat
    BY OutcomesRank
  <2> QED
    BY <2>1, <2>2
<1>2. CASE Acceptable(Judged, Attempt)
  <2>1. Bound = Sources /\ evidence.authority /\ evidence.binding
    BY <1>2, JudgedIs DEF Acceptable
  <2>2. ~ Traces(snapshot)
    BY <1>2, JudgedIs, NothingAccepted DEF Traces, snapshot
  <2>3. ASSUME NEW r \in recorded
        PROVE  Judged = r
    <3>1. r \in Evidence
      BY DEF GateInv, TypeOK
    <3>2. /\ r.bound = Sources /\ r.authority /\ r.binding
          /\ r.finalized = evidence.finalized /\ r.cleaned = evidence.cleaned
      BY <2>1 DEF GateInv, Held
    <3>3. /\ evidence.snapshot = r.snapshot /\ evidence.report = r.report
          /\ evidence.receipt = r.receipt /\ evidence.comparison = r.comparison
          /\ evidence.capabilities = r.capabilities
      BY <2>1, FilesAreRecorded
    <3>4. /\ Judged.authority = r.authority /\ Judged.binding = r.binding
          /\ Judged.bound = r.bound
          /\ Judged.finalized = r.finalized /\ Judged.cleaned = r.cleaned
      <4>1. r.authority \in BOOLEAN /\ r.binding \in BOOLEAN
            /\ Judged.authority \in BOOLEAN /\ Judged.binding \in BOOLEAN
        BY <3>1, JudgedIs DEF Evidence
      <4> QED
        BY <2>1, <3>2, <4>1, JudgedIs
    <3>5. /\ Judged.snapshot = r.snapshot /\ Judged.report = r.report
          /\ Judged.receipt = r.receipt /\ Judged.comparison = r.comparison
          /\ Judged.capabilities = r.capabilities
      BY <3>3, JudgedIs
    <3>6. Judged \in Evidence
      BY JudgedIs
    <3> QED
      BY <3>1, <3>4, <3>5, <3>6 DEF Evidence
  <2>4. \A r \in recorded : Verdict = Outcome(r, Attempt)
    BY <2>3, JudgedIs
  <2>5. \A r \in recorded : Acceptance[Outcome(r, Attempt)] \in Nat
    BY OutcomesRank
  <2> QED
    BY <2>2, <2>4, <2>5
<1> QED
  BY <1>1, <1>2

\* The gate passes a candidate only if every source says so: nothing written or
\* tried, every required finding as it must be, nothing open, lost or changed.
THEOREM PassesAreEarned == Spec => []PassIsEarned
BY GateStarts, GateSteps, PassIs, PTL DEF Spec

\* It blocks whenever bound evidence confirms a violation, however much of the
\* rest is missing, and never without.
THEOREM BlocksAreRight == Spec => []BlockIsRight
BY GateStarts, GateSteps, BlockIs, PTL DEF Spec

\* Whatever is lost, spoiled or put right - any row, event, finding or file -,
\* the outcome is never better than that of the evidence the context recorded,
\* and never acceptable while the snapshot keeps a trace of a write.
THEOREM DamageIsNoHelp == Spec => []DamageNeverHelps
BY GateStarts, GateSteps, DamageIs, PTL DEF Spec

-----------------------------------------------------------------------------
(***************************************************************************)
(* Publication: the inductive invariant.                                   *)
(***************************************************************************)
GateType == [pc : Running \cup {"refused", "reported", "dead"}, result : Results]
StagingType == [files : SUBSET Files, manifest : SUBSET Files, flushed : BOOLEAN]
PublicationType ==
  /\ gate \in [Gates -> GateType]
  /\ staging \in [Gates -> StagingType]
  /\ completed \in [Results -> Gates \cup {None}]
  /\ durable \subseteq Results

\* What is listed is all there is, and only what is listed is flushed.
Complete(g) == staging[g].files = Files /\ staging[g].manifest = Files
StagingInv ==
  \A g \in Gates :
    /\ gate[g].pc = "listed" \/ staging[g].flushed => Complete(g)
    /\ gate[g].pc \in {"flushed", "renamed", "reported"} => staging[g].flushed

\* Only what was flushed is in place, and for the result of its gate.
PlaceInv ==
  \A r \in Results : completed[r] # None => Result(completed[r]) = r /\ staging[completed[r]].flushed

\* A gate that has renamed its directory finds it in place until it has
\* reported, or dies; and what is on disk for good is in place.
RenamedInv ==
  /\ \A g \in Gates : gate[g].pc \in {"renamed", "reported"} => completed[Result(g)] = g
  /\ \A g \in Gates : gate[g].pc = "reported" => Result(g) \in durable
  /\ \A r \in durable : completed[r] # None

PublicationInv == PublicationType /\ StagingInv /\ PlaceInv /\ RenamedInv

-----------------------------------------------------------------------------
\* A gate that moves on keeps its result.
LEMMA Goes ==
  ASSUME PublicationType, NEW g \in Gates, NEW pc \in Running \cup {"refused", "reported", "dead"}, Go(g, pc)
  PROVE  /\ gate' \in [Gates -> GateType] /\ gate'[g].pc = pc
         /\ \A h \in Gates : gate'[h].result = gate[h].result
         /\ \A h \in Gates : h # g => gate'[h] = gate[h]
BY DEF PublicationType, Go, GateType

\* Nothing is in place of a gate but what it renamed.
LEMMA PlaceIsOne ==
  ASSUME PublicationType, NEW r \in Results, completed[r] # None PROVE completed[r] \in Gates
BY DEF PublicationType

LEMMA PublishStarts == PublishInit => PublicationInv
<1> SUFFICES ASSUME PublishInit PROVE PublicationInv OBVIOUS
<1>1. NoStaging \in StagingType /\ ~ NoStaging.flushed BY DEF NoStaging, StagingType
<1>2. PublicationType BY <1>1 DEF PublishInit, PublicationType, GateType, Running
<1>3. StagingInv BY <1>1 DEF PublishInit, StagingInv
<1>4. PlaceInv /\ RenamedInv BY DEF PublishInit, PlaceInv, RenamedInv
<1> QED BY <1>2, <1>3, <1>4 DEF PublicationInv

\* A step of a gate that leaves its staging directory and what is in place.
LEMMA MoveKeeps ==
  ASSUME PublicationInv, NEW g \in Gates, NEW pc \in Running \cup {"refused", "reported", "dead"}, Go(g, pc),
         UNCHANGED <<staging, completed, durable>>,
         pc \in {"refused", "staging", "dead"}
  PROVE  PublicationInv'
<1> USE DEF PublicationInv
<1>1. /\ gate' \in [Gates -> GateType] /\ gate'[g].pc = pc
      /\ \A h \in Gates : gate'[h].result = gate[h].result
      /\ \A h \in Gates : h # g => gate'[h] = gate[h]
  BY Goes
<1>2. PublicationType' BY <1>1 DEF PublicationType
<1>3. StagingInv' BY <1>1 DEF StagingInv, Complete
<1>4. PlaceInv' BY <1>1, PlaceIsOne DEF PlaceInv, Result
<1>5. RenamedInv' BY <1>1 DEF RenamedInv, Result
<1> QED BY <1>2, <1>3, <1>4, <1>5

\* A gate that is not flushed yet writes to its staging directory.
LEMMA StageKeeps ==
  ASSUME PublicationInv, NEW g \in Gates, NEW s \in StagingType, staging' = [staging EXCEPT ![g] = s],
         gate[g].pc \in {"staging", "listed"}, NEW pc \in {"staging", "listed", "flushed"},
         (gate' = gate /\ pc = gate[g].pc) \/ Go(g, pc),
         UNCHANGED <<completed, durable>>,
         staging[g].flushed \/ pc \in {"listed", "flushed"} => s.files = Files /\ s.manifest = Files,
         s.flushed <=> (staging[g].flushed \/ pc = "flushed")
  PROVE  PublicationInv'
<1> USE DEF PublicationInv
<1>1. /\ gate' \in [Gates -> GateType] /\ gate'[g].pc = pc
      /\ \A h \in Gates : gate'[h].result = gate[h].result
      /\ \A h \in Gates : h # g => gate'[h] = gate[h]
  BY Goes DEF Running, PublicationType
<1>2. /\ staging' \in [Gates -> StagingType] /\ staging'[g] = s
      /\ \A h \in Gates : h # g => staging'[h] = staging[h]
  BY DEF PublicationType
<1>3. PublicationType' BY <1>1, <1>2 DEF PublicationType
<1>4. StagingInv'
  <2>1. pc = "listed" \/ s.flushed => s.files = Files /\ s.manifest = Files BY DEF StagingInv
  <2> QED BY <1>1, <1>2, <2>1 DEF StagingInv, Complete
<1>5. PlaceInv'
  <2> SUFFICES ASSUME NEW r \in Results, completed[r] # None
               PROVE  gate'[completed[r]].result = r /\ staging'[completed[r]].flushed
    BY DEF PlaceInv, Result
  <2>1. completed[r] \in Gates BY PlaceIsOne
  <2>2. gate[completed[r]].result = r /\ staging[completed[r]].flushed BY DEF PlaceInv, Result
  <2> QED BY <1>1, <1>2, <2>1, <2>2
<1>6. RenamedInv' BY <1>1 DEF RenamedInv, Result
<1> QED BY <1>3, <1>4, <1>5, <1>6

LEMMA WriteFileStep == ASSUME PublicationInv, NEW g \in Gates, WriteFile(g) PROVE PublicationInv'
<1>1. PICK f \in Files \ staging[g].files : staging' = [staging EXCEPT ![g].files = @ \cup {f}]
  BY DEF WriteFile
<1>2. staging[g] \in StagingType BY DEF PublicationInv, PublicationType
<1>3. PICK s : s = [staging[g] EXCEPT !.files = staging[g].files \cup {f}] OBVIOUS
<1>4. /\ s \in StagingType /\ s.flushed = staging[g].flushed /\ s.manifest = staging[g].manifest
      /\ s.files = staging[g].files \cup {f}
  BY <1>1, <1>2, <1>3 DEF StagingType
<1>5. staging[g].flushed => s.files = Files /\ s.manifest = Files
  BY <1>1, <1>4 DEF PublicationInv, StagingInv, Complete
<1>6. staging' = [staging EXCEPT ![g] = s] BY <1>1, <1>3 DEF PublicationInv, PublicationType
<1> QED BY <1>4, <1>5, <1>6, StageKeeps DEF WriteFile

LEMMA WriteManifestStep == ASSUME PublicationInv, NEW g \in Gates, WriteManifest(g) PROVE PublicationInv'
<1>1. staging[g] \in StagingType BY DEF PublicationInv, PublicationType
<1>2. PICK s : s = [staging[g] EXCEPT !.manifest = staging[g].files] OBVIOUS
<1>3. /\ s \in StagingType /\ s.flushed = staging[g].flushed /\ s.files = staging[g].files
      /\ s.manifest = staging[g].files
  BY <1>1, <1>2 DEF StagingType
<1>4. s.files = Files /\ s.manifest = Files BY <1>3 DEF WriteManifest
<1>5. staging' = [staging EXCEPT ![g] = s] BY <1>2 DEF WriteManifest, PublicationInv, PublicationType
<1> QED BY <1>3, <1>4, <1>5, StageKeeps DEF WriteManifest

LEMMA FlushStep == ASSUME PublicationInv, NEW g \in Gates, Flush(g) PROVE PublicationInv'
<1>1. staging[g] \in StagingType BY DEF PublicationInv, PublicationType
<1>2. PICK s : s = [staging[g] EXCEPT !.flushed = TRUE] OBVIOUS
<1>3. /\ s \in StagingType /\ s.flushed /\ s.files = staging[g].files /\ s.manifest = staging[g].manifest
  BY <1>1, <1>2 DEF StagingType
<1>4. s.files = Files /\ s.manifest = Files BY <1>3 DEF Flush, PublicationInv, StagingInv, Complete
<1>5. staging' = [staging EXCEPT ![g] = s] BY <1>2 DEF Flush, PublicationInv, PublicationType
<1> QED BY <1>3, <1>4, <1>5, StageKeeps DEF Flush

LEMMA RenameStep == ASSUME PublicationInv, NEW g \in Gates, Rename(g) PROVE PublicationInv'
<1>1. CASE completed[Result(g)] # None
  <2>1. Go(g, "refused") /\ UNCHANGED <<staging, completed, durable>> BY <1>1 DEF Rename
  <2> QED BY <2>1, MoveKeeps
<1>2. CASE completed[Result(g)] = None
  <2> USE DEF PublicationInv
  <2>1. /\ gate[g].pc = "flushed" /\ Go(g, "renamed") /\ UNCHANGED <<staging, durable>>
        /\ completed' = [completed EXCEPT ![Result(g)] = g]
    BY <1>2 DEF Rename
  <2>2. /\ gate' \in [Gates -> GateType] /\ gate'[g].pc = "renamed"
        /\ \A h \in Gates : gate'[h].result = gate[h].result
        /\ \A h \in Gates : h # g => gate'[h] = gate[h]
    BY <2>1, Goes DEF Running
  <2>3. Result(g) \in Results BY DEF Result, PublicationType, GateType
  <2>4. g # None BY FilesAssumption
  <2>5. /\ completed'[Result(g)] = g /\ completed' \in [Results -> Gates \cup {None}]
        /\ \A r \in Results : r # Result(g) => completed'[r] = completed[r]
    BY <2>1, <2>3 DEF PublicationType
  <2>6. PublicationType' BY <2>1, <2>2, <2>5 DEF PublicationType
  <2>7. StagingInv' BY <2>1, <2>2 DEF StagingInv, Complete
  <2>8. PlaceInv'
    <3> SUFFICES ASSUME NEW r \in Results, completed'[r] # None
                 PROVE  gate'[completed'[r]].result = r /\ staging'[completed'[r]].flushed
      BY DEF PlaceInv, Result
    <3>1. CASE r = Result(g) BY <2>1, <2>2, <2>5, <3>1 DEF Result, StagingInv
    <3>2. CASE r # Result(g)
      <4>1. completed'[r] = completed[r] /\ completed[r] \in Gates BY <2>5, <3>2, PlaceIsOne
      <4> QED BY <2>1, <2>2, <4>1 DEF PlaceInv, Result
    <3> QED BY <3>1, <3>2
  <2>9. RenamedInv'
    <3>1. ASSUME NEW h \in Gates, gate'[h].pc \in {"renamed", "reported"}
          PROVE  completed'[gate'[h].result] = h
      <4>1. CASE h = g BY <2>2, <2>5, <4>1 DEF Result
      <4>2. CASE h # g
        <5>1. gate'[h] = gate[h] /\ completed[gate[h].result] = h
          BY <2>2, <3>1, <4>2 DEF RenamedInv, Result
        <5>2. h # None /\ gate[h].result \in Results BY FilesAssumption DEF PublicationType, GateType
        <5>3. gate[h].result # Result(g) BY <1>2, <5>1, <5>2
        <5> QED BY <2>5, <5>1, <5>2, <5>3
      <4> QED BY <4>1, <4>2
    <3>2. \A h \in Gates : gate'[h].pc = "reported" => gate'[h].result \in durable'
      BY <2>1, <2>2 DEF RenamedInv, Result
    <3>3. \A r \in durable' : completed'[r] # None BY <2>1, <2>4, <2>5 DEF RenamedInv, PublicationType
    <3> QED BY <3>1, <3>2, <3>3 DEF RenamedInv, Result
  <2> QED BY <2>6, <2>7, <2>8, <2>9
<1> QED BY <1>1, <1>2

LEMMA ReportStep == ASSUME PublicationInv, NEW g \in Gates, PrintResult(g) PROVE PublicationInv'
<1> USE DEF PublicationInv
<1>1. /\ gate[g].pc = "renamed" /\ Go(g, "reported") /\ UNCHANGED <<staging, completed>>
      /\ durable' = durable \cup {r \in Results : completed[r] # None}
  BY DEF PrintResult
<1>2. /\ gate' \in [Gates -> GateType] /\ gate'[g].pc = "reported"
      /\ \A h \in Gates : gate'[h].result = gate[h].result
      /\ \A h \in Gates : h # g => gate'[h] = gate[h]
  BY <1>1, Goes
<1>3. PublicationType' BY <1>1, <1>2 DEF PublicationType
<1>4. StagingInv' BY <1>1, <1>2 DEF StagingInv, Complete
<1>5. PlaceInv' BY <1>1, <1>2, PlaceIsOne DEF PlaceInv, Result
<1>6. RenamedInv'
  <2>1. g # None /\ Result(g) \in Results BY FilesAssumption DEF Result, PublicationType, GateType
  <2>2. completed[Result(g)] = g BY <1>1 DEF RenamedInv
  <2>3. Result(g) \in durable' BY <1>1, <2>1, <2>2
  <2> QED BY <1>1, <1>2, <2>2, <2>3 DEF RenamedInv, Result
<1> QED BY <1>3, <1>4, <1>5, <1>6

LEMMA PowerLossStep == ASSUME PublicationInv, PowerLoss PROVE PublicationInv'
<1> USE DEF PublicationInv
<1>1. PICK kept \in SUBSET Files :
        staging' = [g \in Gates |-> IF staging[g].flushed THEN staging[g]
                                    ELSE [staging[g] EXCEPT !.files = @ \cap kept]]
  BY DEF PowerLoss
<1>2. PICK lost \in SUBSET (Results \ durable) :
        completed' = [r \in Results |-> IF r \in lost THEN None ELSE completed[r]]
  BY DEF PowerLoss
<1>3. ASSUME NEW g \in Gates
      PROVE  /\ gate'[g] \in GateType /\ gate'[g].result = gate[g].result
             /\ gate'[g].pc \notin Running
             /\ gate'[g].pc = "reported" => gate[g].pc = "reported"
  BY DEF PowerLoss, PublicationType, GateType, Running
<1>4. gate' \in [Gates -> GateType] BY <1>3 DEF PowerLoss
<1>5. ASSUME NEW g \in Gates
      PROVE  /\ staging'[g] \in StagingType /\ staging'[g].flushed = staging[g].flushed
             /\ staging[g].flushed => staging'[g] = staging[g]
  <2>1. staging[g] \in StagingType BY DEF PublicationType
  <2>2. staging'[g] = IF staging[g].flushed THEN staging[g] ELSE [staging[g] EXCEPT !.files = @ \cap kept]
    BY <1>1
  <2> QED BY <2>1, <2>2 DEF StagingType
<1>6. staging' \in [Gates -> StagingType] BY <1>1, <1>5
<1>7. /\ completed' \in [Results -> Gates \cup {None}]
      /\ \A r \in Results : completed'[r] # None => completed'[r] = completed[r]
      /\ \A r \in durable : completed'[r] = completed[r]
      /\ durable' = {r \in Results : completed'[r] # None}
  BY <1>2 DEF PublicationType, PowerLoss
<1>8. PublicationType' BY <1>4, <1>6, <1>7 DEF PublicationType
<1>9. StagingInv' BY <1>3, <1>5 DEF StagingInv, Complete, Running
<1>10. PlaceInv'
  <2> SUFFICES ASSUME NEW r \in Results, completed'[r] # None
               PROVE  gate'[completed'[r]].result = r /\ staging'[completed'[r]].flushed
    BY DEF PlaceInv, Result
  <2>1. completed'[r] = completed[r] /\ completed[r] \in Gates BY <1>7, PlaceIsOne
  <2> QED BY <1>3, <1>5, <2>1 DEF PlaceInv, Result
<1>11. RenamedInv'
  <2> SUFFICES ASSUME NEW g \in Gates, gate'[g].pc = "reported"
               PROVE  completed'[gate'[g].result] = g /\ gate'[g].result \in durable'
    BY <1>3, <1>7 DEF RenamedInv, Result, Running
  <2>1. completed[gate[g].result] = g /\ gate[g].result \in durable
    BY <1>3 DEF RenamedInv, Result
  <2>2. g # None /\ gate[g].result \in Results BY FilesAssumption DEF PublicationType, GateType
  <2> QED BY <1>3, <1>7, <2>1, <2>2
<1> QED BY <1>8, <1>9, <1>10, <1>11

LEMMA PublishSteps == PublicationInv /\ [PublishNext]_publishVars => PublicationInv'
<1> SUFFICES ASSUME PublicationInv, [PublishNext]_publishVars PROVE PublicationInv' OBVIOUS
<1>1. ASSUME NEW g \in Gates, MakeStaging(g) PROVE PublicationInv'
  <2> PICK pc : pc = IF completed[Result(g)] # None THEN "refused" ELSE "staging" OBVIOUS
  <2>1. Go(g, pc) /\ UNCHANGED <<staging, completed, durable>> BY <1>1 DEF MakeStaging
  <2> QED BY <2>1, MoveKeeps DEF Running
<1>2. ASSUME NEW g \in Gates, Crash(g) PROVE PublicationInv'
  BY <1>2, MoveKeeps DEF Crash
<1>3. CASE UNCHANGED publishVars
  BY <1>3 DEF publishVars, PublicationInv, PublicationType, StagingInv, Complete, PlaceInv, RenamedInv, Result
<1> QED BY <1>1, <1>2, <1>3, WriteFileStep, WriteManifestStep, FlushStep, RenameStep, ReportStep,
          PowerLossStep DEF PublishNext

-----------------------------------------------------------------------------
\* The processes, their directories and what is in place have their types.
THEOREM PublicationTypes == PublishSpec => []PublicationType
<1>1. PublicationInv => PublicationType BY DEF PublicationInv
<1> QED BY PublishStarts, PublishSteps, <1>1, PTL DEF PublishSpec

\* However many gates run for one result, and wherever they or the machine
\* stop: under completed/ there is a whole bundle, with the manifest of all its
\* files, or nothing.
THEOREM PublicationsAreWhole == PublishSpec => []PublishedIsWhole
<1>1. PublicationInv => PublishedIsWhole
  BY PlaceIsOne DEF PublicationInv, PublishedIsWhole, PlaceInv, StagingInv, Complete
<1> QED BY PublishStarts, PublishSteps, <1>1, PTL DEF PublishSpec

\* What was reported stays, and is the only result reported under its name.
THEOREM ReportsStay == PublishSpec => []ReportedStays
<1>1. PublicationInv => ReportedStays BY DEF PublicationInv, ReportedStays, RenamedInv
<1> QED BY PublishStarts, PublishSteps, <1>1, PTL DEF PublishSpec
=============================================================================
