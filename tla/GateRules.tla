------------------------------ MODULE GateRules -----------------------------
(***************************************************************************)
(* How the release gate of the assurance harness                           *)
(* (assurance/phase2/gate/gate.py) turns the evidence of one candidate     *)
(* attempt into an outcome: PASS, REVIEW, BLOCK or INVALID.                *)
(*                                                                         *)
(* Evidence is a record:                                                   *)
(*   authority   policy, approval bundle and reference are those selected  *)
(*   binding     the execution context names this attempt and candidate    *)
(*   bound       the sources whose file is there with the digest the       *)
(*               context recorded                                          *)
(*   snapshot    the fixture's final snapshot: attempt, state, complete,   *)
(*               watermark, and the two lists it holds                     *)
(*   report      the guard's findings: id -> [status, observation]         *)
(*   receipt     the receipt agrees with the approved compatibility        *)
(*   comparison  what the saved-run comparator says of the two contexts    *)
(*   capabilities  the tool inventory: same, changed, or missing (the      *)
(*               receipt names none)                                       *)
(*   finalized, cleaned  how the attempt ended                             *)
(***************************************************************************)
EXTENDS Naturals, Sequences, FiniteSets

CONSTANTS
  Required,     \* required_findings: id -> [status, observation] (expected-checks.json)
  Conditional,  \* ids that end in one of conditional_suffixes
  Reference     \* findings of the approved reference run

Sources == {"final_snapshot", "guard_report", "receipt", "tool_inventory"}
Statuses == {"passed", "failed", "error", "skipped"}
Observations == {"complete", "partial", "unavailable", "not_required"}
Findings == [status : Statuses, observation : Observations]

\* A report with any other status or observation is rejected (_index_saved_findings).
ASSUME FindingsAssumption ==
  /\ Required \in [DOMAIN Required -> Findings]
  /\ Reference \in [DOMAIN Reference -> Findings]

-----------------------------------------------------------------------------
(***************************************************************************)
(* _validate_snapshot.  An audit entry is [seq, id, request, genuine], a   *)
(* request is [id, attempt, genuine, state]; genuine stands for kind,      *)
(* operation and principal being the expected ones.                        *)
(***************************************************************************)
Committed(snapshot) ==
  {snapshot.requests[i].id : i \in {j \in DOMAIN snapshot.requests :
                                      snapshot.requests[j].state = "COMMITTED"}}
Audited(snapshot) == {snapshot.audit[i].request : i \in DOMAIN snapshot.audit}

DistinctIds(list) == \A i, j \in DOMAIN list : list[i].id = list[j].id => i = j
DistinctRequests(list) == \A i, j \in DOMAIN list : list[i].request = list[j].request => i = j

\* No reason for attribution_invalid: every event belongs to exactly one
\* committed request of the attempt and every committed request has one.
Attributed(snapshot, attempt) ==
  /\ snapshot.attempt = attempt
  /\ \A i \in DOMAIN snapshot.audit : snapshot.audit[i].genuine /\ snapshot.audit[i].seq = i
  /\ DistinctIds(snapshot.audit) /\ DistinctRequests(snapshot.audit)
  /\ DistinctIds(snapshot.requests)
  /\ \A i \in DOMAIN snapshot.requests :
       snapshot.requests[i].genuine /\ snapshot.requests[i].attempt = attempt
  /\ Audited(snapshot) = Committed(snapshot)

\* Mutant: requests still under way do not count.
CompletedUndrained(snapshot) ==
  /\ snapshot.state = "FENCED" /\ snapshot.complete
  /\ snapshot.watermark = Len(snapshot.audit)

\* No reason for completion_invalid.
Completed(snapshot) ==
  /\ snapshot.state = "FENCED" /\ snapshot.complete
  /\ snapshot.watermark = Len(snapshot.audit)
  /\ \A i \in DOMAIN snapshot.requests : snapshot.requests[i].state \in {"COMMITTED", "REJECTED"}

Rejected(snapshot) == \E i \in DOMAIN snapshot.requests : snapshot.requests[i].state = "REJECTED"

AssessSnapshot(snapshot, attempt) ==
  LET sound == Attributed(snapshot, attempt)
  IN  [violation |-> sound /\ Committed(snapshot) # {},
       invalid   |-> ~ sound \/ ~ Completed(snapshot),
       review    |-> sound /\ Rejected(snapshot)]

-----------------------------------------------------------------------------
(***************************************************************************)
(* _matrix: the findings against the required ones.                        *)
(***************************************************************************)
Others(report) == DOMAIN report \ DOMAIN Required
Unknown(report) == Others(report) \ Conditional
HasStatus(report, ids, statuses) == \E t \in ids : report[t].status \in statuses

AssessReport(report) ==
  [violation |-> HasStatus(report, DOMAIN report, {"failed"}),
   invalid   |->
     \/ \E t \in DOMAIN Required :
          \/ t \notin DOMAIN report
          \/ report[t].status \notin {"failed", Required[t].status}
          \/ report[t].observation # Required[t].observation
     \/ HasStatus(report, Others(report), {"error", "skipped"}),
   review    |-> HasStatus(report, Unknown(report), {"passed"})]

-----------------------------------------------------------------------------
(***************************************************************************)
(* compare_saved_runs, as far as the gate looks at it.                     *)
(***************************************************************************)
Conformance(report) ==
  IF HasStatus(report, DOMAIN report, {"failed"}) THEN "fail"
  ELSE IF HasStatus(report, DOMAIN report, {"error"}) THEN "inconclusive"
  ELSE IF HasStatus(report, DOMAIN report, {"skipped"}) \/ DOMAIN report = {} THEN "not_tested"
  ELSE "pass"

\* Findings that passed in the reference and now have another status; reported
\* only when the two runs are comparable.
New(evidence, status) ==
  {t \in DOMAIN Reference \cap DOMAIN evidence.report :
     /\ evidence.comparison = "comparable"
     /\ Reference[t].status = "passed" /\ evidence.report[t].status = status}

Rank(observation) ==
  CASE observation = "unavailable" -> 0 [] observation = "partial" -> 1 [] OTHER -> 2

\* _observation_regressed
Regressed(before, after) ==
  IF before = "not_required" THEN after \in {"partial", "unavailable"}
  ELSE after = "not_required" \/ Rank(after) < Rank(before)

CoverageRegressed(evidence) ==
  LET report == evidence.report
      common == DOMAIN Reference \cap DOMAIN report
  IN  \/ ~ DOMAIN Reference \subseteq DOMAIN report
      \/ \E t \in common : report[t].status = "skipped" /\ Reference[t].status # "skipped"
      \/ New(evidence, "error") # {}
      \/ \E t \in common : Regressed(Reference[t].observation, report[t].observation)
      \/ evidence.capabilities = "missing"

AssessComparison(evidence) ==
  IF evidence.comparison = "rejected"
    THEN [violation |-> FALSE, invalid |-> TRUE, review |-> FALSE]
    ELSE [violation |-> Conformance(evidence.report) = "fail" \/ New(evidence, "failed") # {},
          invalid   |-> \/ Conformance(evidence.report) \in {"inconclusive", "not_tested"}
                        \/ New(evidence, "error") # {}
                        \/ CoverageRegressed(evidence)
                        \/ evidence.comparison = "unsupported",
          review    |-> evidence.comparison = "changed_context" \/ evidence.capabilities # "same"]

-----------------------------------------------------------------------------
(***************************************************************************)
(* _evaluate.  A source that is not bound is not looked into; the          *)
(* comparison needs the report, the receipt and the tool inventory.        *)
(***************************************************************************)
Nothing == [violation |-> FALSE, invalid |-> FALSE, review |-> FALSE]

Assessment(evidence, attempt, source) ==
  CASE source = "final_snapshot" -> AssessSnapshot(evidence.snapshot, attempt)
    [] source = "guard_report"   -> AssessReport(evidence.report)
    [] source = "receipt"        -> [Nothing EXCEPT !.invalid = ~ evidence.receipt]
    [] source = "tool_inventory" -> Nothing
    [] source = "comparator"     -> AssessComparison(evidence)

Comparable(evidence) == Sources \ {"final_snapshot"} \subseteq evidence.bound
Evaluated(evidence) == evidence.bound \cup (IF Comparable(evidence) THEN {"comparator"} ELSE {})

Violated(evidence, attempt) ==
  \E s \in Evaluated(evidence) : Assessment(evidence, attempt, s).violation
\* Mutant: a source that is not bound is passed over.
IncompleteUnbound(evidence, attempt) ==
  \/ \E s \in Evaluated(evidence) : Assessment(evidence, attempt, s).invalid
  \/ ~ evidence.finalized \/ ~ evidence.cleaned

Incomplete(evidence, attempt) ==
  \/ evidence.bound # Sources
  \/ \E s \in Evaluated(evidence) : Assessment(evidence, attempt, s).invalid
  \/ ~ evidence.finalized \/ ~ evidence.cleaned
ToReview(evidence, attempt) ==
  \E s \in Evaluated(evidence) : Assessment(evidence, attempt, s).review

\* Mutant: incomplete evidence outweighs a confirmed violation.
OutcomeIncompleteFirst(evidence, attempt) ==
  IF ~ evidence.authority \/ ~ evidence.binding \/ Incomplete(evidence, attempt) THEN "INVALID"
  ELSE IF Violated(evidence, attempt) THEN "BLOCK"
  ELSE IF ToReview(evidence, attempt) THEN "REVIEW"
  ELSE "PASS"

Outcome(evidence, attempt) ==
  IF ~ evidence.authority \/ ~ evidence.binding THEN "INVALID"
  ELSE IF Violated(evidence, attempt) THEN "BLOCK"
  ELSE IF Incomplete(evidence, attempt) THEN "INVALID"
  ELSE IF ToReview(evidence, attempt) THEN "REVIEW"
  ELSE "PASS"
=============================================================================
