------------------------------ MODULE Monitor ------------------------------
(***************************************************************************)
(* `mcp-guard monitor' (cli.py, monitor; runner.py; engine.py, run;        *)
(* storage.py; reporting.py; receipts.py; alerts.py): several monitors     *)
(* watch one target and share one database.  A cycle runs the contract     *)
(* under the ownership of the target, ends the run in the database, writes *)
(* the report and the receipt, and posts each finding that is bad enough   *)
(* to a webhook, unless the database says it has been posted.  A cycle     *)
(* that fails is given up, and the monitor sleeps and goes on.             *)
(*                                                                         *)
(* Of the checks of a run two are left: the temporal one, whose verdict    *)
(* may be any of those Temporal gives, and one that stands for the others. *)
(***************************************************************************)
EXTENDS Integers, FiniteSets

CONSTANTS
  Monitors,    \* processes
  Settings,    \* [repeat : repeat_after_hours is given, json : a JSON report is asked for]
  MaxFaults,   \* bound: cycles that fail
  Nobody

ASSUME MonitorAssumption == IsFiniteSet(Monitors) /\ Nobody \notin Monitors /\ MaxFaults \in Nat
ASSUME SettingsAssumption == Settings \subseteq [repeat : BOOLEAN, json : BOOLEAN]

VARIABLES
  setting,     \* of the contract
  broken,      \* the target violates the contract
  owner,       \* whose run has the target
  guard,       \* each monitor's cycle
  row,         \* the row of its last run in the database
  files,       \* the directory of that run
  alert,       \* the database's alerts, by fingerprint
  spare,       \* ghost: messages of an interval the webhook may still get, by fingerprint
  told,        \* ghost: fingerprints of all messages ever taken
  faults

vars == <<setting, broken, owner, guard, row, files, alert, spare, told, faults>>

\* A fingerprint is made of a test and a severity, and not of the status.  Only
\* findings of severity high are posted, so the test is enough.
Tests == {"temporal", "contract"}

Finding(test, status, severity) == [test |-> test, status |-> status, severity |-> severity]
NoRow == [status |-> "none", findings |-> {}]
NoFiles == [report |-> "none", receipt |-> "none"]
Asleep == [pc |-> "sleep", findings |-> {}, todo |-> {}]

\* Each monitor may post a message once in an interval; one that is never
\* recorded does not count.
Share == Cardinality(Monitors)

MonitorInit ==
  /\ setting \in Settings /\ broken \in BOOLEAN
  /\ owner = Nobody
  /\ guard = [m \in Monitors |-> Asleep]
  /\ row = [m \in Monitors |-> NoRow]
  /\ files = [m \in Monitors |-> NoFiles]
  /\ alert = [t \in Tests |-> "none"]
  /\ spare = [t \in Tests |-> Share] /\ told = {}
  /\ faults = 0

-----------------------------------------------------------------------------
Outside == <<spare, told, alert>>

Step(m, from, to) ==
  /\ guard[m].pc = from
  /\ guard' = [guard EXCEPT ![m].pc = to]
  /\ UNCHANGED <<setting, broken, faults>>

\* The contract is loaded; observer_ownership of the target, a new directory and
\* start_run.
StartRun(m) ==
  /\ owner = Nobody /\ owner' = m
  /\ Step(m, "sleep", "temporal")
  /\ row' = [row EXCEPT ![m] = [status |-> "running", findings |-> {}]]
  /\ files' = [files EXCEPT ![m] = NoFiles]
  /\ UNCHANGED Outside

\* _add_finding: to the summary and, in a transaction of its own, to the store.
AddFinding(m, finding, from, to) ==
  /\ guard[m].pc = from
  /\ guard' = [guard EXCEPT ![m].pc = to, ![m].findings = @ \cup {finding}]
  /\ row' = [row EXCEPT ![m].findings = @ \cup {finding}]
  /\ UNCHANGED <<setting, broken, faults, owner, files, Outside>>

\* The verdicts of _check_temporal_integrity.
CheckTemporal(m) ==
  \E verdict \in {<<"passed", "info">>, <<"failed", "high">>, <<"error", "high">>, <<"error", "medium">>} :
    AddFinding(m, Finding("temporal", verdict[1], verdict[2]), "temporal", "others")

\* The other checks of the contract, in one.
CheckOthers(m) ==
  AddFinding(m, IF broken THEN Finding("contract", "failed", "high")
                          ELSE Finding("contract", "passed", "info"), "others", "finish")

\* RunSummary.assessment, of findings that are never skipped.
Statuses(findings) == {f.status : f \in findings}
Assessment(findings) ==
  CASE "failed" \in Statuses(findings) -> "fail"
    [] "failed" \notin Statuses(findings) /\ "error" \in Statuses(findings) -> "inconclusive"
    [] Statuses(findings) = {"passed"} -> "pass"
    [] Statuses(findings) = {} -> "not_tested"

\* Mutant: a store that cannot be written is tolerated.
FinishRunTolerant(m) ==
  /\ owner' = Nobody
  /\ Step(m, "finish", "report")
  /\ row' \in {row, [row EXCEPT ![m].status = Assessment(guard[m].findings)]}
  /\ UNCHANGED <<files, Outside>>

\* finish_run; then the target is given up.
FinishRun(m) ==
  /\ owner' = Nobody
  /\ Step(m, "finish", "report")
  /\ row' = [row EXCEPT ![m].status = Assessment(guard[m].findings)]
  /\ UNCHANGED <<files, Outside>>

\* A receipt has the digest of the report there is.
ReceiptOf(report) ==
  CASE report = "none" -> "of none" [] report = "part" -> "of part" [] report = "whole" -> "of whole"

WriteReports(m) ==
  /\ Step(m, "report", "receipt")
  /\ files' = [files EXCEPT ![m].report = IF setting.json THEN "whole" ELSE "none"]
  /\ UNCHANGED <<owner, row, Outside>>

WriteReceipt(m) ==
  /\ Step(m, "receipt", "select")
  /\ files' = [files EXCEPT ![m].receipt = ReceiptOf(files[m].report)]
  /\ UNCHANGED <<owner, row, Outside>>

-----------------------------------------------------------------------------
Alertable(finding) == finding.status \in {"failed", "error"} /\ finding.severity = "high"

\* send_alerts.  The directory and the row of the run are left as they are, and
\* the model forgets them.
SelectAlerts(m) ==
  /\ guard[m].pc = "select"
  /\ LET selected == {f \in guard[m].findings : Alertable(f)}
     IN  guard' = [guard EXCEPT ![m] = [pc |-> "check", findings |-> selected, todo |-> selected]]
  /\ row' = [row EXCEPT ![m] = NoRow] /\ files' = [files EXCEPT ![m] = NoFiles]
  /\ UNCHANGED <<setting, broken, faults, owner, Outside>>

\* In the order of the findings: the temporal one comes first.
Test(m) == IF \E f \in guard[m].todo : f.test = "temporal" THEN "temporal" ELSE "contract"
NextAlert(m) ==
  guard' = [guard EXCEPT ![m].pc = "check", ![m].todo = {f \in @ : f.test # Test(m)}]

\* alert_is_due
Due(t) == alert[t] = "none" \/ (alert[t] = "old" /\ setting.repeat)

HasDue(m) == guard[m].pc = "check" /\ guard[m].todo # {} /\ Due(Test(m))

Suppress(m) ==
  /\ guard[m].pc = "check" /\ guard[m].todo # {} /\ ~ Due(Test(m))
  /\ NextAlert(m)
  /\ UNCHANGED <<setting, broken, faults, owner, row, files, Outside>>

Taken(m) ==
  /\ spare' = [spare EXCEPT ![Test(m)] = @ - 1]
  /\ told' = told \cup {Test(m)}

\* Mutant: the alert is recorded before it is posted.
PostRecorded(m) ==
  /\ HasDue(m)
  /\ alert' = [alert EXCEPT ![Test(m)] = "fresh"]
  /\ Step(m, "check", "record")
  /\ told' \in {told, told \cup {Test(m)}}
  /\ UNCHANGED <<owner, row, files, spare>>

\* The question and the message are one step: the message changes nothing that
\* a monitor reads.
Post(m) ==
  /\ HasDue(m)
  /\ Step(m, "check", "record")
  /\ Taken(m)
  /\ UNCHANGED <<owner, row, files, alert>>

\* record_alert
Record(m) ==
  /\ guard[m].pc = "record"
  /\ alert' = [alert EXCEPT ![Test(m)] = "fresh"]
  /\ NextAlert(m)
  /\ UNCHANGED <<setting, broken, faults, owner, row, files, spare, told>>

Sleep(m) ==
  /\ guard[m].pc = "check" /\ guard[m].todo = {}
  /\ guard' = [guard EXCEPT ![m] = Asleep]
  /\ UNCHANGED <<setting, broken, faults, owner, row, files, Outside>>

-----------------------------------------------------------------------------
\* Mutant: a cycle that fails keeps the target.
GiveUpHolding(m) ==
  /\ faults < MaxFaults /\ faults' = faults + 1
  /\ guard' = [guard EXCEPT ![m] = Asleep]
  /\ UNCHANGED <<setting, broken, row, owner>>

\* Whatever is raised in a cycle, by the database, the disk, the target or the
\* webhook, gives it up; so does the end of the process, which is started again.
\* The kernel and the context manager both give up the target.
GiveUp(m) ==
  /\ faults < MaxFaults /\ faults' = faults + 1
  /\ guard' = [guard EXCEPT ![m] = Asleep]
  /\ owner' = IF owner = m THEN Nobody ELSE owner
  /\ UNCHANGED <<setting, broken, row>>

\* A file may be cut short; and a later format may fail, with the report whole.
CycleFails(m) ==
  /\ guard[m].pc \in {"temporal", "others", "finish", "report", "receipt", "select", "check"}
  /\ \/ files' = files
     \/ guard[m].pc = "report" /\ \E report \in {"part"} \cup (IF setting.json THEN {"whole"} ELSE {}) :
          files' = [files EXCEPT ![m].report = report]
     \/ guard[m].pc = "receipt" /\ files' = [files EXCEPT ![m].receipt = "part"]
  /\ GiveUp(m)
  /\ UNCHANGED Outside

\* A message that is refused, or whose answer does not come.
PostFails(m) ==
  /\ HasDue(m)
  /\ GiveUp(m)
  /\ told' \in {told, told \cup {Test(m)}}
  /\ UNCHANGED <<files, alert, spare>>

RecordFails(m) ==
  /\ guard[m].pc = "record"
  /\ GiveUp(m)
  /\ spare' = [spare EXCEPT ![Test(m)] = @ + 1]
  /\ UNCHANGED <<files, alert, told>>

\* The target, and time: the repeat interval of an alert passes.
TargetChanges == broken' = ~ broken /\ UNCHANGED <<setting, owner, guard, row, files, Outside, faults>>
IntervalPasses(t) ==
  /\ setting.repeat /\ alert[t] = "fresh"
  /\ alert' = [alert EXCEPT ![t] = "old"]
  /\ spare' = [spare EXCEPT ![t] = Share]
  /\ UNCHANGED <<setting, broken, owner, guard, row, files, told, faults>>

MonitorStep(m) ==
  \/ StartRun(m) \/ CheckTemporal(m) \/ CheckOthers(m) \/ FinishRun(m)
  \/ WriteReports(m) \/ WriteReceipt(m) \/ SelectAlerts(m) \/ Suppress(m) \/ Post(m) \/ Record(m) \/ Sleep(m)

MonitorNext ==
  \/ \E m \in Monitors : MonitorStep(m) \/ CycleFails(m) \/ PostFails(m) \/ RecordFails(m)
  \/ TargetChanges \/ \E t \in Tests : IntervalPasses(t)

Spec == MonitorInit /\ [][MonitorNext]_vars /\ \A m \in Monitors : WF_vars(MonitorStep(m))

-----------------------------------------------------------------------------
\* _load_saved_run accepts a receipt that is whole, and is that of a report that
\* is whole.
Accepted(m) == files[m].receipt = "of whole"

\* A directory that compare-saved accepts is that of a run that has ended in
\* the database as well, with the assessment of all its findings.
SavedRunIsWhole ==
  \A m \in Monitors :
    Accepted(m) => /\ row[m].status = Assessment(row[m].findings)
                   /\ {f.test : f \in row[m].findings} = Tests

\* No message is lost, and few are repeated: what the database says was posted
\* has been; a cycle that is over has had each of its bad findings posted, now
\* or before; and within an interval a finding is posted once for each monitor,
\* at most, and once more for each message that could not be recorded.
AlertsAreTrue ==
  /\ \A t \in Tests : alert[t] # "none" => t \in told
  /\ \A m \in Monitors :
       guard[m].pc = "check" /\ guard[m].todo = {} =>
         \A f \in guard[m].findings : f.test \in told
  /\ \A t \in Tests : spare[t] >= 0

\* A problem that lasts is posted, in every interval, though cycles fail.
ProblemIsAlerted == <>[]broken => []<>(alert["contract"] = "fresh")
=============================================================================
