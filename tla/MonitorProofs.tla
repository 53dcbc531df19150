--------------------------- MODULE MonitorProofs ---------------------------
(***************************************************************************)
(* Proofs about the monitor (module Monitor) for any number of monitors    *)
(* and failures: what a saved run that is accepted says, and that alerts   *)
(* are neither lost nor repeated more often than they may be.              *)
(***************************************************************************)
EXTENDS Monitor, FiniteSetTheorems, TLAPS

-----------------------------------------------------------------------------
(***************************************************************************)
(* What is always so.                                                      *)
(***************************************************************************)
Findings == [test : Tests, status : {"passed", "failed", "error"}, severity : {"info", "medium", "high"}]
Places ==
  {"sleep", "temporal", "others", "finish", "report", "receipt", "select", "check", "record"}
GuardType == [pc : Places, findings : SUBSET Findings, todo : SUBSET Findings]
RowType ==
  [status : {"none", "running", "fail", "inconclusive", "pass", "not_tested"},
   findings : SUBSET Findings]
FilesType ==
  [report : {"none", "part", "whole"}, receipt : {"none", "part", "of none", "of part", "of whole"}]
TypeOK ==
  /\ guard \in [Monitors -> GuardType] /\ row \in [Monitors -> RowType]
  /\ files \in [Monitors -> FilesType]
  /\ alert \in [Tests -> {"none", "fresh", "old"}] /\ spare \in [Tests -> Int]

Checked(findings) == {f.test : f \in findings}
Ended(r) == r.status = Assessment(r.findings) /\ Checked(r.findings) = Tests

\* A receipt comes after the end of the run in the database, and the findings of
\* the cycle are those of the row until then.
SavedInv(m) ==
  /\ guard[m].pc \in {"temporal", "others", "finish"} =>
       files[m].receipt = "none" /\ row[m].findings = guard[m].findings
  /\ guard[m].pc \in {"sleep", "temporal"} => guard[m].findings = {}
  /\ guard[m].pc = "others" => Checked(guard[m].findings) = {"temporal"}
  /\ guard[m].pc = "finish" => Checked(guard[m].findings) = Tests
  /\ guard[m].pc \in {"report", "receipt", "select"} => Ended(row[m])
  /\ Accepted(m) => Ended(row[m])

\* What a cycle has still to post or was told of.
PostingInv(m) ==
  /\ guard[m].pc \in {"check", "record"} =>
       \A f \in guard[m].findings : f \in guard[m].todo \/ f.test \in told
  /\ guard[m].pc = "record" => Test(m) \in told
AlertInv(t) == alert[t] # "none" => t \in told

\* Monitors that have posted a message of t and not recorded it: as long as
\* others may post it too, they are the only ones that have used their share.
Recording(t) == {m \in Monitors : guard[m].pc = "record" /\ Test(m) = t}
SpareInv(t) ==
  /\ spare[t] >= 0
  /\ alert[t] # "fresh" => spare[t] >= Share - Cardinality(Recording(t))

MonitorInv ==
  /\ TypeOK
  /\ \A m \in Monitors : SavedInv(m) /\ PostingInv(m)
  /\ \A t \in Tests : AlertInv(t) /\ SpareInv(t)

-----------------------------------------------------------------------------
(***************************************************************************)
(* Steps of a monitor: one entry of each function changes.                 *)
(***************************************************************************)
\* Monitor m goes on to g, its row to r and its files to d.
Goes(m, g, r, d) ==
  /\ guard' = [guard EXCEPT ![m] = g] /\ row' = [row EXCEPT ![m] = r]
  /\ files' = [files EXCEPT ![m] = d]

LEMMA GoesIs ==
  ASSUME TypeOK, NEW m \in Monitors, NEW g \in GuardType, NEW r \in RowType, NEW d \in FilesType,
         Goes(m, g, r, d)
  PROVE  /\ guard' \in [Monitors -> GuardType] /\ row' \in [Monitors -> RowType]
         /\ files' \in [Monitors -> FilesType]
         /\ guard'[m] = g /\ row'[m] = r /\ files'[m] = d
         /\ \A n \in Monitors \ {m} :
              guard'[n] = guard[n] /\ row'[n] = row[n] /\ files'[n] = files[n]
BY DEF TypeOK, Goes

\* The findings, the row and the files of the monitors.
SavedIs(g, r, d) ==
  /\ g.pc \in {"temporal", "others", "finish"} => d.receipt = "none" /\ r.findings = g.findings
  /\ g.pc \in {"sleep", "temporal"} => g.findings = {}
  /\ g.pc = "others" => Checked(g.findings) = {"temporal"}
  /\ g.pc = "finish" => Checked(g.findings) = Tests
  /\ g.pc \in {"report", "receipt", "select"} => Ended(r)
  /\ d.receipt = "of whole" => Ended(r)
TestOf(g) == IF \E f \in g.todo : f.test = "temporal" THEN "temporal" ELSE "contract"
PostingIs(g, messages) ==
  /\ g.pc \in {"check", "record"} => \A f \in g.findings : f \in g.todo \/ f.test \in messages
  /\ g.pc = "record" => TestOf(g) \in messages

LEMMA SavedIsInv == \A m : SavedInv(m) <=> SavedIs(guard[m], row[m], files[m])
BY DEF SavedInv, SavedIs, Accepted
LEMMA PostingIsInv == \A m : (PostingInv(m) <=> PostingIs(guard[m], told)) /\ Test(m) = TestOf(guard[m])
BY DEF PostingInv, PostingIs, Test, TestOf

\* The cycles after a step of m that takes back no message.
LEMMA CyclesKeep ==
  ASSUME MonitorInv, NEW m \in Monitors, NEW g \in GuardType, NEW r \in RowType, NEW d \in FilesType,
         Goes(m, g, r, d), SavedIs(g, r, d), told \subseteq told', PostingIs(g, told')
  PROVE  \A n \in Monitors : (SavedInv(n) /\ PostingInv(n))'
<1>1. /\ guard'[m] = g /\ row'[m] = r /\ files'[m] = d
      /\ \A n \in Monitors \ {m} :
           guard'[n] = guard[n] /\ row'[n] = row[n] /\ files'[n] = files[n]
  BY GoesIs DEF MonitorInv
<1>2. \A n : SavedInv(n)' <=> SavedIs(guard'[n], row'[n], files'[n])
  BY DEF SavedInv, SavedIs, Accepted, Ended
<1>3. \A n : PostingInv(n)' <=> PostingIs(guard'[n], told')
  BY DEF PostingInv, PostingIs, Test, TestOf
<1>4. \A n \in Monitors \ {m} : PostingIs(guard[n], told) => PostingIs(guard[n], told')
  BY DEF PostingIs
<1>5. \A n \in Monitors : SavedIs(guard[n], row[n], files[n]) /\ PostingIs(guard[n], told)
  BY SavedIsInv, PostingIsInv DEF MonitorInv
<1> QED BY <1>1, <1>2, <1>3, <1>4, <1>5

\* Who is recording changes only by m.
Records(g, t) == g.pc = "record" /\ TestOf(g) = t
LEMMA RecordingIs ==
  ASSUME MonitorInv, NEW m \in Monitors, NEW g \in GuardType, NEW r \in RowType, NEW d \in FilesType,
         Goes(m, g, r, d), NEW t \in Tests
  PROVE  /\ IsFiniteSet(Recording(t)) /\ IsFiniteSet(Recording(t)') /\ Share \in Nat
         /\ Cardinality(Recording(t)) \in Nat /\ Cardinality(Recording(t)') \in Nat
         /\ Cardinality(Recording(t)) <= Share /\ Cardinality(Recording(t)') <= Share
         /\ (Records(g, t) <=> Records(guard[m], t)) => Recording(t)' = Recording(t)
         /\ Records(g, t) /\ ~ Records(guard[m], t) =>
              Cardinality(Recording(t)') = Cardinality(Recording(t)) + 1
         /\ ~ Records(g, t) /\ Records(guard[m], t) =>
              Cardinality(Recording(t)') = Cardinality(Recording(t)) - 1
<1>1. /\ guard'[m] = g
      /\ \A n \in Monitors \ {m} : guard'[n] = guard[n]
  BY GoesIs DEF MonitorInv
<1>2. Recording(t) = {n \in Monitors : Records(guard[n], t)}
  BY DEF Recording, Records, Test, TestOf
<1>3. Recording(t)' = {n \in Monitors : Records(guard'[n], t)}
  BY DEF Recording, Records, Test, TestOf
<1>4. IsFiniteSet(Monitors) BY MonitorAssumption
<1>5. /\ IsFiniteSet(Recording(t)) /\ IsFiniteSet(Recording(t)')
      /\ Cardinality(Recording(t)) <= Share /\ Cardinality(Recording(t)') <= Share
  BY <1>2, <1>3, <1>4, FS_Subset DEF Share
<1>6. /\ Cardinality(Recording(t)) \in Nat /\ Cardinality(Recording(t)') \in Nat /\ Share \in Nat
  BY <1>4, <1>5, FS_CardinalityType DEF Share
<1>7. ASSUME Records(g, t) <=> Records(guard[m], t) PROVE Recording(t)' = Recording(t)
  BY <1>1, <1>2, <1>3, <1>7
<1>8. ASSUME Records(g, t), ~ Records(guard[m], t)
      PROVE  Cardinality(Recording(t)') = Cardinality(Recording(t)) + 1
  <2>1. Recording(t)' = Recording(t) \cup {m} /\ m \notin Recording(t)
    BY <1>1, <1>2, <1>3, <1>8
  <2> QED BY <1>5, <2>1, FS_AddElement
<1>9. ASSUME ~ Records(g, t), Records(guard[m], t)
      PROVE  Cardinality(Recording(t)') = Cardinality(Recording(t)) - 1
  <2>1. Recording(t)' = Recording(t) \ {m} /\ m \in Recording(t)
    BY <1>1, <1>2, <1>3, <1>9
  <2> QED BY <1>5, <2>1, FS_RemoveElement
<1> QED BY <1>5, <1>6, <1>7, <1>8, <1>9

\* A step that neither posts nor records.
LEMMA QuietKeeps ==
  ASSUME MonitorInv, NEW m \in Monitors, NEW g \in GuardType, NEW r \in RowType, NEW d \in FilesType,
         Goes(m, g, r, d), SavedIs(g, r, d), told \subseteq told', PostingIs(g, told'),
         guard[m].pc # "record", g.pc # "record", UNCHANGED <<alert, spare>>
  PROVE  MonitorInv'
<1>1. TypeOK' BY GoesIs DEF MonitorInv, TypeOK
<1>2. \A n \in Monitors : (SavedInv(n) /\ PostingInv(n))' BY CyclesKeep
<1>3. ASSUME NEW t \in Tests PROVE (AlertInv(t) /\ SpareInv(t))'
  <2>1. Recording(t)' = Recording(t) BY RecordingIs DEF Records
  <2> QED BY <2>1 DEF MonitorInv, AlertInv, SpareInv
<1> QED BY <1>1, <1>2, <1>3 DEF MonitorInv

-----------------------------------------------------------------------------
(***************************************************************************)
(* Each step of a cycle.                                                   *)
(***************************************************************************)
\* The cycle, the row and the files of a monitor have their types and relations.
LEMMA OfMonitor ==
  ASSUME MonitorInv, NEW m \in Monitors
  PROVE  /\ guard[m] \in GuardType /\ row[m] \in RowType /\ files[m] \in FilesType
         /\ SavedIs(guard[m], row[m], files[m]) /\ PostingIs(guard[m], told)
         /\ guard[m] = [pc |-> guard[m].pc, findings |-> guard[m].findings, todo |-> guard[m].todo]
<1>1. guard[m] \in GuardType /\ row[m] \in RowType /\ files[m] \in FilesType
  BY DEF MonitorInv, TypeOK
<1>2. SavedIs(guard[m], row[m], files[m]) /\ PostingIs(guard[m], told)
  BY SavedIsInv, PostingIsInv DEF MonitorInv
<1> QED BY <1>1, <1>2 DEF GuardType

\* A cycle at another place.
At(g, to) == [g EXCEPT !.pc = to]
LEMMA StepIs ==
  ASSUME MonitorInv, NEW m \in Monitors, NEW from, NEW to \in Places, Step(m, from, to)
  PROVE  /\ At(guard[m], to) \in GuardType
         /\ guard' = [guard EXCEPT ![m] = At(guard[m], to)]
         /\ At(guard[m], to).pc = to /\ guard[m].pc = from
         /\ At(guard[m], to).findings = guard[m].findings
         /\ At(guard[m], to).todo = guard[m].todo
BY DEF MonitorInv, TypeOK, GuardType, Step, At

LEMMA StartRunKeeps == ASSUME MonitorInv, NEW m \in Monitors, StartRun(m) PROVE MonitorInv'
<1>p1. PICK g : g = At(guard[m], "temporal") OBVIOUS
<1>p2. PICK r : r = [status |-> "running", findings |-> {}] OBVIOUS
<1>1. Step(m, "sleep", "temporal") /\ UNCHANGED Outside BY DEF StartRun
<1>2. g \in GuardType /\ g.pc = "temporal" /\ g.findings = guard[m].findings /\ guard[m].pc = "sleep"
      /\ guard' = [guard EXCEPT ![m] = g]
  BY <1>1, <1>p1, StepIs DEF Places
<1>3. NoFiles \in FilesType /\ NoFiles.receipt = "none" BY DEF NoFiles, FilesType
<1>4. r \in RowType /\ r.findings = {} BY <1>p2 DEF RowType
<1>5. Goes(m, g, r, NoFiles) BY <1>2, <1>p2 DEF StartRun, Goes
<1>6. SavedIs(g, r, NoFiles) BY <1>2, <1>3, <1>4, OfMonitor DEF SavedIs
<1>7. PostingIs(g, told') BY <1>2 DEF PostingIs
<1> QED BY <1>1, <1>2, <1>3, <1>4, <1>5, <1>6, <1>7, QuietKeeps DEF Outside

LEMMA AddFindingKeeps ==
  ASSUME MonitorInv, NEW m \in Monitors, NEW finding \in Findings,
         NEW from, NEW to, AddFinding(m, finding, from, to),
         \/ from = "temporal" /\ to = "others" /\ finding.test = "temporal"
         \/ from = "others" /\ to = "finish" /\ finding.test = "contract"
  PROVE  MonitorInv'
<1>p1. PICK found : found = guard[m].findings \cup {finding} OBVIOUS
<1>p2. PICK g : g = [guard[m] EXCEPT !.pc = to, !.findings = found] OBVIOUS
<1>p3. PICK r : r = [row[m] EXCEPT !.findings = found] OBVIOUS
<1>1. guard[m].pc = from /\ UNCHANGED <<files, alert, spare, told>> BY DEF AddFinding, Outside
<1>2. row[m].findings = guard[m].findings /\ files[m].receipt = "none"
  BY <1>1, OfMonitor DEF SavedIs
<1>3. /\ g \in GuardType /\ g.pc = to /\ g.findings = found
      /\ r \in RowType /\ r.findings = found
  <2>1. found \subseteq Findings /\ to \in Places
    BY <1>p1, OfMonitor DEF GuardType, Places
  <2> QED BY <1>p2, <1>p3, <2>1, OfMonitor DEF GuardType, RowType
<1>4. Goes(m, g, r, files[m])
  BY <1>1, <1>2, <1>p1, <1>p2, <1>p3 DEF AddFinding, Goes, MonitorInv, TypeOK
<1>5. SavedIs(g, r, files[m])
  <2>0. Checked(found) = Checked(guard[m].findings) \cup {finding.test} BY <1>p1 DEF Checked
  <2>1. from = "temporal" => Checked(found) = {"temporal"}
    <3>1. from = "temporal" => guard[m].findings = {} BY <1>1, OfMonitor DEF SavedIs
    <3> QED BY <2>0, <3>1 DEF Checked
  <2>2. from = "others" => Checked(found) = Tests
    <3>1. from = "others" => Checked(guard[m].findings) = {"temporal"} BY <1>1, OfMonitor DEF SavedIs
    <3> QED BY <2>0, <3>1 DEF Tests
  <2> QED BY <1>2, <1>3, <2>1, <2>2 DEF SavedIs
<1>6. PostingIs(g, told') BY <1>3 DEF PostingIs
<1> QED BY <1>1, <1>3, <1>4, <1>5, <1>6, OfMonitor, QuietKeeps

LEMMA CheckKeeps ==
  ASSUME MonitorInv, NEW m \in Monitors, CheckTemporal(m) \/ CheckOthers(m) PROVE MonitorInv'
<1>1. ASSUME NEW status \in {"passed", "failed", "error"}, NEW severity \in {"info", "medium", "high"},
             NEW test \in Tests
      PROVE  Finding(test, status, severity) \in Findings /\ Finding(test, status, severity).test = test
  BY DEF Finding, Findings
<1>2. CASE CheckTemporal(m)
  <2>1. PICK status \in {"passed", "failed", "error"}, severity \in {"info", "medium", "high"} :
          AddFinding(m, Finding("temporal", status, severity), "temporal", "others")
    BY <1>2 DEF CheckTemporal
  <2>2. "temporal" \in Tests BY DEF Tests
  <2> QED BY <1>1, <2>1, <2>2, AddFindingKeeps
<1>3. CASE CheckOthers(m)
  <2>1. PICK status \in {"passed", "failed", "error"}, severity \in {"info", "medium", "high"} :
          AddFinding(m, Finding("contract", status, severity), "others", "finish")
    <3>1. CASE broken BY <1>3, <3>1 DEF CheckOthers
    <3>2. CASE ~ broken BY <1>3, <3>2 DEF CheckOthers
    <3> QED BY <3>1, <3>2
  <2>2. "contract" \in Tests BY DEF Tests
  <2> QED BY <1>1, <2>1, <2>2, AddFindingKeeps
<1> QED BY <1>2, <1>3

LEMMA AssessmentIs ==
  ASSUME NEW findings \in SUBSET Findings
  PROVE  Assessment(findings) \in {"fail", "inconclusive", "pass", "not_tested"}
<1>p. PICK statuses : statuses = Statuses(findings) OBVIOUS
<1>1. statuses \subseteq {"passed", "failed", "error"} BY <1>p DEF Statuses, Findings
<1>2. \/ "failed" \in statuses \/ ("failed" \notin statuses /\ "error" \in statuses)
      \/ statuses = {"passed"} \/ statuses = {}
  BY <1>1
<1> QED BY <1>2, <1>p DEF Assessment

LEMMA FinishRunKeeps == ASSUME MonitorInv, NEW m \in Monitors, FinishRun(m) PROVE MonitorInv'
<1>p1. PICK g : g = At(guard[m], "report") OBVIOUS
<1>p2. PICK r : r = [row[m] EXCEPT !.status = Assessment(guard[m].findings)] OBVIOUS
<1>1. Step(m, "finish", "report") /\ UNCHANGED <<files, alert, spare, told>>
  BY DEF FinishRun, Outside
<1>2. g \in GuardType /\ g.pc = "report" /\ g.findings = guard[m].findings /\ guard[m].pc = "finish"
      /\ guard' = [guard EXCEPT ![m] = g]
  BY <1>1, <1>p1, StepIs DEF Places
<1>3. row[m].findings = guard[m].findings /\ Checked(guard[m].findings) = Tests
  BY <1>2, OfMonitor DEF SavedIs
<1>4. r \in RowType /\ r.findings = guard[m].findings /\ r.status = Assessment(guard[m].findings)
  <2>1. Assessment(guard[m].findings) \in {"fail", "inconclusive", "pass", "not_tested"}
    BY OfMonitor, AssessmentIs DEF GuardType
  <2> QED BY <1>3, <1>p2, <2>1, OfMonitor DEF RowType
<1>5. Goes(m, g, r, files[m]) BY <1>1, <1>2, <1>p2 DEF FinishRun, Goes, MonitorInv, TypeOK
<1>6. SavedIs(g, r, files[m]) BY <1>2, <1>3, <1>4 DEF SavedIs, Ended
<1>7. PostingIs(g, told') BY <1>2 DEF PostingIs
<1> QED BY <1>1, <1>2, <1>4, <1>5, <1>6, <1>7, OfMonitor, QuietKeeps

\* Report and receipt: the run has ended.
LEMMA FileKeeps ==
  ASSUME MonitorInv, NEW m \in Monitors, NEW to \in {"receipt", "select"}, NEW from \in {"report", "receipt"},
         Step(m, from, to), NEW d \in FilesType, files' = [files EXCEPT ![m] = d],
         UNCHANGED <<row, alert, spare, told>>
  PROVE  MonitorInv'
<1>p1. PICK g : g = At(guard[m], to) OBVIOUS
<1>2. g \in GuardType /\ g.pc = to /\ guard[m].pc = from /\ guard' = [guard EXCEPT ![m] = g]
  BY <1>p1, StepIs DEF Places
<1>3. Ended(row[m]) BY <1>2, OfMonitor DEF SavedIs
<1>4. Goes(m, g, row[m], d) BY <1>2 DEF Goes, MonitorInv, TypeOK
<1>5. SavedIs(g, row[m], d) BY <1>2, <1>3 DEF SavedIs
<1>6. PostingIs(g, told') BY <1>2 DEF PostingIs
<1> QED BY <1>2, <1>4, <1>5, <1>6, OfMonitor, QuietKeeps

LEMMA WriteKeeps ==
  ASSUME MonitorInv, NEW m \in Monitors, WriteReports(m) \/ WriteReceipt(m) PROVE MonitorInv'
<1>1. CASE WriteReports(m)
  <2>p. PICK report \in {"whole", "none"} : report = IF setting.json THEN "whole" ELSE "none" OBVIOUS
  <2>1. [files[m] EXCEPT !.report = report] \in FilesType BY OfMonitor DEF FilesType
  <2>2. files' = [files EXCEPT ![m] = [files[m] EXCEPT !.report = report]]
    BY <1>1, <2>p DEF WriteReports, MonitorInv, TypeOK
  <2> QED BY <1>1, <2>1, <2>2, FileKeeps DEF WriteReports, Outside
<1>2. CASE WriteReceipt(m)
  <2>p. PICK receipt \in {"of none", "of part", "of whole"} : receipt = ReceiptOf(files[m].report)
    BY OfMonitor DEF FilesType, ReceiptOf
  <2>1. [files[m] EXCEPT !.receipt = receipt] \in FilesType BY OfMonitor DEF FilesType
  <2>2. files' = [files EXCEPT ![m] = [files[m] EXCEPT !.receipt = receipt]]
    BY <1>2, <2>p DEF WriteReceipt, MonitorInv, TypeOK
  <2> QED BY <1>2, <2>1, <2>2, FileKeeps DEF WriteReceipt, Outside
<1> QED BY <1>1, <1>2

-----------------------------------------------------------------------------
(***************************************************************************)
(* The alerts.                                                             *)
(***************************************************************************)
LEMMA TestIs == ASSUME NEW m PROVE Test(m) = TestOf(guard[m]) /\ Test(m) \in Tests
BY DEF Test, TestOf, Tests

\* From here on the run has ended or is forgotten.
LEMMA PostingSaved ==
  ASSUME MonitorInv, NEW m \in Monitors, NEW g \in GuardType, g.pc \in {"check", "record"}
  PROVE  SavedIs(g, row[m], files[m])
BY OfMonitor DEF SavedIs

LEMMA SelectAlertsKeeps == ASSUME MonitorInv, NEW m \in Monitors, SelectAlerts(m) PROVE MonitorInv'
<1>p1. PICK selected : selected = {f \in guard[m].findings : Alertable(f)} OBVIOUS
<1>p2. PICK g : g = [pc |-> "check", findings |-> selected, todo |-> selected] OBVIOUS
<1>1. guard[m].pc = "select" /\ UNCHANGED <<alert, spare, told>> BY DEF SelectAlerts, Outside
<1>2. g \in GuardType /\ g.pc = "check" /\ g.findings = selected /\ g.todo = selected
  <2>1. selected \subseteq Findings BY <1>p1, OfMonitor DEF GuardType
  <2> QED BY <1>p2, <2>1 DEF GuardType, Places
<1>3. NoRow \in RowType /\ NoFiles \in FilesType /\ NoFiles.receipt = "none"
  BY DEF NoRow, NoFiles, RowType, FilesType
<1>4. Goes(m, g, NoRow, NoFiles) BY <1>p1, <1>p2 DEF SelectAlerts, Goes
<1>5. SavedIs(g, NoRow, NoFiles) BY <1>2, <1>3 DEF SavedIs
<1>6. PostingIs(g, told') BY <1>2 DEF PostingIs
<1> QED BY <1>1, <1>2, <1>3, <1>4, <1>5, <1>6, QuietKeeps

\* A finding whose message has been taken is done with.
LEMMA NextAlertIs ==
  ASSUME MonitorInv, NEW m \in Monitors, NextAlert(m), guard[m].pc \in {"check", "record"},
         told \subseteq told', Test(m) \in told', UNCHANGED <<row, files>>
  PROVE  \E g \in GuardType :
           /\ g.pc = "check" /\ Goes(m, g, row[m], files[m])
           /\ SavedIs(g, row[m], files[m]) /\ PostingIs(g, told')
<1>p1. PICK todo : todo = {f \in guard[m].todo : f.test # Test(m)} OBVIOUS
<1>p2. PICK g : g = [guard[m] EXCEPT !.pc = "check", !.todo = todo] OBVIOUS
<1>1. g \in GuardType /\ g.pc = "check" /\ g.findings = guard[m].findings /\ g.todo = todo
  <2>1. todo \subseteq Findings BY <1>p1, OfMonitor DEF GuardType
  <2> QED BY <1>p2, <2>1, OfMonitor DEF GuardType, Places
<1>2. Goes(m, g, row[m], files[m])
  BY <1>p1, <1>p2 DEF NextAlert, Goes, MonitorInv, TypeOK
<1>3. PostingIs(g, told')
  <2>1. \A f \in guard[m].findings : f \in guard[m].todo \/ f.test \in told
    BY OfMonitor DEF PostingIs
  <2> QED BY <1>1, <1>p1, <2>1 DEF PostingIs
<1> QED BY <1>1, <1>2, <1>3, PostingSaved

LEMMA SuppressKeeps == ASSUME MonitorInv, NEW m \in Monitors, Suppress(m) PROVE MonitorInv'
<1>1. /\ guard[m].pc = "check" /\ NextAlert(m)
      /\ UNCHANGED <<row, files, alert, spare, told>>
  BY DEF Suppress, Outside
<1>2. alert[Test(m)] # "none" BY DEF Suppress, Due
<1>3. Test(m) \in told' BY <1>1, <1>2, TestIs DEF MonitorInv, AlertInv
<1>4. PICK g \in GuardType :
        /\ g.pc = "check" /\ Goes(m, g, row[m], files[m])
        /\ SavedIs(g, row[m], files[m]) /\ PostingIs(g, told')
  BY <1>1, <1>3, NextAlertIs
<1> QED BY <1>1, <1>4, OfMonitor, QuietKeeps

\* A cycle that ends, or is given up.
LEMMA AsleepIs ==
  /\ Asleep \in GuardType /\ Asleep.pc = "sleep" /\ Asleep.findings = {}
  /\ \A messages : PostingIs(Asleep, messages)
BY DEF Asleep, GuardType, Places, PostingIs

LEMMA SleepKeeps == ASSUME MonitorInv, NEW m \in Monitors, Sleep(m) PROVE MonitorInv'
<1>1. guard[m].pc = "check" /\ UNCHANGED <<row, files, alert, spare, told>> BY DEF Sleep, Outside
<1>2. Goes(m, Asleep, row[m], files[m]) BY <1>1 DEF Sleep, Goes, MonitorInv, TypeOK
<1>3. SavedIs(Asleep, row[m], files[m]) BY AsleepIs, OfMonitor DEF SavedIs
<1> QED BY <1>1, <1>2, <1>3, AsleepIs, OfMonitor, QuietKeeps

LEMMA CycleFailsKeeps == ASSUME MonitorInv, NEW m \in Monitors, CycleFails(m) PROVE MonitorInv'
<1>1. guard[m].pc # "record" /\ UNCHANGED <<row, alert, spare, told>>
  BY DEF CycleFails, GiveUp, Outside
<1>2. PICK d \in FilesType :
        /\ files' = [files EXCEPT ![m] = d]
        /\ d.receipt = "of whole" => files[m].receipt = "of whole"
  <2>1. CASE files' = files BY <2>1, OfMonitor DEF MonitorInv, TypeOK
  <2>2. ASSUME NEW report \in {"part", "whole"}, files' = [files EXCEPT ![m].report = report]
        PROVE  \E d \in FilesType :
                 /\ files' = [files EXCEPT ![m] = d]
                 /\ d.receipt = "of whole" => files[m].receipt = "of whole"
    <3>p. PICK d : d = [files[m] EXCEPT !.report = report] OBVIOUS
    <3>1. d \in FilesType /\ d.receipt = files[m].receipt BY <3>p, OfMonitor DEF FilesType
    <3> QED BY <2>2, <3>p, <3>1 DEF MonitorInv, TypeOK
  <2>3. ASSUME files' = [files EXCEPT ![m].receipt = "part"]
        PROVE  \E d \in FilesType :
                 /\ files' = [files EXCEPT ![m] = d]
                 /\ d.receipt = "of whole" => files[m].receipt = "of whole"
    <3>p. PICK d : d = [files[m] EXCEPT !.receipt = "part"] OBVIOUS
    <3>1. d \in FilesType /\ d.receipt = "part" BY <3>p, OfMonitor DEF FilesType
    <3> QED BY <2>3, <3>p, <3>1 DEF MonitorInv, TypeOK
  <2>4. \/ files' = files \/ files' = [files EXCEPT ![m].receipt = "part"]
        \/ \E report \in {"part", "whole"} : files' = [files EXCEPT ![m].report = report]
    BY DEF CycleFails
  <2> QED BY <2>1, <2>2, <2>3, <2>4
<1>3. Goes(m, Asleep, row[m], d)
  BY <1>1, <1>2 DEF CycleFails, GiveUp, Goes, MonitorInv, TypeOK
<1>4. SavedIs(Asleep, row[m], d) BY <1>2, AsleepIs, OfMonitor DEF SavedIs
<1> QED BY <1>1, <1>2, <1>3, <1>4, AsleepIs, OfMonitor, QuietKeeps

LEMMA PostFailsKeeps == ASSUME MonitorInv, NEW m \in Monitors, PostFails(m) PROVE MonitorInv'
<1>1. /\ guard[m].pc = "check" /\ told \subseteq told' /\ UNCHANGED <<row, files, alert, spare>>
  BY DEF PostFails, HasDue, GiveUp
<1>2. Goes(m, Asleep, row[m], files[m]) BY <1>1 DEF PostFails, GiveUp, Goes, MonitorInv, TypeOK
<1>3. SavedIs(Asleep, row[m], files[m]) BY AsleepIs, OfMonitor DEF SavedIs
<1> QED BY <1>1, <1>2, <1>3, AsleepIs, OfMonitor, QuietKeeps

\* A step that posts or records, or gives up between the two.
LEMMA AlertStepKeeps ==
  ASSUME MonitorInv, NEW m \in Monitors, NEW g \in GuardType,
         Goes(m, g, row[m], files[m]), SavedIs(g, row[m], files[m]), PostingIs(g, told'),
         told \subseteq told',
         alert' \in [Tests -> {"none", "fresh", "old"}], spare' \in [Tests -> Int],
         \A t \in Tests : AlertInv(t)' /\ SpareInv(t)'
  PROVE  MonitorInv'
<1>1. TypeOK' BY GoesIs, OfMonitor DEF MonitorInv, TypeOK
<1>2. \A n \in Monitors : (SavedInv(n) /\ PostingInv(n))' BY CyclesKeep, OfMonitor
<1> QED BY <1>1, <1>2 DEF MonitorInv

LEMMA PostKeeps == ASSUME MonitorInv, NEW m \in Monitors, Post(m) PROVE MonitorInv'
<1>p1. PICK g : g = At(guard[m], "record") OBVIOUS
<1>p2. PICK test : test = Test(m) OBVIOUS
<1>1. /\ Step(m, "check", "record") /\ UNCHANGED <<row, files, alert>>
      /\ spare' = [spare EXCEPT ![test] = @ - 1] /\ told' = told \cup {test}
      /\ Due(test)
  BY <1>p2 DEF Post, Taken, HasDue
<1>2. /\ g \in GuardType /\ g.pc = "record" /\ guard[m].pc = "check"
      /\ g.findings = guard[m].findings /\ g.todo = guard[m].todo
      /\ guard' = [guard EXCEPT ![m] = g]
  BY <1>1, <1>p1, StepIs DEF Places
<1>3. test \in Tests /\ TestOf(g) = test BY <1>2, <1>p2, TestIs DEF TestOf
<1>4. Goes(m, g, row[m], files[m]) BY <1>1, <1>2 DEF Goes, MonitorInv, TypeOK
<1>5. PostingIs(g, told')
  <2>1. \A f \in guard[m].findings : f \in guard[m].todo \/ f.test \in told
    BY <1>2, OfMonitor DEF PostingIs
  <2> QED BY <1>1, <1>2, <1>3, <2>1 DEF PostingIs
<1>6. alert[test] # "fresh" BY <1>1 DEF Due
<1>7. ASSUME NEW t \in Tests PROVE AlertInv(t)' /\ SpareInv(t)'
  <2>1. AlertInv(t)' BY <1>1 DEF MonitorInv, AlertInv
  <2>2. spare \in [Tests -> Int] /\ SpareInv(t) BY DEF MonitorInv, TypeOK
  <2>3. CASE t = test
    <3>1. Cardinality(Recording(t)') = Cardinality(Recording(t)) + 1
      BY <1>2, <1>3, <1>4, <2>3, OfMonitor, RecordingIs DEF Records
    <3>2. /\ Share \in Nat /\ Cardinality(Recording(t)) \in Nat
          /\ Cardinality(Recording(t)') <= Share
      BY <1>2, <1>4, OfMonitor, RecordingIs
    <3>3. spare'[t] = spare[t] - 1 /\ spare[t] >= Share - Cardinality(Recording(t))
      BY <1>1, <1>6, <2>2, <2>3 DEF SpareInv
    <3>4. spare'[t] >= 0 /\ spare'[t] >= Share - Cardinality(Recording(t)')
      BY <2>2, <3>1, <3>2, <3>3
    <3> QED BY <2>1, <3>4 DEF SpareInv, Share
  <2>4. CASE t # test
    <3>1. Recording(t)' = Recording(t)
      BY <1>2, <1>3, <1>4, <2>4, OfMonitor, RecordingIs DEF Records
    <3> QED BY <1>1, <2>1, <2>2, <2>4, <3>1 DEF SpareInv, Share
  <2> QED BY <2>1, <2>3, <2>4
<1>8. spare' \in [Tests -> Int] BY <1>1, <1>3 DEF MonitorInv, TypeOK
<1>9. alert' \in [Tests -> {"none", "fresh", "old"}] /\ told \subseteq told'
  BY <1>1 DEF MonitorInv, TypeOK
<1> QED BY <1>2, <1>4, <1>5, <1>7, <1>8, <1>9, PostingSaved, AlertStepKeeps

LEMMA RecordKeeps == ASSUME MonitorInv, NEW m \in Monitors, Record(m) PROVE MonitorInv'
<1>p2. PICK test : test = Test(m) OBVIOUS
<1>1. /\ guard[m].pc = "record" /\ NextAlert(m) /\ UNCHANGED <<row, files, spare, told>>
      /\ alert' = [alert EXCEPT ![test] = "fresh"]
  BY <1>p2 DEF Record
<1>2. test \in told /\ test \in Tests /\ TestOf(guard[m]) = test
  BY <1>1, <1>p2, TestIs, OfMonitor DEF PostingIs
<1>3. PICK g \in GuardType :
        /\ g.pc = "check" /\ Goes(m, g, row[m], files[m])
        /\ SavedIs(g, row[m], files[m]) /\ PostingIs(g, told')
  BY <1>1, <1>2, <1>p2, NextAlertIs
<1>4. ASSUME NEW t \in Tests PROVE AlertInv(t)' /\ SpareInv(t)'
  <2>1. AlertInv(t)' BY <1>1, <1>2 DEF MonitorInv, TypeOK, AlertInv
  <2>2. SpareInv(t) /\ alert \in [Tests -> {"none", "fresh", "old"}] BY DEF MonitorInv, TypeOK
  <2>3. CASE t = test BY <1>1, <2>1, <2>2, <2>3 DEF SpareInv
  <2>4. CASE t # test
    <3>1. Recording(t)' = Recording(t)
      BY <1>2, <1>3, <2>4, OfMonitor, RecordingIs DEF Records
    <3> QED BY <1>1, <2>1, <2>2, <2>4, <3>1 DEF SpareInv, Share
  <2> QED BY <2>1, <2>3, <2>4
<1>5. /\ spare' \in [Tests -> Int] /\ told \subseteq told'
      /\ alert' \in [Tests -> {"none", "fresh", "old"}]
  BY <1>1 DEF MonitorInv, TypeOK
<1> QED BY <1>3, <1>4, <1>5, AlertStepKeeps

LEMMA RecordFailsKeeps == ASSUME MonitorInv, NEW m \in Monitors, RecordFails(m) PROVE MonitorInv'
<1>p2. PICK test : test = Test(m) OBVIOUS
<1>1. /\ guard[m].pc = "record" /\ UNCHANGED <<row, files, alert, told>>
      /\ spare' = [spare EXCEPT ![test] = @ + 1]
  BY <1>p2 DEF RecordFails, GiveUp
<1>2. test \in Tests /\ TestOf(guard[m]) = test BY <1>p2, TestIs
<1>3. Goes(m, Asleep, row[m], files[m])
  BY <1>1 DEF RecordFails, GiveUp, Goes, MonitorInv, TypeOK
<1>4. SavedIs(Asleep, row[m], files[m]) BY AsleepIs, OfMonitor DEF SavedIs
<1>5. ASSUME NEW t \in Tests PROVE AlertInv(t)' /\ SpareInv(t)'
  <2>1. AlertInv(t)' BY <1>1 DEF MonitorInv, AlertInv
  <2>2. spare \in [Tests -> Int] /\ SpareInv(t) BY DEF MonitorInv, TypeOK
  <2>3. CASE t = test
    <3>1. /\ Cardinality(Recording(t)') = Cardinality(Recording(t)) - 1
          /\ Share \in Nat /\ Cardinality(Recording(t)) \in Nat
      BY <1>1, <1>2, <1>3, <2>3, AsleepIs, OfMonitor, RecordingIs DEF Records
    <3>2. spare'[t] = spare[t] + 1 BY <1>1, <2>2, <2>3
    <3>3. spare'[t] >= 0 BY <2>2, <3>2 DEF SpareInv
    <3>4. alert'[t] # "fresh" => spare'[t] >= Share - Cardinality(Recording(t)')
      BY <1>1, <2>2, <3>1, <3>2 DEF SpareInv
    <3> QED BY <2>1, <3>3, <3>4 DEF SpareInv, Share
  <2>4. CASE t # test
    <3>1. Recording(t)' = Recording(t)
      BY <1>2, <1>3, <2>4, AsleepIs, OfMonitor, RecordingIs DEF Records
    <3> QED BY <1>1, <2>1, <2>2, <2>4, <3>1 DEF SpareInv, Share
  <2> QED BY <2>1, <2>3, <2>4
<1>6. /\ spare' \in [Tests -> Int] /\ told \subseteq told'
      /\ alert' \in [Tests -> {"none", "fresh", "old"}]
  BY <1>1, <1>2 DEF MonitorInv, TypeOK
<1> QED BY <1>3, <1>4, <1>5, <1>6, AsleepIs, AlertStepKeeps

-----------------------------------------------------------------------------
(***************************************************************************)
(* The target and time, and the theorems.                                  *)
(***************************************************************************)
LEMMA RecordingCounts ==
  ASSUME NEW t PROVE Share \in Nat /\ Cardinality(Recording(t)) \in Nat
<1>1. IsFiniteSet(Monitors) /\ IsFiniteSet(Recording(t))
  BY MonitorAssumption, FS_Subset DEF Recording
<1> QED BY <1>1, FS_CardinalityType DEF Share

\* Nothing that the invariant is about changes.
LEMMA SameKeeps ==
  ASSUME MonitorInv, UNCHANGED <<guard, row, files, alert, spare, told>> PROVE MonitorInv'
<1>1. TypeOK' BY DEF MonitorInv, TypeOK
<1>2. ASSUME NEW m \in Monitors PROVE SavedInv(m)' /\ PostingInv(m)'
  <2>1. SavedInv(m)' <=> SavedIs(guard'[m], row'[m], files'[m])
    BY DEF SavedInv, SavedIs, Accepted, Ended
  <2>2. PostingInv(m)' <=> PostingIs(guard'[m], told') BY DEF PostingInv, PostingIs, Test, TestOf
  <2> QED BY <2>1, <2>2, OfMonitor
<1>3. ASSUME NEW t \in Tests PROVE AlertInv(t)' /\ SpareInv(t)'
  <2>1. Recording(t)' = Recording(t) BY DEF Recording, Test
  <2> QED BY <2>1 DEF MonitorInv, AlertInv, SpareInv, Share
<1> QED BY <1>1, <1>2, <1>3 DEF MonitorInv

LEMMA IntervalKeeps == ASSUME MonitorInv, NEW u \in Tests, IntervalPasses(u) PROVE MonitorInv'
<1>1. /\ UNCHANGED <<guard, row, files, told>> /\ alert[u] = "fresh"
      /\ alert' = [alert EXCEPT ![u] = "old"] /\ spare' = [spare EXCEPT ![u] = Share]
  BY DEF IntervalPasses
<1>2. TypeOK' BY <1>1, RecordingCounts DEF MonitorInv, TypeOK
<1>3. ASSUME NEW m \in Monitors PROVE SavedInv(m)' /\ PostingInv(m)'
  <2>1. SavedInv(m)' <=> SavedIs(guard'[m], row'[m], files'[m])
    BY DEF SavedInv, SavedIs, Accepted, Ended
  <2>2. PostingInv(m)' <=> PostingIs(guard'[m], told') BY DEF PostingInv, PostingIs, Test, TestOf
  <2> QED BY <1>1, <2>1, <2>2, OfMonitor
<1>4. ASSUME NEW t \in Tests PROVE AlertInv(t)' /\ SpareInv(t)'
  <2>1. Recording(t)' = Recording(t) BY <1>1 DEF Recording, Test
  <2>2. Share \in Nat /\ Cardinality(Recording(t)) \in Nat BY RecordingCounts
  <2>3. alert \in [Tests -> {"none", "fresh", "old"}] /\ spare \in [Tests -> Int]
    BY DEF MonitorInv, TypeOK
  <2>4. AlertInv(t) /\ SpareInv(t) BY DEF MonitorInv
  <2>5. AlertInv(t)' BY <1>1, <2>3, <2>4 DEF AlertInv
  <2>6. CASE t = u
    <3>1. spare'[t] = Share BY <1>1, <2>3, <2>6
    <3> QED BY <2>1, <2>2, <2>5, <3>1 DEF SpareInv, Share
  <2>7. CASE t # u BY <1>1, <2>1, <2>3, <2>4, <2>5, <2>7 DEF SpareInv, Share
  <2> QED BY <2>6, <2>7
<1> QED BY <1>2, <1>3, <1>4 DEF MonitorInv

LEMMA Starts == MonitorInit => MonitorInv
<1> SUFFICES ASSUME MonitorInit PROVE MonitorInv OBVIOUS
<1>1. NoRow \in RowType /\ NoFiles \in FilesType /\ NoFiles.receipt = "none"
  BY DEF NoRow, NoFiles, RowType, FilesType
<1>2. TypeOK BY <1>1, AsleepIs, RecordingCounts DEF MonitorInit, TypeOK
<1>3. ASSUME NEW m \in Monitors PROVE SavedInv(m) /\ PostingInv(m)
  <2>1. guard[m] = Asleep /\ row[m] = NoRow /\ files[m] = NoFiles BY DEF MonitorInit
  <2>2. SavedIs(Asleep, NoRow, NoFiles)
    <3>1. NoRow.findings = {} BY DEF NoRow
    <3> QED BY <1>1, <3>1, AsleepIs DEF SavedIs
  <2> QED BY <2>1, <2>2, AsleepIs, SavedIsInv, PostingIsInv
<1>4. ASSUME NEW t \in Tests PROVE AlertInv(t) /\ SpareInv(t)
  <2>1. alert[t] = "none" /\ spare[t] = Share BY DEF MonitorInit
  <2> QED BY <2>1, RecordingCounts DEF AlertInv, SpareInv
<1> QED BY <1>2, <1>3, <1>4 DEF MonitorInv

LEMMA Steps == MonitorInv /\ [MonitorNext]_vars => MonitorInv'
<1> SUFFICES ASSUME MonitorInv, [MonitorNext]_vars PROVE MonitorInv' OBVIOUS
<1>1. ASSUME NEW m \in Monitors, MonitorStep(m) PROVE MonitorInv'
  BY <1>1, StartRunKeeps, CheckKeeps, FinishRunKeeps, WriteKeeps, SelectAlertsKeeps, SuppressKeeps,
     PostKeeps, RecordKeeps, SleepKeeps DEF MonitorStep
<1>2. ASSUME NEW m \in Monitors, CycleFails(m) \/ PostFails(m) \/ RecordFails(m) PROVE MonitorInv'
  BY <1>2, CycleFailsKeeps, PostFailsKeeps, RecordFailsKeeps
<1>3. CASE TargetChanges BY <1>3, SameKeeps DEF TargetChanges, Outside
<1>4. ASSUME NEW t \in Tests, IntervalPasses(t) PROVE MonitorInv' BY <1>4, IntervalKeeps
<1>5. CASE UNCHANGED vars BY <1>5, SameKeeps DEF vars
<1> QED BY <1>1, <1>2, <1>3, <1>4, <1>5 DEF MonitorNext

LEMMA ByInv == MonitorInv => SavedRunIsWhole /\ AlertsAreTrue
<1> SUFFICES ASSUME MonitorInv PROVE SavedRunIsWhole /\ AlertsAreTrue OBVIOUS
<1>1. SavedRunIsWhole BY DEF MonitorInv, SavedInv, Ended, Checked, SavedRunIsWhole
<1>2. AlertsAreTrue
  <2>1. \A t \in Tests : (alert[t] # "none" => t \in told) /\ spare[t] >= 0
    BY DEF MonitorInv, AlertInv, SpareInv
  <2>2. ASSUME NEW m \in Monitors, guard[m].pc = "check", guard[m].todo = {},
               NEW f \in guard[m].findings
        PROVE  f.test \in told
    BY <2>2 DEF MonitorInv, PostingInv
  <2> QED BY <2>1, <2>2 DEF AlertsAreTrue
<1> QED BY <1>1, <1>2

\* The types of the state of the monitors and of their database.
THEOREM MonitorTypes == Spec => []TypeOK
<1>1. MonitorInv => TypeOK BY DEF MonitorInv
<1> QED BY <1>1, Starts, Steps, PTL DEF Spec

\* Whatever fails, and whoever else runs: a run that compare-saved accepts has
\* ended in the database too, with the assessment of all its findings.
THEOREM SavedRunsAreWhole == Spec => []SavedRunIsWhole
BY Starts, Steps, ByInv, PTL DEF Spec

\* However many monitors share the database: what it says was posted has been, a
\* finished cycle has left no bad finding untold, and within an interval a
\* finding is posted once for each monitor at most.
THEOREM AlertsTellTheTruth == Spec => []AlertsAreTrue
BY Starts, Steps, ByInv, PTL DEF Spec
=============================================================================
