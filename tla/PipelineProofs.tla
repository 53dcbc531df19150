--------------------------- MODULE PipelineProofs ---------------------------
(***************************************************************************)
(* Proofs about the release pipeline, stage by stage (modules BoundedRun,  *)
(* NativeProof, Intake and Construction), and of the pipeline as a whole,  *)
(* for every number of processes, images, demo runs, jobs, pull requests   *)
(* and commits: the invariants that TLC checks on one instance, and the    *)
(* inductive ones they follow from.                                        *)
(***************************************************************************)
EXTENDS Pipeline, FiniteSetTheorems, TLAPS

-----------------------------------------------------------------------------
(***************************************************************************)
(* The command.                                                            *)
(***************************************************************************)
ProcessType == [state : {"unborn", "alive", "dead"}, group : BOOLEAN, holds : BOOLEAN, obeys : BOOLEAN]
RunnerType ==
  [pc : {"poll", "read", "drain", "grace", "report", "over"}, exited : BOOLEAN, open : BOOLEAN,
   emitted : Nat, why : {"none", "raised", "timeout", "budget", "forced"}, timedOut : BOOLEAN,
   over : BOOLEAN, forced : BOOLEAN, kept : Nat, cut : BOOLEAN, lost : BOOLEAN,
   outcome : {"none", "raised", "budget", "timeout", "returned", "failed"}]

CommandTypeOK ==
  /\ process \in [Processes -> ProcessType] /\ runner \in RunnerType
  /\ pipe \subseteq Processes
  /\ time \in [late : BOOLEAN, drain : {"unset", "set", "passed"}]

\* The leader was started, and stays in the group it leads.
LeaderInv == process["leader"].state # "unborn" /\ process["leader"].group

\* Whoever gave up has signalled the group, and goes on when it is gone.
GaveUp == runner.over \/ runner.timedOut \/ runner.forced \/ runner.outcome = "raised"
GroupInv ==
  /\ runner.pc = "grace" => runner.why # "none" /\ (runner.why = "budget" => runner.over)
  /\ GaveUp /\ runner.pc # "grace" => Group = {}

\* After a forced end the pipe is read once more, so that what the leader wrote
\* is lost only where the deadline or the budget is to blame.
OutputInv ==
  /\ runner.forced /\ runner.pc = "drain" => "leader" \notin pipe \/ runner.over \/ runner.timedOut
  /\ runner.lost => runner.over \/ runner.timedOut

OutcomeInv ==
  /\ runner.pc # "over" => runner.outcome = "none"
  /\ runner.outcome = "budget" => runner.over
  /\ runner.outcome = "timeout" => runner.timedOut
  /\ runner.outcome \in {"returned", "failed"} => ~runner.over /\ ~runner.timedOut

\* Bytes are missing only behind the limit, of which one chunk too many is kept.
CutInv == runner.cut => Truncated

CommandInv == CommandTypeOK /\ LeaderInv /\ GroupInv /\ OutputInv /\ OutcomeInv /\ CutInv

LEMMA CommandStarts == CommandInit => CommandInv
<1> SUFFICES ASSUME CommandInit PROVE CommandInv
  OBVIOUS
<1>1. PICK obeys \in BOOLEAN :
        process = [p \in Processes |-> IF p = "leader" THEN Child(obeys) ELSE Unborn]
  BY DEF CommandInit
<1>2. Child(obeys) \in ProcessType /\ Unborn \in ProcessType
  BY DEF Child, Unborn, ProcessType
<1>3. CommandTypeOK
  BY <1>1, <1>2 DEF CommandInit, CommandTypeOK, RunnerType
<1>4. LeaderInv
  BY <1>1 DEF LeaderInv, Child, Processes
<1>5. GroupInv /\ OutputInv /\ OutcomeInv /\ CutInv
  BY DEF CommandInit, GroupInv, OutputInv, OutcomeInv, GaveUp, CutInv
<1>6. QED  BY <1>3, <1>4, <1>5 DEF CommandInv

\* What the processes do by themselves: nobody joins the group of a leader that
\* is dead, and a dead leader writes nothing.
ProcessesOnly ==
  /\ process' \in [Processes -> ProcessType] /\ LeaderInv'
  /\ pipe' \subseteq Processes
  /\ Group = {} => Group' = {}
  /\ "leader" \in pipe' => "leader" \in pipe \/ Alive("leader")
  /\ UNCHANGED <<time, runner>>

LEMMA ProcessesKeep == ASSUME CommandInv, ProcessesOnly PROVE CommandInv'
<1>1. runner' = runner /\ time' = time
  BY DEF ProcessesOnly
<1>2. CommandTypeOK'
  BY <1>1 DEF CommandInv, CommandTypeOK, ProcessesOnly
<1>3. GroupInv'
  BY <1>1 DEF CommandInv, GroupInv, GaveUp, ProcessesOnly
<1>4. Group = {} => ~Alive("leader")
  BY DEF CommandInv, LeaderInv, Group, Processes
<1>5. OutputInv'
  BY <1>1, <1>4 DEF CommandInv, GroupInv, GaveUp, OutputInv, ProcessesOnly
<1>6. OutcomeInv' /\ CutInv'
  BY <1>1 DEF CommandInv, OutcomeInv, CutInv, Truncated
<1>7. QED  BY <1>2, <1>3, <1>5, <1>6 DEF CommandInv, ProcessesOnly

\* One of them changes; it does not join a group, and the leader does not leave its own.
LEMMA OneProcess ==
  ASSUME CommandInv, NEW p \in Processes, NEW c \in ProcessType,
         Alive(p), process' = [process EXCEPT ![p] = c], c.state # "unborn",
         c.group => process[p].group, p = "leader" => c.group = process[p].group,
         UNCHANGED <<pipe, time, runner>>
  PROVE  ProcessesOnly
<1>1. process \in [Processes -> ProcessType] /\ "leader" \in Processes /\ pipe \subseteq Processes
  BY DEF CommandInv, CommandTypeOK, Processes
<1>2. process' \in [Processes -> ProcessType]
  BY <1>1
<1>3. LeaderInv'
  BY <1>1 DEF CommandInv, LeaderInv
<1>4. Group = {} => Group' = {}
  BY <1>1 DEF Group, Alive
<1>5. QED  BY <1>1, <1>2, <1>3, <1>4 DEF ProcessesOnly

LEMMA SystemKeeps == ASSUME CommandInv, System PROVE CommandInv'
<1>1. ASSUME NEW p \in Processes, NEW q \in Descendants, NEW obeys \in BOOLEAN, Fork(p, q, obeys)
      PROVE  ProcessesOnly
  <2>1. q \in Processes /\ process \in [Processes -> ProcessType] /\ process[p] \in ProcessType
    BY <1>1 DEF CommandInv, CommandTypeOK, Processes
  <2>2. PICK c : c = [process[p] EXCEPT !.obeys = obeys]
    OBVIOUS
  <2>3. c \in ProcessType /\ c.group = process[p].group /\ c.state = "alive"
    BY <2>1, <2>2, <1>1 DEF ProcessType, Fork, Alive
  <2>4. process' = [process EXCEPT ![q] = c] /\ process[p].state = "alive" /\ process[q].state = "unborn"
    BY <2>2, <1>1 DEF Fork, Alive
  <2>5. process' \in [Processes -> ProcessType]
    BY <2>1, <2>3, <2>4
  <2>6. LeaderInv'
    BY <2>1, <2>4 DEF CommandInv, LeaderInv, Processes
  <2>7. Group = {} => Group' = {}
    BY <2>1, <2>3, <2>4 DEF Group, Alive
  <2>8. QED  BY <1>1, <2>5, <2>6, <2>7 DEF ProcessesOnly, Fork, CommandInv, CommandTypeOK
<1>2. ASSUME NEW p \in Processes, Write(p) PROVE ProcessesOnly
  BY <1>2 DEF Write, ProcessesOnly, CommandInv, CommandTypeOK, LeaderInv, Group, Alive
<1>3. ASSUME NEW p \in Processes, Close(p) PROVE ProcessesOnly
  <2>1. PICK c : c = [process[p] EXCEPT !.holds = FALSE]
    OBVIOUS
  <2>2. process[p] \in ProcessType
    BY DEF CommandInv, CommandTypeOK
  <2>3. c \in ProcessType /\ c.state = process[p].state /\ c.group = process[p].group
    BY <2>1, <2>2 DEF ProcessType
  <2>4. process' = [process EXCEPT ![p] = c]
    BY <1>3, <2>1 DEF Close
  <2>5. QED  BY <1>3, <2>3, <2>4, OneProcess DEF Close, Alive
<1>4. ASSUME NEW p \in Processes, Escape(p) PROVE ProcessesOnly
  <2>1. PICK c : c = [process[p] EXCEPT !.group = FALSE]
    OBVIOUS
  <2>2. process[p] \in ProcessType
    BY DEF CommandInv, CommandTypeOK
  <2>3. c \in ProcessType /\ c.state = process[p].state /\ ~c.group
    BY <2>1, <2>2 DEF ProcessType
  <2>4. process' = [process EXCEPT ![p] = c]
    BY <1>4, <2>1 DEF Escape
  <2>5. QED  BY <1>4, <2>3, <2>4, OneProcess DEF Escape, Alive
<1>5. ASSUME NEW p \in Processes, Exit(p) PROVE ProcessesOnly
  <2>1. PICK c : c = [process[p] EXCEPT !.state = "dead"]
    OBVIOUS
  <2>2. process[p] \in ProcessType
    BY DEF CommandInv, CommandTypeOK
  <2>3. c \in ProcessType /\ c.state = "dead" /\ c.group = process[p].group
    BY <2>1, <2>2 DEF ProcessType
  <2>4. process' = [process EXCEPT ![p] = c]
    BY <1>5, <2>1 DEF Exit
  <2>5. QED  BY <1>5, <2>3, <2>4, OneProcess DEF Exit, Alive
<1>6. QED  BY <1>1, <1>2, <1>3, <1>4, <1>5, ProcessesKeep DEF System

LEMMA TimeKeeps == ASSUME CommandInv, DeadlinePasses \/ DrainPasses PROVE CommandInv'
  BY DEF CommandInv, DeadlinePasses, DrainPasses, CommandTypeOK, LeaderInv, GroupInv, OutputInv,
         OutcomeInv, GaveUp, Group, Alive, CutInv, Truncated

\* Signals: those they reach are dead, and nobody comes to the group.
LEMMA SignalledIs ==
  ASSUME CommandInv, NEW to, process' = Signalled(to)
  PROVE  /\ process' \in [Processes -> ProcessType] /\ LeaderInv'
         /\ Group' = Group \ to
<1>1. process \in [Processes -> ProcessType]
  BY DEF CommandInv, CommandTypeOK
<1>2. \A p \in Processes : [process[p] EXCEPT !.state = "dead"] \in ProcessType
  BY <1>1 DEF ProcessType
<1>3. process' \in [Processes -> ProcessType]
  BY <1>1, <1>2 DEF Signalled
<1>4. \A p \in Processes : /\ p \in to => process'[p].state = "dead" /\ process'[p].group = process[p].group
                           /\ p \notin to => process'[p] = process[p]
  BY <1>1 DEF Signalled, ProcessType
<1>5. LeaderInv'
  BY <1>4 DEF CommandInv, LeaderInv, Processes
<1>6. Group' = Group \ to
  BY <1>4 DEF Group, Alive
<1>7. QED  BY <1>3, <1>5, <1>6

\* The group is signalled, and the grace period begins.
LEMMA TerminateKeeps ==
  ASSUME CommandInv, NEW known \in RunnerType,
         NEW why \in {"raised", "timeout", "budget", "forced"},
         Terminate(why, known), time' = time, pipe' \subseteq pipe,
         known.outcome = "none", known.lost = runner.lost, known.cut => known.kept > Capture,
         why = "budget" => known.over,
         runner.over \/ runner.timedOut => known.over \/ known.timedOut
  PROVE  CommandInv'
<1>1. runner' = [known EXCEPT !.pc = "grace", !.why = why]
  BY DEF Terminate
<1>2. runner' \in RunnerType
  BY <1>1 DEF RunnerType
<1>3. runner'.pc = "grace" /\ runner'.why = why /\ runner'.outcome = "none"
      /\ runner'.lost = runner.lost /\ runner'.over = known.over /\ runner'.timedOut = known.timedOut
      /\ runner'.kept = known.kept /\ runner'.cut = known.cut
  BY <1>1 DEF RunnerType
<1>4. process' \in [Processes -> ProcessType] /\ LeaderInv'
  BY SignalledIs DEF Terminate
<1>5. CommandTypeOK'
  BY <1>2, <1>4 DEF CommandInv, CommandTypeOK
<1>6. GroupInv' /\ OutputInv' /\ OutcomeInv' /\ CutInv'
  BY <1>3 DEF CommandInv, GroupInv, OutputInv, OutcomeInv, CutInv, Truncated
<1>7. QED  BY <1>4, <1>5, <1>6 DEF CommandInv

LEMMA KillGroupKeeps == ASSUME CommandInv, KillGroup PROVE CommandInv'
<1>1. process' \in [Processes -> ProcessType] /\ LeaderInv' /\ Group' = {}
  BY SignalledIs DEF KillGroup
<1>2. runner \in RunnerType /\ runner.pc = "grace" /\ runner.why # "none" /\ runner.outcome = "none"
  BY DEF CommandInv, CommandTypeOK, GroupInv, OutcomeInv, KillGroup
<1>3. PICK pc \in {"over", "read", "drain", "poll"}, outcome \in {"none", "raised"} :
        /\ runner' = [runner EXCEPT !.exited = TRUE, !.outcome = outcome, !.pc = pc]
        /\ pc = "over" <=> outcome = "raised"
        /\ pc = "drain" => runner.why = "budget"
  BY <1>2 DEF KillGroup, RunnerType
<1>4. runner' \in RunnerType /\ runner'.pc = pc /\ runner'.outcome = outcome
      /\ \A f \in {"over", "timedOut", "forced", "lost", "kept", "cut"} : runner'[f] = runner[f]
  BY <1>2, <1>3 DEF RunnerType
<1>5. CommandTypeOK'
  <2>1. PICK d \in {"unset", "set", "passed"} : time' = [time EXCEPT !.drain = d]
    BY DEF KillGroup, CommandInv, CommandTypeOK
  <2>2. QED  BY <1>1, <1>4, <2>1 DEF KillGroup, CommandInv, CommandTypeOK
<1>6. GroupInv' /\ OutputInv' /\ OutcomeInv' /\ CutInv'
  BY <1>1, <1>2, <1>3, <1>4 DEF CommandInv, GroupInv, OutputInv, OutcomeInv, KillGroup, CutInv, Truncated
<1>7. QED  BY <1>1, <1>5, <1>6 DEF CommandInv

LEMMA PollKeeps == ASSUME CommandInv, Poll PROVE CommandInv'
<1>1. PICK known : known = [runner EXCEPT !.exited = @ \/ ~ Alive("leader")]
  OBVIOUS
<1>2. runner \in RunnerType /\ Alive("leader") \in BOOLEAN /\ runner.pc = "poll" /\ runner.outcome = "none"
  BY DEF CommandInv, CommandTypeOK, OutcomeInv, Poll, Alive
<1>3. PICK exited \in BOOLEAN : known = [runner EXCEPT !.exited = exited]
  BY <1>1, <1>2 DEF RunnerType
<1>4. CASE ~ known.exited /\ ~ known.over /\ ~ known.timedOut /\ time.late
  <2>1. PICK k : k = [known EXCEPT !.timedOut = TRUE]
    OBVIOUS
  <2>2. Terminate("timeout", k) /\ time' = time /\ pipe' = pipe
    BY <1>1, <1>4, <2>1 DEF Poll
  <2>3. k \in RunnerType /\ k.outcome = "none" /\ k.lost = runner.lost /\ k.timedOut
        /\ k.kept = runner.kept /\ k.cut = runner.cut
    BY <1>2, <1>3, <2>1 DEF RunnerType
  <2>4. QED  BY <2>2, <2>3, TerminateKeeps DEF CommandInv, CutInv, Truncated
<1>5. CASE ~(~ known.exited /\ ~ known.over /\ ~ known.timedOut /\ time.late)
  <2>1. PICK pc \in {"read", "report", "poll"} : runner' = [known EXCEPT !.pc = pc]
    BY <1>1, <1>5 DEF Poll
  <2>2. PICK d \in {"unset", "set", "passed"} : time' = [time EXCEPT !.drain = d]
    BY <1>1, <1>5 DEF Poll, CommandInv, CommandTypeOK
  <2>3. process' = process /\ pipe' = pipe
    BY <1>1, <1>5 DEF Poll
  <2>4. runner' = [runner EXCEPT !.exited = exited, !.pc = pc]
    BY <1>2, <1>3, <2>1 DEF RunnerType
  <2>5. runner' \in RunnerType /\ runner'.pc = pc /\ runner'.outcome = "none"
        /\ \A f \in {"over", "timedOut", "forced", "lost", "why", "kept", "cut"} : runner'[f] = runner[f]
    BY <1>2, <2>4 DEF RunnerType
  <2>6. CommandTypeOK'
    BY <2>2, <2>3, <2>5 DEF CommandInv, CommandTypeOK
  <2>7. LeaderInv' /\ GroupInv' /\ OutputInv' /\ OutcomeInv' /\ CutInv'
    BY <1>2, <2>3, <2>5 DEF CommandInv, LeaderInv, GroupInv, GaveUp, Group, Alive, OutputInv, OutcomeInv,
                            CutInv, Truncated
  <2>8. QED  BY <2>6, <2>7 DEF CommandInv
<1>6. QED  BY <1>4, <1>5

\* The runner looks further, and nobody is signalled.
LEMMA LookingKeeps ==
  ASSUME CommandInv, NEW pc \in {"poll", "drain"}, NEW r,
         r = runner', r \in RunnerType, r.pc = pc, UNCHANGED <<process, time>>, pipe' \subseteq pipe,
         \A f \in {"over", "timedOut", "forced", "lost", "outcome"} : r[f] = runner[f],
         runner.pc \in {"read", "drain"}, r.cut => r.kept > Capture,
         pc = "drain" => pipe' = {}
  PROVE  CommandInv'
<1>1. CommandTypeOK' /\ LeaderInv'
  BY DEF CommandInv, CommandTypeOK, LeaderInv
<1>2. GroupInv' /\ OutputInv' /\ OutcomeInv' /\ CutInv'
  BY DEF CommandInv, GroupInv, GaveUp, Group, Alive, OutputInv, OutcomeInv, CutInv, Truncated
<1>3. QED  BY <1>1, <1>2 DEF CommandInv

LEMMA ReadKeeps == ASSUME CommandInv, Read PROVE CommandInv'
<1>1. runner \in RunnerType /\ runner.pc = "read" /\ runner.outcome = "none" /\ time' = time
  BY DEF CommandInv, CommandTypeOK, OutcomeInv, Read
<1>2. CASE pipe # {}
  <2>1. PICK n \in Nat : n = IF runner.emitted > Budget THEN runner.emitted ELSE runner.emitted + 1
    BY <1>1 DEF RunnerType
  <2>2. PICK kept : kept = Kept(runner.kept)
    OBVIOUS
  <2>3. kept \in Nat /\ (runner.kept >= Capture => kept > Capture) /\ (runner.kept > Capture => kept > Capture)
    BY <1>1, <2>2, LimitsAssumption DEF LimitsAssumption, RunnerType, Kept
  <2>4. PICK cut : cut = (runner.cut \/ (runner.kept >= Capture /\ "leader" \in pipe))
    OBVIOUS
  <2>5. runner.cut \in BOOLEAN /\ (runner.cut => runner.kept > Capture)
    BY <1>1 DEF RunnerType, CommandInv, CutInv, Truncated
  <2>6. cut \in BOOLEAN /\ (cut => kept > Capture)
    BY <2>3, <2>4, <2>5, Zenon
  <2>7. PICK known : known = [runner EXCEPT !.emitted = n, !.kept = kept, !.cut = cut, !.pc = "drain"]
    OBVIOUS
  <2>8. known \in RunnerType /\ known.pc = "drain" /\ known.kept = kept /\ known.cut = cut
        /\ \A f \in {"over", "timedOut", "forced", "lost", "outcome"} : known[f] = runner[f]
    BY <1>1, <2>1, <2>6, <2>7, <2>3 DEF RunnerType
  <2>9. pipe' = {}
    BY <1>2 DEF Read
  <2>10. CASE known.emitted > Budget /\ ~ known.over
    <3>1. PICK k : k = [known EXCEPT !.over = TRUE]
      OBVIOUS
    <3>2. Terminate("budget", k)
      BY <1>2, <2>1, <2>2, <2>10, <2>7, <2>4, <3>1 DEF Read
    <3>3. k \in RunnerType /\ k.over /\ k.outcome = "none" /\ k.lost = runner.lost
          /\ k.kept = kept /\ k.cut = cut
      BY <1>1, <2>8, <3>1 DEF RunnerType
    <3>4. QED  BY <1>1, <2>9, <2>6, <3>2, <3>3, TerminateKeeps
  <2>11. CASE ~(known.emitted > Budget /\ ~ known.over)
    <3>1. runner' = known /\ process' = process
      BY <1>2, <2>1, <2>2, <2>11, <2>7, <2>4 DEF Read
    <3>2. QED  BY <1>1, <2>8, <2>9, <2>6, <3>1, LookingKeeps
  <2>12. QED  BY <2>10, <2>11
<1>3. CASE pipe = {}
  <2>1. PICK open \in BOOLEAN : open = Open
    BY DEF Open
  <2>2. runner' = [runner EXCEPT !.open = open, !.pc = "drain"] /\ process' = process /\ pipe' = {}
    BY <1>3, <2>1 DEF Read
  <2>3. runner' \in RunnerType /\ runner'.pc = "drain"
        /\ \A f \in {"over", "timedOut", "forced", "lost", "outcome", "kept", "cut"} : runner'[f] = runner[f]
    BY <1>1, <2>2 DEF RunnerType
  <2>4. QED  BY <1>1, <2>2, <2>3, LookingKeeps DEF CommandInv, CutInv, Truncated
<1>4. QED  BY <1>2, <1>3

LEMMA DrainKeeps == ASSUME CommandInv, Drain PROVE CommandInv'
<1>1. runner \in RunnerType /\ runner.pc = "drain" /\ runner.outcome = "none" /\ time' = time
  BY DEF CommandInv, CommandTypeOK, OutcomeInv, Drain
<1>2. CASE ~ runner.open \/ time.drain # "passed"
  <2>1. runner' = [runner EXCEPT !.pc = "poll"] /\ UNCHANGED <<process, pipe>>
    BY <1>2 DEF Drain
  <2>2. runner' \in RunnerType /\ runner'.pc = "poll"
        /\ \A f \in {"over", "timedOut", "forced", "lost", "outcome", "kept", "cut"} : runner'[f] = runner[f]
    BY <1>1, <2>1 DEF RunnerType
  <2>3. QED  BY <1>1, <2>1, <2>2, LookingKeeps DEF CommandInv, CutInv, Truncated
<1>3. CASE ~(~ runner.open \/ time.drain # "passed") /\ (runner.over \/ runner.timedOut \/ runner.forced)
  <2>1. PICK lost : lost = ("leader" \in pipe)
    OBVIOUS
  <2>2. runner' = [runner EXCEPT !.open = FALSE, !.lost = lost, !.pc = "report"]
        /\ pipe' = {} /\ process' = process
    BY <1>3, <2>1 DEF Drain, Abandon
  <2>8. lost \in BOOLEAN
    BY <2>1
  <2>3. runner' \in RunnerType /\ runner'.pc = "report" /\ runner'.lost = lost
        /\ \A f \in {"over", "timedOut", "forced", "outcome", "kept", "cut"} : runner'[f] = runner[f]
    BY <1>1, <2>2, <2>8 DEF RunnerType
  <2>4. CommandTypeOK' /\ LeaderInv'
    BY <1>1, <2>2, <2>3 DEF CommandInv, CommandTypeOK, LeaderInv
  <2>5. GroupInv' /\ OutcomeInv' /\ CutInv'
    BY <1>1, <2>2, <2>3 DEF CommandInv, GroupInv, GaveUp, Group, Alive, OutcomeInv, CutInv, Truncated
  <2>6. OutputInv'
    BY <1>1, <1>3, <2>1, <2>3 DEF CommandInv, OutputInv
  <2>7. QED  BY <2>4, <2>5, <2>6 DEF CommandInv
<1>4. CASE ~(~ runner.open \/ time.drain # "passed") /\ ~(runner.over \/ runner.timedOut \/ runner.forced)
  <2>1. PICK k : k = [runner EXCEPT !.forced = TRUE]
    OBVIOUS
  <2>2. Terminate("forced", k) /\ pipe' = pipe
    BY <1>4, <2>1 DEF Drain
  <2>3. k \in RunnerType /\ k.outcome = "none" /\ k.lost = runner.lost
        /\ k.kept = runner.kept /\ k.cut = runner.cut
    BY <1>1, <2>1 DEF RunnerType
  <2>4. QED  BY <1>1, <1>4, <2>2, <2>3, TerminateKeeps DEF CommandInv, CutInv, Truncated
<1>5. QED  BY <1>2, <1>3, <1>4

LEMMA ReportKeeps == ASSUME CommandInv, Report PROVE CommandInv'
<1>1. PICK outcome \in {"budget", "timeout", "returned", "failed"} :
        /\ runner' = [runner EXCEPT !.pc = "over", !.outcome = outcome]
        /\ outcome = "budget" => runner.over
        /\ outcome = "timeout" => runner.timedOut
        /\ outcome \in {"returned", "failed"} => ~runner.over /\ ~runner.timedOut
  BY DEF Report
<1>2. runner \in RunnerType /\ runner.pc = "report" /\ runner.outcome = "none"
      /\ UNCHANGED <<process, pipe, time>>
  BY DEF CommandInv, CommandTypeOK, OutcomeInv, Report
<1>3. runner' \in RunnerType /\ runner'.pc = "over" /\ runner'.outcome = outcome
      /\ \A f \in {"over", "timedOut", "forced", "lost", "kept", "cut"} : runner'[f] = runner[f]
  BY <1>1, <1>2 DEF RunnerType
<1>4. CommandTypeOK' /\ LeaderInv'
  BY <1>2, <1>3 DEF CommandInv, CommandTypeOK, LeaderInv
<1>5. GroupInv' /\ OutputInv' /\ OutcomeInv' /\ CutInv'
  BY <1>1, <1>2, <1>3 DEF CommandInv, GroupInv, GaveUp, Group, Alive, OutputInv, OutcomeInv, CutInv, Truncated
<1>6. QED  BY <1>4, <1>5 DEF CommandInv

LEMMA CommandSteps == CommandInv /\ [CommandNext]_command => CommandInv'
<1> SUFFICES ASSUME CommandInv, [CommandNext]_command PROVE CommandInv'
  OBVIOUS
<1>1. CASE Interrupt
  BY <1>1, TerminateKeeps DEF Interrupt, CommandInv, CommandTypeOK, OutcomeInv, CutInv, Truncated
<1>2. CASE UNCHANGED command
  BY <1>2 DEF command, CommandInv, CommandTypeOK, LeaderInv, GroupInv, GaveUp, Group, Alive,
              OutputInv, OutcomeInv, CutInv, Truncated
<1>3. QED
  BY <1>1, <1>2, SystemKeeps, TimeKeeps, PollKeeps, ReadKeeps, DrainKeeps, ReportKeeps, KillGroupKeeps
     DEF CommandNext, RunnerStep

LEMMA ContainedByInv == CommandInv => CommandIsContained
  BY DEF CommandInv, GroupInv, GaveUp, OutputInv, OutcomeInv, CutInv, CommandIsContained, CommandTypeOK,
         RunnerType

\* Whatever its processes do, and whatever the limits: a command the runner gave
\* up on, or whose output it had to end, leaves no process of its group; and where
\* an exit code is returned none of the command's own output was left unread, and
\* what is missing of it behind the capture limit is marked as truncated.
THEOREM CommandsAreContained == CommandSpec => []CommandIsContained
<1>1. QED  BY CommandStarts, CommandSteps, ContainedByInv, PTL DEF CommandSpec

-----------------------------------------------------------------------------
(***************************************************************************)
(* The native proof.                                                       *)
(***************************************************************************)
AllImages == {Images[i] : i \in DOMAIN Images}

FreezeType ==
  [pc : {"spec", "native", "inputs", "wheels", "context", "build", "push", "identify", "compose",
         "classify", "over"},
   at : 1..Len(Images), logs : SUBSET AllImages, identities : SUBSET AllImages,
   publish : {"skipped", "failure", "success"}, profile : SUBSET AllImages,
   reason : {"none", "complete", "finish-only", "nothing-published"}]

\* What has been read back is there, and a log tells of everything that may be;
\* a profile is written when all of them have been read back.
FreezeInv ==
  /\ freeze \in FreezeType
  /\ freeze.identities \subseteq registry /\ registry \subseteq AllImages
  /\ registry # {} => freeze.logs # {}
  /\ freeze.publish = "success" => freeze.pc \in {"classify", "over"} /\ freeze.profile = registry
  /\ freeze.pc = "over" => IF freeze.publish = "success" THEN freeze.reason = "complete"
                           ELSE registry # {} => freeze.reason = "finish-only"

\* The scripts in their order.
PassedSets == {{}, {"isolation"}, {"isolation", "smoke"}, {"isolation", "smoke", "negative"}}
NextOf(passed) ==
  CASE passed = {} -> "isolation" [] passed = {"isolation"} -> "smoke"
    [] passed = {"isolation", "smoke"} -> "negative" [] OTHER -> "none"

\* What a step of a script is about.
Resources ==
  UNION {{Steps[n][i][2] : i \in 1..Len(Steps[n])} : n \in {"isolation", "smoke", "negative"}}

ScriptType ==
  [name : {"none", "isolation", "smoke", "negative"}, pc : {"none", "run", "remove", "readback", "over"},
   at : Nat, created : SUBSET Resources, raised : BOOLEAN, errors : BOOLEAN]
ProofType == [pc : {"waiting", "scripts", "accepted", "rejected"}, pulled : SUBSET AllImages, passed : PassedSets]

PlaceInv ==
  /\ script \in ScriptType /\ proof \in ProofType /\ blocked \subseteq Paths
  /\ script.pc # "none" => /\ proof.pc = "scripts" /\ script.name = NextOf(proof.passed)
                           /\ script.name # "none"
  /\ script.pc = "run" => script.at \in 1..Len(Steps[script.name]) /\ ~script.raised

\* What the isolation check has seen so far of the forbidden paths.  After the
\* last service was created services only exit.
IsolationInv ==
  script.pc # "none" /\ script.name = "isolation" =>
    /\ script.pc = "run" /\ script.at > 10 => Refused("candidate-control", "control")
    /\ script.pc = "run" /\ script.at > 11 => Refused("evaluator-app", "app")
    /\ script.pc # "run" /\ ~script.raised => blocked = Paths

PassedInv == "isolation" \in proof.passed => blocked = Paths
AcceptedInv == proof.pc = "accepted" => docker = {}

NativeInv == FreezeInv /\ PlaceInv /\ IsolationInv /\ PassedInv /\ AcceptedInv

LEMMA NativeStarts == NativeInit => NativeInv
<1> SUFFICES ASSUME NativeInit PROVE NativeInv
  OBVIOUS
<1>1. FreezeInv
  <2>1. 1 \in 1..Len(Images)
    BY ImagesAssumption DEF ImagesAssumption
  <2>2. freeze \in FreezeType
    BY <2>1 DEF NativeInit, FreezeType
  <2>3. QED  BY <2>2 DEF NativeInit, FreezeInv
<1>2. PlaceInv
  BY DEF NativeInit, PlaceInv, ScriptType, ProofType, PassedSets, NoScript, Paths
<1>3. IsolationInv /\ PassedInv /\ AcceptedInv
  BY DEF NativeInit, IsolationInv, PassedInv, AcceptedInv, NoScript
<1>4. QED  BY <1>1, <1>2, <1>3 DEF NativeInv

\* The first job: each of its steps, on what it knows so far.
LEMMA BrokenKeeps ==
  ASSUME FreezeInv, Broken, registry' = registry, freeze.pc \notin {"classify", "over"}
  PROVE  FreezeInv'
<1>1. PICK publish \in {"skipped", "failure"} :
        freeze' = [freeze EXCEPT !.pc = "classify", !.publish = publish]
  BY DEF Broken, FreezeInv, FreezeType
<1>2. QED  BY <1>1 DEF FreezeInv, FreezeType

LEMMA StageKeeps ==
  ASSUME FreezeInv, NEW from, NEW to \in {"native", "inputs", "wheels", "context", "build", "push"},
         from \notin {"classify", "over"}, Stage(from, to)
  PROVE  FreezeInv'
<1>1. freeze \in FreezeType /\ freeze.pc = from /\ registry' = registry /\ freeze.publish # "success"
  BY DEF FreezeInv, Stage
<1>2. CASE Broken
  BY <1>1, <1>2, BrokenKeeps
<1>3. CASE freeze' = [freeze EXCEPT !.pc = to]
  BY <1>1, <1>3 DEF FreezeInv, FreezeType
<1>4. QED  BY <1>2, <1>3 DEF Stage

LEMMA FreezeKeeps == ASSUME FreezeInv, FreezeStep PROVE FreezeInv'
<1>1. freeze \in FreezeType
  BY DEF FreezeInv
<1>2. CASE Preparation \/ Build
  BY <1>2, StageKeeps DEF Preparation, ValidateSpec, AssertNative, ConsumedInputs, SealWheelhouse,
                          MaterializeContext, Build
<1>3. CASE PushImage
  <2>1. Image \in AllImages /\ freeze.pc = "push"
    BY <1>1, <1>3, ImagesAssumption DEF ImagesAssumption, Image, AllImages, FreezeType, PushImage
  <2>2. PICK i \in AllImages : i = Image
    BY <2>1
  <2>3. PICK pc \in {"identify", "classify"}, publish \in {"skipped", "failure"} :
          freeze' = [freeze EXCEPT !.pc = pc, !.publish = publish, !.logs = @ \cup {i}]
    <3>1. CASE freeze' = [freeze EXCEPT !.pc = "identify", !.logs = @ \cup {i}]
      <4>1. freeze' = [freeze EXCEPT !.pc = "identify", !.publish = freeze.publish, !.logs = @ \cup {i}]
        BY <1>1, <3>1 DEF FreezeType
      <4>2. freeze.publish \in {"skipped", "failure"}
        BY <1>1, <2>1 DEF FreezeInv, FreezeType
      <4>3. QED  BY <4>1, <4>2
    <3>2. CASE freeze' = [freeze EXCEPT !.pc = "classify", !.publish = "failure", !.logs = @ \cup {i}]
      BY <3>2
    <3>3. QED  BY <1>3, <2>2, <3>1, <3>2 DEF PushImage
  <2>4. registry' \in {registry, registry \cup {i}}
    BY <1>3, <2>2 DEF PushImage
  <2>5. freeze' \in FreezeType /\ freeze'.pc = pc /\ freeze'.publish = publish
        /\ freeze'.logs = freeze.logs \cup {i} /\ freeze'.identities = freeze.identities
    BY <1>1, <2>3 DEF FreezeType
  <2>6. QED  BY <2>4, <2>5 DEF FreezeInv
<1>4. CASE Identify
  <2>1. registry' = registry /\ freeze.pc = "identify"
    BY <1>4 DEF Identify
  <2>2. CASE Broken
    BY <2>1, <2>2, BrokenKeeps
  <2>3. CASE ~Broken
    <3>1. Image \in registry
      BY <1>4, <2>3 DEF Identify
    <3>2. PICK i : i = Image
      OBVIOUS
    <3>3. PICK pc \in {"build", "compose"}, at \in 1..Len(Images) :
            freeze' = [freeze EXCEPT !.pc = pc, !.at = at, !.identities = @ \cup {i}]
      <4>1. CASE freeze.at < Len(Images)
        <5>1. freeze.at + 1 \in 1..Len(Images)
          BY <1>1, <4>1, ImagesAssumption DEF ImagesAssumption, FreezeType
        <5>2. freeze' = [freeze EXCEPT !.pc = "build", !.at = freeze.at + 1, !.identities = @ \cup {i}]
          BY <1>4, <2>3, <3>2, <4>1 DEF Identify
        <5>3. QED  BY <5>1, <5>2
      <4>2. CASE ~(freeze.at < Len(Images))
        <5>1. freeze' = [freeze EXCEPT !.pc = "compose", !.identities = @ \cup {i}]
          BY <1>4, <2>3, <3>2, <4>2 DEF Identify
        <5>2. freeze' = [freeze EXCEPT !.pc = "compose", !.at = freeze.at, !.identities = @ \cup {i}]
          BY <1>1, <5>1 DEF FreezeType
        <5>3. freeze.at \in 1..Len(Images)
          BY <1>1 DEF FreezeType
        <5>4. QED  BY <5>2, <5>3
      <4>3. QED  BY <4>1, <4>2
    <3>4. freeze' \in FreezeType /\ freeze'.pc = pc /\ freeze'.publish = freeze.publish
          /\ freeze'.logs = freeze.logs /\ freeze'.identities = freeze.identities \cup {i}
      BY <1>1, <3>1, <3>2, <3>3 DEF FreezeType, FreezeInv
    <3>5. QED  BY <2>1, <3>1, <3>2, <3>4 DEF FreezeInv
  <2>4. QED  BY <2>2, <2>3
<1>5. CASE Compose
  <2>1. registry' = registry /\ freeze.pc = "compose"
    BY <1>5 DEF Compose
  <2>2. CASE Broken
    BY <2>1, <2>2, BrokenKeeps
  <2>3. CASE ~Broken
    <3>1. freeze.identities = AllImages
          /\ freeze' = [freeze EXCEPT !.pc = "classify", !.publish = "success", !.profile = freeze.identities]
      BY <1>5, <2>3 DEF Compose, ProfileIsValid, AllImages
    <3>2. QED  BY <1>1, <2>1, <3>1 DEF FreezeInv, FreezeType
  <2>4. QED  BY <2>2, <2>3
<1>6. CASE Classify
  <2>1. PICK reason \in {"complete", "finish-only", "nothing-published"} :
          /\ freeze' = [freeze EXCEPT !.pc = "over", !.reason = reason]
          /\ reason = IF freeze.publish = "success" THEN "complete"
                      ELSE IF freeze.logs # {} THEN "finish-only" ELSE "nothing-published"
    BY <1>6 DEF Classify
  <2>2. registry' = registry
    BY <1>6 DEF Classify
  <2>3. QED  BY <1>1, <2>1, <2>2 DEF FreezeInv, FreezeType
<1>7. QED
  BY <1>2, <1>3, <1>4, <1>5, <1>6 DEF FreezeStep

\* The scripts, step by step.
LEMMA StepsAre ==
  /\ Len(Isolation) = 12 /\ Len(Smoke) = 3 /\ Len(Negative) = 7
  /\ Isolation[10] = <<"check", "probe">> /\ Isolation[11] = <<"check", "evaluator">>
  /\ Isolation[12] = <<"check", "security">>
  /\ \A i \in 1..12 : Isolation[i][1] = "create" => i < 9
  /\ \A i \in 1..3 : Smoke[i][2] # "networks"
  /\ \A i \in 1..7 : Negative[i][2] # "networks"
<1>1. Len(Isolation) = 12 /\ Len(Smoke) = 3 /\ Len(Negative) = 7
  BY DEF Isolation, Smoke, Negative
<1>2. Isolation[9] = <<"check", "positive control">> /\ Isolation[10] = <<"check", "probe">>
      /\ Isolation[11] = <<"check", "evaluator">> /\ Isolation[12] = <<"check", "security">>
  BY DEF Isolation, Checks
<1>3. ASSUME NEW i \in 1..12, Isolation[i][1] = "create" PROVE i < 9
  <2>1. Isolation[9][1] = "check" /\ Isolation[10][1] = "check" /\ Isolation[11][1] = "check"
        /\ Isolation[12][1] = "check"
    BY DEF Isolation, Checks
  <2>2. i \notin {9, 10, 11, 12}
    BY <1>3, <2>1
  <2>3. QED  BY <2>2
<1>4. ASSUME NEW i \in 1..3 PROVE Smoke[i][2] # "networks"
  BY DEF Smoke, Checks, Creates
<1>5. ASSUME NEW i \in 1..7 PROVE Negative[i][2] # "networks"
  BY DEF Negative, Checks, Creates
<1>6. QED  BY <1>1, <1>2, <1>3, <1>4, <1>5

LEMMA StepsOf ==
  /\ Steps["isolation"] = Isolation /\ Steps["smoke"] = Smoke /\ Steps["negative"] = Negative
  BY DEF Steps

LEMMA ThisStepIs ==
  ASSUME PlaceInv, script.pc = "run"
  PROVE  /\ ThisStep[2] \in Resources
         /\ ThisStep[2] = "networks" => script.name = "isolation"
         /\ script.name = "isolation" =>
              /\ script.at \in 1..12 /\ Len(Steps[script.name]) = 12
              /\ ThisStep[1] = "create" => script.at < 9
              /\ script.at = 10 => ThisStep = <<"check", "probe">>
              /\ script.at = 11 => ThisStep = <<"check", "evaluator">>
              /\ script.at = 12 => ThisStep = <<"check", "security">>
         /\ Len(Steps[script.name]) \in Nat
<1>1. script.name \in {"isolation", "smoke", "negative"} /\ script.at \in 1..Len(Steps[script.name])
  BY DEF PlaceInv, ScriptType
<1>2. ThisStep[2] \in Resources
  BY <1>1 DEF ThisStep, Resources
<1>3. CASE script.name = "isolation"
  <2>1. Steps[script.name] = Isolation /\ ThisStep = Isolation[script.at] /\ script.at \in 1..12
    BY <1>1, <1>3, StepsAre, StepsOf DEF ThisStep
  <2>2. QED  BY <1>2, <1>3, <2>1, StepsAre
<1>4. CASE script.name = "smoke"
  <2>1. Steps[script.name] = Smoke /\ ThisStep = Smoke[script.at] /\ script.at \in 1..3
    BY <1>1, <1>4, StepsAre, StepsOf DEF ThisStep
  <2>2. QED  BY <1>2, <1>4, <2>1, StepsAre
<1>5. CASE script.name = "negative"
  <2>1. Steps[script.name] = Negative /\ ThisStep = Negative[script.at] /\ script.at \in 1..7
    BY <1>1, <1>5, StepsAre, StepsOf DEF ThisStep
  <2>2. QED  BY <1>2, <1>5, <2>1, StepsAre
<1>6. QED  BY <1>1, <1>3, <1>4, <1>5

\* A step that passes and one that raises: where the script is then.
Goes ==
  /\ script' \in ScriptType /\ script'.name = script.name
  /\ \/ script'.pc = "run" /\ script'.at = script.at + 1 /\ ~script'.raised /\ script'.at \in 1..Len(Steps[script.name])
     \/ script'.pc = "remove" /\ ~script'.raised /\ script.at = Len(Steps[script.name])
     \/ script'.pc = "remove" /\ script'.raised
LEMMA ScriptGoes ==
  ASSUME PlaceInv, script.pc = "run", NEW made \in SUBSET Resources,
         script' = [Passed EXCEPT !.created = @ \cup made] \/ script' = [Raised EXCEPT !.created = @ \cup made]
  PROVE  Goes
<1>1. script \in ScriptType /\ ~script.raised /\ script.at \in 1..Len(Steps[script.name])
      /\ Len(Steps[script.name]) \in Nat
  BY ThisStepIs DEF PlaceInv
<1>2. PICK n : n = Len(Steps[script.name])
  OBVIOUS
<1>3. CASE script' = [Raised EXCEPT !.created = @ \cup made]
  BY <1>1, <1>3 DEF Raised, ScriptType, Goes
<1>4. CASE script' = [Passed EXCEPT !.created = @ \cup made] /\ script.at < n
  <2>1. script' = [script EXCEPT !.at = @ + 1, !.created = @ \cup made]
    BY <1>1, <1>2, <1>4 DEF Passed, ScriptType
  <2>2. script.at + 1 \in 1..n /\ script.at + 1 \in Nat
    BY <1>1, <1>2, <1>4
  <2>3. script' \in ScriptType /\ script'.name = script.name /\ script'.pc = "run"
        /\ script'.at = script.at + 1 /\ ~script'.raised
    BY <1>1, <2>1, <2>2 DEF ScriptType, PlaceInv
  <2>4. QED  BY <1>2, <2>2, <2>3 DEF Goes
<1>5. CASE script' = [Passed EXCEPT !.created = @ \cup made] /\ ~(script.at < n)
  <2>1. script' = [script EXCEPT !.at = 1, !.pc = "remove", !.created = @ \cup made]
    BY <1>1, <1>2, <1>5 DEF Passed, ScriptType
  <2>2. script.at = n
    BY <1>1, <1>2, <1>5
  <2>3. script' \in ScriptType /\ script'.name = script.name /\ script'.pc = "remove" /\ ~script'.raised
    BY <1>1, <2>1 DEF ScriptType
  <2>4. QED  BY <1>2, <2>2, <2>3 DEF Goes
<1>6. QED  BY <1>3, <1>4, <1>5

\* Script and networks change, the proof around them does not.
LEMMA ScriptPlace ==
  ASSUME NativeInv, script.pc # "none", ScriptOnly, blocked' \subseteq Paths,
         script' \in ScriptType, script'.name = script.name, script'.pc # "none",
         script'.pc = "run" => script'.at \in 1..Len(Steps[script.name]) /\ ~script'.raised,
         blocked' = blocked \/ script.name = "isolation"
  PROVE  FreezeInv' /\ PlaceInv' /\ PassedInv' /\ AcceptedInv'
<1>1. freeze' = freeze /\ registry' = registry /\ proof' = proof
  BY DEF ScriptOnly
<1>2. FreezeInv'
  BY <1>1 DEF NativeInv, FreezeInv
<1>3. PlaceInv'
  BY <1>1 DEF NativeInv, PlaceInv
<1>4. proof.pc = "scripts" /\ script.name = NextOf(proof.passed)
  BY DEF NativeInv, PlaceInv
<1>5. PassedInv'
  BY <1>1, <1>4 DEF NativeInv, PassedInv, PlaceInv, ProofType, PassedSets, NextOf
<1>6. AcceptedInv'
  BY <1>1, <1>4 DEF AcceptedInv
<1>7. QED  BY <1>2, <1>3, <1>5, <1>6

LEMMA CreateKeeps == ASSUME NativeInv, CreateResource PROVE NativeInv'
<1>1. PlaceInv /\ script.pc = "run" /\ ThisStep[1] = "create" /\ ScriptOnly
  BY DEF CreateResource, NativeInv
<1>2. PICK r \in Resources : r = ThisStep[2]
  BY <1>1, ThisStepIs
<1>3. \/ script' = [Passed EXCEPT !.created = @ \cup {r}]
      \/ script' = [Raised EXCEPT !.created = @ \cup {r}]
      \/ script' = Raised
  BY <1>2 DEF CreateResource
<1>4. Goes
  <2>1. CASE script' = Raised
    <3>1. Raised = [Raised EXCEPT !.created = @ \cup {}]
      BY <1>1 DEF Raised, PlaceInv, ScriptType
    <3>2. {} \in SUBSET Resources
      OBVIOUS
    <3>3. QED  BY <1>1, <2>1, <3>1, <3>2, ScriptGoes
  <2>2. CASE script' # Raised
    <3>1. {r} \in SUBSET Resources
      BY <1>2
    <3>2. QED  BY <1>1, <1>3, <2>2, <3>1, ScriptGoes
  <2>3. QED  BY <2>1, <2>2
<1>5. blocked' \subseteq Paths /\ (blocked' = blocked \/ script.name = "isolation")
  BY <1>1, <1>2, ThisStepIs DEF CreateResource, PlaceInv
<1>6. FreezeInv' /\ PlaceInv' /\ PassedInv' /\ AcceptedInv'
  BY <1>1, <1>4, <1>5, ScriptPlace DEF Goes
<1>7. IsolationInv'
  <2>1. script.name = "isolation" => script.at \in 1..8 /\ Len(Steps[script.name]) = 12
    BY <1>1, ThisStepIs
  <2>2. CASE script'.pc = "run"
    <3>1. script.name = "isolation" => script'.at \in 2..9
      BY <1>4, <2>1, <2>2 DEF Goes
    <3>2. QED  BY <1>4, <2>2, <3>1 DEF Goes, IsolationInv
  <2>3. CASE script'.pc # "run"
    <3>1. ASSUME script.name = "isolation", ~script'.raised PROVE FALSE
      <4>1. script.at = 12
        BY <1>4, <2>1, <2>3, <3>1 DEF Goes
      <4>2. QED  BY <2>1, <3>1, <4>1
    <3>2. QED  BY <1>4, <2>3, <3>1 DEF Goes, IsolationInv
  <2>4. QED  BY <2>2, <2>3
<1>8. QED  BY <1>6, <1>7 DEF NativeInv

LEMMA CheckKeeps == ASSUME NativeInv, CheckStep PROVE NativeInv'
<1>1. PlaceInv /\ script.pc = "run" /\ ScriptOnly /\ blocked' = blocked
  BY DEF CheckStep, NativeInv
<1>2. script' = Raised \/ (script' = Passed /\ AsExpected(ThisStep[2]))
  BY DEF CheckStep
<1>3. Goes
  <2>1. Raised = [Raised EXCEPT !.created = @ \cup {}] /\ Passed = [Passed EXCEPT !.created = @ \cup {}]
    BY <1>1 DEF Raised, Passed, PlaceInv, ScriptType
  <2>2. {} \in SUBSET Resources
    OBVIOUS
  <2>3. QED  BY <1>1, <1>2, <2>1, <2>2, ScriptGoes
<1>4. FreezeInv' /\ PlaceInv' /\ PassedInv' /\ AcceptedInv'
  BY <1>1, <1>3, ScriptPlace DEF Goes, PlaceInv
<1>5. script'.pc = "run" => alive' = alive
  BY DEF CheckStep, Running
<1>6. script'.pc = "run" \/ ~script'.raised => AsExpected(ThisStep[2])
  BY <1>1, <1>2 DEF Raised, PlaceInv, ScriptType
<1>7. ASSUME script.name = "isolation" PROVE IsolationInv'
  <2>1. script.at \in 1..12 /\ Len(Steps[script.name]) = 12
    BY <1>1, <1>7, ThisStepIs
  <2>2. script.at = 10 /\ AsExpected(ThisStep[2]) => Refused("candidate-control", "control")
    BY <1>1, <1>7, ThisStepIs DEF AsExpected, Probe
  <2>3. script.at = 11 /\ AsExpected(ThisStep[2]) => Refused("evaluator-app", "app")
    BY <1>1, <1>7, ThisStepIs DEF AsExpected, EvaluatorCheck
  <2>4. script.at = 12 /\ AsExpected(ThisStep[2]) => Services \subseteq alive
    BY <1>1, <1>7, ThisStepIs DEF AsExpected, Security
  <2>5. /\ script.at > 10 => Refused("candidate-control", "control")
        /\ script.at > 11 => Refused("evaluator-app", "app")
    BY <1>1, <1>7 DEF NativeInv, IsolationInv
  <2>6. CASE script'.pc = "run"
    BY <1>1, <1>3, <1>5, <1>6, <2>1, <2>2, <2>3, <2>5, <2>6 DEF Goes, IsolationInv, Refused
  <2>7. CASE script'.pc # "run"
    <3>1. ~script'.raised => Services \subseteq alive /\ script.at = 12
      BY <1>3, <1>6, <2>1, <2>4, <2>7 DEF Goes
    <3>2. ~script'.raised => "candidate-control" \in blocked /\ "evaluator-app" \in blocked
      BY <2>5, <3>1 DEF Refused, Services
    <3>4. blocked \subseteq {"candidate-control", "evaluator-app"}
      BY <1>1 DEF PlaceInv, Paths
    <3>5. ~script'.raised => blocked = Paths
      BY <3>2, <3>4 DEF Paths
    <3>3. QED  BY <1>1, <2>7, <3>5 DEF IsolationInv
  <2>8. QED  BY <2>6, <2>7
<1>8. IsolationInv'
  BY <1>3, <1>7 DEF IsolationInv, Goes
<1>9. QED  BY <1>4, <1>8 DEF NativeInv

LEMMA DieKeeps == ASSUME NativeInv, NEW s \in Services, Die(s) PROVE NativeInv'
<1>1. UNCHANGED <<freeze, registry, proof, script, docker, blocked>> /\ alive' \subseteq alive
  BY DEF Die, ScriptOnly
<1>2. FreezeInv' /\ PlaceInv' /\ PassedInv' /\ AcceptedInv'
  BY <1>1 DEF NativeInv, FreezeInv, PlaceInv, PassedInv, AcceptedInv
<1>3. IsolationInv'
  BY <1>1 DEF NativeInv, IsolationInv, Refused
<1>4. QED  BY <1>2, <1>3 DEF NativeInv

\* The removal, and its read back, keep what was found out.
LEMMA EndingKeeps ==
  ASSUME NativeInv, script.pc \in {"remove", "readback"}, ScriptOnly, blocked' = blocked,
         script' \in ScriptType, script'.name = script.name, script'.pc \in {"remove", "readback", "over"},
         script.raised => script'.raised
  PROVE  NativeInv'
<1>1. FreezeInv' /\ PlaceInv' /\ PassedInv' /\ AcceptedInv'
  BY ScriptPlace DEF NativeInv, PlaceInv
<1>2. IsolationInv'
  BY DEF NativeInv, IsolationInv, PlaceInv, ScriptType
<1>3. QED  BY <1>1, <1>2 DEF NativeInv

LEMMA RemoveKeeps == ASSUME NativeInv, RemoveStep \/ Readback PROVE NativeInv'
<1>1. script \in ScriptType /\ script.pc \in {"remove", "readback"} /\ ScriptOnly /\ blocked' = blocked
  BY DEF NativeInv, PlaceInv, RemoveStep, Readback
<1>2. CASE Aborted
  <2>1. script' = [script EXCEPT !.pc = "over", !.raised = TRUE]
    BY <1>2 DEF Aborted
  <2>2. QED  BY <1>1, <2>1, EndingKeeps DEF ScriptType
<1>3. CASE RemoveStep /\ ~Aborted
  <2>1. CASE script.at > Len(Removing)
    <3>1. script' = [script EXCEPT !.pc = "readback"]
      BY <1>3, <2>1 DEF RemoveStep
    <3>2. QED  BY <1>1, <3>1, EndingKeeps DEF ScriptType
  <2>2. CASE ~(script.at > Len(Removing))
    <3>1. PICK failed \in BOOLEAN : script' = [script EXCEPT !.at = @ + 1, !.errors = @ \/ failed]
      BY <1>3, <2>2 DEF RemoveStep, Strict
    <3>2. PICK errors \in BOOLEAN : script' = [script EXCEPT !.at = @ + 1, !.errors = errors]
      BY <1>1, <3>1 DEF ScriptType
    <3>3. script.pc = "remove"
      BY <1>3 DEF RemoveStep
    <3>4. PICK n \in Nat : n = script.at + 1
      BY <1>1 DEF ScriptType
    <3>5. script' = [script EXCEPT !.at = n, !.errors = errors]
      BY <3>2, <3>4
    <3>6. script' \in ScriptType /\ script'.name = script.name /\ script'.pc = "remove"
          /\ script'.raised = script.raised
      BY <1>1, <3>3, <3>5 DEF ScriptType
    <3>7. QED  BY <1>1, <3>6, EndingKeeps
  <2>3. QED  BY <2>1, <2>2
<1>4. CASE Readback /\ ~Aborted
  <2>1. PICK seen : script' = [script EXCEPT !.pc = "over", !.raised = @ \/ script.errors \/ seen # {}]
    BY <1>4 DEF Readback
  <2>2. PICK raised : raised = (script.raised \/ script.errors \/ seen # {})
    OBVIOUS
  <2>3. raised \in BOOLEAN /\ (script.raised => raised)
    BY <2>2
  <2>4. script' = [script EXCEPT !.pc = "over", !.raised = raised]
    BY <2>1, <2>2
  <2>5. QED  BY <1>1, <2>3, <2>4, EndingKeeps DEF ScriptType
<1>5. QED  BY <1>2, <1>3, <1>4

\* How many scripts have passed tells which one is next.
LEMMA CountPassed ==
  /\ Cardinality({}) = 0 /\ Cardinality({"isolation"}) = 1
  /\ Cardinality({"isolation", "smoke"}) = 2
  /\ Cardinality({"isolation", "smoke", "negative"}) = 3
<1>1. IsFiniteSet({}) /\ Cardinality({}) = 0
  BY FS_EmptySet
<1>2. IsFiniteSet({"isolation"}) /\ Cardinality({"isolation"}) = 1
  BY FS_Singleton
<1>3. IsFiniteSet({"isolation"} \cup {"smoke"}) /\ Cardinality({"isolation"} \cup {"smoke"}) = 2
  BY <1>2, FS_AddElement
<1>4. {"isolation"} \cup {"smoke"} = {"isolation", "smoke"}
      /\ {"isolation", "smoke"} \cup {"negative"} = {"isolation", "smoke", "negative"}
  OBVIOUS
<1>5. Cardinality({"isolation", "smoke"} \cup {"negative"}) = 3
  BY <1>3, <1>4, FS_AddElement
<1>6. QED  BY <1>1, <1>2, <1>3, <1>4, <1>5

LEMMA StartScriptKeeps == ASSUME NativeInv, StartScript PROVE NativeInv'
<1>1. PICK name : name = Scripts[Cardinality(proof.passed) + 1]
  OBVIOUS
<1>2. script' = [NoScript EXCEPT !.name = name, !.pc = "run"]
      /\ UNCHANGED <<proof, freeze, registry, docker, alive, blocked>>
      /\ proof.pc = "scripts" /\ Cardinality(proof.passed) < 3
  BY <1>1 DEF StartScript, ProofOnly, Scripts
<1>3. name = NextOf(proof.passed) /\ name \in {"isolation", "smoke", "negative"}
  <2>1. proof.passed \in PassedSets
    BY DEF NativeInv, PlaceInv, ProofType
  <2>2. CASE proof.passed = {}
    BY <1>1, <2>2, CountPassed DEF Scripts, NextOf
  <2>3. CASE proof.passed = {"isolation"}
    BY <1>1, <2>3, CountPassed DEF Scripts, NextOf
  <2>4. CASE proof.passed = {"isolation", "smoke"}
    BY <1>1, <2>4, CountPassed DEF Scripts, NextOf
  <2>5. proof.passed # {"isolation", "smoke", "negative"}
    BY <1>2, CountPassed
  <2>6. QED  BY <2>1, <2>2, <2>3, <2>4, <2>5 DEF PassedSets
<1>4. script' \in ScriptType /\ script'.pc = "run" /\ script'.name = name /\ script'.at = 1 /\ ~script'.raised
  BY <1>2, <1>3 DEF NoScript, ScriptType
<1>5. 1 \in 1..Len(Steps[name])
  <2>1. CASE name = "isolation"
    <3>1. Steps[name] = Isolation
      BY <2>1, StepsOf
    <3>2. QED  BY <3>1, StepsAre
  <2>2. CASE name = "smoke"
    <3>1. Steps[name] = Smoke
      BY <2>2, StepsOf
    <3>2. QED  BY <3>1, StepsAre
  <2>3. CASE name = "negative"
    <3>1. Steps[name] = Negative
      BY <2>3, StepsOf
    <3>2. QED  BY <3>1, StepsAre
  <2>4. QED  BY <1>3, <2>1, <2>2, <2>3
<1>6. PlaceInv'
  BY <1>2, <1>3, <1>4, <1>5 DEF NativeInv, PlaceInv
<1>7. FreezeInv' /\ PassedInv' /\ AcceptedInv'
  BY <1>2 DEF NativeInv, FreezeInv, PassedInv, AcceptedInv
<1>8. IsolationInv'
  BY <1>4 DEF IsolationInv
<1>9. QED  BY <1>6, <1>7, <1>8 DEF NativeInv

\* The proof changes where no script runs.
LEMMA ProofKeeps ==
  ASSUME NativeInv, ProofOnly, script'.pc = "none", script' \in ScriptType, proof' \in ProofType,
         "isolation" \in proof'.passed => blocked = Paths,
         proof'.pc = "accepted" => docker = {} \/ proof.pc = "accepted"
  PROVE  NativeInv'
<1>1. UNCHANGED <<freeze, registry, docker, alive, blocked>>
  BY DEF ProofOnly
<1>2. FreezeInv' /\ PassedInv' /\ AcceptedInv' /\ PlaceInv' /\ IsolationInv'
  BY <1>1 DEF NativeInv, FreezeInv, PassedInv, AcceptedInv, PlaceInv, IsolationInv
<1>3. QED  BY <1>2 DEF NativeInv

LEMMA PullKeeps == ASSUME NativeInv, Pull PROVE NativeInv'
<1>1. proof \in ProofType /\ script' = script /\ script \in ScriptType /\ ProofOnly /\ proof.pc = "waiting"
  BY DEF NativeInv, PlaceInv, Pull
<1>2. script.pc = "none"
  BY <1>1 DEF NativeInv, PlaceInv, ScriptType
<1>3. proof' \in ProofType /\ proof'.passed = proof.passed /\ proof'.pc # "accepted"
  <2>1. CASE Failed
    BY <1>1, <2>1 DEF Failed, ProofType
  <2>2. CASE proof' = [proof EXCEPT !.pc = "scripts", !.pulled = freeze.profile]
    BY <1>1, <2>2 DEF ProofType, NativeInv, FreezeInv, FreezeType
  <2>3. QED  BY <2>1, <2>2 DEF Pull
<1>4. QED  BY <1>1, <1>2, <1>3, ProofKeeps DEF NativeInv, PassedInv

LEMMA EndScriptKeeps == ASSUME NativeInv, EndScript PROVE NativeInv'
<1>1. script.pc = "over" /\ script' = NoScript /\ ProofOnly /\ script \in ScriptType /\ proof \in ProofType
  BY DEF EndScript, NativeInv, PlaceInv
<1>2. script'.pc = "none" /\ script' \in ScriptType
  BY <1>1 DEF NoScript, ScriptType
<1>3. proof.pc = "scripts" /\ script.name = NextOf(proof.passed) /\ script.name # "none"
  BY <1>1 DEF NativeInv, PlaceInv
<1>4. CASE script.raised
  <2>1. proof' = [proof EXCEPT !.pc = "rejected"]
    BY <1>4 DEF EndScript, Failed
  <2>2. QED  BY <1>1, <1>2, <2>1, ProofKeeps DEF ProofType, NativeInv, PassedInv
<1>5. CASE ~script.raised
  <2>1. PICK passed : passed = proof.passed \cup {script.name}
    OBVIOUS
  <2>2. proof' = [proof EXCEPT !.passed = passed]
    BY <1>5, <2>1 DEF EndScript
  <2>3. passed \in PassedSets
    BY <1>1, <1>3, <2>1 DEF PassedSets, NextOf, ProofType
  <2>4. "isolation" \in passed => blocked = Paths
    BY <1>1, <1>5, <2>1 DEF NativeInv, PassedInv, IsolationInv
  <2>5. QED  BY <1>1, <1>2, <1>3, <2>2, <2>3, <2>4, ProofKeeps DEF ProofType
<1>6. QED  BY <1>4, <1>5

LEMMA CompareKeeps == ASSUME NativeInv, Compare PROVE NativeInv'
<1>1. proof \in ProofType /\ script' = script /\ script \in ScriptType /\ ProofOnly /\ script = NoScript
  BY DEF NativeInv, PlaceInv, Compare
<1>2. script'.pc = "none"
  BY <1>1 DEF NoScript
<1>3. CASE docker = {}
  <2>1. proof' = [proof EXCEPT !.pc = "accepted"]
    BY <1>3 DEF Compare
  <2>2. QED  BY <1>1, <1>2, <1>3, <2>1, ProofKeeps DEF ProofType, NativeInv, PassedInv
<1>4. CASE docker # {}
  <2>1. proof' = [proof EXCEPT !.pc = "rejected"]
    BY <1>4 DEF Compare, Failed
  <2>2. QED  BY <1>1, <1>2, <2>1, ProofKeeps DEF ProofType, NativeInv, PassedInv
<1>5. QED  BY <1>3, <1>4

LEMMA NativeSteps == NativeInv /\ [NativeNext]_native => NativeInv'
<1> SUFFICES ASSUME NativeInv, [NativeNext]_native PROVE NativeInv'
  OBVIOUS
<1>1. CASE FreezeStep
  <2>1. FreezeInv'
    BY <1>1, FreezeKeeps DEF NativeInv
  <2>2. UNCHANGED <<proof, script, docker, alive, blocked>>
    BY <1>1 DEF FreezeStep, Preparation, ValidateSpec, AssertNative, ConsumedInputs, SealWheelhouse,
                MaterializeContext, Build, Stage, PushImage, Identify, Compose, Classify, FreezeOnly
  <2>3. PlaceInv' /\ IsolationInv' /\ PassedInv' /\ AcceptedInv'
    BY <2>2 DEF NativeInv, PlaceInv, IsolationInv, PassedInv, AcceptedInv, Refused
  <2>4. QED  BY <2>1, <2>3 DEF NativeInv
<1>2. CASE UNCHANGED native
  BY <1>2 DEF native, NativeInv, FreezeInv, PlaceInv, IsolationInv, PassedInv, AcceptedInv, Refused
<1>3. QED
  BY <1>1, <1>2, CreateKeeps, CheckKeeps, DieKeeps, RemoveKeeps, PullKeeps, StartScriptKeeps,
     EndScriptKeeps, CompareKeeps
     DEF NativeNext, ScriptStep

LEMMA TrueByInv == NativeInv => ProofIsTrue
  BY DEF NativeInv, FreezeInv, PassedInv, AcceptedInv, ProofIsTrue, FreezeIsClassified

\* Whatever fails, at whatever step and however many images there are: what may
\* have been published is not taken for a failure before; an accepted proof has
\* left Docker as it was; and where the isolation check has passed, the networks
\* block what they must, whichever services exited meanwhile.
THEOREM ProofsAreTrue == NativeSpec => []ProofIsTrue
  BY NativeStarts, NativeSteps, TrueByInv, PTL DEF NativeSpec

-----------------------------------------------------------------------------
(***************************************************************************)
(* The intake.                                                             *)
(***************************************************************************)
PullType == [head : Heads, branch : Branches, target : {"main", "other"}, open : BOOLEAN, base : Nat]
CommitType == [stale : SUBSET Bound, dockerfile : Nat]

DocumentType == [pull : Pulls, head : Heads, branch : Branches, base : Nat, commit : Nat]
ManifestType == [pull : Pulls, head : Heads, base : Nat, dockerfile : Nat]
AtWork == {"lookup", "resolve", "plan", "bind", "recheck", "fetch", "create", "measure", "remove", "write"}
JobType ==
  [pc : AtWork \cup Over \cup {"none"}, commit : Nat, branch : Branches \cup {"none"},
   head : Heads \cup {"none"}, answer : [Pulls -> PullType] \cup {<<>>},
   intake : DocumentType \cup {NotWritten}, plan : DocumentType \cup {NotWritten},
   manifest : ManifestType \cup {NotWritten}, context : {"absent", "present"},
   failing : BOOLEAN, unremoved : BOOLEAN]

WorldTypeOK ==
  /\ main \in Seq(CommitType) /\ main # <<>> /\ pulls \in [Pulls -> PullType]
  /\ pushed \subseteq [branch : Branches, head : Heads]

\* The steps after the pull request was asked for again.
Rechecked == {"fetch", "create", "measure", "remove", "write"}
Known(d) == [pull |-> d.pull, head |-> d.head, branch |-> d.branch, base |-> d.base]

\* A job: its commit is one of main, its documents are about the push it was
\* started for, and each is there when the step that writes it is over.
JobInv(rec, cur) ==
  /\ rec \in JobType
  /\ rec.pc # "none" => rec.commit \in 1..Len(main)
  /\ rec.pc = "resolve" => rec.answer \in [Pulls -> PullType]
  /\ rec.pc \in Rechecked \cup {"plan", "bind", "recheck"} => rec.intake # NotWritten
  /\ rec.intake # NotWritten => rec.intake.head = rec.head /\ rec.intake.branch = rec.branch
  /\ rec.pc \in Rechecked \cup {"bind", "recheck"} => rec.plan # NotWritten
  /\ rec.plan # NotWritten =>
       rec.pc \notin {"lookup", "resolve", "plan"} /\ rec.plan = rec.intake /\ Now \subseteq cur
  /\ rec.pc \in Rechecked \cup {"recheck"} => main[rec.commit].stale = {}
  /\ rec.pc \in Rechecked => Known(rec.plan) \in cur
  /\ rec.pc \in Rechecked \ {"fetch"} => Taken(rec.plan.head)
  /\ rec.manifest # NotWritten => rec.pc = "done" /\ rec.plan # NotWritten
  /\ rec.context = "present" => rec.pc \in {"measure", "remove", "killed"} \/ rec.unremoved

\* What the manifest of a job says.
ManifestInv(rec, cur) ==
  rec.manifest # NotWritten =>
    /\ rec.manifest.head = rec.head /\ Source[rec.head] = "plain"
    /\ main[rec.commit].stale = {} /\ rec.manifest.dockerfile = main[rec.commit].dockerfile
    /\ \E i \in cur : /\ i.branch = rec.branch
                      /\ \A f \in {"pull", "head", "base"} : rec.manifest[f] = i[f]

IntakeInv ==
  /\ WorldTypeOK
  /\ job \in [Jobs -> JobType] /\ DOMAIN current = Jobs
  /\ \A j \in Jobs : JobInv(job[j], current[j]) /\ ManifestInv(job[j], current[j])

\* A document that was written is told from one that was not by its fields.
LEMMA Written == NotWritten \notin DocumentType /\ NotWritten \notin ManifestType
<1>1. DOMAIN NotWritten = {"pull"}
  BY DEF NotWritten
<1>2. \A d \in DocumentType : "head" \in DOMAIN d
  BY DEF DocumentType
<1>3. \A d \in ManifestType : "head" \in DOMAIN d
  BY DEF ManifestType
<1>4. QED  BY <1>1, <1>2, <1>3

LEMMA IntakeStarts == IntakeInit => IntakeInv
<1> SUFFICES ASSUME IntakeInit PROVE IntakeInv
  OBVIOUS
<1>1. WorldTypeOK
  <2>1. main \in Seq(CommitType) /\ main # <<>> /\ pulls \in [Pulls -> PullType]
    BY IntakeAssumption DEF IntakeInit, IntakeAssumption, CommitType, PullType
  <2>2. \A p \in Pulls : [branch |-> FirstPulls[p].branch, head |-> FirstPulls[p].head] \in [branch : Branches, head : Heads]
    BY IntakeAssumption DEF IntakeAssumption
  <2>3. QED  BY <2>1, <2>2 DEF WorldTypeOK, IntakeInit
<1>2. NoJob \in JobType
  BY DEF NoJob, JobType, Over
<1>3. job \in [Jobs -> JobType] /\ DOMAIN current = Jobs
  BY <1>2 DEF IntakeInit
<1>4. \A j \in Jobs : JobInv(job[j], current[j]) /\ ManifestInv(job[j], current[j])
  BY <1>2 DEF IntakeInit, JobInv, ManifestInv, NoJob, Rechecked
<1>5. QED  BY <1>1, <1>3, <1>4 DEF IntakeInv

\* One job goes on, and the world stays as it is.
LEMMA GoKeeps ==
  ASSUME IntakeInv, NEW j \in Jobs, NEW rec, Go(j, rec),
         JobInv(rec, current[j]), ManifestInv(rec, current[j])
  PROVE  IntakeInv'
<1>1. UNCHANGED <<pulls, pushed, main, current>> /\ job' = [job EXCEPT ![j] = rec]
  BY DEF Go, world
<1>2. rec \in JobType
  BY DEF JobInv
<1>3. WorldTypeOK' /\ job' \in [Jobs -> JobType] /\ DOMAIN current' = Jobs
  BY <1>1, <1>2 DEF IntakeInv, WorldTypeOK
<1>4. Now' = Now
  BY <1>1 DEF Now, Identity, Eligible
<1>5. ASSUME NEW k \in Jobs PROVE (JobInv(job[k], current[k]) /\ ManifestInv(job[k], current[k]))'
  <2>1. PICK r : r = job'[k]
    OBVIOUS
  <2>2. JobInv(r, current[k]) /\ ManifestInv(r, current[k])
    BY <1>1, <2>1 DEF IntakeInv
  <2>3. QED  BY <1>1, <1>4, <2>1, <2>2 DEF JobInv, ManifestInv
<1>6. QED  BY <1>3, <1>5 DEF IntakeInv

LEMMA FailKeeps ==
  ASSUME IntakeInv, NEW j \in Jobs, Fail(j), job[j].pc \in AtWork,
         job[j].context = "present" => job[j].unremoved
  PROVE  IntakeInv'
<1>1. PICK rec : rec = [job[j] EXCEPT !.pc = "failed"]
  OBVIOUS
<1>2. JobInv(job[j], current[j])
  BY DEF IntakeInv
<1>3. JobInv(rec, current[j]) /\ ManifestInv(rec, current[j])
  BY <1>1, <1>2 DEF JobInv, ManifestInv, JobType, AtWork, Over, Rechecked
<1>4. QED  BY <1>1, <1>3, GoKeeps DEF Fail

\* GitHub moves, and no commit of main goes.
LEMMA MoveKeeps ==
  ASSUME IntakeInv, Move, WorldTypeOK',
         Len(main) <= Len(main'), \A i \in 1..Len(main) : main'[i] = main[i]
  PROVE  IntakeInv'
<1>1. job' = job
  BY DEF Move
<1>2. current' = [j \in Jobs |-> IF job[j].plan # NotWritten THEN current[j] \cup Now' ELSE {}]
  BY DEF Move
<1>3. ASSUME NEW k \in Jobs PROVE (JobInv(job[k], current[k]) /\ ManifestInv(job[k], current[k]))'
  <2>1. PICK r : r = job[k]
    OBVIOUS
  <2>2. JobInv(r, current[k]) /\ ManifestInv(r, current[k])
    BY <2>1 DEF IntakeInv
  <2>3. PICK cur : cur = current'[k]
    OBVIOUS
  <2>4. r.plan # NotWritten => current[k] \subseteq cur /\ Now' \subseteq cur
    BY <1>2, <2>1, <2>3
  <2>5. r.pc # "none" => r.commit \in 1..Len(main) /\ r.commit \in 1..Len(main') /\ main'[r.commit] = main[r.commit]
    BY <2>2 DEF JobInv, IntakeInv, WorldTypeOK
  <2>6. JobInv(r, cur)'
    BY <2>2, <2>4, <2>5 DEF JobInv, Rechecked
  <2>7. ManifestInv(r, cur)'
    BY <2>2, <2>4, <2>5 DEF JobInv, ManifestInv
  <2>8. QED  BY <1>1, <2>1, <2>3, <2>6, <2>7
<1>4. QED  BY <1>1, <1>2, <1>3 DEF IntakeInv

LEMMA GitHubKeeps == ASSUME IntakeInv, GitHub PROVE IntakeInv'
<1>1. WorldTypeOK
  BY DEF IntakeInv
<1>2. ASSUME NEW b \in Branches, NEW h \in Heads, Push(b, h) PROVE IntakeInv'
  <2>1. main' = main /\ Move
    BY <1>2 DEF Push
  <2>2. \A p \in Pulls : [pulls[p] EXCEPT !.head = h] \in PullType
    BY <1>1 DEF WorldTypeOK, PullType
  <2>3. pulls' \in [Pulls -> PullType]
    BY <1>1, <1>2, <2>2 DEF Push, WorldTypeOK
  <2>4. pushed' \subseteq [branch : Branches, head : Heads]
    BY <1>1, <1>2 DEF Push, WorldTypeOK
  <2>5. WorldTypeOK'
    BY <1>1, <2>1, <2>3, <2>4 DEF WorldTypeOK
  <2>6. Len(main) <= Len(main')
    BY <1>1, <2>1 DEF WorldTypeOK
  <2>7. QED  BY <2>1, <2>5, <2>6, MoveKeeps
<1>3. ASSUME NEW p \in Pulls, Change(p) PROVE IntakeInv'
  <2>1. UNCHANGED <<pushed, main>> /\ Move
    BY <1>3 DEF Change
  <2>2. Len(main) \in Nat
    BY <1>1 DEF WorldTypeOK
  <2>3. pulls' \in [Pulls -> PullType]
    <3>1. pulls \in [Pulls -> PullType] /\ pulls[p] \in PullType
      BY <1>1 DEF WorldTypeOK
    <3>2. /\ [pulls[p] EXCEPT !.open = FALSE] \in PullType
          /\ [pulls[p] EXCEPT !.open = TRUE] \in PullType
          /\ \A t \in {"main", "other"} : [pulls[p] EXCEPT !.target = t] \in PullType
          /\ [pulls[p] EXCEPT !.base = Len(main)] \in PullType
      BY <2>2, <3>1 DEF PullType
    <3>3. PICK v \in PullType : pulls' = [pulls EXCEPT ![p] = v]
      BY <1>3, <3>2 DEF Change
    <3>4. QED  BY <3>1, <3>3
  <2>4. WorldTypeOK'
    BY <1>1, <2>1, <2>3 DEF WorldTypeOK
  <2>5. QED  BY <1>1, <2>1, <2>2, <2>4, MoveKeeps
<1>4. ASSUME NEW stale \in SUBSET Bound, Merge(stale) PROVE IntakeInv'
  <2>1. UNCHANGED <<pulls, pushed>> /\ Move
    BY <1>4 DEF Merge
  <2>2. main \in Seq(CommitType) /\ Len(main) \in Nat
    BY <1>1 DEF WorldTypeOK
  <2>3. PICK c \in CommitType : main' = Append(main, c)
    BY <1>4, <2>2 DEF Merge, CommitType
  <2>4. main' \in Seq(CommitType) /\ Len(main') = Len(main) + 1
        /\ \A i \in 1..Len(main) : main'[i] = main[i]
    BY <2>2, <2>3
  <2>5. WorldTypeOK'
    BY <1>1, <2>1, <2>2, <2>4 DEF WorldTypeOK
  <2>6. QED  BY <2>1, <2>2, <2>4, <2>5, MoveKeeps
<1>5. QED  BY <1>2, <1>3, <1>4 DEF GitHub

LEMMA TriggerKeeps == ASSUME IntakeInv, NEW j \in Jobs, Trigger(j) PROVE IntakeInv'
<1>1. PICK e \in pushed :
        job' = [job EXCEPT ![j] = [NoJob EXCEPT !.pc = "lookup", !.commit = Len(main),
                                                !.branch = e.branch, !.head = e.head]]
  BY DEF Trigger
<1>2. PICK rec : rec = [NoJob EXCEPT !.pc = "lookup", !.commit = Len(main),
                                     !.branch = e.branch, !.head = e.head]
  OBVIOUS
<1>3. e.branch \in Branches /\ e.head \in Heads /\ Len(main) \in Nat /\ Len(main) \in 1..Len(main)
  BY DEF IntakeInv, WorldTypeOK
<1>4. JobInv(rec, current[j]) /\ ManifestInv(rec, current[j])
  BY <1>2, <1>3 DEF JobInv, ManifestInv, NoJob, JobType, AtWork, Over, Rechecked
<1>5. QED  BY <1>1, <1>2, <1>4, GoKeeps DEF Trigger, Go

LEMMA LookupKeeps == ASSUME IntakeInv, NEW j \in Jobs, Lookup(j) PROVE IntakeInv'
<1>1. JobInv(job[j], current[j]) /\ pulls \in [Pulls -> PullType]
  BY DEF IntakeInv, WorldTypeOK
<1>2. CASE Fail(j)
  BY <1>1, <1>2, FailKeeps DEF Lookup, JobInv, AtWork
<1>3. CASE Go(j, [job[j] EXCEPT !.pc = "resolve", !.answer = pulls])
  <2>1. PICK rec : rec = [job[j] EXCEPT !.pc = "resolve", !.answer = pulls]
    OBVIOUS
  <2>2. JobInv(rec, current[j]) /\ ManifestInv(rec, current[j])
    BY <1>1, <2>1 DEF JobInv, ManifestInv, JobType, AtWork, Over, Rechecked, Lookup
  <2>3. QED  BY <1>3, <2>1, <2>2, GoKeeps
<1>4. QED  BY <1>2, <1>3 DEF Lookup, Unanswered

LEMMA ResolveKeeps == ASSUME IntakeInv, NEW j \in Jobs, Resolve(j) PROVE IntakeInv'
<1>1. JobInv(job[j], current[j]) /\ job[j].pc = "resolve" /\ job[j] \in JobType
  BY DEF IntakeInv, JobInv, Resolve
<1>2. CASE Fail(j)
  BY <1>1, <1>2, FailKeeps DEF JobInv, AtWork
<1>3. CASE ~Fail(j)
  <2>1. PICK p \in Matches(j) :
          Go(j, [job[j] EXCEPT !.pc = "plan",
                   !.intake = Resolved(Identity(job[j].answer, p), job[j].commit)])
    BY <1>3 DEF Resolve
  <2>2. PICK d : d = Resolved(Identity(job[j].answer, p), job[j].commit)
    OBVIOUS
  <2>3. job[j].answer \in [Pulls -> PullType] /\ job[j].commit \in Nat
    BY <1>1 DEF JobInv, JobType
  <2>4. d \in DocumentType /\ d.head = job[j].head /\ d.branch = job[j].branch
    BY <2>1, <2>2, <2>3 DEF Resolved, Identity, DocumentType, PullType, Matches
  <2>5. PICK rec : rec = [job[j] EXCEPT !.pc = "plan", !.intake = d]
    OBVIOUS
  <2>6. job[j].plan = NotWritten
    BY <1>1 DEF JobInv
  <2>7. JobInv(rec, current[j]) /\ ManifestInv(rec, current[j])
    BY <1>1, <2>4, <2>5, <2>6, Written DEF JobInv, ManifestInv, JobType, AtWork, Over, Rechecked
  <2>8. QED  BY <2>1, <2>2, <2>5, <2>7, GoKeeps
<1>4. QED  BY <1>2, <1>3

LEMMA PlanKeeps == ASSUME IntakeInv, NEW j \in Jobs, Plan(j) PROVE IntakeInv'
<1>1. JobInv(job[j], current[j]) /\ job[j].pc = "plan"
  BY DEF IntakeInv, Plan
<1>2. CASE Fail(j)
  BY <1>1, <1>2, FailKeeps DEF JobInv, AtWork
<1>3. CASE ~Fail(j)
  <2>1. PICK rec : rec = [job[j] EXCEPT !.pc = "bind", !.plan = job[j].intake]
    OBVIOUS
  <2>2. job' = [job EXCEPT ![j] = rec] /\ current' = [current EXCEPT ![j] = Now]
        /\ UNCHANGED <<pulls, pushed, main>>
    BY <1>3, <2>1 DEF Plan, world, IntakeInv
  <2>3. rec \in JobType /\ job[j] \in JobType
    BY <1>1, <2>1 DEF JobInv, JobType, AtWork
  <2>4. JobInv(rec, Now) /\ ManifestInv(rec, Now)
    BY <1>1, <2>1, <2>3 DEF JobInv, ManifestInv, JobType, Rechecked
  <2>5. Now' = Now
    BY <2>2 DEF Now, Identity, Eligible
  <2>6. WorldTypeOK' /\ job' \in [Jobs -> JobType] /\ DOMAIN current' = Jobs
    BY <2>2, <2>3 DEF IntakeInv, WorldTypeOK
  <2>7. ASSUME NEW k \in Jobs PROVE (JobInv(job[k], current[k]) /\ ManifestInv(job[k], current[k]))'
    <3>1. PICK r : r = job'[k]
      OBVIOUS
    <3>2. PICK cur : cur = current'[k]
      OBVIOUS
    <3>3. JobInv(r, cur) /\ ManifestInv(r, cur)
      BY <2>2, <2>4, <3>1, <3>2 DEF IntakeInv
    <3>4. QED  BY <2>2, <2>5, <3>1, <3>2, <3>3 DEF JobInv, ManifestInv
  <2>8. QED  BY <2>6, <2>7 DEF IntakeInv
<1>4. QED  BY <1>2, <1>3

LEMMA BindKeeps == ASSUME IntakeInv, NEW j \in Jobs, Bind(j) PROVE IntakeInv'
<1>1. JobInv(job[j], current[j]) /\ job[j].pc = "bind"
  BY DEF IntakeInv, Bind
<1>2. CASE Fail(j)
  BY <1>1, <1>2, FailKeeps DEF JobInv, AtWork
<1>3. CASE ~Fail(j)
  <2>1. PICK rec : rec = [job[j] EXCEPT !.pc = "recheck"]
    OBVIOUS
  <2>2. Go(j, rec) /\ main[job[j].commit].stale = {}
    BY <1>3, <2>1 DEF Bind, Trusted
  <2>3. JobInv(rec, current[j]) /\ ManifestInv(rec, current[j])
    BY <1>1, <2>1, <2>2 DEF JobInv, ManifestInv, JobType, AtWork, Over, Rechecked
  <2>4. QED  BY <2>2, <2>3, GoKeeps
<1>4. QED  BY <1>2, <1>3

\* The pull request that is asked for again is, as it is now, the one of the plan.
LEMMA RecheckKeeps == ASSUME IntakeInv, NEW j \in Jobs, Recheck(j) PROVE IntakeInv'
<1>1. JobInv(job[j], current[j]) /\ job[j].pc = "recheck" /\ job[j].plan \in DocumentType
  BY DEF IntakeInv, Recheck, JobInv, JobType
<1>2. CASE Fail(j)
  BY <1>1, <1>2, FailKeeps DEF JobInv, AtWork
<1>3. CASE ~Fail(j)
  <2>1. StillCurrent(j)
    BY <1>3 DEF Recheck, Unanswered
  <2>2. PICK p \in Pulls : p = job[j].plan.pull
    BY <1>1 DEF DocumentType
  <2>3. Eligible(pulls, p) /\ Resolved(Identity(pulls, p), job[j].commit) = job[j].plan
    BY <2>1, <2>2 DEF StillCurrent
  <2>4. PICK i : i = Identity(pulls, p)
    OBVIOUS
  <2>5. i \in Now
    BY <2>3, <2>4 DEF Now
  <2>6. Known(job[j].plan) = i
    BY <2>3, <2>4 DEF Known, Resolved, Identity
  <2>7. PICK rec : rec = [job[j] EXCEPT !.pc = "fetch"]
    OBVIOUS
  <2>8. rec \in JobType /\ rec.pc = "fetch" /\ \A f \in DOMAIN NoJob \ {"pc"} : rec[f] = job[j][f]
    BY <1>1, <2>7 DEF JobInv, JobType, AtWork, NoJob
  <2>9. JobInv(rec, current[j]) /\ ManifestInv(rec, current[j])
    BY <1>1, <2>5, <2>6, <2>8 DEF JobInv, ManifestInv, Rechecked, NoJob
  <2>10. QED  BY <1>3, <2>7, <2>9, GoKeeps DEF Recheck, Unanswered
<1>4. QED  BY <1>2, <1>3

LEMMA FetchKeeps == ASSUME IntakeInv, NEW j \in Jobs, Fetch(j) PROVE IntakeInv'
<1>1. JobInv(job[j], current[j]) /\ job[j].pc = "fetch"
  BY DEF IntakeInv, Fetch
<1>2. CASE Fail(j)
  BY <1>1, <1>2, FailKeeps DEF JobInv, AtWork
<1>3. CASE ~Fail(j)
  <2>1. PICK rec : rec = [job[j] EXCEPT !.pc = "create"]
    OBVIOUS
  <2>2. Go(j, rec) /\ Taken(job[j].plan.head)
    BY <1>3, <2>1 DEF Fetch, Unanswered
  <2>3. JobInv(rec, current[j]) /\ ManifestInv(rec, current[j])
    BY <1>1, <2>1, <2>2 DEF JobInv, ManifestInv, JobType, AtWork, Over, Rechecked
  <2>4. QED  BY <2>2, <2>3, GoKeeps
<1>4. QED  BY <1>2, <1>3

LEMMA ContextKeeps ==
  ASSUME IntakeInv, NEW j \in Jobs, CreateContext(j) \/ Measure(j) \/ RemoveContext(j)
  PROVE  IntakeInv'
<1>1. JobInv(job[j], current[j]) /\ job[j].pc \in {"create", "measure", "remove"}
  BY DEF IntakeInv, CreateContext, Measure, RemoveContext
<1>2. CASE CreateContext(j) /\ Fail(j)
  BY <1>1, <1>2, FailKeeps DEF JobInv, AtWork, CreateContext
<1>3. CASE CreateContext(j) /\ ~Fail(j)
  <2>1. PICK rec : rec = [job[j] EXCEPT !.pc = "measure", !.context = "present"]
    OBVIOUS
  <2>2. JobInv(rec, current[j]) /\ ManifestInv(rec, current[j])
    BY <1>1, <1>3, <2>1 DEF JobInv, ManifestInv, JobType, AtWork, Over, Rechecked, CreateContext
  <2>3. QED  BY <1>3, <2>1, <2>2, GoKeeps DEF CreateContext
<1>4. CASE Measure(j)
  <2>1. PICK broken \in BOOLEAN : Go(j, [job[j] EXCEPT !.pc = "remove", !.failing = broken])
    BY <1>4 DEF Measure
  <2>2. PICK rec : rec = [job[j] EXCEPT !.pc = "remove", !.failing = broken]
    OBVIOUS
  <2>3. JobInv(rec, current[j]) /\ ManifestInv(rec, current[j])
    BY <1>1, <1>4, <2>2 DEF JobInv, ManifestInv, JobType, AtWork, Over, Rechecked, Measure
  <2>4. QED  BY <2>1, <2>2, <2>3, GoKeeps
<1>5. CASE RemoveContext(j) /\ Go(j, [job[j] EXCEPT !.pc = "failed", !.unremoved = TRUE])
  <2>1. PICK rec : rec = [job[j] EXCEPT !.pc = "failed", !.unremoved = TRUE]
    OBVIOUS
  <2>2. JobInv(rec, current[j]) /\ ManifestInv(rec, current[j])
    BY <1>1, <2>1 DEF JobInv, ManifestInv, JobType, AtWork, Over, Rechecked
  <2>3. QED  BY <1>5, <2>1, <2>2, GoKeeps
<1>6. CASE RemoveContext(j) /\ ~Go(j, [job[j] EXCEPT !.pc = "failed", !.unremoved = TRUE])
  <2>1. PICK pc \in {"failed", "write"} : pc = IF job[j].failing THEN "failed" ELSE "write"
    OBVIOUS
  <2>2. PICK rec : rec = [job[j] EXCEPT !.pc = pc, !.context = "absent"]
    OBVIOUS
  <2>3. JobInv(rec, current[j]) /\ ManifestInv(rec, current[j])
    BY <1>1, <1>6, <2>2 DEF JobInv, ManifestInv, JobType, AtWork, Over, Rechecked, RemoveContext
  <2>4. QED  BY <1>6, <2>1, <2>2, <2>3, GoKeeps DEF RemoveContext
<1>7. QED  BY <1>2, <1>3, <1>4, <1>5, <1>6

LEMMA WriteManifestKeeps == ASSUME IntakeInv, NEW j \in Jobs, WriteManifest(j) PROVE IntakeInv'
<1>1. JobInv(job[j], current[j]) /\ job[j].pc = "write" /\ job[j] \in JobType
      /\ job[j].plan \in DocumentType
  BY DEF IntakeInv, WriteManifest, JobInv, JobType, Rechecked
<1>2. PICK w : w = [pull |-> job[j].plan.pull, head |-> job[j].plan.head, base |-> job[j].plan.base,
                    dockerfile |-> Trusted(j).dockerfile]
  OBVIOUS
<1>3. main[job[j].commit] \in CommitType
  BY <1>1 DEF JobInv, IntakeInv, WorldTypeOK
<1>4. w \in ManifestType
  BY <1>1, <1>2, <1>3 DEF DocumentType, ManifestType, CommitType, Trusted
<1>5. PICK rec : rec = [job[j] EXCEPT !.pc = "done", !.manifest = w]
  OBVIOUS
<1>6. rec \in JobType /\ rec.pc = "done" /\ rec.manifest = w
      /\ \A f \in DOMAIN NoJob \ {"pc", "manifest"} : rec[f] = job[j][f]
  BY <1>1, <1>4, <1>5 DEF JobType, Over, NoJob
<1>7. JobInv(rec, current[j])
  BY <1>1, <1>6 DEF JobInv, Rechecked, NoJob
<1>8. PICK i \in current[j] : i = Known(job[j].plan)
  BY <1>1 DEF JobInv, Rechecked
<1>9. i.branch = rec.branch /\ w.pull = i.pull /\ w.head = i.head /\ w.base = i.base
  BY <1>1, <1>2, <1>6, <1>8 DEF Known, JobInv, Rechecked, NoJob
<1>10. /\ w.head = rec.head /\ Source[rec.head] = "plain"
       /\ main[rec.commit].stale = {} /\ w.dockerfile = main[rec.commit].dockerfile
  BY <1>1, <1>2, <1>6 DEF JobInv, Rechecked, Taken, Trusted, NoJob
<1>11. ManifestInv(rec, current[j])
  BY <1>6, <1>9, <1>10 DEF ManifestInv
<1>12. QED  BY <1>2, <1>5, <1>7, <1>11, GoKeeps DEF WriteManifest

LEMMA KillJobKeeps == ASSUME IntakeInv, NEW j \in Jobs, KillJob(j) PROVE IntakeInv'
<1>1. JobInv(job[j], current[j]) /\ job[j].pc \in AtWork
  BY DEF IntakeInv, KillJob, JobInv, JobType, AtWork, Over
<1>2. PICK rec : rec = [job[j] EXCEPT !.pc = "killed"]
  OBVIOUS
<1>3. JobInv(rec, current[j]) /\ ManifestInv(rec, current[j])
  BY <1>1, <1>2 DEF JobInv, ManifestInv, JobType, AtWork, Over, Rechecked
<1>4. QED  BY <1>2, <1>3, GoKeeps DEF KillJob

LEMMA IntakeSteps == IntakeInv /\ [IntakeNext]_intake => IntakeInv'
<1> SUFFICES ASSUME IntakeInv, [IntakeNext]_intake PROVE IntakeInv'
  OBVIOUS
<1>1. CASE UNCHANGED intake
  <2>1. UNCHANGED <<pulls, pushed, main, job, current>> /\ Now' = Now
    BY <1>1 DEF intake, Now, Identity, Eligible
  <2>2. QED  BY <2>1 DEF IntakeInv, WorldTypeOK, JobInv, ManifestInv
<1>2. ASSUME NEW j \in Jobs, JobStep(j) PROVE IntakeInv'
  BY <1>2, LookupKeeps, ResolveKeeps, PlanKeeps, BindKeeps, RecheckKeeps, FetchKeeps, ContextKeeps,
     WriteManifestKeeps
     DEF JobStep
<1>3. QED  BY <1>1, <1>2, GitHubKeeps, TriggerKeeps, KillJobKeeps DEF IntakeNext

LEMMA TrustedByInv == IntakeInv => IntakeIsTrue
<1> SUFFICES ASSUME IntakeInv PROVE IntakeIsTrue
  OBVIOUS
<1>1. ASSUME NEW j \in Jobs PROVE JobInv(job[j], current[j]) /\ ManifestInv(job[j], current[j])
  BY DEF IntakeInv
<1>2. ManifestIsTrue
  BY <1>1 DEF ManifestIsTrue, ManifestInv, Manifests, Trusted
<1>3. NothingIsLeft
  BY <1>1 DEF NothingIsLeft, JobInv
<1>4. QED  BY <1>2, <1>3 DEF IntakeIsTrue

\* Whatever is pushed, closed, retargeted or merged between the steps of a job,
\* and however many jobs, pull requests and commits there are: a manifest is
\* about the push that was tested, on sources of one commit of main, and about
\* what was open after the plan; and a job that failed leaves none.
THEOREM IntakesAreTrue == IntakeSpec => []IntakeIsTrue
  BY IntakeStarts, IntakeSteps, TrustedByInv, PTL DEF IntakeSpec

-----------------------------------------------------------------------------
(***************************************************************************)
(* The construction.                                                       *)
(***************************************************************************)
\* The steps of an attempt follow this one.
Base(l) == CASE l = "reference" -> 1 [] l = "good" -> 9 [] l = "write" -> 15 [] l = "review" -> 21
             [] l = "missing" -> 27
Past(l, k) == demo.at > Base(l) + k
Contexts == {"run", "policy", "orchestrator", "saved", "snapshot", "cleaned"}

DemoShape ==
  /\ DOMAIN demo = DOMAIN NoDemo /\ demo.run \in Nat /\ demo.pc \in {"idle", "steps", "end"}
  /\ demo.pc = "steps" => demo.at \in 1..44
DiskShape ==
  /\ DOMAIN disk = DOMAIN EmptyDirectory
  /\ DOMAIN disk.snapshot = Attempts /\ DOMAIN disk.saved = Attempts
  /\ DOMAIN disk.finalized = Attempts /\ DOMAIN disk.context = Attempts

\* What the running demo has written, step by step, of each attempt.
AttemptInv(l) ==
  /\ Past(l, 2) => disk.snapshot[l] = demo.run
  /\ Past(l, 3) => disk.saved[l].run = demo.run
  /\ Past(l, 4) => disk.finalized[l] = demo.run
  /\ Past(l, 5) => DOMAIN disk.context[l] = Contexts /\ disk.context[l].run = demo.run
  /\ Past(l, 6) => disk.context[l].cleaned

\* And what the gate has bound of it.
BoundInv ==
  /\ demo.at > 1 => disk.policy = demo.policy
  /\ demo.at > 9 => ContextBound("reference") /\ demo.approval.manifest = Manifest
  /\ demo.at > 34 => ContextBound("good")
  /\ demo.at > 35 => ContextBound("write")
  /\ demo.at > 36 => ContextBound("review")
DemoInv == demo.pc = "steps" => BoundInv /\ \A l \in Attempts : AttemptInv(l)
EndInv == demo.pc = "end" => disk.snapshot["reference"] = demo.run

\* The files of one run that wrote a summary, while no later one has touched
\* them: the first file of an attempt a later run writes is the snapshot of its
\* reference.
OneRun(s) ==
  \A l \in Attempts :
    /\ disk.snapshot[l] = s.run /\ disk.finalized[l] = s.run
    /\ disk.saved[l].run = s.run /\ disk.context[l].run = s.run /\ disk.context[l].cleaned
    /\ l # "missing" => disk.saved[l].contract = s.policy /\ disk.context[l].orchestrator = s.policy
LedgerOf(s) ==
  \/ demo.pc = "end" /\ demo.run = s.run
  \/ s.run \in killed
  \/ disk.ledger # Absent /\ disk.ledger.run = s.run
SummaryInv ==
  disk.summary # Absent =>
    /\ disk.summary.run \in Nat /\ disk.summary.run <= demo.run
    /\ demo.pc = "steps" => disk.summary.run < demo.run
    /\ disk.summary.approval.manifest.snapshot = disk.summary.run
    /\ disk.snapshot["reference"] = disk.summary.run => OneRun(disk.summary) /\ LedgerOf(disk.summary)

\* An accepted result names the orchestrator of its policy.
ResultsInv == \A r \in results : r.approval.manifest.context.orchestrator = r.policy
RepositoryInv ==
  /\ DOMAIN repository = {"authority", "trust", "pins"}
  /\ repository.authority # Absent => repository.authority \in results

ConstructionInv ==
  DemoShape /\ DiskShape /\ DemoInv /\ EndInv /\ SummaryInv /\ ResultsInv /\ RepositoryInv

-----------------------------------------------------------------------------
\* The attempts, and where their steps are in the script.
LEMMA AttemptsAre == Attempts = {"reference", "good", "write", "review", "missing"}
BY DEF Attempts, Candidates, Range

LEMMA CandidatesAre ==
  /\ Candidates[1] = "good" /\ Candidates[2] = "write" /\ Candidates[3] = "review" /\ Candidates[4] = "missing"
  /\ Range(Candidates) = {"good", "write", "review", "missing"}
BY DEF Candidates, Range

LEMMA BaseIs ==
  /\ Base("reference") = 1 /\ Base("good") = 9 /\ Base("write") = 15 /\ Base("review") = 21
  /\ Base("missing") = 27
BY DEF Base

\* The k-th step of the candidate n is where it should be.
LEMMA CandidateStepIs ==
  ASSUME NEW n \in 1..4, NEW k \in 1..6
  PROVE  6 * n + 3 + k \in 10..33 /\ Script[6 * n + 3 + k] = <<AttemptSteps[k], Candidates[n]>>
<1> PICK i \in Int : i = 6 * n + 3 + k OBVIOUS
<1>1. i \in 10..33 OBVIOUS
<1>2. ((i - 9 - 1) % 6) + 1 = k /\ ((i - 9 - 1) \div 6) + 1 = n OBVIOUS
<1>3. CandidateStep(i - 9) = <<AttemptSteps[k], Candidates[n]>> BY <1>2 DEF CandidateStep
<1>4. Script[i] = CandidateStep(i - 9) BY <1>1 DEF Script
<1> QED BY <1>1, <1>3, <1>4

LEMMA CandidateIs ==
  ASSUME NEW l \in Attempts, l # "reference"
  PROVE  \E n \in 1..4 : Candidates[n] = l /\ Base(l) = 6 * n + 3
BY AttemptsAre, CandidatesAre, BaseIs

\* The k-th step of an attempt follows its base.
LEMMA AttemptIsAt ==
  ASSUME NEW l \in Attempts, NEW k \in 1..6
  PROVE  Base(l) + k \in 2..33 /\ Script[Base(l) + k] = <<AttemptSteps[k], l>>
<1>1. CASE l = "reference"
  <2> PICK i \in Int : i = 1 + k OBVIOUS
  <2>1. i \in 2..7 /\ i - 1 = k /\ i # 1 /\ Base(l) + k = i BY <1>1, BaseIs
  <2>2. Script[i] = <<AttemptSteps[i - 1], "reference">> BY <2>1 DEF Script
  <2> QED BY <1>1, <2>1, <2>2
<1>2. CASE l # "reference"
  <2> PICK n \in 1..4 : Candidates[n] = l /\ Base(l) = 6 * n + 3 BY <1>2, CandidateIs
  <2> QED BY CandidateStepIs
<1> QED BY <1>1, <1>2

\* Every step belongs to an attempt, or is one of the others.
LEMMA StepIs ==
  ASSUME NEW i \in 1..44
  PROVE  \/ \E l \in Attempts, k \in 1..6 : i = Base(l) + k
         \/ i = 1 /\ Script[i] = <<"policy", "none">>
         \/ i = 8 /\ Script[i] = <<"volumes", "none">>
         \/ i = 9 /\ Script[i] = <<"promote", "none">>
         \/ i \in 34..41 /\ Script[i] = <<"evaluate", Cases[i - 33]>>
         \/ i = 42 /\ Script[i] = <<"authority", "none">>
         \/ i = 43 /\ Script[i] = <<"results", "none">>
         \/ i = 44 /\ Script[i] = <<"summary", "none">>
<1>1. CASE i \in 2..7
  <2>1. i = Base("reference") + (i - 1) /\ i - 1 \in 1..6 BY <1>1, BaseIs
  <2> QED BY <2>1, AttemptsAre
<1>2. CASE i \in 10..15 BY <1>2, BaseIs, AttemptsAre, i = Base("good") + (i - 9), i - 9 \in 1..6
<1>3. CASE i \in 16..21 BY <1>3, BaseIs, AttemptsAre, i = Base("write") + (i - 15), i - 15 \in 1..6
<1>4. CASE i \in 22..27 BY <1>4, BaseIs, AttemptsAre, i = Base("review") + (i - 21), i - 21 \in 1..6
<1>5. CASE i \in 28..33 BY <1>5, BaseIs, AttemptsAre, i = Base("missing") + (i - 27), i - 27 \in 1..6
<1>6. CASE i \in 34..41
  <2>1. Script[i] = <<"evaluate", Cases[i - 33]>> BY <1>6 DEF Script
  <2> QED BY <1>6, <2>1
<1>7. Script[1] = <<"policy", "none">> /\ Script[8] = <<"volumes", "none">> BY DEF Script
<1>8. Script[9] = <<"promote", "none">> /\ Script[42] = <<"authority", "none">> BY DEF Script
<1>9. Script[43] = <<"results", "none">> /\ Script[44] = <<"summary", "none">> BY DEF Script
<1>10. CASE i \in {1, 8, 9, 42, 43, 44} BY <1>7, <1>8, <1>9, <1>10
<1> QED BY <1>1, <1>2, <1>3, <1>4, <1>5, <1>6, <1>10

LEMMA AttemptStepsAre ==
  /\ AttemptSteps[1] = "guard" /\ AttemptSteps[2] = "export" /\ AttemptSteps[3] = "save"
  /\ AttemptSteps[4] = "finalize" /\ AttemptSteps[5] = "assemble" /\ AttemptSteps[6] = "clean"
BY DEF AttemptSteps

\* Which step is where: those of the attempts,
LEMMA FileSteps ==
  ASSUME DemoShape, NEW k \in 1..6, Step(AttemptSteps[k])
  PROVE  Label \in Attempts /\ demo.at = Base(Label) + k /\ demo.at \in 2..33
<1>1. demo.at \in 1..44 /\ Script[demo.at][1] = AttemptSteps[k] BY DEF DemoShape, Step
<1>2. PICK l \in Attempts, j \in 1..6 : demo.at = Base(l) + j
  BY <1>1, StepIs, AttemptStepsAre
<1>3. Script[demo.at] = <<AttemptSteps[j], l>> /\ demo.at \in 2..33 BY <1>2, AttemptIsAt
<1>4. AttemptSteps[j] = AttemptSteps[k] BY <1>1, <1>3
<1>5. j = k BY <1>4, AttemptStepsAre
<1> QED BY <1>2, <1>3, <1>5 DEF Label

\* and the others.
LEMMA OtherSteps ==
  ASSUME DemoShape
  PROVE  /\ Step("policy") => demo.at = 1
         /\ Step("volumes") => demo.at = 8
         /\ Step("promote") => demo.at = 9
         /\ Step("evaluate") => demo.at \in 34..41 /\ Label = Cases[demo.at - 33]
         /\ Step("authority") => demo.at = 42
         /\ Step("results") => demo.at = 43
         /\ Step("summary") => demo.at = 44
<1> SUFFICES ASSUME demo.pc = "steps" 
             PROVE  /\ Script[demo.at][1] = "policy" => demo.at = 1
                    /\ Script[demo.at][1] = "volumes" => demo.at = 8
                    /\ Script[demo.at][1] = "promote" => demo.at = 9
                    /\ Script[demo.at][1] = "evaluate" => demo.at \in 34..41 /\ Label = Cases[demo.at - 33]
                    /\ Script[demo.at][1] = "authority" => demo.at = 42
                    /\ Script[demo.at][1] = "results" => demo.at = 43
                    /\ Script[demo.at][1] = "summary" => demo.at = 44
  BY DEF Step
<1>1. demo.at \in 1..44 BY DEF DemoShape
<1>2. CASE \E l \in Attempts, k \in 1..6 : demo.at = Base(l) + k
  <2> PICK l \in Attempts, k \in 1..6 : demo.at = Base(l) + k BY <1>2
  <2>1. Script[demo.at][1] = AttemptSteps[k] BY AttemptIsAt
  <2> QED BY <2>1, AttemptStepsAre
<1>3. CASE ~ \E l \in Attempts, k \in 1..6 : demo.at = Base(l) + k BY <1>1, <1>3, StepIs DEF Label
<1> QED BY <1>2, <1>3

-----------------------------------------------------------------------------
\* A step that is taken moves the demo on.
LEMMA Advances ==
  ASSUME DemoShape, NEW d, DOMAIN d = DOMAIN NoDemo, d.run = demo.run, d.pc = "steps",
         d.at = demo.at, demo.pc = "steps"
  PROVE  /\ DOMAIN Next1(d) = DOMAIN NoDemo /\ Next1(d).run = demo.run /\ Next1(d).at = demo.at + 1
         /\ demo.at \in 1..44
         /\ Next1(d).pc = IF demo.at = 44 THEN "end" ELSE "steps"
         /\ Next1(d).policy = d.policy /\ Next1(d).approval = d.approval
<1>1. Len(Script) = 44 BY DEF Script
<1>2. demo.at \in 1..44 BY DEF DemoShape
<1> QED BY <1>1, <1>2 DEF Next1, NoDemo

\* A demo that has only been given what its step makes.
Carries(d) == DOMAIN d = DOMAIN NoDemo /\ d.run = demo.run /\ d.pc = "steps" /\ d.at = demo.at
Holds(d) == Carries(d) /\ d.policy = demo.policy /\ d.approval = demo.approval
\* Files of which it has written none of the attempts.
KeepsFiles(files) ==
  /\ files.snapshot = disk.snapshot /\ files.saved = disk.saved
  /\ files.finalized = disk.finalized /\ files.context = disk.context
KeepsEnds(files) == files.summary = disk.summary /\ files.ledger = disk.ledger
WritesOnly(files, l) ==
  /\ files.policy = disk.policy /\ KeepsEnds(files)
  /\ \A m \in Attempts : m # l =>
       /\ files.snapshot[m] = disk.snapshot[m] /\ files.saved[m] = disk.saved[m]
       /\ files.finalized[m] = disk.finalized[m] /\ files.context[m] = disk.context[m]

\* What every step of the demo has in common: until the snapshot of the
\* reference is written, no file of an attempt changes.
LEMMA StepKeeps ==
  ASSUME ConstructionInv, demo.pc = "steps",
         NEW d, Carries(d), NEW files, Leave(d, files), DiskShape', \A l \in Attempts : AttemptInv(l)', BoundInv',
         KeepsEnds(files),
         demo.at <= 2 => KeepsFiles(files)
  PROVE  ConstructionInv'
<1> USE DEF ConstructionInv, Carries, KeepsFiles, KeepsEnds
<1>1. /\ DOMAIN demo' = DOMAIN NoDemo /\ demo'.run = demo.run /\ demo'.at = demo.at + 1 /\ demo.at \in 1..44
      /\ demo'.pc = IF demo.at = 44 THEN "end" ELSE "steps"
  BY Advances DEF Leave
<1>2. disk' = files /\ killed' = killed /\ results' = results /\ repository' = repository BY DEF Leave
<1>3. demo.run \in Nat BY DEF DemoShape
<1>4. demo.at > 2 => disk'.snapshot["reference"] = demo.run
  BY <1>1, AttemptsAre, BaseIs DEF AttemptInv, Past
<1>5. DemoShape' BY <1>1, <1>3 DEF DemoShape
<1>6. DemoInv' BY DEF DemoInv
<1>7. EndInv' BY <1>1, <1>4 DEF EndInv
<1>8. SummaryInv'
  <2> SUFFICES ASSUME disk.summary # Absent PROVE SummaryInv' BY <1>2 DEF SummaryInv, Absent
  <2>1. disk.summary.run \in Nat /\ disk.summary.run < demo.run BY DEF SummaryInv
  <2>2. disk'.summary = disk.summary /\ disk'.summary.approval.manifest.snapshot = disk.summary.run
    BY <1>2 DEF SummaryInv
  <2>3. ASSUME disk'.snapshot["reference"] = disk.summary.run
        PROVE  OneRun(disk.summary)' /\ LedgerOf(disk.summary)'
    <3>1. demo.at <= 2 BY <1>1, <1>3, <1>4, <2>1, <2>3
    <3>2. OneRun(disk.summary) /\ LedgerOf(disk.summary) BY <1>2, <2>3, <3>1 DEF SummaryInv
    <3>3. OneRun(disk.summary)' BY <1>2, <2>2, <3>1, <3>2 DEF OneRun
    <3>4. LedgerOf(disk.summary)' BY <1>2, <2>2, <3>2 DEF LedgerOf, Absent
    <3> QED BY <3>3, <3>4
  <2> QED BY <1>1, <1>3, <2>1, <2>2, <2>3 DEF SummaryInv
<1>9. ResultsInv' BY <1>2 DEF ResultsInv
<1>10. RepositoryInv' BY <1>2 DEF RepositoryInv, Absent
<1> QED BY <1>5, <1>6, <1>7, <1>8, <1>9, <1>10

\* The step k of the attempt l writes files of l at most.
LEMMA FileStepKeeps ==
  ASSUME ConstructionInv, NEW k \in 1..6, Step(AttemptSteps[k]), NEW l, l = Label,
         NEW d, Holds(d), NEW files, Leave(d, files), DiskShape', WritesOnly(files, l),
         k = 1 => KeepsFiles(files),
         AttemptInv(l)'
  PROVE  ConstructionInv'
<1> USE DEF Holds, Carries, WritesOnly
<1>1. l \in Attempts /\ demo.at = Base(l) + k /\ demo.at \in 2..33 BY FileSteps DEF ConstructionInv
<1>2. demo.pc = "steps" BY DEF Step
<1>3. /\ demo'.run = demo.run /\ demo'.at = demo.at + 1
      /\ demo'.policy = demo.policy /\ demo'.approval = demo.approval
  BY <1>2, Advances DEF Leave, ConstructionInv
<1>4. disk' = files BY DEF Leave
<1>5. BoundInv /\ \A m \in Attempts : AttemptInv(m) BY <1>2 DEF ConstructionInv, DemoInv
<1>6. \A m \in Attempts : AttemptInv(m)'
  <2> SUFFICES ASSUME NEW m \in Attempts, m # l PROVE AttemptInv(m)' OBVIOUS
  <2>1. \A j \in 1..6 : demo.at # Base(m) + j BY <1>1, AttemptsAre, BaseIs
  <2>2. \A j \in 1..6 : Past(m, j)' <=> Past(m, j)
    BY <1>1, <1>3, <2>1, AttemptsAre, BaseIs DEF Past
  <2>3. /\ Past(m, 2)' <=> Past(m, 2)
        /\ Past(m, 3)' <=> Past(m, 3)
        /\ Past(m, 4)' <=> Past(m, 4)
        /\ Past(m, 5)' <=> Past(m, 5)
        /\ Past(m, 6)' <=> Past(m, 6)
    BY <2>2
  <2>4. AttemptInv(m) BY <1>5
  <2> QED BY <1>3, <1>4, <2>3, <2>4 DEF AttemptInv
<1>7. BoundInv'
  <2>1. disk'.policy = disk.policy BY <1>4
  <2>2. CASE l = "reference" BY <1>1, <1>3, <1>5, <2>1, <2>2, BaseIs DEF BoundInv
  <2>3. CASE l # "reference"
    <3>1. /\ disk'.snapshot["reference"] = disk.snapshot["reference"]
          /\ disk'.saved["reference"] = disk.saved["reference"]
          /\ disk'.context["reference"] = disk.context["reference"]
      BY <1>4, <2>3, AttemptsAre
    <3>2. ContextBound("reference")' = ContextBound("reference") /\ Manifest' = Manifest
      BY <2>1, <3>1 DEF ContextBound, Manifest
    <3>3. demo.at > 9 BY <1>1, <2>3, AttemptsAre, BaseIs
    <3> QED BY <1>1, <1>3, <1>5, <2>1, <3>2, <3>3 DEF BoundInv
  <2> QED BY <2>2, <2>3
<1>8. demo.at <= 2 => k = 1 BY <1>1, AttemptsAre, BaseIs
<1> QED BY <1>2, <1>6, <1>7, <1>8, StepKeeps

\* A step that belongs to no attempt writes no file of one.
LEMMA OtherStepKeeps ==
  ASSUME ConstructionInv, demo.pc = "steps", demo.at \in {1, 8, 9} \cup (34..44),
         NEW d, Carries(d), NEW files, Leave(d, files), DOMAIN files = DOMAIN EmptyDirectory,
         KeepsFiles(files), KeepsEnds(files), BoundInv'
  PROVE  ConstructionInv'
<1>1. demo'.run = demo.run /\ demo'.at = demo.at + 1 BY Advances DEF Carries, Leave, ConstructionInv
<1>2. disk' = files BY DEF Leave
<1>3. DiskShape' BY <1>2 DEF KeepsFiles, ConstructionInv, DiskShape
<1>4. ASSUME NEW m \in Attempts PROVE AttemptInv(m)'
  <2>1. \A j \in 2..6 : demo.at # Base(m) + j BY AttemptsAre, BaseIs
  <2>2. /\ Past(m, 2)' <=> Past(m, 2)
        /\ Past(m, 3)' <=> Past(m, 3)
        /\ Past(m, 4)' <=> Past(m, 4)
        /\ Past(m, 5)' <=> Past(m, 5)
        /\ Past(m, 6)' <=> Past(m, 6)
    BY <1>1, <2>1, AttemptsAre, BaseIs DEF Past
  <2>3. AttemptInv(m) BY DEF ConstructionInv, DemoInv
  <2> QED BY <1>1, <1>2, <2>2, <2>3 DEF AttemptInv, KeepsFiles
<1> QED BY <1>3, <1>4, StepKeeps

\* At step k of an attempt, what comes before it is written, and k follows.
LEMMA PastAt ==
  ASSUME ConstructionInv, NEW k \in 1..6, Step(AttemptSteps[k]), NEW l, l = Label,
         NEW d, Holds(d), NEW files, Leave(d, files)
  PROVE  /\ l \in Attempts /\ demo'.run = demo.run /\ disk' = files
         /\ Past(l, 2)' <=> 2 <= k
         /\ Past(l, 3)' <=> 3 <= k
         /\ Past(l, 4)' <=> 4 <= k
         /\ Past(l, 5)' <=> 5 <= k
         /\ k > 2 => disk.snapshot[l] = demo.run
         /\ k > 3 => disk.saved[l].run = demo.run
         /\ k > 4 => disk.finalized[l] = demo.run
         /\ k > 5 => DOMAIN disk.context[l] = Contexts /\ disk.context[l].run = demo.run
         /\ Past(l, 6)' <=> 6 <= k
<1>1. l \in Attempts /\ demo.at = Base(l) + k BY FileSteps DEF ConstructionInv
<1>2. demo.pc = "steps" BY DEF Step
<1>3. demo'.run = demo.run /\ demo'.at = demo.at + 1 BY <1>2, Advances DEF Holds, Carries, Leave, ConstructionInv
<1>4. AttemptInv(l) BY <1>1, <1>2 DEF ConstructionInv, DemoInv
<1>5. Base(l) \in Nat BY <1>1, AttemptsAre, BaseIs
<1>6. \A j \in 2..6 : (Past(l, j) <=> j < k) /\ (Past(l, j)' <=> j <= k)
  BY <1>1, <1>3, <1>5 DEF Past
<1>7. disk' = files BY DEF Leave
<1> QED BY <1>1, <1>3, <1>4, <1>6, <1>7 DEF AttemptInv

LEMMA GuardKeeps == ASSUME ConstructionInv, Guard PROVE ConstructionInv'
<1>p1. PICK l : l = Label OBVIOUS
<1>p2. PICK d : d = [demo EXCEPT !.guarded = checkout] OBVIOUS
<1>1. Step(AttemptSteps[1]) /\ Leave(d, disk) BY <1>p1, <1>p2, AttemptStepsAre DEF Guard
<1>2. /\ DOMAIN d = DOMAIN NoDemo /\ d.run = demo.run /\ d.pc = "steps" /\ d.at = demo.at
      /\ d.policy = demo.policy /\ d.approval = demo.approval
  BY <1>p1, <1>p2, <1>1 DEF ConstructionInv, DemoShape, NoDemo, Step
<1>h. Holds(d) BY <1>2 DEF Holds, Carries
<1>w. WritesOnly(disk, l) /\ KeepsFiles(disk) BY DEF WritesOnly, KeepsEnds, KeepsFiles
<1>3. DiskShape' BY <1>p1, <1>p2, <1>1 DEF ConstructionInv, DiskShape, Leave
<1>4. /\ ~ Past(l, 2)' /\ ~ Past(l, 3)' /\ ~ Past(l, 4)'
      /\ ~ Past(l, 5)' /\ ~ Past(l, 6)'
  BY <1>p1, <1>p2, <1>1, <1>2, <1>h, PastAt
<1>5. AttemptInv(l)' BY <1>p1, <1>p2, <1>4 DEF AttemptInv
<1> QED BY <1>p1, <1>1, <1>2, <1>3, <1>5, <1>h, <1>w, FileStepKeeps

LEMMA ExportKeeps == ASSUME ConstructionInv, Export PROVE ConstructionInv'
<1>p1. PICK l : l = Label OBVIOUS
<1>p2. PICK files : files = [disk EXCEPT !.snapshot[l] = demo.run] OBVIOUS
<1>1. Step(AttemptSteps[2]) /\ Leave(demo, files) BY <1>p1, <1>p2, AttemptStepsAre DEF Export
<1>2. DOMAIN demo = DOMAIN NoDemo /\ demo.pc = "steps" BY <1>p1, <1>p2, <1>1 DEF ConstructionInv, DemoShape, Step
<1>h. Holds(demo) BY <1>2 DEF Holds, Carries
<1>3. /\ l \in Attempts /\ demo'.run = demo.run /\ disk' = files
      /\ ~ Past(l, 3)' /\ ~ Past(l, 4)' /\ ~ Past(l, 5)' /\ ~ Past(l, 6)'
  BY <1>p1, <1>p2, <1>1, <1>2, <1>h, PastAt
<1>4. /\ DOMAIN files = DOMAIN EmptyDirectory /\ DOMAIN files.snapshot = Attempts
      /\ files.policy = disk.policy /\ files.summary = disk.summary /\ files.ledger = disk.ledger
      /\ files.saved = disk.saved /\ files.finalized = disk.finalized /\ files.context = disk.context
      /\ files.snapshot[l] = demo.run
      /\ \A m \in Attempts : m # l => files.snapshot[m] = disk.snapshot[m]
  BY <1>p1, <1>p2, <1>3 DEF ConstructionInv, DiskShape, EmptyDirectory
<1>w. WritesOnly(files, l) BY <1>4 DEF WritesOnly, KeepsEnds
<1>5. DiskShape' BY <1>p1, <1>p2, <1>3, <1>4 DEF ConstructionInv, DiskShape
<1>6. AttemptInv(l)' BY <1>p1, <1>p2, <1>3, <1>4 DEF AttemptInv
<1> QED BY <1>p1, <1>1, <1>2, <1>4, <1>5, <1>6, <1>h, <1>w, FileStepKeeps

LEMMA SaveKeeps == ASSUME ConstructionInv, Save PROVE ConstructionInv'
<1>p1. PICK l : l = Label OBVIOUS
<1>p2. PICK s : s = [run |-> demo.run, contract |-> demo.guarded] OBVIOUS
<1>p3. PICK files : files = [disk EXCEPT !.saved[l] = s] OBVIOUS
<1>1. Step(AttemptSteps[3]) /\ Leave(demo, files) BY <1>p1, <1>p2, <1>p3, AttemptStepsAre DEF Save
<1>2. DOMAIN demo = DOMAIN NoDemo /\ demo.pc = "steps" BY <1>p1, <1>p2, <1>p3, <1>1 DEF ConstructionInv, DemoShape, Step
<1>h. Holds(demo) BY <1>2 DEF Holds, Carries
<1>3. /\ l \in Attempts /\ demo'.run = demo.run /\ disk' = files /\ disk.snapshot[l] = demo.run
      /\ ~ Past(l, 4)' /\ ~ Past(l, 5)' /\ ~ Past(l, 6)'
  BY <1>p1, <1>p2, <1>p3, <1>1, <1>2, <1>h, PastAt
<1>4. /\ DOMAIN files = DOMAIN EmptyDirectory /\ DOMAIN files.saved = Attempts
      /\ files.policy = disk.policy /\ files.summary = disk.summary /\ files.ledger = disk.ledger
      /\ files.snapshot = disk.snapshot /\ files.finalized = disk.finalized /\ files.context = disk.context
      /\ files.saved[l] = s
      /\ \A m \in Attempts : m # l => files.saved[m] = disk.saved[m]
  BY <1>p1, <1>p2, <1>p3, <1>3 DEF ConstructionInv, DiskShape, EmptyDirectory
<1>w. WritesOnly(files, l) BY <1>4 DEF WritesOnly, KeepsEnds
<1>5. DiskShape' BY <1>p1, <1>p2, <1>p3, <1>3, <1>4 DEF ConstructionInv, DiskShape
<1>6. AttemptInv(l)' BY <1>p1, <1>p2, <1>p3, <1>3, <1>4 DEF AttemptInv
<1> QED BY <1>p1, <1>1, <1>2, <1>4, <1>5, <1>6, <1>h, <1>w, FileStepKeeps

LEMMA FinalizeKeeps == ASSUME ConstructionInv, Finalize PROVE ConstructionInv'
<1>p1. PICK l : l = Label OBVIOUS
<1>p2. PICK files : files = [disk EXCEPT !.finalized[l] = demo.run] OBVIOUS
<1>1. Step(AttemptSteps[4]) /\ Leave(demo, files) BY <1>p1, <1>p2, AttemptStepsAre DEF Finalize
<1>2. DOMAIN demo = DOMAIN NoDemo /\ demo.pc = "steps" BY <1>p1, <1>p2, <1>1 DEF ConstructionInv, DemoShape, Step
<1>h. Holds(demo) BY <1>2 DEF Holds, Carries
<1>3. /\ l \in Attempts /\ demo'.run = demo.run /\ disk' = files
      /\ disk.snapshot[l] = demo.run /\ disk.saved[l].run = demo.run
      /\ ~ Past(l, 5)' /\ ~ Past(l, 6)'
  BY <1>p1, <1>p2, <1>1, <1>2, <1>h, PastAt
<1>4. /\ DOMAIN files = DOMAIN EmptyDirectory /\ DOMAIN files.finalized = Attempts
      /\ files.policy = disk.policy /\ files.summary = disk.summary /\ files.ledger = disk.ledger
      /\ files.snapshot = disk.snapshot /\ files.saved = disk.saved /\ files.context = disk.context
      /\ files.finalized[l] = demo.run
      /\ \A m \in Attempts : m # l => files.finalized[m] = disk.finalized[m]
  BY <1>p1, <1>p2, <1>3 DEF ConstructionInv, DiskShape, EmptyDirectory
<1>w. WritesOnly(files, l) BY <1>4 DEF WritesOnly, KeepsEnds
<1>5. DiskShape' BY <1>p1, <1>p2, <1>3, <1>4 DEF ConstructionInv, DiskShape
<1>6. AttemptInv(l)' BY <1>p1, <1>p2, <1>3, <1>4 DEF AttemptInv
<1> QED BY <1>p1, <1>1, <1>2, <1>4, <1>5, <1>6, <1>h, <1>w, FileStepKeeps

LEMMA AssembleKeeps == ASSUME ConstructionInv, Assemble PROVE ConstructionInv'
<1>p1. PICK l : l = Label OBVIOUS
<1>p2. PICK c : c = [run |-> demo.run, policy |-> demo.policy, orchestrator |-> checkout,
                  saved |-> disk.saved[l], snapshot |-> disk.snapshot[l], cleaned |-> FALSE] OBVIOUS
<1>p3. PICK files : files = [disk EXCEPT !.context[l] = c] OBVIOUS
<1>1. Step(AttemptSteps[5]) /\ Leave(demo, files) BY <1>p1, <1>p2, <1>p3, AttemptStepsAre DEF Assemble
<1>2. DOMAIN demo = DOMAIN NoDemo /\ demo.pc = "steps" BY <1>p1, <1>p2, <1>p3, <1>1 DEF ConstructionInv, DemoShape, Step
<1>h. Holds(demo) BY <1>2 DEF Holds, Carries
<1>3. /\ l \in Attempts /\ demo'.run = demo.run /\ disk' = files
      /\ disk.snapshot[l] = demo.run /\ disk.saved[l].run = demo.run /\ disk.finalized[l] = demo.run
      /\ ~ Past(l, 6)'
  BY <1>p1, <1>p2, <1>p3, <1>1, <1>2, <1>h, PastAt
<1>4. /\ DOMAIN files = DOMAIN EmptyDirectory /\ DOMAIN files.context = Attempts
      /\ files.policy = disk.policy /\ files.summary = disk.summary /\ files.ledger = disk.ledger
      /\ files.snapshot = disk.snapshot /\ files.saved = disk.saved /\ files.finalized = disk.finalized
      /\ files.context[l] = c
      /\ \A m \in Attempts : m # l => files.context[m] = disk.context[m]
  BY <1>p1, <1>p2, <1>p3, <1>3 DEF ConstructionInv, DiskShape, EmptyDirectory
<1>w. WritesOnly(files, l) BY <1>4 DEF WritesOnly, KeepsEnds
<1>5. DiskShape' BY <1>p1, <1>p2, <1>p3, <1>3, <1>4 DEF ConstructionInv, DiskShape
<1>6. DOMAIN c = Contexts /\ c.run = demo.run BY <1>p1, <1>p2, <1>p3 DEF Contexts
<1>7. AttemptInv(l)' BY <1>p1, <1>p2, <1>p3, <1>3, <1>4, <1>6 DEF AttemptInv
<1> QED BY <1>p1, <1>1, <1>2, <1>4, <1>5, <1>7, <1>h, <1>w, FileStepKeeps

LEMMA CleanAttemptKeeps == ASSUME ConstructionInv, CleanAttempt PROVE ConstructionInv'
<1>p1. PICK l : l = Label OBVIOUS
<1>p2. PICK c : c = [disk.context[l] EXCEPT !.cleaned = TRUE] OBVIOUS
<1>p3. PICK files : files = [disk EXCEPT !.context[l] = c] OBVIOUS
<1>1. Step(AttemptSteps[6]) /\ Leave(demo, [disk EXCEPT !.context[l].cleaned = TRUE])
  BY <1>p1, <1>p2, <1>p3, AttemptStepsAre DEF CleanAttempt
<1>2. DOMAIN demo = DOMAIN NoDemo /\ demo.pc = "steps" BY <1>p1, <1>p2, <1>p3, <1>1 DEF ConstructionInv, DemoShape, Step
<1>h. Holds(demo) BY <1>2 DEF Holds, Carries
<1>3. l \in Attempts BY <1>p1, <1>p2, <1>p3, <1>1, <1>2, FileSteps DEF ConstructionInv
<1>4. [disk EXCEPT !.context[l].cleaned = TRUE] = files
  BY <1>p1, <1>p2, <1>p3, <1>3 DEF ConstructionInv, DiskShape, EmptyDirectory
<1>5. Leave(demo, files) BY <1>p1, <1>p2, <1>p3, <1>1, <1>4
<1>6. /\ demo'.run = demo.run /\ disk' = files
      /\ disk.snapshot[l] = demo.run /\ disk.saved[l].run = demo.run /\ disk.finalized[l] = demo.run
      /\ DOMAIN disk.context[l] = Contexts /\ disk.context[l].run = demo.run
  BY <1>p1, <1>p2, <1>p3, <1>1, <1>2, <1>5, <1>h, PastAt
<1>7. /\ DOMAIN files = DOMAIN EmptyDirectory /\ DOMAIN files.context = Attempts
      /\ files.policy = disk.policy /\ files.summary = disk.summary /\ files.ledger = disk.ledger
      /\ files.snapshot = disk.snapshot /\ files.saved = disk.saved /\ files.finalized = disk.finalized
      /\ files.context[l] = c
      /\ \A m \in Attempts : m # l => files.context[m] = disk.context[m]
  BY <1>p1, <1>p2, <1>p3, <1>3 DEF ConstructionInv, DiskShape, EmptyDirectory
<1>w. WritesOnly(files, l) BY <1>7 DEF WritesOnly, KeepsEnds
<1>8. DiskShape' BY <1>p1, <1>p2, <1>p3, <1>6, <1>7 DEF ConstructionInv, DiskShape
<1>9. DOMAIN c = Contexts /\ c.run = demo.run /\ c.cleaned BY <1>p1, <1>p2, <1>p3, <1>6 DEF Contexts
<1>10. AttemptInv(l)' BY <1>p1, <1>p2, <1>p3, <1>6, <1>7, <1>9 DEF AttemptInv
<1> QED BY <1>p1, <1>1, <1>2, <1>5, <1>7, <1>8, <1>10, <1>h, <1>w, FileStepKeeps

-----------------------------------------------------------------------------
\* What the gate reads is as it was while none of it is written.
LEMMA BoundStays ==
  ASSUME KeepsFiles(disk'), disk'.policy = disk.policy
  PROVE  /\ \A l : ContextBound(l)' <=> ContextBound(l)
         /\ Manifest' = Manifest
BY DEF KeepsFiles, ContextBound, Manifest

LEMMA MakePolicyKeeps == ASSUME ConstructionInv, MakePolicy PROVE ConstructionInv'
<1>p1. PICK d : d = [demo EXCEPT !.policy = checkout] OBVIOUS
<1>p2. PICK files : files = [disk EXCEPT !.policy = checkout] OBVIOUS
<1>1. Step("policy") /\ Leave(d, files) BY <1>p1, <1>p2 DEF MakePolicy
<1>2. demo.pc = "steps" /\ demo.at = 1 BY <1>1, OtherSteps DEF Step, ConstructionInv
<1>3. Carries(d) /\ d.policy = checkout
  BY <1>2, <1>p1 DEF Carries, ConstructionInv, DemoShape, NoDemo
<1>4. /\ DOMAIN files = DOMAIN EmptyDirectory /\ KeepsFiles(files) /\ KeepsEnds(files)
      /\ files.policy = checkout
  BY <1>p2 DEF ConstructionInv, DiskShape, EmptyDirectory, KeepsFiles, KeepsEnds
<1>5. demo'.policy = checkout /\ demo'.at = 2
  BY <1>1, <1>2, <1>3, Advances DEF Carries, Leave, ConstructionInv
<1>6. BoundInv' BY <1>1, <1>4, <1>5 DEF BoundInv, Leave
<1> QED BY <1>1, <1>2, <1>3, <1>4, <1>6, OtherStepKeeps

\* The steps after it find the policy as it is, and what the gate has bound.
LEMMA BoundHolds ==
  ASSUME ConstructionInv, demo.pc = "steps", demo.at \in {8, 9} \cup (34..44),
         NEW d, Carries(d), d.policy = demo.policy,
         NEW files, Leave(d, files), DOMAIN files = DOMAIN EmptyDirectory,
         KeepsFiles(files), KeepsEnds(files), files.policy = disk.policy,
         demo.at = 9 => ContextBound("reference") /\ d.approval.manifest = Manifest,
         demo.at # 9 => d.approval = demo.approval,
         demo.at = 34 => ContextBound("good"),
         demo.at = 35 => ContextBound("write"),
         demo.at = 36 => ContextBound("review")
  PROVE  ConstructionInv'
<1>1. BoundInv BY DEF ConstructionInv, DemoInv
<1>2. /\ demo'.at = demo.at + 1 /\ demo'.policy = demo.policy /\ demo'.approval = d.approval
  BY Advances DEF Carries, Leave, ConstructionInv
<1>3. disk' = files BY DEF Leave
<1>4. (\A l : ContextBound(l)' <=> ContextBound(l)) /\ Manifest' = Manifest
  BY <1>3, BoundStays
<1>5. BoundInv' BY <1>1, <1>2, <1>3, <1>4 DEF BoundInv
<1> QED BY <1>5, OtherStepKeeps

\* A step that writes nothing.
LEMMA NothingWritten ==
  ASSUME ConstructionInv
  PROVE  /\ DOMAIN disk = DOMAIN EmptyDirectory /\ KeepsFiles(disk) /\ KeepsEnds(disk)
         /\ demo.pc = "steps" => Carries(demo)
BY DEF ConstructionInv, DiskShape, DemoShape, KeepsFiles, KeepsEnds, Carries

LEMMA PrepareVolumesKeeps == ASSUME ConstructionInv, PrepareVolumes PROVE ConstructionInv'
<1>1. Leave(demo, disk) /\ demo.pc = "steps" /\ demo.at = 8
  BY OtherSteps DEF PrepareVolumes, Step, ConstructionInv
<1> QED BY <1>1, NothingWritten, BoundHolds

LEMMA PromoteKeeps == ASSUME ConstructionInv, Promote PROVE ConstructionInv'
<1>p1. PICK a : a = [policy |-> disk.policy, manifest |-> Manifest, id |-> disk.context["reference"].run] OBVIOUS
<1>p2. PICK d : d = [demo EXCEPT !.approval = a] OBVIOUS
<1>1. Step("promote") /\ ContextBound("reference") /\ Leave(d, disk) BY <1>p1, <1>p2 DEF Promote
<1>2. demo.pc = "steps" /\ demo.at = 9 BY <1>1, OtherSteps DEF Step, ConstructionInv
<1>3. a.manifest = Manifest BY <1>p1
<1>4. Carries(d) /\ d.policy = demo.policy /\ d.approval = a
  BY <1>2, <1>p2 DEF Carries, ConstructionInv, DemoShape, NoDemo
<1> QED BY <1>1, <1>2, <1>3, <1>4, NothingWritten, BoundHolds

LEMMA CasesAre ==
  /\ Cases[1] = "good" /\ Cases[2] = "write" /\ Cases[3] = "review"
  /\ "good" \notin Range(Tampers) /\ "write" \notin Range(Tampers) /\ "review" \notin Range(Tampers)
<1> DEFINE All == {"good", "write", "review", "missing",
                   "tampered-context", "swapped-run", "stale-attempt", "tampered-approval"}
<1>1. Len(Candidates) = 4 /\ Candidates \in Seq(All) BY DEF Candidates
<1>2. Len(Tampers) = 4 /\ Tampers \in Seq(All) BY DEF Tampers
<1>3. Cases[1] = Candidates[1] /\ Cases[2] = Candidates[2] /\ Cases[3] = Candidates[3]
  <2> HIDE DEF All
  <2> QED BY <1>1, <1>2 DEF Cases
<1>4. Cases[1] = "good" /\ Cases[2] = "write" /\ Cases[3] = "review" BY <1>3, CandidatesAre
<1>5. "good" \notin Range(Tampers) /\ "write" \notin Range(Tampers) /\ "review" \notin Range(Tampers)
  BY DEF Tampers, Range
<1> QED BY <1>4, <1>5

LEMMA EvaluateKeeps == ASSUME ConstructionInv, Evaluate \/ EvaluateTampered PROVE ConstructionInv'
<1>1. /\ Leave(demo, disk) /\ demo.pc = "steps" /\ demo.at \in 34..41
      /\ Label = Cases[demo.at - 33]
      /\ Label # "missing" => ContextBound(Label) \/ Label \in Range(Tampers)
  BY OtherSteps DEF Evaluate, EvaluateTampered, Step, Judged, ConstructionInv
<1>2. /\ demo.at = 34 => Label = "good"
      /\ demo.at = 35 => Label = "write"
      /\ demo.at = 36 => Label = "review"
  BY <1>1, CasesAre
<1>3. /\ demo.at = 34 => ContextBound("good")
      /\ demo.at = 35 => ContextBound("write")
      /\ demo.at = 36 => ContextBound("review")
  BY <1>1, <1>2, CasesAre
<1> QED BY <1>1, <1>3, NothingWritten, BoundHolds

LEMMA CopyAuthorityKeeps == ASSUME ConstructionInv, CopyAuthority PROVE ConstructionInv'
<1>p. PICK files : files = [disk EXCEPT !.approval = demo.approval] OBVIOUS
<1>1. Leave(demo, files) /\ demo.pc = "steps" /\ demo.at = 42
  BY <1>p, OtherSteps DEF CopyAuthority, Step, ConstructionInv
<1>2. /\ DOMAIN files = DOMAIN EmptyDirectory /\ KeepsFiles(files) /\ KeepsEnds(files)
      /\ files.policy = disk.policy
  BY <1>p DEF ConstructionInv, DiskShape, EmptyDirectory, KeepsFiles, KeepsEnds
<1> QED BY <1>1, <1>2, NothingWritten, BoundHolds

LEMMA CopyResultsKeeps == ASSUME ConstructionInv, CopyResults PROVE ConstructionInv'
<1>p1. PICK all : all = [c \in Range(Cases) |-> Bundle(c)] OBVIOUS
<1>p2. PICK files : files = [disk EXCEPT !.results = all] OBVIOUS
<1>1. Leave(demo, files) /\ demo.pc = "steps" /\ demo.at = 43
  BY <1>p1, <1>p2, OtherSteps DEF CopyResults, Step, ConstructionInv
<1>2. /\ DOMAIN files = DOMAIN EmptyDirectory /\ KeepsFiles(files) /\ KeepsEnds(files)
      /\ files.policy = disk.policy
  BY <1>p2 DEF ConstructionInv, DiskShape, EmptyDirectory, KeepsFiles, KeepsEnds
<1> QED BY <1>1, <1>2, NothingWritten, BoundHolds

\* A run that ends after it wrote the snapshot of its reference.
LEMMA EndingRunKeeps ==
  ASSUME ConstructionInv, demo.pc = "steps", demo.at >= 8,
         demo' = [demo EXCEPT !.pc = "end", !.at = 0],
         DOMAIN disk' = DOMAIN EmptyDirectory, KeepsFiles(disk'), KeepsEnds(disk'),
         UNCHANGED <<checkout, edits, killed, results, repository>>
  PROVE  ConstructionInv'
<1> USE DEF ConstructionInv
<1>1. demo'.run = demo.run /\ demo'.pc = "end" /\ DOMAIN demo' = DOMAIN NoDemo /\ demo.run \in Nat
  BY DEF DemoShape, NoDemo
<1>2. disk.snapshot["reference"] = demo.run
  BY AttemptsAre, BaseIs DEF DemoInv, DemoShape, AttemptInv, Past
<1>3. DemoShape' BY <1>1 DEF DemoShape
<1>4. DiskShape' BY DEF DiskShape, KeepsFiles
<1>5. DemoInv' BY <1>1 DEF DemoInv
<1>6. EndInv' BY <1>1, <1>2 DEF EndInv, KeepsFiles
<1>7. SummaryInv' BY <1>1, <1>2 DEF SummaryInv, KeepsFiles, KeepsEnds, Absent
<1>8. ResultsInv' BY DEF ResultsInv
<1>9. RepositoryInv' BY DEF RepositoryInv, Absent
<1> QED BY <1>3, <1>4, <1>5, <1>6, <1>7, <1>8, <1>9

LEMMA CopyPartKeeps == ASSUME ConstructionInv, CopyPart PROVE ConstructionInv'
<1>1. demo.pc = "steps" /\ demo.at = 43 BY OtherSteps DEF CopyPart, Step, ConstructionInv
<1>2. PICK all : disk' = [disk EXCEPT !.results = all] BY DEF CopyPart
<1>3. DOMAIN disk' = DOMAIN EmptyDirectory /\ KeepsFiles(disk') /\ KeepsEnds(disk')
  BY <1>2 DEF ConstructionInv, DiskShape, EmptyDirectory, KeepsFiles, KeepsEnds
<1>4. /\ demo' = [demo EXCEPT !.pc = "end", !.at = 0]
      /\ UNCHANGED <<checkout, edits, killed, results, repository>>
  BY DEF CopyPart
<1> QED BY <1>1, <1>3, <1>4, EndingRunKeeps

\* The summary is that of the run which wrote all there is, under one policy.
LEMMA WriteSummaryKeeps == ASSUME ConstructionInv, WriteSummary PROVE ConstructionInv'
<1> USE DEF ConstructionInv
<1>p1. PICK s : s = [run |-> demo.run, policy |-> demo.policy, profile |-> checkout, approval |-> demo.approval]
  OBVIOUS
<1>p2. PICK files : files = [disk EXCEPT !.summary = s] OBVIOUS
<1>1. Leave(demo, files) /\ demo.pc = "steps" /\ demo.at = 44
  BY <1>p1, <1>p2, OtherSteps DEF WriteSummary, Step
<1>2. /\ DOMAIN files = DOMAIN EmptyDirectory /\ KeepsFiles(files) /\ files.summary = s
      /\ files.policy = disk.policy /\ files.ledger = disk.ledger
  BY <1>p2 DEF DiskShape, EmptyDirectory, KeepsFiles
<1>3. disk' = files /\ results' = results /\ repository' = repository BY <1>1 DEF Leave
<1>4. DOMAIN demo' = DOMAIN NoDemo /\ demo'.run = demo.run /\ demo'.pc = "end" /\ demo.run \in Nat
  BY <1>1, Advances DEF Leave, DemoShape
<1>5. BoundInv /\ \A l \in Attempts : AttemptInv(l) BY <1>1 DEF DemoInv
<1>6. ASSUME NEW l \in Attempts
      PROVE  /\ disk.snapshot[l] = demo.run /\ disk.saved[l].run = demo.run
             /\ disk.finalized[l] = demo.run /\ disk.context[l].run = demo.run
             /\ disk.context[l].cleaned
  BY <1>1, <1>5, AttemptsAre, BaseIs DEF AttemptInv, Past
<1>7. ASSUME NEW l \in Attempts, l # "missing" PROVE ContextBound(l)
  BY <1>1, <1>5, <1>7, AttemptsAre DEF BoundInv
<1>8. disk.policy = demo.policy BY <1>1, <1>5 DEF BoundInv
<1>9. ASSUME NEW l \in Attempts, l # "missing"
      PROVE  disk.saved[l].contract = demo.policy /\ disk.context[l].orchestrator = demo.policy
  BY <1>7, <1>8, <1>9 DEF ContextBound
<1>10. s.run = demo.run /\ s.policy = demo.policy /\ s.approval = demo.approval BY <1>p1
<1>11. OneRun(s)' BY <1>2, <1>3, <1>6, <1>9, <1>10 DEF OneRun, KeepsFiles
<1>12. LedgerOf(s)' BY <1>4, <1>10 DEF LedgerOf
<1>13. demo.approval.manifest.snapshot = demo.run
  BY <1>1, <1>5, <1>6, AttemptsAre DEF BoundInv, Manifest
<1>14. SummaryInv' BY <1>2, <1>3, <1>4, <1>10, <1>11, <1>12, <1>13 DEF SummaryInv
<1>15. DemoShape' BY <1>4 DEF DemoShape
<1>16. DiskShape' BY <1>2, <1>3 DEF DiskShape, KeepsFiles
<1>17. DemoInv' BY <1>4 DEF DemoInv
<1>18. EndInv' BY <1>2, <1>3, <1>4, <1>6, AttemptsAre DEF EndInv, KeepsFiles
<1>19. ResultsInv' BY <1>3 DEF ResultsInv
<1>20. RepositoryInv' BY <1>3 DEF RepositoryInv, Absent
<1> QED BY <1>14, <1>15, <1>16, <1>17, <1>18, <1>19, <1>20

\* While no demo runs, its files are those of the last that wrote any.
LEMMA IdleKeeps ==
  ASSUME ConstructionInv, demo' = [demo EXCEPT !.pc = "idle"], disk' = disk,
         demo.pc = "end" => demo.run \in killed', killed \subseteq killed',
         UNCHANGED <<results, repository>>
  PROVE  ConstructionInv'
<1> USE DEF ConstructionInv
<1>1. /\ demo'.run = demo.run /\ demo'.pc = "idle" /\ DOMAIN demo' = DOMAIN NoDemo
  BY DEF DemoShape, NoDemo
<1>2. DemoShape' BY <1>1 DEF DemoShape
<1>3. DiskShape' BY DEF DiskShape
<1>4. DemoInv' /\ EndInv' BY <1>1 DEF DemoInv, EndInv
<1>5. SummaryInv'
  <2> SUFFICES ASSUME disk.summary # Absent PROVE SummaryInv' BY DEF SummaryInv, Absent
  <2>1. OneRun(disk.summary) => OneRun(disk.summary)' BY DEF OneRun
  <2>2. LedgerOf(disk.summary) => LedgerOf(disk.summary)' BY <1>1 DEF LedgerOf, Absent
  <2> QED BY <1>1, <2>1, <2>2 DEF SummaryInv
<1>6. ResultsInv' BY DEF ResultsInv
<1>7. RepositoryInv' BY DEF RepositoryInv, Absent
<1> QED BY <1>2, <1>3, <1>4, <1>5, <1>6, <1>7

LEMMA VolumesAre == Volumes = {8}
<1>1. DOMAIN Script = 1..44 BY DEF Script
<1>2. ASSUME NEW i \in 1..44, Script[i][1] = "volumes" PROVE i = 8
  <2>1. CASE \E l \in Attempts, k \in 1..6 : i = Base(l) + k
    BY <1>2, <2>1, AttemptIsAt, AttemptStepsAre
  <2> QED BY <1>2, <2>1, StepIs
<1>3. Script[8] = <<"volumes", "none">> BY DEF Script
<1> QED BY <1>1, <1>2, <1>3 DEF Volumes

LEMMA RaiseKeeps == ASSUME ConstructionInv, Raise PROVE ConstructionInv'
<1>1. demo.pc = "steps" /\ disk' = disk /\ UNCHANGED <<checkout, edits, killed, results, repository>>
  BY DEF Raise
<1>2. CASE demo.at >= 8
  <2>1. demo' = [demo EXCEPT !.pc = "end", !.at = 0] BY <1>2, VolumesAre DEF Raise
  <2> QED BY <1>1, <1>2, <2>1, NothingWritten, EndingRunKeeps
<1>3. CASE ~ demo.at >= 8
  <2>1. demo' = [demo EXCEPT !.pc = "idle"] BY <1>3, VolumesAre DEF Raise
  <2> QED BY <1>1, <2>1, IdleKeeps
<1> QED BY <1>2, <1>3

LEMMA KillKeeps == ASSUME ConstructionInv, Kill PROVE ConstructionInv'
BY IdleKeeps DEF Kill

LEMMA CleanGateKeeps == ASSUME ConstructionInv, CleanGate PROVE ConstructionInv'
<1> USE DEF ConstructionInv
<1>1. demo.pc = "end" /\ UNCHANGED <<checkout, edits, results, repository>> BY DEF CleanGate
<1>2. /\ demo'.run = demo.run /\ demo'.pc = "idle" /\ DOMAIN demo' = DOMAIN NoDemo
  BY DEF CleanGate, DemoShape, NoDemo
<1>w. killed \subseteq killed' BY DEF CleanGate
<1>c. PICK complete \in BOOLEAN, copied \in BOOLEAN :
        \/ disk' = [disk EXCEPT !.ledger = [run |-> demo.run, complete |-> complete],
                                !.preserved = @ \/ copied]
        \/ /\ demo.run \in killed'
           /\ \E left \in {disk.ledger, Absent} :
                disk' = [disk EXCEPT !.ledger = left, !.preserved = @ \/ copied]
  BY DEF CleanGate
<1>l. PICK ledger :
        /\ disk' = [disk EXCEPT !.ledger = ledger, !.preserved = @ \/ copied]
        /\ ledger = [run |-> demo.run, complete |-> complete] \/ demo.run \in killed'
  BY <1>c
<1>3. PICK preserved : disk' = [disk EXCEPT !.ledger = ledger, !.preserved = preserved]
  <2>1. PICK b : b = (disk.preserved \/ copied) OBVIOUS
  <2> QED BY <1>l, <2>1 DEF DiskShape, EmptyDirectory
<1>4. /\ DOMAIN disk' = DOMAIN EmptyDirectory /\ KeepsFiles(disk')
      /\ disk'.summary = disk.summary /\ disk'.ledger = ledger
  BY <1>3 DEF DiskShape, EmptyDirectory, KeepsFiles
<1>5. (ledger # Absent /\ ledger.run = demo.run) \/ demo.run \in killed'
  <2> SUFFICES ASSUME ledger = [run |-> demo.run, complete |-> complete]
               PROVE  ledger # Absent /\ ledger.run = demo.run
    BY <1>l
  <2>1. DOMAIN ledger = {"run", "complete"} /\ ledger.run = demo.run OBVIOUS
  <2>2. Absent = <<>> /\ DOMAIN <<>> = {} BY DEF Absent
  <2> QED BY <2>1, <2>2
<1>6. DemoShape' BY <1>2 DEF DemoShape
<1>7. DiskShape' BY <1>4 DEF DiskShape, KeepsFiles
<1>8. DemoInv' /\ EndInv' BY <1>2 DEF DemoInv, EndInv
<1>9. SummaryInv'
  <2> SUFFICES ASSUME disk.summary # Absent PROVE SummaryInv' BY <1>4 DEF SummaryInv, Absent
  <2>1. disk.snapshot["reference"] = demo.run BY <1>1 DEF EndInv
  <2>2. ASSUME disk'.snapshot["reference"] = disk.summary.run
        PROVE  OneRun(disk.summary)' /\ LedgerOf(disk.summary)'
    <3>1. disk.summary.run = demo.run /\ OneRun(disk.summary) BY <1>4, <2>1, <2>2 DEF SummaryInv, KeepsFiles
    <3>2. OneRun(disk.summary)' BY <1>4, <3>1 DEF OneRun, KeepsFiles
    <3>3. LedgerOf(disk.summary)' BY <1>4, <1>5, <3>1 DEF LedgerOf, Absent
    <3> QED BY <3>2, <3>3
  <2> QED BY <1>2, <1>4, <2>2 DEF SummaryInv
<1>10. ResultsInv' BY <1>1 DEF ResultsInv
<1>11. RepositoryInv' BY <1>1 DEF RepositoryInv, Absent
<1> QED BY <1>6, <1>7, <1>8, <1>9, <1>10, <1>11

LEMMA StartDemoKeeps == ASSUME ConstructionInv, StartDemo PROVE ConstructionInv'
<1> USE DEF ConstructionInv
<1>1. /\ demo.pc = "idle" /\ disk' = disk /\ killed' = killed /\ results' = results
      /\ repository' = repository /\ demo' = [NoDemo EXCEPT !.run = demo.run + 1, !.pc = "steps"]
  BY DEF StartDemo, Idle
<1>2. demo.run \in Nat BY DEF DemoShape
<1>3. /\ DOMAIN demo' = DOMAIN NoDemo /\ demo'.run = demo.run + 1 /\ demo'.pc = "steps" /\ demo'.at = 1
  BY <1>1 DEF NoDemo
<1>4. DemoShape' BY <1>2, <1>3 DEF DemoShape
<1>5. DiskShape' BY <1>1 DEF DiskShape
<1>6. DemoInv'
  <2>1. BoundInv' BY <1>3 DEF BoundInv
  <2>2. ASSUME NEW l \in Attempts PROVE AttemptInv(l)'
    <3>1. \A k \in 1..6 : ~ Past(l, k)' BY <1>3, AttemptsAre, BaseIs DEF Past
    <3> QED BY <3>1 DEF AttemptInv
  <2> QED BY <2>1, <2>2 DEF DemoInv
<1>7. EndInv' BY <1>3 DEF EndInv
<1>8. SummaryInv'
  <2> SUFFICES ASSUME disk.summary # Absent PROVE SummaryInv' BY <1>1 DEF SummaryInv, Absent
  <2>1. OneRun(disk.summary) => OneRun(disk.summary)' BY <1>1 DEF OneRun
  <2>2. LedgerOf(disk.summary) => LedgerOf(disk.summary)' BY <1>1 DEF LedgerOf, Absent
  <2>3. disk.summary.run \in Nat /\ disk.summary.run <= demo.run BY DEF SummaryInv
  <2>4. disk.summary.run < demo'.run BY <1>2, <1>3, <2>3
  <2>5. disk.summary.run <= demo'.run BY <1>2, <1>3, <2>3
  <2>6. /\ disk'.summary = disk.summary /\ disk.summary.approval.manifest.snapshot = disk.summary.run
        /\ disk'.snapshot["reference"] = disk.summary.run
             => OneRun(disk.summary)' /\ LedgerOf(disk.summary)'
    BY <1>1, <2>1, <2>2 DEF SummaryInv
  <2> QED BY <2>3, <2>4, <2>5, <2>6 DEF SummaryInv
<1>9. ResultsInv' BY <1>1 DEF ResultsInv
<1>10. RepositoryInv' BY <1>1 DEF RepositoryInv, Absent
<1> QED BY <1>4, <1>5, <1>6, <1>7, <1>8, <1>9, <1>10

\* What changes nothing of the demo and its directory.
LEMMA RestKeeps ==
  ASSUME ConstructionInv, UNCHANGED <<demo, disk, killed>>, ResultsInv', RepositoryInv'
  PROVE  ConstructionInv'
<1>1. DemoShape' /\ DiskShape' BY DEF ConstructionInv, DemoShape, DiskShape
<1>2. DemoInv' BY DEF ConstructionInv, DemoInv, BoundInv, AttemptInv, ContextBound, Manifest, Past
<1>3. EndInv' BY DEF ConstructionInv, EndInv
<1>4. OneRun(disk.summary)' = OneRun(disk.summary) BY DEF OneRun
<1>5. LedgerOf(disk.summary)' = LedgerOf(disk.summary) BY DEF LedgerOf, Absent
<1>6. SummaryInv' BY <1>4, <1>5 DEF ConstructionInv, SummaryInv, Absent
<1> QED BY <1>1, <1>2, <1>3, <1>6 DEF ConstructionInv

\* What the adjudication finds in the directory is the work of one run.
LEMMA AcceptableIs ==
  ASSUME ConstructionInv, Acceptable
  PROVE  /\ OneRun(disk.summary) /\ LedgerOf(disk.summary)
         /\ disk.summary.policy = disk.policy /\ disk.policy = checkout
         /\ disk.approval.manifest.context = disk.context["reference"]
<1>1. disk.summary # Absent BY DEF Acceptable
<1>2. disk.summary.approval.manifest.snapshot = disk.summary.run
  BY <1>1 DEF ConstructionInv, SummaryInv
<1>3. disk.approval = disk.summary.approval /\ disk.approval.manifest = Manifest
  BY DEF Acceptable, AuthorityHolds
<1>4. Manifest.snapshot = disk.snapshot["reference"] /\ Manifest.context = disk.context["reference"]
  BY DEF Manifest
<1>5. disk.snapshot["reference"] = disk.summary.run BY <1>2, <1>3, <1>4
<1>6. disk.summary.policy = disk.policy /\ disk.policy = checkout BY DEF Acceptable, PolicyHolds
<1> QED BY <1>1, <1>3, <1>4, <1>5, <1>6 DEF ConstructionInv, SummaryInv

LEMMA AdjudicateKeeps == ASSUME ConstructionInv, Adjudicate PROVE ConstructionInv'
<1>1. Acceptable /\ UNCHANGED <<demo, disk, killed, repository>> BY DEF Adjudicate
<1>p. PICK r : r = [run |-> disk.summary.run, approval |-> disk.approval, policy |-> disk.policy] OBVIOUS
<1>2. results' = results \cup {r} BY <1>p DEF Adjudicate
<1>3. r.approval.manifest.context.orchestrator = r.policy
  <2>1. disk.context["reference"].orchestrator = disk.policy
    BY <1>1, AcceptableIs, AttemptsAre DEF OneRun
  <2> QED BY <1>1, <1>p, <2>1, AcceptableIs
<1>4. ResultsInv' BY <1>2, <1>3 DEF ConstructionInv, ResultsInv
<1>5. RepositoryInv' BY <1>1, <1>2 DEF ConstructionInv, RepositoryInv, Absent
<1> QED BY <1>1, <1>4, <1>5, RestKeeps

LEMMA EditKeeps == ASSUME ConstructionInv, Edit PROVE ConstructionInv'
<1>1. ResultsInv' BY DEF Edit, ConstructionInv, ResultsInv
<1>2. RepositoryInv' BY DEF Edit, ConstructionInv, RepositoryInv, Absent
<1> QED BY <1>1, <1>2, RestKeeps DEF Edit

LEMMA CommitKeeps == ASSUME ConstructionInv, Commit PROVE ConstructionInv'
<1>1. UNCHANGED <<demo, disk, killed, results>> BY DEF Commit
<1>2. PICK a \in results, p \in results : \E t :
        repository' = [authority |-> a, pins |-> p, trust |-> t]
  BY DEF Commit
<1>3. RepositoryInv' BY <1>1, <1>2 DEF RepositoryInv
<1>4. ResultsInv' BY <1>1 DEF ConstructionInv, ResultsInv
<1> QED BY <1>1, <1>3, <1>4, RestKeeps

-----------------------------------------------------------------------------
LEMMA ConstructionStarts == ConstructionInit => ConstructionInv
<1> SUFFICES ASSUME ConstructionInit PROVE ConstructionInv OBVIOUS
<1>1. /\ demo = NoDemo /\ disk = EmptyDirectory /\ results = {}
      /\ repository = [authority |-> Absent, trust |-> Absent, pins |-> Absent]
  BY DEF ConstructionInit
<1>2. DemoShape /\ DemoInv /\ EndInv BY <1>1 DEF DemoShape, NoDemo, DemoInv, EndInv
<1>3. DiskShape BY <1>1 DEF DiskShape, EmptyDirectory
<1>4. SummaryInv BY <1>1 DEF SummaryInv, EmptyDirectory
<1>5. ResultsInv /\ RepositoryInv BY <1>1 DEF ResultsInv, RepositoryInv
<1> QED BY <1>2, <1>3, <1>4, <1>5 DEF ConstructionInv

LEMMA ConstructionSteps == ConstructionInv /\ [ConstructionNext]_construction => ConstructionInv'
<1> SUFFICES ASSUME ConstructionInv, [ConstructionNext]_construction PROVE ConstructionInv' OBVIOUS
<1>1. CASE DemoStep
  BY <1>1, StartDemoKeeps, MakePolicyKeeps, GuardKeeps, ExportKeeps, SaveKeeps, FinalizeKeeps,
     AssembleKeeps, CleanAttemptKeeps, PrepareVolumesKeeps, PromoteKeeps, EvaluateKeeps,
     CopyAuthorityKeeps, CopyResultsKeeps, CopyPartKeeps, WriteSummaryKeeps, RaiseKeeps,
     CleanGateKeeps, KillKeeps DEF DemoStep
<1>2. CASE Adjudicate BY <1>2, AdjudicateKeeps
<1>3. CASE Edit BY <1>3, EditKeeps
<1>4. CASE Commit BY <1>4, CommitKeeps
<1>5. CASE UNCHANGED construction
  <2>1. UNCHANGED <<demo, disk, killed, results, repository>> BY <1>5 DEF construction
  <2>2. ResultsInv' BY <2>1 DEF ConstructionInv, ResultsInv
  <2>3. RepositoryInv' BY <2>1 DEF ConstructionInv, RepositoryInv, Absent
  <2> QED BY <2>1, <2>2, <2>3, RestKeeps
<1> QED BY <1>1, <1>2, <1>3, <1>4, <1>5 DEF ConstructionNext

LEMMA OneRunByInv == ConstructionInv => ConstructionIsOneRun
<1> SUFFICES ASSUME ConstructionInv, Acceptable PROVE ConstructionIsOneRun BY DEF ConstructionIsOneRun
<1>1. /\ OneRun(disk.summary) /\ LedgerOf(disk.summary)
      /\ disk.summary.policy = checkout
  BY AcceptableIs
<1>2. demo.pc # "end" BY DEF Acceptable, Idle
<1>3. disk.ledger.run = disk.summary.run \/ disk.summary.run \in killed BY <1>1, <1>2 DEF LedgerOf
<1> QED BY <1>1, <1>3 DEF OneRun, ConstructionIsOneRun

LEMMA ConstructedByInv == ConstructionInv => AuthorityIsConstructed
<1> SUFFICES ASSUME ConstructionInv, AuthorityIsValid PROVE AuthorityIsConstructed
  BY DEF AuthorityIsConstructed
<1>1. repository.authority # Absent BY DEF AuthorityIsValid, AuthorityIsPinned
<1>2. repository.authority \in results BY <1>1 DEF ConstructionInv, RepositoryInv
<1>3. /\ repository.authority.policy = checkout
      /\ repository.trust.approval = repository.authority.approval
  BY DEF AuthorityIsValid, AuthorityIsPinned
<1>4. repository.authority.approval.manifest.context.orchestrator = checkout
  BY <1>2, <1>3 DEF ConstructionInv, ResultsInv
<1> QED BY <1>2, <1>3, <1>4 DEF AuthorityIsConstructed

\* What the adjudication accepts is the work of one demo run, for any number of
\* runs into one directory, killed or failed anywhere.
THEOREM ConstructionsAreOneRun == ConstructionSpec => []ConstructionIsOneRun
BY ConstructionStarts, ConstructionSteps, OneRunByInv, PTL DEF ConstructionSpec

\* An authority the validator accepts was adjudicated, from the sources that
\* are checked out.
THEOREM AuthoritiesAreConstructed == ConstructionSpec => []AuthorityIsConstructed
BY ConstructionStarts, ConstructionSteps, ConstructedByInv, PTL DEF ConstructionSpec

-----------------------------------------------------------------------------
(***************************************************************************)
(* The pipeline.                                                           *)
(***************************************************************************)
\* Only the stage of the command moves it on its own terms; what is left of it
\* afterwards is a command that is over.  The other stages keep what they are.
PipelineInv ==
  /\ stage = "command" => CommandInv
  /\ CommandIsContained
  /\ NativeInv /\ ConstructionInv /\ IntakeInv

LEMMA ContainedStays ==
  ASSUME CommandIsContained, UNCHANGED command PROVE CommandIsContained'
BY DEF CommandIsContained, Truncated, command, Group, Alive

LEMMA CommandStays == ASSUME CommandInv, UNCHANGED command PROVE CommandInv'
BY CommandSteps

LEMMA PipelineStarts == PipelineInit => PipelineInv
BY CommandStarts, ContainedByInv, NativeStarts, ConstructionStarts, IntakeStarts
   DEF PipelineInit, PipelineInv

LEMMA PipelineSteps == PipelineInv /\ [PipelineNext]_pipeline => PipelineInv'
<1> SUFFICES ASSUME PipelineInv, [PipelineNext]_pipeline PROVE PipelineInv' OBVIOUS
<1> USE DEF PipelineInv
<1>1. UNCHANGED native => NativeInv' BY NativeSteps
<1>2. UNCHANGED construction => ConstructionInv' BY ConstructionSteps
<1>3. UNCHANGED intake => IntakeInv' BY IntakeSteps
<1>4. UNCHANGED command => CommandIsContained' BY ContainedStays
<1>5. CASE stage = "command" /\ CommandNext /\ UNCHANGED <<stage, native, construction, intake>>
  <2>1. CommandInv' BY <1>5, CommandSteps
  <2>2. CommandIsContained' BY <2>1, ContainedByInv, PTL
  <2> QED BY <1>1, <1>2, <1>3, <1>5, <2>1, <2>2
<1>6. CASE BeginProof
  <2>1. stage' # "command" /\ Returned /\ UNCHANGED <<native, construction, intake>>
    BY <1>6 DEF BeginProof
  <2>2. CommandIsContained'
    <3>1. Group' = {} BY <2>1 DEF Returned, Group, Alive, Unborn
    <3>2. CommandInv BY <1>6 DEF BeginProof
    <3>3. runner'.outcome = runner.outcome /\ runner'.lost = runner.lost /\ ~ runner'.cut
      BY <2>1, <3>2 DEF Returned, CommandInv, CommandTypeOK, RunnerType
    <3>4. runner.outcome = "returned" /\ ~ runner.lost
      BY <2>1, <3>2 DEF Returned, CommandInv, OutcomeInv, OutputInv
    <3> QED BY <3>1, <3>3, <3>4 DEF CommandIsContained
  <2> QED BY <1>1, <1>2, <1>3, <2>1, <2>2
<1>7. CASE stage = "proof" /\ NativeNext /\ UNCHANGED <<stage, command, construction, intake>>
  <2>1. NativeInv' BY <1>7, NativeSteps
  <2> QED BY <1>2, <1>3, <1>4, <1>7, <2>1
<1>8. CASE BeginConstruction
  <2>1. stage' # "command" /\ UNCHANGED <<command, native, construction, intake>>
    BY <1>8 DEF BeginConstruction
  <2> QED BY <1>1, <1>2, <1>3, <1>4, <2>1
<1>9. CASE stage = "construction" /\ ConstructionNext /\ UNCHANGED <<stage, command, native, intake>>
  <2>1. ConstructionInv' BY <1>9, ConstructionSteps
  <2> QED BY <1>1, <1>3, <1>4, <1>9, <2>1
<1>10. CASE BeginIntake
  <2>1. stage' # "command" /\ UNCHANGED <<command, native, intake>> BY <1>10 DEF BeginIntake
  <2>2. ConstructionInit' BY <1>10 DEF BeginIntake, ConstructionInit
  <2>3. ConstructionInv' BY <2>2, ConstructionStarts, PTL
  <2> QED BY <1>1, <1>3, <1>4, <2>1, <2>3
<1>11. CASE stage = "intake" /\ IntakeNext /\ UNCHANGED <<stage, command, native, construction>>
  <2>1. IntakeInv' BY <1>11, IntakeSteps
  <2> QED BY <1>1, <1>2, <1>4, <1>11, <2>1
<1>12. CASE UNCHANGED pipeline
  <2>1. UNCHANGED <<stage, command, native, construction, intake>> BY <1>12 DEF pipeline
  <2> QED BY <1>1, <1>2, <1>3, <1>4, <2>1, CommandStays
<1> QED BY <1>5, <1>6, <1>7, <1>8, <1>9, <1>10, <1>11, <1>12 DEF PipelineNext

\* What each stage promises holds throughout, whatever the stages before it
\* left: all that TLC checks of the pipeline on one instance.
PipelineIsTrue ==
  /\ CommandIsContained /\ ProofIsTrue
  /\ ConstructionIsOneRun /\ AuthorityIsConstructed /\ IntakeIsTrue

THEOREM PipelinesAreTrue == PipelineSpec => []PipelineIsTrue
<1>1. PipelineInv => PipelineIsTrue
  BY TrueByInv, OneRunByInv, ConstructedByInv, TrustedByInv DEF PipelineInv, PipelineIsTrue
<1> QED BY PipelineStarts, PipelineSteps, <1>1, PTL DEF PipelineSpec
=============================================================================
