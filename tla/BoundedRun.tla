----------------------------- MODULE BoundedRun -----------------------------
(***************************************************************************)
(* One external command of the harness, run under a deadline and an output *)
(* budget (assurance/phase2/run_isolation_check.py, _run).  The command is *)
(* the leader of a process group; it and its descendants fork, write to    *)
(* the one pipe, close it, ignore SIGTERM, leave the group for a session   *)
(* of their own, exit, or do nothing at all, at any time.  The runner      *)
(* polls the leader, reads, and decides by two deadlines when to stop.     *)
(*                                                                         *)
(* Standard output and standard error are one pipe here, a read takes all  *)
(* that the pipe holds (both are 64 KiB) and is one chunk, and the pipe    *)
(* records whose bytes it holds, not which.  Of the chunks that are read   *)
(* the first ones are kept, up to the capture limit and one more: the one  *)
(* too many is what tells that the output is cut, and is not returned.     *)
(***************************************************************************)
EXTENDS Naturals

CONSTANTS
  Descendants,   \* processes the command may have started
  Capture,       \* chunks of output that are returned (capture_limit)
  Budget         \* chunks of output that are allowed (output_budget)

\* _run refuses any other limits.
ASSUME LimitsAssumption == Capture \in Nat \ {0} /\ Budget \in Nat \ {0}

VARIABLES
  process,       \* the command and its descendants
  pipe,          \* whose unread bytes the pipe holds
  time,          \* what of the deadline and of the drain deadline has passed
  runner         \* the runner: what it knows and what it does next

command == <<process, pipe, time, runner>>

Processes == {"leader"} \cup Descendants
Unborn == [state |-> "unborn", group |-> FALSE, holds |-> FALSE, obeys |-> FALSE]
Alive(p) == process[p].state = "alive"
Group == {p \in Processes : Alive(p) /\ process[p].group}
Open == \E p \in Processes : Alive(p) /\ process[p].holds

\* Forked from a member of the group: the group and the pipe are inherited.
Child(obeys) == [state |-> "alive", group |-> TRUE, holds |-> TRUE, obeys |-> obeys]

CommandInit ==
  /\ \E obeys \in BOOLEAN : process = [p \in Processes |-> IF p = "leader" THEN Child(obeys) ELSE Unborn]
  /\ pipe = {}
  /\ time = [late |-> FALSE, drain |-> "unset"]
  /\ runner = [pc |-> "poll", exited |-> FALSE, open |-> TRUE, emitted |-> 0, why |-> "none",
               timedOut |-> FALSE, over |-> FALSE, forced |-> FALSE, kept |-> 0, cut |-> FALSE,
               lost |-> FALSE, outcome |-> "none"]

-----------------------------------------------------------------------------
(***************************************************************************)
(* The operating system: the processes, and time.                          *)
(***************************************************************************)
Fork(p, q, obeys) ==
  /\ Alive(p) /\ process[q].state = "unborn"
  /\ process' = [process EXCEPT ![q] = [process[p] EXCEPT !.obeys = obeys]]
  /\ UNCHANGED <<pipe, time, runner>>

Write(p) ==
  /\ Alive(p) /\ process[p].holds /\ runner.open /\ p \notin pipe
  /\ pipe' = pipe \cup {p} /\ UNCHANGED <<process, time, runner>>

Close(p) ==
  /\ Alive(p) /\ process[p].holds
  /\ process' = [process EXCEPT ![p].holds = FALSE] /\ UNCHANGED <<pipe, time, runner>>

\* setsid: signals to the group no longer reach the process.
Escape(p) ==
  /\ p # "leader" /\ Alive(p) /\ process[p].group
  /\ process' = [process EXCEPT ![p].group = FALSE] /\ UNCHANGED <<pipe, time, runner>>

Exit(p) ==
  /\ Alive(p)
  /\ process' = [process EXCEPT ![p].state = "dead"] /\ UNCHANGED <<pipe, time, runner>>

DeadlinePasses ==
  /\ ~ time.late /\ time' = [time EXCEPT !.late = TRUE] /\ UNCHANGED <<process, pipe, runner>>
DrainPasses ==
  /\ time.drain = "set" /\ time' = [time EXCEPT !.drain = "passed"]
  /\ UNCHANGED <<process, pipe, runner>>

-----------------------------------------------------------------------------
(***************************************************************************)
(* The runner.                                                             *)
(***************************************************************************)
Signalled(to) == [p \in Processes |-> IF p \in to THEN [process[p] EXCEPT !.state = "dead"] ELSE process[p]]

\* SIGTERM to the group; the grace period is for the leader alone.
Terminate(why, known) ==
  /\ process' = Signalled({p \in Group : process[p].obeys})
  /\ runner' = [known EXCEPT !.pc = "grace", !.why = why]

\* Mutant: a leader that ended within the grace period leaves nothing to kill.
KillGroupOfLeader ==
  /\ runner.pc = "grace"
  /\ process' = Signalled(IF Alive("leader") THEN Group ELSE {})
  /\ time' = [time EXCEPT !.drain = IF runner.why = "raised" THEN @ ELSE "set"]
  /\ runner' = [runner EXCEPT !.exited = TRUE, !.outcome = IF runner.why = "raised" THEN "raised" ELSE @,
                              !.pc = CASE runner.why = "raised" -> "over"
                                       [] runner.why = "timeout" -> "read"
                                       [] runner.why = "budget" -> "drain"
                                       [] runner.why = "forced" -> "poll"]
  /\ UNCHANGED pipe
\* The leader has gone or the grace has passed: SIGKILL to the group in either case.
KillGroup ==
  /\ runner.pc = "grace"
  /\ process' = Signalled(Group)
  /\ time' = [time EXCEPT !.drain = IF runner.why = "raised" THEN @ ELSE "set"]
  /\ runner' = [runner EXCEPT !.exited = TRUE, !.outcome = IF runner.why = "raised" THEN "raised" ELSE @,
                              !.pc = CASE runner.why = "raised" -> "over"
                                       [] runner.why = "timeout" -> "read"
                                       [] runner.why = "budget" -> "drain"
                                       [] runner.why = "forced" -> "poll"]
  /\ UNCHANGED pipe

\* The top of the loop: it ends when the pipe is closed and the leader has exited.
Poll ==
  /\ runner.pc = "poll"
  /\ LET known == [runner EXCEPT !.exited = @ \/ ~ Alive("leader")]
     IN IF ~ known.exited /\ ~ known.over /\ ~ known.timedOut /\ time.late
        THEN Terminate("timeout", [known EXCEPT !.timedOut = TRUE]) /\ UNCHANGED time
        ELSE /\ runner' = [known EXCEPT !.pc = IF known.open THEN "read"
                                               ELSE IF known.exited THEN "report" ELSE "poll"]
             /\ time' = [time EXCEPT !.drain = IF known.exited /\ known.open /\ @ = "unset" THEN "set" ELSE @]
             /\ UNCHANGED process
  /\ UNCHANGED pipe

\* Mutant: nothing beyond the limit is kept.
KeptToLimit(kept) == IF kept >= Capture THEN kept ELSE kept + 1
Kept(kept) == IF kept > Capture THEN kept ELSE kept + 1

\* Output is returned up to the limit, and marked when there was more of it.
Truncated == runner.kept > Capture

\* select and read: bytes, the end of the pipe, or nothing before the wait is over.
Read ==
  /\ runner.pc = "read"
  /\ \/ /\ pipe # {} /\ pipe' = {}
        /\ LET known == [runner EXCEPT !.emitted = IF @ > Budget THEN @ ELSE @ + 1,
                                       !.kept = Kept(@),
                                       !.cut = @ \/ (runner.kept >= Capture /\ "leader" \in pipe),
                                       !.pc = "drain"]
           IN IF known.emitted > Budget /\ ~ known.over
              THEN Terminate("budget", [known EXCEPT !.over = TRUE])
              ELSE runner' = known /\ UNCHANGED process
     \/ /\ pipe = {} /\ runner' = [runner EXCEPT !.open = Open, !.pc = "drain"]
        /\ UNCHANGED <<process, pipe>>
  /\ UNCHANGED time

\* What the leader wrote and nobody will read.
Abandon == runner' = [runner EXCEPT !.open = FALSE, !.lost = "leader" \in pipe, !.pc = "report"]
           /\ pipe' = {} /\ UNCHANGED process

\* Mutant: whoever holds the pipe is terminated until nobody holds it.
DrainAgain ==
  /\ runner.pc = "drain" /\ UNCHANGED time
  /\ IF ~ runner.open \/ time.drain # "passed"
     THEN runner' = [runner EXCEPT !.pc = "poll"] /\ UNCHANGED <<process, pipe>>
     ELSE IF runner.over \/ runner.timedOut
          THEN Abandon
          ELSE Terminate("forced", [runner EXCEPT !.forced = TRUE]) /\ UNCHANGED pipe
Drain ==
  /\ runner.pc = "drain" /\ UNCHANGED time
  /\ IF ~ runner.open \/ time.drain # "passed"
     THEN runner' = [runner EXCEPT !.pc = "poll"] /\ UNCHANGED <<process, pipe>>
     ELSE IF runner.over \/ runner.timedOut \/ runner.forced
          THEN Abandon
          ELSE Terminate("forced", [runner EXCEPT !.forced = TRUE]) /\ UNCHANGED pipe

\* The budget, the deadline, and the exit code that is asked for are errors, in this order.
Report ==
  /\ runner.pc = "report"
  /\ \E outcome \in IF runner.over THEN {"budget"} ELSE IF runner.timedOut THEN {"timeout"}
                    ELSE {"returned", "failed"} :
       runner' = [runner EXCEPT !.pc = "over", !.outcome = outcome]
  /\ UNCHANGED <<process, pipe, time>>

\* An exception in the loop, an interrupt among them.
Interrupt == /\ runner.pc \in {"poll", "read", "drain"} /\ Terminate("raised", runner)
         /\ UNCHANGED <<pipe, time>>

RunnerStep == Poll \/ Read \/ Drain \/ Report \/ KillGroup
System ==
  \/ \E p \in Processes, q \in Descendants, obeys \in BOOLEAN : Fork(p, q, obeys)
  \/ \E p \in Processes : Write(p) \/ Close(p) \/ Escape(p) \/ Exit(p)
CommandNext == System \/ DeadlinePasses \/ DrainPasses \/ RunnerStep \/ Interrupt

\* Time passes and the runner is scheduled; nothing is asked of the command.
CommandFairness ==
  WF_command(RunnerStep) /\ WF_command(DeadlinePasses) /\ WF_command(DrainPasses)
CommandSpec == CommandInit /\ [][CommandNext]_command /\ CommandFairness

-----------------------------------------------------------------------------
(* Whatever the processes do, ignore or hold open, the runner returns or   *)
(* raises: a descendant that keeps the pipe cannot keep the harness.       *)
CommandEnds == <>(runner.pc = "over")

(* When the runner gave up on a command (deadline, budget, exception) or   *)
(* had to force the end of its output, no process of its group goes on,    *)
(* not even one that ignores SIGTERM or that the dead leader left behind.  *)
(* Where it returns an exit code, nothing the command itself wrote was     *)
(* left unread, and if any of it is missing, because more was read than    *)
(* the capture limit, then the output says that it is truncated.           *)
CommandIsContained ==
  runner.pc = "over" =>
    /\ runner.outcome \in {"budget", "timeout", "raised"} \/ runner.forced => Group = {}
    /\ runner.outcome \in {"returned", "failed"} => ~ runner.lost /\ (runner.cut => Truncated)
=============================================================================
