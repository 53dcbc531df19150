------------------------------ MODULE LogAudit ------------------------------
(***************************************************************************)
(* What the observers of audit logs, JsonlAudit and HttpAudit, have in     *)
(* common: begin() remembers what the log holds, collect() returns what    *)
(* came after, either at once or, with a settle timeout, when nothing new  *)
(* has come for a while or the deadline has passed.  Entry 0 of a log is   *)
(* one that is no event.  A step of the clock is one poll interval.        *)
(***************************************************************************)
EXTENDS Naturals, Sequences

CONSTANTS
  MaxEvents,      \* bound: events that are written
  MaxFaults,      \* bound: faults of the log
  SettleTimeout,  \* spec.settle_timeout_seconds, in poll intervals
  QuietPeriod,    \* spec.quiet_period_seconds, in poll intervals
  MaxTime         \* bound: the clock stops here

ASSUME TimesAssumption ==
  /\ SettleTimeout \in Nat \ {0} /\ QuietPeriod \in 1 .. SettleTimeout
  /\ MaxTime \in Nat /\ MaxTime > SettleTimeout
ASSUME BoundsAssumption == MaxEvents \in Nat /\ MaxFaults \in Nat

VARIABLES
  spec,  \* how the observer is configured: whether it settles, how it begins
  now,   \* the clock
  obs    \* the observer and the state of its collection

Bad == 0
Observing == obs.pc \notin {"idle", "done"}

\* Raising ends the collection; the exception carries the events so far.
Raise(o) == obs' = [o EXCEPT !.pc = "done", !.outcome = "error"]
Return(o) == obs' = [o EXCEPT !.pc = "done", !.outcome = "ok"]
=============================================================================
