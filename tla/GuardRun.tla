------------------------------ MODULE GuardRun ------------------------------
(***************************************************************************)
(* A whole run of the guard (engine.py, _run_with_ownership): discovery    *)
(* and inventory first, then the temporal check if the contract asks for   *)
(* it, then the checks of Engine.                                          *)
(*                                                                         *)
(* The finding of the temporal check concerns no other check; the model    *)
(* keeps what the check has seen until it has ended.                       *)
(***************************************************************************)
EXTENDS Engine, Temporal

CONSTANT Watched    \* contracts with temporal_integrity enabled

ASSUME WatchedAssumption == Watched \subseteq Contracts

runVars == <<vars, temporal>>

\* temporal_integrity.enabled; for other contracts the options mean nothing.
RunInit ==
  /\ Init
  /\ IF contract \in Watched THEN TemporalInit
     ELSE /\ options = [rediscover |-> FALSE, stop |-> FALSE]
          /\ metadata = [i \in DOMAIN Families |-> 1]
          /\ check = [NoCheck EXCEPT !.pc = "over"]

\* After discovery and inventory.
TemporalStep == Inventory \notin pending /\ CheckStep /\ UNCHANGED vars

EndTemporal ==
  /\ check.pc = "done"
  /\ check' = [NoCheck EXCEPT !.pc = "over"]
  /\ metadata' = [i \in DOMAIN Families |-> 1]
  /\ UNCHANGED <<vars, options>>

\* What the target says changes at any time; only the temporal check reads it.
TargetChanges ==
  /\ check.pc \notin {"off", "over"}
  /\ \E i \in DOMAIN Families : ChangeMetadata(i)
  /\ UNCHANGED vars

RunNext ==
  \/ TemporalStep \/ EndTemporal \/ TargetChanges
  \/ check.pc = "over" /\ Next /\ UNCHANGED temporal
  \/ check.pc = "off" /\ Discover /\ UNCHANGED temporal

RunSpec == RunInit /\ [][RunNext]_runVars
=============================================================================
