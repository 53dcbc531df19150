---------------------------- MODULE MCAttemptRun ----------------------------
(* The demo gives every attempt a fixture of its own.                      *)
EXTENDS AttemptRun, TLC
MCRequired == [finding |-> [status |-> "passed", observation |-> "complete"]]
MCReference == MCRequired
Symmetry == Permutations(Requests) \cup Permutations(Records)
=============================================================================
