---------------------------- MODULE MCOwnership ----------------------------
(* Three runs: t1 and t2 share a loop of process p1, t3 runs in process p2. *)
(* Contracts overlap in every way two and three keys allow: a common target *)
(* with different observers, a common observer, and one run's target being  *)
(* another's observer, so that any unsorted acquisition can form a cycle.   *)
EXTENDS Ownership
CONSTANTS t1, t2, t3, l1, l2, p1, p2
MCLoopOf == [t \in {t1, t2, t3} |-> IF t = t3 THEN l2 ELSE l1]
MCProcessOf == [l \in {l1, l2} |-> IF l = l2 THEN p2 ELSE p1]
MCContracts ==
  {[target |-> 1, observers |-> {2}], [target |-> 2, observers |-> {1}],
   [target |-> 3, observers |-> {1}], [target |-> 2, observers |-> {3}]}
=============================================================================
