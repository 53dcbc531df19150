-------------------------- MODULE ExclusiveWindows --------------------------
(***************************************************************************)
(* What observer ownership promises to the runs that use it: a run is      *)
(* granted all the keys of a window in one step, no two runs hold a key at *)
(* the same time, and a run gives up keys whenever it likes.               *)
(***************************************************************************)
CONSTANTS Tasks, Keys

VARIABLE owned      \* the keys every run holds

Init == owned = [t \in Tasks |-> {}]

Grant(t, keys) ==
  /\ \A u \in Tasks \ {t} : owned[u] \cap keys = {}
  /\ owned' = [owned EXCEPT ![t] = @ \cup keys]

\* Several runs may lose their keys at once: they share a process that dies.
GiveUp(runs, kept) ==
  owned' = [t \in Tasks |-> IF t \in runs THEN owned[t] \cap kept ELSE owned[t]]

Next ==
  \/ \E t \in Tasks, keys \in SUBSET Keys : Grant(t, keys)
  \/ \E runs \in SUBSET Tasks, kept \in SUBSET Keys : GiveUp(runs, kept)

Spec == Init /\ [][Next]_owned
=============================================================================
