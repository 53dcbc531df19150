-------------------------- MODULE MCFixtureReaders --------------------------
(* One attempt whose writes, fence and restarts interleave with the reads. *)
EXTENDS FixtureReaders, TLC
Symmetry == Permutations(Attempts) \cup Permutations(Requests)
=============================================================================
