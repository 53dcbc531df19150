----------------------------- MODULE MCFixture -----------------------------
(* Two attempts that share two request names and a record, with the store   *)
(* seen as the abstract ledger as well.  The identifiers are interchangeable *)
(* and every property is a safety property, so symmetry is sound.           *)
EXTENDS FixtureRefinement, TLC
Symmetry == Permutations(Attempts) \cup Permutations(Requests) \cup Permutations(Records)
=============================================================================
