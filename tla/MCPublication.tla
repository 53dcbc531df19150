--------------------------- MODULE MCPublication ----------------------------
(* Three gates; the identifiers of gates and files are interchangeable.     *)
EXTENDS Publication, TLC
Symmetry == Permutations(Gates) \cup Permutations(Files) \cup Permutations(Results)
=============================================================================
