--------------------------- MODULE MCIdentifiers ---------------------------
(* The identifier cache on a small instance. *)
EXTENDS Identifiers, TLC

MCInts == {-1}
Symmetry == Permutations(Strings) \cup Permutations(Pointers)
=============================================================================
