--------------------------- MODULE MCLibraryModule --------------------------
EXTENDS LibraryModule, TLC
CONSTANTS c1, c2, c3, mul, add
Symmetry == Permutations({c1, c2, c3})
(* The module of test/library_test.exs. *)
MulAndAdd == <<mul, add>>
=============================================================================
