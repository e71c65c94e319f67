--------------------------- MODULE MCProgramCache ---------------------------
EXTENDS ProgramCache, TLC
CONSTANTS c1, c2, f1, f2, q1, q2, q3, q4
(* Two functions of different names. *)
OwnNames == [f \in {f1, f2} |-> f]
(* f/1 and f/2: one name. *)
OneName == [f \in {f1, f2} |-> f1]
=============================================================================
