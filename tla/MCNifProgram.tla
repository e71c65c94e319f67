---------------------------- MODULE MCNifProgram ----------------------------
(* Two processes and two programs.  The method lists hold every shape of   *)
(* parameter list on the first method, and a good method before and after  *)
(* the bad ones, so that an error finds tables already built.              *)
EXTENDS NifProgram, TLC

CONSTANTS p1, p2, h1, h2

Pair(in, out) == [pair |-> TRUE, in |-> in, out |-> out]
NotAPair == [pair |-> FALSE, in |-> "empty", out |-> "empty"]

(* Every way one list can be bad, alone or after a good method.            *)
BadLists ==
  {<< >>, <<Pair("good", "empty")>>, <<Pair("good", "good"), NotAPair>>}
  \cup {<<Pair(s, "good")>> : s \in Shapes}
  \cup {<<Pair("good", "good"), Pair("good", s)>> : s \in Shapes \ {"empty"}}
=============================================================================
