---------------------------- MODULE MCValueStack ----------------------------
(* An int, a pointer to it, and an operator of each kind gen_opi() treats  *)
(* differently.                                                            *)
EXTENDS ValueStack

MCVarTypes == <<0, 1>>
=============================================================================
