----------------------------- MODULE MCTccState -----------------------------
EXTENDS TccState

CONSTANTS t1, t2, t3

(* One thread compiles again after its first program.                      *)
MCMaxCompiles == [t \in Threads |-> IF t = t1 THEN 2 ELSE 1]
=============================================================================
