------------------------------ MODULE MCNifRun ------------------------------
(* Two processes calling methods of one program, on a heap of few blocks.  *)
EXTENDS NifRun, TLC

CONSTANTS p1, p2, a1, a2

Symmetry == Permutations({p1, p2}) \cup Permutations({a1, a2})

(* Memory: a method with a binary and an integer result, called with a     *)
(* binary, which it may hand back.                                         *)
MemoryCalls ==
  {[method |-> [inputs |-> <<"binary">>, outputs |-> <<"binary", "int64">>],
    args |-> <<"binary">>]}

(* Decoding: a method of one input of every type, with no argument and     *)
(* with every kind of term; a method of two inputs, with argument lists    *)
(* that are right, too short, wrong in the second place, and too long.     *)
DecodeCalls ==
  {[method |-> [inputs |-> <<t>>, outputs |-> <<>>], args |-> a] :
     t \in Types, a \in {<<>>} \cup {<<x>> : x \in Terms}}
  \cup
  {[method |-> [inputs |-> <<"int64", "uint64">>, outputs |-> <<>>], args |-> a] :
     a \in {<<"negative", "large">>, <<"small">>, <<"small", "negative">>,
            <<"small", "small", "other">>}}

AllCalls == MemoryCalls \cup DecodeCalls
=============================================================================
