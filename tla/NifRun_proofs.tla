---------------------------- MODULE NifRun_proofs ----------------------------
(***************************************************************************)
(* The memory of run(), for any number of calls at the same time, any heap *)
(* and any methods.  All invariants of NifRun are parts of one inductive   *)
(* invariant: what a call reads while it encodes its results depends on    *)
(* who owns the block, which depends on every way out of every other call. *)
(***************************************************************************)
EXTENDS NifRun, TLAPS

Methods == {c.method : c \in Calls} \cup {NoFrame.method}
Frames == [method : Methods, args : Seq(Terms), i : Nat]
OutputSlots == [kind : {"zero", "data", "scalar"}, at : Sources \cup {None}, size : {0, 1}]
Cells == [out : OutputIndexes, by : Procs \cup {None}]

Typed ==
  /\ pc \in [Procs -> Stages]
  /\ frame \in [Procs -> Frames]
  /\ input \in [Procs -> Seq(Terms)]
  /\ output \in [Procs -> [OutputIndexes -> OutputSlots]]
  /\ head \in [Procs -> Seq(Addrs)]
  /\ ret \in [Procs -> Seq(Cells)]
  /\ error \in [Procs -> Sources \cup {None}]
  /\ heap \in [Addrs -> Procs \cup {None}]
  /\ block \in [Addrs -> [by : Procs \cup {None}, ends : BOOLEAN]]
  /\ static \in [by : Procs \cup {None}, ends : BOOLEAN]

(* Whatever a call holds is on its Env list, once; before runop() and      *)
(* after free_env() it holds nothing.                                      *)
EnvInv(p) ==
  /\ \A a \in Addrs : heap[a] = p <=> a \in ToSet(head[p])
  /\ IsInjective(head[p])
  /\ pc[p] \in {"idle", "decode", "error_result"} => head[p] = <<>>

(* The decode loop has decoded the inputs before i, in order.              *)
InputInv(p) ==
  pc[p] # "idle" =>
    /\ frame[p].i >= 1
    /\ pc[p] = "decode" => Len(input[p]) = frame[p].i - 1 /\ Len(input[p]) <= Arity(p)
    /\ pc[p] # "decode" => Len(input[p]) = Arity(p)
    /\ \A k \in 1..Len(input[p]) :
         input[p][k] = frame[p].args[k] /\ frame[p].args[k] \in Accepts(Method(p).inputs[k])

(* Outputs point to blocks this call holds and was the last to write.      *)
OutputInv(p) ==
  pc[p] \in {"decode", "runop", "encode"} =>
    /\ \A i \in 1..Count(p) :
         Method(p).outputs[i] = "binary" => output[p][i].kind # "scalar"
    /\ \A i \in OutputIndexes :
         output[p][i].kind = "data" /\ output[p][i].at \in Addrs =>
           output[p][i].at \in ToSet(head[p]) /\ block[output[p][i].at].by = p

(* The encode loop has consed the outputs before i, the last one first.    *)
RetInv(p) ==
  /\ pc[p] \in {"decode", "runop"} => ret[p] = <<>>
  /\ pc[p] \in {"encode", "done"} =>
       /\ Len(ret[p]) = frame[p].i - 1 /\ Len(ret[p]) <= Count(p)
       /\ pc[p] = "done" => Len(ret[p]) = Count(p)
       /\ \A k \in 1..Len(ret[p]) :
            /\ ret[p][k].out = frame[p].i - k
            /\ output[p][frame[p].i - k].at # "static" => ret[p][k].by = p

ErrorInv(p) ==
  pc[p] \in {"error", "error_result"} => error[p] \in {"literal"} \cup Addrs

CallInv(p) == EnvInv(p) /\ InputInv(p) /\ OutputInv(p) /\ RetInv(p) /\ ErrorInv(p)

(* niffler_alloc() clears the byte after the block.                        *)
BlocksEnd == \A a \in Addrs : heap[a] # None => block[a].ends

IInv ==
  /\ Typed
  /\ \A p \in Procs : CallInv(p)
  /\ BlocksEnd
  /\ FaultsExplained

-----------------------------------------------------------------------------
(* The type lists of the methods that are called.                          *)
LEMMA MethodTypes ==
  ASSUME NEW m \in Methods
  PROVE  /\ m.inputs \in Seq(Types) /\ m.outputs \in Seq(Types)
         /\ Len(m.outputs) \in 0..MaxOutputs
<1>1. CASE m = NoFrame.method
  <2>1. m.inputs = <<>> /\ m.outputs = <<>>
    BY <1>1 DEF NoFrame
  <2>2. QED
    BY <2>1, MaxOutputsAssumption
<1>2. CASE m # NoFrame.method
  <2>1. m.inputs \in Seq(Types) /\ m.outputs \in Seq(Types) /\ Len(m.outputs) <= MaxOutputs
    BY <1>2, CallsAssumption DEF Methods
  <2>2. QED
    BY <2>1, MaxOutputsAssumption
<1>3. QED
  BY <1>1, <1>2

(* The frame of a call.                                                    *)
LEMMA FrameType ==
  ASSUME Typed, NEW p \in Procs
  PROVE  /\ Method(p).inputs \in Seq(Types) /\ Arity(p) \in Nat
         /\ Method(p).outputs \in Seq(Types) /\ Count(p) \in 0..MaxOutputs
         /\ frame[p] \in Frames
<1>1. frame[p] \in Frames /\ Method(p) \in Methods
  BY DEF Typed, Frames, Method
<1>2. QED
  BY <1>1, MethodTypes DEF Arity, Count

(* A new block at the head of the list of a call.                          *)
LEMMA PushBlock ==
  ASSUME NEW s \in Seq(Addrs), NEW a \in Addrs
  PROVE  /\ <<a>> \o s \in Seq(Addrs)
         /\ ToSet(<<a>> \o s) = {a} \cup ToSet(s)
         /\ IsInjective(s) /\ a \notin ToSet(s) => IsInjective(<<a>> \o s)
<1>1. /\ <<a>> \o s \in Seq(Addrs) /\ Len(<<a>> \o s) = Len(s) + 1
      /\ (<<a>> \o s)[1] = a /\ \A k \in 1..Len(s) : (<<a>> \o s)[k + 1] = s[k]
  OBVIOUS
<1>2. \A k \in 1..(Len(s) + 1) : k = 1 \/ (k - 1 \in 1..Len(s) /\ (<<a>> \o s)[k] = s[k - 1])
  BY <1>1
<1>3. ToSet(<<a>> \o s) = {a} \cup ToSet(s)
  <2>1. ASSUME NEW x \in ToSet(<<a>> \o s) PROVE x = a \/ x \in ToSet(s)
    BY <1>1, <1>2 DEF ToSet
  <2>2. a \in ToSet(<<a>> \o s)
    BY <1>1 DEF ToSet
  <2>3. ASSUME NEW x \in ToSet(s) PROVE x \in ToSet(<<a>> \o s)
    <3>1. PICK k \in 1..Len(s) : x = s[k]
      BY DEF ToSet
    <3>2. k + 1 \in 1..Len(<<a>> \o s) /\ x = (<<a>> \o s)[k + 1]
      BY <1>1, <3>1
    <3>3. QED
      BY <1>1, <3>2 DEF ToSet
  <2>4. QED
    BY <2>1, <2>2, <2>3
<1>4. ASSUME IsInjective(s), a \notin ToSet(s) PROVE IsInjective(<<a>> \o s)
  <2> SUFFICES ASSUME NEW j \in 1..(Len(s) + 1), NEW k \in 1..(Len(s) + 1),
                      (<<a>> \o s)[j] = (<<a>> \o s)[k]
               PROVE  j = k
    BY <1>1 DEF IsInjective
  <2>1. \A i \in 1..Len(s) : s[i] # a
    BY <1>4 DEF ToSet
  <2>2. CASE j = 1 \/ k = 1
    BY <1>1, <1>2, <2>1, <2>2
  <2>3. CASE j # 1 /\ k # 1
    BY <1>2, <1>4, <2>3 DEF IsInjective
  <2>4. QED
    BY <2>2, <2>3
<1>5. QED
  BY <1>1, <1>3, <1>4

(* What an argument list lets through is in the range of its type.         *)
LEMMA AcceptsInRange ==
  ASSUME NEW type \in Types, NEW term \in Accepts(type)
  PROVE  InRange(type, term)
<1>1. CASE type = "int64"
  BY <1>1 DEF Accepts, InRange
<1>2. CASE type = "uint64"
  BY <1>2 DEF Accepts, InRange
<1>3. CASE type = "double"
  BY <1>3 DEF Accepts, InRange
<1>4. CASE type = "binary"
  BY <1>4 DEF Accepts, InRange
<1>5. QED
  BY <1>1, <1>2, <1>3, <1>4 DEF Types

(* What a step of another call may do to the shared heap does not reach    *)
(* the blocks of a call.                                                   *)
LEMMA OtherCalls ==
  ASSUME IInv, NEW p \in Procs,
         \A q \in Procs \ {p} :
           /\ pc'[q] = pc[q] /\ frame'[q] = frame[q] /\ input'[q] = input[q]
           /\ output'[q] = output[q] /\ head'[q] = head[q] /\ ret'[q] = ret[q]
           /\ error'[q] = error[q],
         \A a \in Addrs :
           /\ heap'[a] = heap[a] \/ (heap[a] \in {p, None} /\ heap'[a] \in {p, None})
           /\ block'[a].by = block[a].by \/ heap'[a] = p
  PROVE  \A q \in Procs \ {p} : CallInv(q)'
<1> SUFFICES ASSUME NEW q \in Procs, q # p PROVE CallInv(q)'
  OBVIOUS
<1>1. CallInv(q) /\ q # None
  BY NoneAssumption DEF IInv
<1>2. EnvInv(q)'
  BY <1>1 DEF CallInv, EnvInv
<1>3. InputInv(q)'
  BY <1>1 DEF CallInv, InputInv, Method, Arity
<1>4. OutputInv(q)'
  BY <1>1, <1>2 DEF CallInv, EnvInv, OutputInv, Method, Count
<1>5. RetInv(q)' /\ ErrorInv(q)'
  BY <1>1 DEF CallInv, RetInv, ErrorInv, Method, Count
<1>6. QED
  BY <1>2, <1>3, <1>4, <1>5 DEF CallInv

(* Steps that leave the heap alone.                                        *)
LEMMA HeapFrame ==
  ASSUME IInv, NEW p \in Procs, UNCHANGED <<heap, block, head>>, FaultsExplained', Typed',
         \A q \in Procs \ {p} :
           /\ pc'[q] = pc[q] /\ frame'[q] = frame[q] /\ input'[q] = input[q]
           /\ output'[q] = output[q] /\ ret'[q] = ret[q] /\ error'[q] = error[q],
         InputInv(p)', OutputInv(p)', RetInv(p)', ErrorInv(p)',
         pc'[p] \in {"idle", "decode", "error_result"} => head[p] = <<>>
  PROVE  IInv'
<1>1. \A q \in Procs \ {p} : CallInv(q)'
  BY OtherCalls
<1>2. CallInv(p)'
  BY DEF IInv, CallInv, EnvInv
<1>3. BlocksEnd'
  BY DEF IInv, BlocksEnd
<1>4. QED
  BY <1>1, <1>2, <1>3 DEF IInv

-----------------------------------------------------------------------------
(* The constants of a call's start and end have the types of its state.    *)
LEMMA FreshTypes ==
  /\ [i \in OutputIndexes |-> NullSlot] \in [OutputIndexes -> OutputSlots]
  /\ NoFrame \in Frames
  /\ <<>> \in Seq(Terms) /\ <<>> \in Seq(Addrs) /\ <<>> \in Seq(Cells)
  /\ ToSet(<<>>) = {} /\ IsInjective(<<>>)
<1>1. [i \in OutputIndexes |-> NullSlot] \in [OutputIndexes -> OutputSlots]
  BY DEF NullSlot, OutputSlots
<1>2. NoFrame \in Frames
  BY DEF NoFrame, Frames, Methods
<1>3. ToSet(<<>>) = {} /\ IsInjective(<<>>)
  BY DEF ToSet, IsInjective
<1>4. QED
  BY <1>1, <1>2, <1>3

(* Before the first call nothing is allocated.                             *)
LEMMA InitIInv == Init => IInv
<1> SUFFICES ASSUME Init PROVE IInv
  OBVIOUS
<1>1. Typed
  BY FreshTypes DEF Init, Typed, Stages
<1>2. ASSUME NEW p \in Procs PROVE CallInv(p)
  <2>1. EnvInv(p)
    BY FreshTypes, NoneAssumption DEF Init, EnvInv
  <2>2. QED
    BY <2>1 DEF Init, CallInv, InputInv, OutputInv, RetInv, ErrorInv
<1>3. BlocksEnd /\ FaultsExplained
  BY DEF Init, BlocksEnd, FaultsExplained, Up
<1>4. QED
  BY <1>1, <1>2, <1>3 DEF IInv

(* Entering run().                                                         *)
LEMMA CallStep ==
  ASSUME IInv, NEW p \in Procs, NEW c \in Calls, Call(p, c.method, c.args)
  PROVE  IInv'
<1>1. [method |-> c.method, args |-> c.args, i |-> 1] \in Frames
  BY CallsAssumption DEF Frames, Methods
<1>2. Typed'
  BY <1>1, FreshTypes DEF Call, IInv, Typed, cheap, Stages, ClearOutputs
<1>3. /\ pc'[p] = "decode" /\ frame'[p].i = 1 /\ input'[p] = <<>> /\ ret'[p] = <<>>
      /\ pc[p] = "idle" /\ Up
      /\ \A q \in Procs \ {p} :
           /\ pc'[q] = pc[q] /\ frame'[q] = frame[q] /\ input'[q] = input[q]
           /\ output'[q] = output[q] /\ ret'[q] = ret[q] /\ error'[q] = error[q]
  BY DEF Call, IInv, Typed
<1>4. head[p] = <<>> /\ head' = head
  BY <1>3 DEF Call, IInv, CallInv, EnvInv, Typed
<1>5. InputInv(p)'
  <2>1. Arity(p)' \in Nat
    BY <1>2, FrameType DEF Typed, Frames, Arity, Method
  <2>2. QED
    BY <1>3, <2>1 DEF InputInv
<1>6. OutputInv(p)'
  <2>1. \A i \in OutputIndexes : output'[p][i].kind = "zero"
    BY DEF Call, IInv, Typed, ClearOutputs, NullSlot
  <2>2. Count(p)' \in 0..MaxOutputs
    BY <1>2, MethodTypes DEF Typed, Frames, Count, Method
  <2>3. 1..Count(p)' \subseteq OutputIndexes
    BY <2>2, MaxOutputsAssumption DEF OutputIndexes
  <2>4. QED
    BY <2>1, <2>3 DEF OutputInv
<1>7. RetInv(p)' /\ ErrorInv(p)'
  BY <1>3 DEF RetInv, ErrorInv
<1>8. FaultsExplained'
  BY DEF Call, IInv, FaultsExplained, Up
<1>9. QED
  BY <1>2, <1>3, <1>4, <1>5, <1>6, <1>7, <1>8, HeapFrame DEF Call, cheap

(* The stack of a call is gone when it returns.                            *)
LEMMA ReturnTypes ==
  ASSUME Typed, NEW p \in Procs, Return(p)
  PROVE  /\ pc' \in [Procs -> Stages] /\ frame' \in [Procs -> Frames]
         /\ input' \in [Procs -> Seq(Terms)] /\ ret' \in [Procs -> Seq(Cells)]
         /\ output' \in [Procs -> [OutputIndexes -> OutputSlots]]
         /\ error' \in [Procs -> Sources \cup {None}]
         /\ pc'[p] = "idle"
         /\ \A q \in Procs \ {p} :
              /\ pc'[q] = pc[q] /\ frame'[q] = frame[q] /\ input'[q] = input[q]
              /\ output'[q] = output[q] /\ ret'[q] = ret[q] /\ error'[q] = error[q]
  BY FreshTypes DEF Return, Typed, Stages

(* Returning to the emulator from a call that holds no block.              *)
LEMMA ReturnFrame ==
  ASSUME IInv, NEW p \in Procs, Return(p), head[p] = <<>>,
         UNCHANGED <<head, heap, block, static>>, FaultsExplained'
  PROVE  IInv'
<1>1. Typed'
  BY ReturnTypes DEF IInv, Typed
<1>2. InputInv(p)' /\ OutputInv(p)' /\ RetInv(p)' /\ ErrorInv(p)'
  BY ReturnTypes DEF IInv, InputInv, OutputInv, RetInv, ErrorInv
<1>3. QED
  BY <1>1, <1>2, ReturnTypes, HeapFrame DEF IInv

(* The decode loop: on, out with nothing allocated, or one input further.  *)
LEMMA DecodeStep ==
  ASSUME IInv, NEW p \in Procs, Decode(p)
  PROVE  IInv'
<1>1. /\ Up /\ pc[p] = "decode" /\ UNCHANGED <<head, heap, block, static, fault>>
      /\ head[p] = <<>> /\ FaultsExplained'
  BY DEF Decode, cheap, IInv, CallInv, EnvInv, FaultsExplained
<1>2. /\ frame[p] \in Frames /\ frame[p].i \in Nat /\ Arity(p) \in Nat /\ Count(p) \in Nat
      /\ Method(p).inputs \in Seq(Types) /\ input[p] \in Seq(Terms)
  BY FrameType DEF IInv, Typed, Frames
<1>3. InputInv(p) /\ OutputInv(p) /\ RetInv(p) /\ ErrorInv(p)
  BY DEF IInv, CallInv
<1>4. CASE frame[p].i > Arity(p)
  <2>1. pc' = [pc EXCEPT ![p] = "runop"] /\ UNCHANGED <<frame, input, output, ret, error>>
    BY <1>2, <1>4 DEF Decode, stack
  <2>2. Typed'
    BY <1>1, <2>1 DEF IInv, Typed, Stages
  <2>3. pc'[p] = "runop" /\ \A q \in Procs \ {p} : pc'[q] = pc[q]
    BY <2>1 DEF IInv, Typed
  <2>4. InputInv(p)'
    BY <1>1, <1>2, <1>3, <1>4, <2>1, <2>3 DEF InputInv, Arity, Method
  <2>5. OutputInv(p)'
    BY <1>1, <1>3, <2>1, <2>3 DEF OutputInv, Method, Count
  <2>6. RetInv(p)' /\ ErrorInv(p)'
    BY <1>1, <1>3, <2>1, <2>3 DEF RetInv, ErrorInv
  <2>7. QED
    BY <1>1, <2>1, <2>2, <2>3, <2>4, <2>5, <2>6, HeapFrame
<1>5. CASE frame[p].i <= Arity(p) /\ ~Fits(p, frame[p].i)
  <2>1. Return(p)
    BY <1>2, <1>5 DEF Decode
  <2>2. QED
    BY <1>1, <2>1, ReturnFrame
<1>6. CASE frame[p].i <= Arity(p) /\ Fits(p, frame[p].i)
  <2>1. PICK i \in 1..Arity(p) : i = frame[p].i
    BY <1>1, <1>2, <1>3, <1>6 DEF InputInv
  <2>2. PICK x \in Terms : x = frame[p].args[i] /\ x \in Accepts(Method(p).inputs[i])
    BY <1>2, <1>6, <2>1 DEF Fits, Frames
  <2>3. /\ input' = [input EXCEPT ![p] = Append(input[p], x)]
        /\ frame' = [frame EXCEPT ![p] = [frame[p] EXCEPT !.i = i + 1]]
        /\ UNCHANGED <<pc, output, ret, error>>
    BY <1>2, <1>6, <2>1, <2>2 DEF Decode
  <2>4. Typed'
    <3>1. [frame[p] EXCEPT !.i = i + 1] \in Frames /\ Append(input[p], x) \in Seq(Terms)
      BY <1>2, <2>1 DEF Frames
    <3>2. QED
      BY <1>1, <2>3, <3>1 DEF IInv, Typed
  <2>5. /\ input'[p] = Append(input[p], x) /\ frame'[p].i = i + 1
        /\ frame'[p].args = frame[p].args /\ frame'[p].method = frame[p].method
        /\ \A q \in Procs \ {p} : input'[q] = input[q] /\ frame'[q] = frame[q]
    BY <1>2, <2>3 DEF IInv, Typed, Frames
  <2>6. InputInv(p)'
    <3>1. Len(input[p]) = i - 1 /\ Len(input'[p]) = i /\ input'[p][i] = x
      BY <1>1, <1>2, <1>3, <2>1, <2>5 DEF InputInv
    <3>2. \A k \in 1..(i - 1) : input'[p][k] = input[p][k]
      BY <1>2, <2>5, <3>1
    <3>3. \A k \in 1..(i - 1) :
             input[p][k] = frame[p].args[k] /\ frame[p].args[k] \in Accepts(Method(p).inputs[k])
      BY <1>1, <1>3, <3>1 DEF InputInv
    <3>4. \A k \in 1..i : k = i \/ k \in 1..(i - 1)
      BY <2>1
    <3>5. \A k \in 1..i : /\ input'[p][k] = frame[p].args[k]
                          /\ frame[p].args[k] \in Accepts(Method(p).inputs[k])
      BY <2>2, <3>1, <3>2, <3>3, <3>4
    <3>6. QED
      BY <1>1, <1>2, <2>1, <2>3, <2>5, <3>1, <3>5 DEF InputInv, Arity, Method
  <2>7. OutputInv(p)' /\ RetInv(p)' /\ ErrorInv(p)'
    BY <1>1, <1>3, <2>3, <2>5 DEF OutputInv, RetInv, ErrorInv, Method, Count
  <2>8. QED
    BY <1>1, <2>3, <2>4, <2>5, <2>6, <2>7, HeapFrame
<1>7. QED
  BY <1>2, <1>4, <1>5, <1>6

-----------------------------------------------------------------------------
(* niffler_alloc() takes a block nobody holds.                             *)
LEMMA AllocStep ==
  ASSUME IInv, NEW p \in Procs, NEW a \in Addrs, Alloc(p, a)
  PROVE  IInv'
<1>1. /\ pc[p] = "runop" /\ heap[a] = None /\ UNCHANGED <<pc, stack, static, fault>>
      /\ CallInv(p) /\ p # None
  BY NoneAssumption DEF Alloc, IInv
<1>2. /\ heap' = [heap EXCEPT ![a] = p] /\ block' = [block EXCEPT ![a] = ClearBlock]
      /\ head' = [head EXCEPT ![p] = <<a>> \o head[p]]
      /\ ClearBlock \in [by : Procs \cup {None}, ends : BOOLEAN] /\ ClearBlock.ends
  BY DEF Alloc, ClearBlock
<1>3. /\ <<a>> \o head[p] \in Seq(Addrs) /\ ToSet(<<a>> \o head[p]) = {a} \cup ToSet(head[p])
      /\ IsInjective(<<a>> \o head[p])
  BY <1>1, PushBlock DEF IInv, Typed, CallInv, EnvInv
<1>4. Typed'
  BY <1>1, <1>2, <1>3 DEF IInv, Typed, stack
<1>5. /\ heap'[a] = p /\ \A b \in Addrs \ {a} : heap'[b] = heap[b] /\ block'[b] = block[b]
      /\ head'[p] = <<a>> \o head[p] /\ \A q \in Procs \ {p} : head'[q] = head[q]
      /\ block'[a] = ClearBlock
  BY <1>2 DEF IInv, Typed
<1>6. \A q \in Procs \ {p} : CallInv(q)'
  BY <1>1, <1>5, OtherCalls DEF stack
<1>7. CallInv(p)'
  <2>1. EnvInv(p)'
    BY <1>1, <1>3, <1>5 DEF CallInv, EnvInv
  <2>2. OutputInv(p)'
    <3>1. \A b \in ToSet(head[p]) : b \in ToSet(<<a>> \o head[p])
      BY <1>3
    <3>2. a \notin ToSet(head[p])
      BY <1>1 DEF CallInv, EnvInv
    <3>3. QED
      BY <1>1, <1>5, <3>1, <3>2 DEF CallInv, OutputInv, stack, Method, Count
  <2>3. InputInv(p)' /\ RetInv(p)' /\ ErrorInv(p)'
    BY <1>1 DEF CallInv, InputInv, RetInv, ErrorInv, stack, Method, Arity, Count
  <2>4. QED
    BY <2>1, <2>2, <2>3 DEF CallInv
<1>8. BlocksEnd' /\ FaultsExplained'
  BY <1>1, <1>2, <1>5 DEF IInv, BlocksEnd, FaultsExplained, Up
<1>9. QED
  BY <1>4, <1>6, <1>7, <1>8 DEF IInv

(* The fragment sets a binary result, once, from a block of its own, from  *)
(* static memory or from an input.                                         *)
LEMMA SetBinaryStep ==
  ASSUME IInv, NEW p \in Procs, NEW i \in OutputIndexes, NEW src \in Sources, NEW size \in {0, 1},
         SetBinary(p, i, src, size)
  PROVE  IInv'
<1> DEFINE slot == [kind |-> "data", at |-> src, size |-> size]
<1>1. /\ Up /\ pc[p] = "runop" /\ UNCHANGED <<pc, frame, input, head, ret, error, heap, fault>>
      /\ CallInv(p) /\ output[p][i].kind # "data"
      /\ output' = [output EXCEPT ![p] = [output[p] EXCEPT ![i] = slot]]
  BY DEF SetBinary, IInv
<1>2. slot \in OutputSlots /\ slot.kind = "data" /\ slot.at = src
  BY DEF OutputSlots
<1>3. /\ \A q \in Procs \ {p} : output'[q] = output[q]
      /\ output'[p][i] = slot /\ \A j \in OutputIndexes \ {i} : output'[p][j] = output[p][j]
  BY <1>1 DEF IInv, Typed
<1>4. /\ block' \in [Addrs -> [by : Procs \cup {None}, ends : BOOLEAN]]
      /\ \A a \in Addrs :
           /\ block'[a].ends = block[a].ends
           /\ block'[a].by = block[a].by \/ (a = src /\ src \in ToSet(head[p]) /\ block'[a].by = p)
      /\ src \in Addrs => src \in ToSet(head[p]) /\ block'[src].by = p
      /\ static' \in [by : Procs \cup {None}, ends : BOOLEAN]
  <2>1. CASE src \in ToSet(head[p]) /\ block' = [block EXCEPT ![src].by = p] /\ UNCHANGED static
    <3>1. src \in Addrs
      BY <2>1 DEF IInv, Typed, ToSet
    <3>2. QED
      BY <2>1, <3>1 DEF IInv, Typed
  <2>2. CASE /\ src \in {"static", "input"} /\ UNCHANGED block
             /\ static' \in {static} \cup [by : {p}, ends : BOOLEAN]
    BY <2>2, AddrsAssumption DEF IInv, Typed
  <2>3. QED
    BY <2>1, <2>2 DEF SetBinary
<1>5. Typed'
  BY <1>1, <1>2, <1>4 DEF IInv, Typed
<1>6. \A a \in Addrs : block'[a].by = block[a].by \/ heap'[a] = p
  BY <1>1, <1>4 DEF CallInv, EnvInv
<1>7. \A q \in Procs \ {p} : CallInv(q)'
  BY <1>1, <1>3, <1>6, OtherCalls
<1>8. CallInv(p)'
  <2>1. OutputInv(p)'
    <3>1. Count(p)' = Count(p) /\ Method(p)' = Method(p) /\ 1..Count(p) \subseteq OutputIndexes
      BY <1>1, FrameType, MaxOutputsAssumption DEF Count, Method, OutputIndexes, IInv
    <3>2. ASSUME NEW j \in 1..Count(p), Method(p).outputs[j] = "binary"
          PROVE  output'[p][j].kind # "scalar"
      BY <1>1, <1>2, <1>3, <3>1, <3>2 DEF CallInv, OutputInv
    <3>3. ASSUME NEW j \in OutputIndexes, output'[p][j].kind = "data", output'[p][j].at \in Addrs
          PROVE  output'[p][j].at \in ToSet(head'[p]) /\ block'[output'[p][j].at].by = p
      <4>1. CASE j = i
        BY <1>1, <1>2, <1>3, <1>4, <3>3, <4>1
      <4>2. CASE j # i
        BY <1>1, <1>3, <1>4, <3>3, <4>2 DEF CallInv, OutputInv
      <4>3. QED
        BY <4>1, <4>2
    <3>4. QED
      BY <3>1, <3>2, <3>3 DEF OutputInv
  <2>2. EnvInv(p)' /\ InputInv(p)' /\ RetInv(p)' /\ ErrorInv(p)'
    BY <1>1 DEF CallInv, EnvInv, InputInv, RetInv, ErrorInv, Method, Arity, Count
  <2>3. QED
    BY <2>1, <2>2 DEF CallInv
<1>9. BlocksEnd' /\ FaultsExplained'
  BY <1>1, <1>4 DEF IInv, BlocksEnd, FaultsExplained, Up
<1>10. QED
  BY <1>5, <1>7, <1>8, <1>9 DEF IInv

(* The fragment sets a scalar result or returns NULL.                      *)
LEMMA SetScalarStep ==
  ASSUME IInv, NEW p \in Procs, NEW i \in OutputIndexes, SetScalar(p, i)
  PROVE  IInv'
<1>1. /\ Up /\ pc[p] = "runop" /\ UNCHANGED <<pc, frame, input, head, ret, error, heap, block, static, fault>>
      /\ CallInv(p) /\ Method(p).outputs[i] # "binary"
      /\ output' = [output EXCEPT ![p] = [output[p] EXCEPT ![i] =
                                            [kind |-> "scalar", at |-> None, size |-> 0]]]
  BY DEF SetScalar, IInv, cheap
<1>2. Typed'
  BY <1>1 DEF IInv, Typed, OutputSlots
<1>3. /\ \A q \in Procs \ {p} : output'[q] = output[q]
      /\ output'[p][i].kind = "scalar" /\ \A j \in OutputIndexes \ {i} : output'[p][j] = output[p][j]
  BY <1>1 DEF IInv, Typed
<1>4. OutputInv(p)'
  <2>1. Count(p)' = Count(p) /\ Method(p)' = Method(p) /\ 1..Count(p) \subseteq OutputIndexes
    BY <1>1, FrameType, MaxOutputsAssumption DEF Count, Method, OutputIndexes, IInv
  <2>2. QED
    BY <1>1, <1>3, <2>1 DEF CallInv, OutputInv
<1>5. InputInv(p)' /\ RetInv(p)' /\ ErrorInv(p)'
  BY <1>1 DEF CallInv, InputInv, RetInv, ErrorInv, Method, Arity, Count
<1>6. FaultsExplained'
  BY <1>1 DEF IInv, FaultsExplained, Up
<1>7. QED
  BY <1>1, <1>2, <1>3, <1>4, <1>5, <1>6, HeapFrame

(* return NULL: the encode loop starts.                                    *)
LEMMA ReturnNullStep ==
  ASSUME IInv, NEW p \in Procs, ReturnNull(p)
  PROVE  IInv'
<1>1. /\ Up /\ pc[p] = "runop" /\ UNCHANGED <<input, output, head, ret, error, heap, block, static, fault>>
      /\ CallInv(p) /\ pc' = [pc EXCEPT ![p] = "encode"]
      /\ frame' = [frame EXCEPT ![p] = [frame[p] EXCEPT !.i = 1]]
  BY DEF ReturnNull, IInv, cheap
<1>2. [frame[p] EXCEPT !.i = 1] \in Frames
  BY DEF IInv, Typed, Frames
<1>3. Typed'
  BY <1>1, <1>2 DEF IInv, Typed, Stages
<1>4. /\ pc'[p] = "encode" /\ frame'[p].i = 1 /\ Method(p)' = Method(p)
      /\ frame'[p].args = frame[p].args
      /\ \A q \in Procs \ {p} : pc'[q] = pc[q] /\ frame'[q] = frame[q]
  BY <1>1 DEF IInv, Typed, Frames, Method
<1>5. InputInv(p)' /\ OutputInv(p)' /\ ErrorInv(p)'
  BY <1>1, <1>4 DEF CallInv, InputInv, OutputInv, ErrorInv, Arity, Count
<1>6. RetInv(p)'
  <2>1. ret'[p] = <<>> /\ Count(p)' \in Nat
    BY <1>1, <1>4, FrameType DEF CallInv, RetInv, IInv, Count
  <2>2. QED
    BY <1>4, <2>1 DEF RetInv
<1>7. FaultsExplained'
  BY <1>1 DEF IInv, FaultsExplained, Up
<1>8. QED
  BY <1>1, <1>3, <1>4, <1>5, <1>6, <1>7, HeapFrame

(* return "..."; or a text in a block of the call.                         *)
LEMMA ReturnErrorStep ==
  ASSUME IInv, NEW p \in Procs, NEW src \in Sources, ReturnError(p, src)
  PROVE  IInv'
<1>1. /\ Up /\ pc[p] = "runop" /\ UNCHANGED <<frame, input, output, head, ret, heap, static, fault>>
      /\ CallInv(p) /\ src \in {"literal"} \cup ToSet(head[p]) /\ ToSet(head[p]) \subseteq Addrs
      /\ error' = [error EXCEPT ![p] = src] /\ pc' = [pc EXCEPT ![p] = "error"]
  BY DEF ReturnError, IInv, Typed, ToSet
<1>2. /\ block' \in [Addrs -> [by : Procs \cup {None}, ends : BOOLEAN]]
      /\ \A a \in Addrs :
           /\ block'[a].ends = block[a].ends
           /\ block'[a].by = block[a].by \/ heap'[a] = p
  <2>1. CASE src = "literal"
    BY <2>1 DEF ReturnError, IInv, Typed
  <2>2. CASE src # "literal"
    <3>1. src \in ToSet(head[p]) /\ src \in Addrs
      BY <1>1, <2>2
    <3>2. block' = [block EXCEPT ![src] = [block[src] EXCEPT !.by = p]]
      BY <2>2 DEF ReturnError
    <3>3. heap'[src] = p
      BY <1>1, <3>1 DEF CallInv, EnvInv
    <3>4. QED
      BY <3>1, <3>2, <3>3 DEF IInv, Typed
  <2>3. QED
    BY <2>1, <2>2
<1>3. Typed'
  BY <1>1, <1>2 DEF IInv, Typed, Stages
<1>4. /\ pc'[p] = "error" /\ error'[p] = src
      /\ \A q \in Procs \ {p} : pc'[q] = pc[q] /\ error'[q] = error[q]
  BY <1>1 DEF IInv, Typed
<1>5. \A q \in Procs \ {p} : CallInv(q)'
  BY <1>1, <1>2, <1>4, OtherCalls
<1>6. CallInv(p)'
  BY <1>1, <1>4 DEF CallInv, EnvInv, InputInv, OutputInv, RetInv, ErrorInv, Method, Arity, Count
<1>7. BlocksEnd' /\ FaultsExplained'
  BY <1>1, <1>2 DEF IInv, BlocksEnd, FaultsExplained, Up
<1>8. QED
  BY <1>3, <1>5, <1>6, <1>7 DEF IInv

-----------------------------------------------------------------------------
(* A cell at the head of the list of results.                              *)
LEMMA ConsCell ==
  ASSUME NEW list \in Seq(Cells), NEW cell \in Cells
  PROVE  /\ PushCell(list, cell) \in Seq(Cells) /\ Len(PushCell(list, cell)) = Len(list) + 1
         /\ PushCell(list, cell)[1] = cell
         /\ \A k \in 2..(Len(list) + 1) : PushCell(list, cell)[k] = list[k - 1]
  BY DEF PushCell

(* What the encode loop reads through the pointer of an output is this     *)
(* call's, and the only errors it can meet are an input without a size and *)
(* a full static buffer without a size.                                    *)
LEMMA EncodeReads ==
  ASSUME IInv, NEW p \in Procs, pc[p] = "encode", NEW i \in OutputIndexes,
         output[p][i].kind = "data"
  PROVE  /\ Bytes(p, output[p][i].at) \in Procs \cup {None}
         /\ output[p][i].at # "static" => Bytes(p, output[p][i].at) = p
         /\ \/ ReadFault(p, output[p][i].at, output[p][i].size) = "none"
            \/ /\ ReadFault(p, output[p][i].at, output[p][i].size) = "overread"
               /\ \/ output[p][i].at = "input"
                  \/ output[p][i].at = "static" /\ ~static.ends
<1>1. PICK at : at = output[p][i].at
  OBVIOUS
<1>2. CASE at \in Addrs
  <2>1. block[at].by = p /\ heap[at] = p /\ block[at].ends
    BY <1>1, <1>2, NoneAssumption DEF IInv, CallInv, OutputInv, EnvInv, BlocksEnd
  <2>2. at # "input" /\ at # "static"
    BY <1>2, AddrsAssumption
  <2>3. Bytes(p, at) = p
    BY <1>2, <2>1, <2>2 DEF Bytes
  <2>4. ReadFault(p, at, output[p][i].size) = "none"
    BY <1>2, <2>1, <2>2 DEF ReadFault
  <2>5. QED
    BY <1>1, <2>3, <2>4
<1>3. CASE at \notin Addrs
  BY <1>1, <1>3 DEF Bytes, ReadFault, IInv, Typed
<1>4. QED
  BY <1>2, <1>3

(* One result more, or one that is missing.                                *)
LEMMA EncodeStep ==
  ASSUME IInv, NEW p \in Procs, Encode(p)
  PROVE  IInv'
<1>1. /\ Up /\ pc[p] = "encode" /\ UNCHANGED <<input, output, head, error, heap, block, static>>
      /\ CallInv(p)
  BY DEF Encode, cheap, IInv
<1>2. /\ frame[p] \in Frames /\ Method(p).outputs \in Seq(Types) /\ Count(p) \in 0..MaxOutputs
      /\ ret[p] \in Seq(Cells) /\ Arity(p) \in Nat
  BY FrameType DEF IInv, Typed
<1>3. PICK i \in 1..Count(p) : i = frame[p].i /\ i \in OutputIndexes
  BY <1>1, <1>2, MaxOutputsAssumption DEF Encode, CallInv, InputInv, OutputIndexes, Frames
<1>4. output[p][i] \in OutputSlots
  BY <1>3 DEF IInv, Typed
<1>5. CASE pc' = [pc EXCEPT ![p] = "missing"] /\ UNCHANGED <<frame, ret>> /\ FaultsExplained'
  <2>1. Typed'
    BY <1>1, <1>5 DEF IInv, Typed, Stages
  <2>2. pc'[p] = "missing" /\ \A q \in Procs \ {p} : pc'[q] = pc[q]
    BY <1>5 DEF IInv, Typed
  <2>3. InputInv(p)' /\ OutputInv(p)' /\ RetInv(p)' /\ ErrorInv(p)'
    BY <1>1, <1>5, <2>2 DEF CallInv, InputInv, OutputInv, RetInv, ErrorInv, Method, Arity
  <2>4. QED
    BY <1>1, <1>5, <2>1, <2>2, <2>3, HeapFrame
<1>6. ASSUME NEW bytes \in Procs \cup {None}, output[p][i].at # "static" => bytes = p,
             ret' = [ret EXCEPT ![p] = PushCell(ret[p], [out |-> i, by |-> bytes])],
             frame' = [frame EXCEPT ![p].i = i + 1], UNCHANGED pc, FaultsExplained'
      PROVE  IInv'
  <2>1. PICK cell \in Cells : cell = [out |-> i, by |-> bytes]
    BY <1>3 DEF Cells
  <2>2. [frame[p] EXCEPT !.i = i + 1] \in Frames
    BY <1>2, <1>3 DEF Frames
  <2>3. Typed'
    BY <1>1, <1>2, <1>6, <2>1, <2>2, ConsCell DEF IInv, Typed
  <2>4. /\ ret'[p] = PushCell(ret[p], cell) /\ frame'[p].i = i + 1
        /\ Method(p)' = Method(p) /\ frame'[p].args = frame[p].args
        /\ \A q \in Procs \ {p} : ret'[q] = ret[q] /\ frame'[q] = frame[q]
    BY <1>2, <1>6, <2>1 DEF IInv, Typed, Frames, Method
  <2>5. InputInv(p)' /\ OutputInv(p)' /\ ErrorInv(p)'
    BY <1>1, <1>3, <1>6, <2>4 DEF CallInv, InputInv, OutputInv, ErrorInv, Arity, Count
  <2>6. RetInv(p)'
    <3>1. /\ Len(ret[p]) = i - 1
          /\ \A k \in 1..Len(ret[p]) :
               /\ ret[p][k].out = i - k
               /\ output[p][i - k].at # "static" => ret[p][k].by = p
      BY <1>1, <1>3 DEF CallInv, RetInv
    <3>2. /\ Len(ret'[p]) = i /\ ret'[p][1] = cell
          /\ \A k \in 2..i : ret'[p][k] = ret[p][k - 1] /\ k - 1 \in 1..Len(ret[p])
      <4>1. Len(ret[p]) + 1 = i /\ Len(ret[p]) \in Nat
        BY <1>2, <1>3, <3>1
      <4>2. \A k \in 2..i : k - 1 \in 1..Len(ret[p])
        BY <4>1
      <4>3. /\ Len(ret'[p]) = Len(ret[p]) + 1 /\ ret'[p][1] = cell
            /\ \A k \in 2..(Len(ret[p]) + 1) : ret'[p][k] = ret[p][k - 1]
        <5>1. PICK list \in Seq(Cells) : list = ret[p]
          BY <1>2
        <5>2. /\ Len(PushCell(list, cell)) = Len(list) + 1 /\ PushCell(list, cell)[1] = cell
              /\ \A k \in 2..(Len(list) + 1) : PushCell(list, cell)[k] = list[k - 1]
          BY ConsCell
        <5>3. ret'[p] = PushCell(list, cell)
          BY <2>4, <5>1 DEF PushCell
        <5>4. QED
          BY <5>1, <5>2, <5>3
      <4>4. QED
        BY <4>1, <4>2, <4>3
    <3>3. ASSUME NEW k \in 1..i
          PROVE  /\ ret'[p][k].out = (i + 1) - k
                 /\ output[p][(i + 1) - k].at # "static" => ret'[p][k].by = p
      <4>1. CASE k = 1
        BY <1>6, <2>1, <3>2, <4>1
      <4>2. CASE k # 1
        <5>1. k \in 2..i /\ i - (k - 1) = (i + 1) - k
          BY <4>2
        <5>2. QED
          BY <3>1, <3>2, <5>1
      <4>3. QED
        BY <4>1, <4>2
    <3>4. QED
      <4>1. Count(p)' = Count(p) /\ i <= Count(p) /\ output' = output /\ pc'[p] = "encode"
        BY <1>1, <1>3, <1>6, <2>4 DEF Count
      <4>2. Len(ret'[p]) = frame'[p].i - 1
        BY <2>4, <3>2
      <4>3. QED
        BY <2>4, <3>2, <3>3, <4>1, <4>2 DEF RetInv
  <2>7. pc'[p] \notin {"idle", "decode", "error_result"}
    BY <1>1, <1>6
  <2>8. QED
    BY <1>1, <1>6, <2>3, <2>4, <2>5, <2>6, <2>7, HeapFrame
<1>7. CASE Method(p).outputs[i] # "binary"
  <2>1. /\ ret' = [ret EXCEPT ![p] = PushCell(ret[p], [out |-> i, by |-> p])]
        /\ frame' = [frame EXCEPT ![p].i = i + 1] /\ UNCHANGED <<pc, fault>>
    BY <1>3, <1>7 DEF Encode
  <2>2. FaultsExplained'
    BY <1>1, <2>1 DEF FaultsExplained, Up
  <2>3. QED
    BY <1>6, <2>1, <2>2
<1>8. ASSUME Method(p).outputs[i] = "binary", output[p][i].kind = "data",
             Read(p, output[p][i].at, output[p][i].size)
      PROVE  FaultsExplained'
  BY <1>1, <1>3, <1>8, EncodeReads DEF Read, IInv, FaultsExplained
<1>9. CASE Method(p).outputs[i] = "binary" /\ output[p][i].kind = "data" /\ UNCHANGED pc
  <2>1. PICK bytes \in Procs \cup {None} :
          bytes = Bytes(p, output[p][i].at) /\ (output[p][i].at # "static" => bytes = p)
    BY <1>1, <1>3, <1>9, EncodeReads
  <2>2. pc' # [pc EXCEPT ![p] = "missing"]
    BY <1>1, <1>9 DEF IInv, Typed
  <2>3. /\ ret' = [ret EXCEPT ![p] = PushCell(ret[p], [out |-> i, by |-> bytes])]
        /\ frame' = [frame EXCEPT ![p].i = i + 1]
        /\ Read(p, output[p][i].at, output[p][i].size)
    BY <1>3, <1>9, <2>1, <2>2 DEF Encode
  <2>4. QED
    BY <1>6, <1>8, <1>9, <2>1, <2>3
<1>10. CASE Method(p).outputs[i] = "binary" /\ output[p][i].kind = "data" /\ ~UNCHANGED pc
  <2>1. /\ pc' = [pc EXCEPT ![p] = "missing"] /\ UNCHANGED <<frame, ret>>
        /\ \/ output[p][i].size = 0 /\ Read(p, output[p][i].at, 0)
           \/ UNCHANGED fault
    BY <1>3, <1>10 DEF Encode
  <2>2. FaultsExplained'
    BY <1>1, <1>8, <1>10, <2>1 DEF FaultsExplained, Up
  <2>3. QED
    BY <1>5, <2>1, <2>2
<1>11. CASE Method(p).outputs[i] = "binary" /\ output[p][i].kind # "data"
  <2>1. output[p][i].kind = "zero"
    BY <1>1, <1>3, <1>4, <1>11 DEF CallInv, OutputInv, OutputSlots
  <2>2. pc' = [pc EXCEPT ![p] = "missing"] /\ UNCHANGED <<frame, ret, fault>>
    BY <1>3, <1>11, <2>1 DEF Encode
  <2>3. QED
    BY <1>1, <1>5, <2>2 DEF FaultsExplained, Up
<1>12. QED
  BY <1>7, <1>9, <1>10, <1>11

(* The loop ends with every output consed.                                 *)
LEMMA EncodeEndStep ==
  ASSUME IInv, NEW p \in Procs, EncodeEnd(p)
  PROVE  IInv'
<1>1. /\ Up /\ pc[p] = "encode" /\ frame[p].i > Count(p) /\ CallInv(p)
      /\ UNCHANGED <<frame, input, output, ret, error, head, heap, block, static, fault>>
      /\ pc' = [pc EXCEPT ![p] = "done"]
  BY DEF EncodeEnd, stack, cheap, IInv
<1>2. Typed'
  BY <1>1 DEF IInv, Typed, Stages
<1>3. pc'[p] = "done" /\ \A q \in Procs \ {p} : pc'[q] = pc[q]
  BY <1>1 DEF IInv, Typed
<1>4. InputInv(p)' /\ OutputInv(p)' /\ ErrorInv(p)'
  BY <1>1, <1>3 DEF CallInv, InputInv, OutputInv, ErrorInv, Method, Arity, Count
<1>5. RetInv(p)'
  <2>1. Count(p) \in Nat /\ frame[p].i \in Nat /\ Len(ret[p]) \in Nat
    BY FrameType DEF IInv, Typed, Frames
  <2>2. QED
    BY <1>1, <1>3, <2>1 DEF CallInv, RetInv, Method, Count
<1>6. FaultsExplained'
  BY <1>1 DEF IInv, FaultsExplained, Up
<1>7. QED
  BY <1>1, <1>2, <1>3, <1>4, <1>5, <1>6, HeapFrame

(* free_env() gives back every block of the call and no other.             *)
LEMMA FreeEnvEffect ==
  ASSUME IInv, NEW p \in Procs, heap' = FreeEnv(p), head' = [head EXCEPT ![p] = <<>>],
         UNCHANGED <<block, static, fault>>
  PROVE  /\ heap' \in [Addrs -> Procs \cup {None}] /\ head' \in [Procs -> Seq(Addrs)]
         /\ head'[p] = <<>> /\ \A q \in Procs \ {p} : head'[q] = head[q]
         /\ \A a \in Addrs : heap'[a] # p
         /\ \A a \in Addrs : heap'[a] = heap[a] \/ (heap[a] = p /\ heap'[a] = None)
         /\ BlocksEnd' /\ FaultsExplained'
<1>1. \A a \in Addrs : heap'[a] = IF heap[a] = p THEN None ELSE heap[a]
  BY DEF FreeEnv, IInv, CallInv, EnvInv
<1>2. heap' \in [Addrs -> Procs \cup {None}]
  <2>1. heap' = [a \in Addrs |-> IF a \in ToSet(head[p]) THEN None ELSE heap[a]]
    BY DEF FreeEnv
  <2>2. QED
    BY <2>1 DEF IInv, Typed
<1>3. /\ head' \in [Procs -> Seq(Addrs)] /\ head'[p] = <<>>
      /\ \A q \in Procs \ {p} : head'[q] = head[q]
  BY DEF IInv, Typed
<1>4. BlocksEnd' /\ FaultsExplained'
  BY <1>1 DEF IInv, BlocksEnd, FaultsExplained, Up
<1>5. QED
  BY <1>1, <1>2, <1>3, <1>4, NoneAssumption

(* The ways out of run() that free the Env list.                           *)
LEMMA FreeStep ==
  ASSUME IInv, NEW p \in Procs, ReturnOk(p) \/ MissingResult(p) \/ ErrorFree(p)
  PROVE  IInv'
<1>1. /\ Up /\ heap' = FreeEnv(p) /\ head' = [head EXCEPT ![p] = <<>>]
      /\ UNCHANGED <<block, static, fault>>
  BY DEF ReturnOk, MissingResult, ErrorFree
<1>2. EnvInv(p)' /\ BlocksEnd' /\ FaultsExplained'
  BY <1>1, FreeEnvEffect, FreshTypes DEF EnvInv
<1>3. CASE ReturnOk(p) \/ MissingResult(p)
  <2>1. Return(p)
    BY <1>3 DEF ReturnOk, MissingResult
  <2>2. Typed'
    BY <1>1, <2>1, FreeEnvEffect, ReturnTypes DEF IInv, Typed
  <2>3. \A q \in Procs \ {p} : CallInv(q)'
    <3>1. \A q \in Procs \ {p} :
            /\ pc'[q] = pc[q] /\ frame'[q] = frame[q] /\ input'[q] = input[q]
            /\ output'[q] = output[q] /\ ret'[q] = ret[q] /\ error'[q] = error[q]
      BY <2>1, ReturnTypes DEF IInv
    <3>2. /\ \A q \in Procs \ {p} : head'[q] = head[q]
          /\ \A a \in Addrs :
               /\ heap'[a] = heap[a] \/ (heap[a] \in {p, None} /\ heap'[a] \in {p, None})
               /\ block'[a].by = block[a].by
      BY <1>1, FreeEnvEffect
    <3>3. QED
      BY <3>1, <3>2, OtherCalls
  <2>4. CallInv(p)'
    BY <1>2, <2>1, ReturnTypes DEF IInv, CallInv, InputInv, OutputInv, RetInv, ErrorInv
  <2>5. QED
    BY <1>2, <2>2, <2>3, <2>4 DEF IInv
<1>4. CASE ErrorFree(p)
  <2>1. /\ pc[p] = "error" /\ pc' = [pc EXCEPT ![p] = "error_result"]
        /\ UNCHANGED <<frame, input, output, ret, error>>
    BY <1>4 DEF ErrorFree, stack
  <2>2. Typed'
    BY <1>1, <2>1, FreeEnvEffect DEF IInv, Typed, Stages
  <2>3. pc'[p] = "error_result" /\ \A q \in Procs \ {p} : pc'[q] = pc[q]
    BY <2>1 DEF IInv, Typed
  <2>4. \A q \in Procs \ {p} : CallInv(q)'
    BY <1>1, <2>1, <2>3, FreeEnvEffect, OtherCalls
  <2>5. CallInv(p)'
    BY <1>2, <2>1, <2>3 DEF IInv, CallInv, InputInv, OutputInv, RetInv, ErrorInv, Method, Arity
  <2>6. QED
    BY <1>2, <2>2, <2>4, <2>5 DEF IInv
<1>5. QED
  BY <1>3, <1>4

(* error_result(): the text may lie in memory free_env() gave back.        *)
LEMMA ErrorResultStep ==
  ASSUME IInv, NEW p \in Procs, ErrorResult(p)
  PROVE  IInv'
<1>1. /\ Up /\ pc[p] = "error_result" /\ Return(p) /\ UNCHANGED <<head, heap, block, static>>
      /\ head[p] = <<>> /\ error[p] \in {"literal"} \cup Addrs /\ Read(p, error[p], 0)
  BY DEF ErrorResult, cheap, IInv, CallInv, EnvInv, ErrorInv
<1>2. CASE error[p] \in Addrs
  <2>1. heap[error[p]] # p
    BY <1>1, <1>2, FreshTypes DEF IInv, CallInv, EnvInv
  <2>2. ReadFault(p, error[p], 0) = "use_after_free"
    <3>1. error[p] \notin {"input", "static"}
      BY <1>2, AddrsAssumption
    <3>2. QED
      BY <1>2, <2>1, <3>1 DEF ReadFault
  <2>3. FaultsExplained'
    BY <1>1, <1>2, <2>2 DEF Read, IInv, FaultsExplained, Up
  <2>4. QED
    BY <1>1, <2>3, ReturnFrame
<1>3. CASE error[p] = "literal" /\ error[p] \notin Addrs
  <2>1. ReadFault(p, error[p], 0) = "none"
    BY <1>3 DEF ReadFault
  <2>2. FaultsExplained'
    BY <1>1, <2>1 DEF Read, IInv, FaultsExplained, Up
  <2>3. QED
    BY <1>1, <2>2, ReturnFrame
<1>4. QED
  BY <1>1, <1>2, <1>3

-----------------------------------------------------------------------------
(* Every step of every call keeps the invariant.                           *)
LEMMA NextIInv == IInv /\ [Next]_vars => IInv'
<1> SUFFICES ASSUME IInv, [Next]_vars PROVE IInv'
  OBVIOUS
<1>1. CASE UNCHANGED vars
  BY <1>1 DEF vars, IInv, Typed, CallInv, EnvInv, InputInv, OutputInv, RetInv, ErrorInv, Method,
     Arity, Count, BlocksEnd, FaultsExplained, Up
<1>2. ASSUME NEW p \in Procs, NEW c \in Calls, Call(p, c.method, c.args) PROVE IInv'
  BY <1>2, CallStep
<1>3. ASSUME NEW p \in Procs, Decode(p) PROVE IInv'
  BY <1>3, DecodeStep
<1>4. ASSUME NEW p \in Procs, Fragment(p) PROVE IInv'
  BY <1>4, AllocStep, SetBinaryStep, SetScalarStep, ReturnNullStep, ReturnErrorStep DEF Fragment
<1>5. ASSUME NEW p \in Procs, Finish(p) PROVE IInv'
  BY <1>5, EncodeStep, EncodeEndStep, FreeStep, ErrorResultStep DEF Finish
<1>6. QED
  BY <1>1, <1>2, <1>3, <1>4, <1>5 DEF Next

(* All that run() keeps up, in one invariant.                              *)
THEOREM Invariance == Spec => []IInv
  BY InitIInv, NextIInv, PTL DEF Spec

(* The state of run() has its types, whatever methods are called.          *)
THEOREM TypeCorrect == Spec => []TypeOK
<1>1. IInv => TypeOK
  BY DEF IInv, Typed, TypeOK, Frames, OutputSlots
<1>2. QED
  BY <1>1, Invariance, PTL

(* No block of $alloc is leaked, freed twice or shared between two calls,  *)
(* for any number of calls, any heap and any fragment.                     *)
THEOREM BlocksHaveOneOwner == Spec => []EnvOwnsBlocks
<1>1. IInv => EnvOwnsBlocks
  BY DEF IInv, CallInv, EnvInv, EnvOwnsBlocks
<1>2. QED
  BY <1>1, Invariance, PTL

(* Concurrent calls never mix their results, and the list that is returned *)
(* has every output of the method, in order of the declaration's reverse.  *)
THEOREM CallsReturnTheirOwn == Spec => []ResultsAreOwn
<1>1. ASSUME IInv, NEW p \in Procs, pc[p] = "done"
      PROVE  /\ [k \in DOMAIN ret[p] |-> ret[p][k].out] = Reverse([i \in 1..Count(p) |-> i])
             /\ \A k \in DOMAIN ret[p] :
                  output[p][ret[p][k].out].at # "static" => ret[p][k].by = p
  <2>1. /\ ret[p] \in Seq(Cells) /\ Count(p) \in Nat /\ frame[p].i \in Nat
        /\ Len(ret[p]) = frame[p].i - 1 /\ Len(ret[p]) = Count(p)
        /\ \A k \in 1..Len(ret[p]) :
             /\ ret[p][k].out = frame[p].i - k
             /\ output[p][frame[p].i - k].at # "static" => ret[p][k].by = p
    <3>1. /\ ret[p] \in Seq(Cells) /\ frame[p] \in Frames /\ Count(p) \in 0..MaxOutputs
          /\ RetInv(p)
      BY <1>1, FrameType DEF IInv, CallInv, Typed
    <3>2. QED
      BY <1>1, <3>1, MaxOutputsAssumption DEF RetInv, Frames
  <2>2. DOMAIN ret[p] = 1..Count(p)
    BY <2>1
  <2>3. \A k \in 1..Count(p) : ret[p][k].out = (Count(p) - k) + 1
    BY <2>1
  <2>4. Len([i \in 1..Count(p) |-> i]) = Count(p)
    BY <2>1
  <2>5. Reverse([i \in 1..Count(p) |-> i]) = [k \in 1..Count(p) |-> (Count(p) - k) + 1]
    BY <2>1, <2>4 DEF Reverse
  <2>6. QED
    BY <2>1, <2>2, <2>3, <2>5
<1>2. IInv => ResultsAreOwn
  BY <1>1 DEF ResultsAreOwn
<1>3. QED
  BY <1>2, Invariance, PTL

(* A fragment never runs on an input that is missing, of another type or   *)
(* cut to 64 bits, whatever the method and the arguments.                  *)
THEOREM FragmentsGetTheirInputs == Spec => []InputsDecoded
<1>1. ASSUME IInv, NEW p \in Procs, pc[p] \in Stages \ {"idle", "decode"}
      PROVE  /\ Len(input[p]) = Arity(p)
             /\ \A i \in 1..Arity(p) :
                  input[p][i] = frame[p].args[i] /\ InRange(Method(p).inputs[i], input[p][i])
  <2>1. /\ Len(input[p]) = Arity(p)
        /\ \A k \in 1..Arity(p) :
             input[p][k] = frame[p].args[k] /\ frame[p].args[k] \in Accepts(Method(p).inputs[k])
    BY <1>1 DEF IInv, CallInv, InputInv
  <2>2. \A k \in 1..Arity(p) : Method(p).inputs[k] \in Types
    BY FrameType, <1>1 DEF IInv, Arity
  <2>3. QED
    BY <2>1, <2>2, AcceptsInRange
<1>2. IInv => InputsDecoded
  BY <1>1 DEF InputsDecoded
<1>3. QED
  BY <1>2, Invariance, PTL

(* The memory errors of run() have three causes and no other: an error     *)
(* text in a block that is freed before it is read, and results without a  *)
(* size taken from an input binary or from a static buffer with no 0 byte. *)
THEOREM FaultsHaveThreeCauses == Spec => []FaultsExplained
<1>1. IInv => FaultsExplained
  BY DEF IInv
<1>2. QED
  BY <1>1, Invariance, PTL
=============================================================================
