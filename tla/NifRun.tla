------------------------------- MODULE NifRun -------------------------------
(***************************************************************************)
(* One call of run() in niffler_nif.c, with the memory it lives on: the    *)
(* input and output arrays on its stack, the blocks its C fragment takes   *)
(* with $alloc (niffler_alloc), static memory of the program, and the      *)
(* encoding of the results.  Several processes run methods of one program  *)
(* at the same time and share the C heap, so a block freed by one call is  *)
(* soon another call's block.                                              *)
(*                                                                         *)
(* The C fragment is the user's: it may allocate, write any output from    *)
(* any source, in any order, and return NULL or an error string.  It       *)
(* writes inside its blocks and the static buffer, leaves outputs of a     *)
(* scalar type scalar, and returns as error a constant, a text of a        *)
(* library (dlerror()) or a text it composed in one of its blocks.  The    *)
(* binary of an error tuple always gets its memory (error_result() does    *)
(* not check it).                                                          *)
(***************************************************************************)
EXTENDS Integers, Sequences, FiniteSets, SequencesExt

CONSTANTS
  Procs,      \* processes calling run()
  Addrs,      \* addresses malloc can return
  Calls,      \* calls made: [method : [inputs, outputs], args]; sequences of
              \* types for the method, of term kinds for the arguments
  MaxOutputs, \* longest output list
  MaxAllocs,  \* bound: blocks of one call
  None        \* no process, no address

ASSUME NoneAssumption == None \notin Procs \cup Addrs
ASSUME AddrsAssumption == Addrs \cap {"static", "input", "literal"} = {}
ASSUME MaxOutputsAssumption == MaxOutputs \in Nat

Types == {"int64", "uint64", "double", "binary"}
(* Terms: integers below 0, in both 64-bit ranges, and above 2^63 - 1.     *)
Terms == {"negative", "small", "large", "float", "binary", "other"}

ASSUME CallsAssumption ==
  \A c \in Calls :
    /\ c.method.inputs \in Seq(Types) /\ c.method.outputs \in Seq(Types)
    /\ Len(c.method.outputs) <= MaxOutputs
    /\ c.args \in Seq(Terms)

VARIABLES
  pc,      \* where each call is
  frame,   \* frame[p]: method, args, and the loop index i
  input,   \* input[p]: the decoded arguments, the array of the call's stack
  output,  \* output[p]: the output array of the call's stack
  head,    \* head[p]: the Env list of the call, newest block first
  ret,     \* ret[p]: the list being built, head first
  error,   \* error[p]: what the error pointer of the call points to
  heap,    \* heap[a]: the process whose call holds block a, or None
  block,   \* block[a]: who wrote the block last, and whether a 0 byte follows
  static,  \* the program's static buffer: who wrote it last, and whether a
           \* 0 byte ends what was written
  fault    \* the first memory error: kind, source read, stage of the call

vars == <<pc, frame, input, output, head, ret, error, heap, block, static, fault>>
stack == <<frame, input, output, ret, error>>
cheap == <<heap, block, static>>

Stages == {"idle", "decode", "runop", "encode", "done", "missing", "error", "error_result"}
Sources == Addrs \cup {"static", "input", "literal"}
NullSlot == [kind |-> "zero", at |-> None, size |-> 0]
GarbageSlot == [kind |-> "garbage", at |-> None, size |-> 1]
OutputIndexes == 1..MaxOutputs
NoFrame == [method |-> [inputs |-> <<>>, outputs |-> <<>>], args |-> <<>>, i |-> 1]
NoFault == [kind |-> "none", at |-> None, in |-> "idle"]
(* After a memory error anything may happen: the model stops there.        *)
Up == fault = NoFault

Method(p) == frame[p].method
Arity(p) == Len(Method(p).inputs)
Count(p) == Len(Method(p).outputs)

(***************************************************************************)
(* Calling run(): index check, alloca and the decode loop                  *)
(***************************************************************************)

(* memset(output, 0, ...); the input array is left as it is on the stack.  *)
ClearOutputsSkipped == [i \in OutputIndexes |-> GarbageSlot]
ClearOutputs == [i \in OutputIndexes |-> NullSlot]

Call(p, m, args) ==
  /\ Up /\ pc[p] = "idle"
  /\ frame' = [frame EXCEPT ![p] = [method |-> m, args |-> args, i |-> 1]]
  /\ input' = [input EXCEPT ![p] = <<>>]
  /\ output' = [output EXCEPT ![p] = ClearOutputs]
  /\ ret' = [ret EXCEPT ![p] = <<>>]
  /\ head' = [head EXCEPT ![p] = <<>>]
  /\ error' = [error EXCEPT ![p] = None]
  /\ pc' = [pc EXCEPT ![p] = "decode"]
  /\ UNCHANGED <<cheap, fault>>

(* enif_get_int64, enif_get_uint64, enif_get_double, enif_inspect_binary   *)
AcceptsAnyInteger(type) ==
  CASE type \in {"int64", "uint64"} -> {"negative", "small", "large"}
    [] type = "double" -> {"float"}
    [] type = "binary" -> {"binary"}
Accepts(type) ==
  CASE type = "int64"  -> {"negative", "small"}
    [] type = "uint64" -> {"small", "large"}
    [] type = "double" -> {"float"}
    [] type = "binary" -> {"binary"}

(* Returning to the emulator: the stack of the call is gone.               *)
Return(p) ==
  /\ pc' = [pc EXCEPT ![p] = "idle"]
  /\ frame' = [frame EXCEPT ![p] = NoFrame]
  /\ input' = [input EXCEPT ![p] = <<>>]
  /\ output' = [output EXCEPT ![p] = [i \in OutputIndexes |-> NullSlot]]
  /\ ret' = [ret EXCEPT ![p] = <<>>]
  /\ error' = [error EXCEPT ![p] = None]

Fits(p, i) ==
  i <= Len(frame[p].args) /\ frame[p].args[i] \in Accepts(Method(p).inputs[i])

(* One turn of the decode loop.  Arguments beyond the inputs are ignored.  *)
Decode(p) ==
  LET i == frame[p].i
  IN  /\ Up /\ pc[p] = "decode"
      /\ \/ /\ i > Arity(p)
            /\ pc' = [pc EXCEPT ![p] = "runop"]
            /\ UNCHANGED stack
         \/ /\ i <= Arity(p) /\ ~Fits(p, i)
            /\ Return(p)                        \* nothing allocated yet
         \/ /\ i <= Arity(p) /\ Fits(p, i)
            /\ input' = [input EXCEPT ![p] = Append(@, frame[p].args[i])]
            /\ frame' = [frame EXCEPT ![p].i = i + 1]
            /\ UNCHANGED <<pc, output, ret, error>>
      /\ UNCHANGED <<head, cheap, fault>>

(***************************************************************************)
(* The compiled fragment                                                   *)
(***************************************************************************)

(* niffler_alloc: malloc, clear the block and what follows it, push it on  *)
(* the list of the call.  A failing malloc returns 0 and changes nothing.  *)
ClearBlockSkipped == [by |-> None, ends |-> FALSE]
ClearBlock == [by |-> None, ends |-> TRUE]

Alloc(p, a) ==
  /\ Up /\ pc[p] = "runop" /\ heap[a] = None
  /\ Len(head[p]) < MaxAllocs
  /\ heap' = [heap EXCEPT ![a] = p]
  /\ block' = [block EXCEPT ![a] = ClearBlock]
  /\ head' = [head EXCEPT ![p] = <<a>> \o @]
  /\ UNCHANGED <<pc, stack, static, fault>>

(* The fragment sets output i (once, here) to `size` bytes (0: it leaves   *)
(* the size to the encoder) of a block of its own, of the static buffer,   *)
(* which it may fill to the last byte, or of an input binary.              *)
SetBinary(p, i, src, size) ==
  /\ Up /\ pc[p] = "runop" /\ i <= Count(p) /\ Method(p).outputs[i] = "binary"
  /\ output[p][i].kind # "data"
  /\ output' = [output EXCEPT ![p][i] = [kind |-> "data", at |-> src, size |-> size]]
  /\ \/ /\ src \in ToSet(head[p])
        /\ block' = [block EXCEPT ![src].by = p]
        /\ UNCHANGED static
     \/ /\ src = "static"
        /\ \E ends \in BOOLEAN : static' = [by |-> p, ends |-> ends]
        /\ UNCHANGED block
     \/ /\ src = "input" /\ "binary" \in ToSet(input[p])
        /\ UNCHANGED <<static, block>>
  /\ UNCHANGED <<pc, frame, input, head, ret, error, heap, fault>>

SetScalar(p, i) ==
  /\ Up /\ pc[p] = "runop" /\ i <= Count(p) /\ Method(p).outputs[i] # "binary"
  /\ output' = [output EXCEPT ![p][i] = [kind |-> "scalar", at |-> None, size |-> 0]]
  /\ UNCHANGED <<pc, frame, input, head, ret, error, cheap, fault>>

ReturnNull(p) ==
  /\ Up /\ pc[p] = "runop"
  /\ pc' = [pc EXCEPT ![p] = "encode"]
  /\ frame' = [frame EXCEPT ![p].i = 1]
  /\ UNCHANGED <<input, output, head, ret, error, cheap, fault>>

(* return "..."; or a text the fragment composed in one of its blocks.     *)
ReturnError(p, src) ==
  /\ Up /\ pc[p] = "runop" /\ src \in {"literal"} \cup ToSet(head[p])
  /\ error' = [error EXCEPT ![p] = src]
  /\ block' = IF src = "literal" THEN block ELSE [block EXCEPT ![src].by = p]
  /\ pc' = [pc EXCEPT ![p] = "error"]
  /\ UNCHANGED <<frame, input, output, head, ret, heap, static, fault>>

(***************************************************************************)
(* Encoding the results                                                    *)
(***************************************************************************)

(* free_env(): every block of the list goes back to the heap.              *)
FreeEnvHeadOnly(p) ==
  [a \in Addrs |-> IF head[p] # <<>> /\ a = head[p][1] THEN None ELSE heap[a]]
FreeEnv(p) == [a \in Addrs |-> IF a \in ToSet(head[p]) THEN None ELSE heap[a]]

(* What is read through a pointer: whose bytes, and which error it meets.  *)
(* strlen() runs when no size was set, and needs a terminating 0 byte.     *)
Bytes(p, src) ==
  CASE src \in Addrs -> block[src].by
    [] src = "static" -> static.by
    [] OTHER -> p

ReadFault(p, src, size) ==
  CASE src \in Addrs /\ heap[src] # p -> "use_after_free"
    [] src \in Addrs /\ heap[src] = p /\ size = 0 /\ ~block[src].ends -> "overread"
    [] src = "static" /\ size = 0 /\ ~static.ends -> "overread"
    [] src = "input" /\ size = 0 -> "overread"
    [] OTHER -> "none"

Read(p, src, size) ==
  fault' = IF ReadFault(p, src, size) = "none" THEN fault
           ELSE [kind |-> ReadFault(p, src, size), at |-> src, in |-> pc[p]]

(* The results are consed: the last output comes first.                    *)
PushCellLast(list, cell) == Append(list, cell)
PushCell(list, cell) == <<cell>> \o list

(* One turn of the encode loop.                                            *)
Encode(p) ==
  LET i == frame[p].i
      slot == output[p][i]
      bytes == IF slot.kind = "data" THEN Bytes(p, slot.at) ELSE p
  IN  /\ Up /\ pc[p] = "encode" /\ i <= Count(p)
      /\ \/ /\ Method(p).outputs[i] = "binary" /\ slot.kind = "zero"
            /\ pc' = [pc EXCEPT ![p] = "missing"]
            /\ UNCHANGED <<frame, ret, fault>>
         \/ /\ Method(p).outputs[i] = "binary" /\ slot.kind # "zero"
            /\ IF slot.kind = "data"
               THEN Read(p, slot.at, slot.size)
               ELSE fault' = [kind |-> "wild_pointer", at |-> None, in |-> pc[p]]
            /\ ret' = [ret EXCEPT ![p] = PushCell(@, [out |-> i, by |-> bytes])]
            /\ frame' = [frame EXCEPT ![p].i = i + 1]
            /\ UNCHANGED pc
         \/ /\ Method(p).outputs[i] = "binary" /\ slot.kind = "data"
            /\ IF slot.size = 0                 \* strlen() comes first; then
               THEN Read(p, slot.at, 0)         \* no memory for the result
               ELSE UNCHANGED fault
            /\ pc' = [pc EXCEPT ![p] = "missing"]
            /\ UNCHANGED <<frame, ret>>
         \/ /\ Method(p).outputs[i] # "binary"
            /\ ret' = [ret EXCEPT ![p] = PushCell(@, [out |-> i, by |-> p])]
            /\ frame' = [frame EXCEPT ![p].i = i + 1]
            /\ UNCHANGED <<pc, fault>>
      /\ UNCHANGED <<input, output, head, error, cheap>>

EncodeEnd(p) ==
  /\ Up /\ pc[p] = "encode" /\ frame[p].i > Count(p)
  /\ pc' = [pc EXCEPT ![p] = "done"]
  /\ UNCHANGED <<stack, head, cheap, fault>>

(* free_env(&user_env); return {:ok, list}                                 *)
ReturnOk(p) ==
  /\ Up /\ pc[p] = "done"
  /\ heap' = FreeEnv(p) /\ head' = [head EXCEPT ![p] = <<>>]
  /\ Return(p)
  /\ UNCHANGED <<block, static, fault>>

(* "no result binary provided", "could not allocate result binary":        *)
(* free_env, then an error tuple; the cells already built are dropped.     *)
MissingResultLeaks(p) ==
  /\ Up /\ pc[p] = "missing"
  /\ head' = [head EXCEPT ![p] = <<>>]
  /\ Return(p)
  /\ UNCHANGED <<cheap, fault>>

MissingResult(p) ==
  /\ Up /\ pc[p] = "missing"
  /\ heap' = FreeEnv(p) /\ head' = [head EXCEPT ![p] = <<>>]
  /\ Return(p)
  /\ UNCHANGED <<block, static, fault>>

(* if (error) { free_env(&user_env); ...                                   *)
ErrorFree(p) ==
  /\ Up /\ pc[p] = "error"
  /\ heap' = FreeEnv(p) /\ head' = [head EXCEPT ![p] = <<>>]
  /\ pc' = [pc EXCEPT ![p] = "error_result"]
  /\ UNCHANGED <<stack, block, static, fault>>

(* ... return error_result(env, error); }: strlen and memcpy of the text.  *)
ErrorResult(p) ==
  /\ Up /\ pc[p] = "error_result"
  /\ Read(p, error[p], 0)
  /\ Return(p)
  /\ UNCHANGED <<head, cheap>>

Init ==
  /\ pc = [p \in Procs |-> "idle"]
  /\ frame = [p \in Procs |-> NoFrame]
  /\ input = [p \in Procs |-> <<>>]
  /\ output = [p \in Procs |-> [i \in OutputIndexes |-> NullSlot]]
  /\ head = [p \in Procs |-> <<>>]
  /\ ret = [p \in Procs |-> <<>>]
  /\ error = [p \in Procs |-> None]
  /\ heap = [a \in Addrs |-> None]
  /\ block = [a \in Addrs |-> [by |-> None, ends |-> FALSE]]
  /\ static = [by |-> None, ends |-> TRUE]      \* zeros
  /\ fault = NoFault

Fragment(p) ==
  \/ \E a \in Addrs : Alloc(p, a)
  \/ \E i \in OutputIndexes, src \in Sources, size \in {0, 1} : SetBinary(p, i, src, size)
  \/ \E i \in OutputIndexes : SetScalar(p, i)
  \/ ReturnNull(p)
  \/ \E src \in Sources : ReturnError(p, src)

Finish(p) ==
  \/ Encode(p) \/ EncodeEnd(p) \/ ReturnOk(p)
  \/ MissingResult(p) \/ ErrorFree(p) \/ ErrorResult(p)

Next ==
  \E p \in Procs :
    \/ \E c \in Calls : Call(p, c.method, c.args)
    \/ Decode(p) \/ Fragment(p) \/ Finish(p)

Spec == Init /\ [][Next]_vars

(***************************************************************************)
(* Properties                                                              *)
(***************************************************************************)

TypeOK ==
  /\ pc \in [Procs -> Stages]
  /\ \A p \in Procs :
       /\ frame[p].i \in Nat
       /\ input[p] \in Seq(Terms) /\ head[p] \in Seq(Addrs)
       /\ output[p] \in [OutputIndexes -> [kind : {"zero", "data", "scalar"},
                                           at : Sources \cup {None}, size : {0, 1}]]
  /\ error \in [Procs -> Sources \cup {None}]
  /\ heap \in [Addrs -> Procs \cup {None}]
  /\ block \in [Addrs -> [by : Procs \cup {None}, ends : BOOLEAN]]
  /\ static \in [by : Procs \cup {None}, ends : BOOLEAN]

(* A block belongs to exactly one call, the one whose Env list it is on,   *)
(* and only while that call runs: each of the four ways out of run() after *)
(* runop() frees every block once, and the ways out before it need not.    *)
EnvOwnsBlocks ==
  /\ \A p \in Procs, a \in Addrs : heap[a] = p <=> a \in ToSet(head[p])
  /\ \A p \in Procs : IsInjective(head[p]) /\ (pc[p] = "idle" => head[p] = <<>>)

(* What a call returns is its own: the list has every declared output      *)
(* once, last first, and a binary that was not taken from static memory    *)
(* holds the bytes this call's fragment wrote, although other calls        *)
(* allocate, write and free blocks at the same addresses meanwhile.        *)
ResultsAreOwn ==
  \A p \in Procs : pc[p] = "done" =>
    /\ [k \in DOMAIN ret[p] |-> ret[p][k].out] = Reverse([i \in 1..Count(p) |-> i])
    /\ \A k \in DOMAIN ret[p] :
         output[p][ret[p][k].out].at # "static" => ret[p][k].by = p

(* A fragment runs only with all its inputs decoded from its arguments,    *)
(* each to a value of the declared type that is not cut to 64 bits.        *)
InRange(type, term) ==
  CASE term = "negative" -> type = "int64"
    [] term = "small" -> type \in {"int64", "uint64"}
    [] term = "large" -> type = "uint64"
    [] term = "float" -> type = "double"
    [] term = "binary" -> type = "binary"
    [] OTHER -> FALSE

InputsDecoded ==
  \A p \in Procs : pc[p] \in Stages \ {"idle", "decode"} =>
    /\ Len(input[p]) = Arity(p)
    /\ \A i \in 1..Arity(p) :
         input[p][i] = frame[p].args[i] /\ InRange(Method(p).inputs[i], input[p][i])

(* run() reads freed memory only for an error text kept in an $alloc'ed    *)
(* block, and past the end of memory only for a result left without a      *)
(* size: an input binary handed back, or the static buffer when its last   *)
(* writer, this call or another, left no 0 byte.  An $alloc'ed block       *)
(* always ends in a 0 byte, and an output the fragment did not set is      *)
(* never followed as a pointer.                                            *)
FaultsExplained ==
  \/ fault = NoFault
  \/ fault.kind = "use_after_free" /\ fault.in = "error_result" /\ fault.at \in Addrs
  \/ fault.kind = "overread" /\ fault.in = "encode" /\ fault.at = "input"
  \/ fault.kind = "overread" /\ fault.in = "encode" /\ fault.at = "static" /\ ~static.ends

(***************************************************************************)
(* Statements of the docs that the code does not keep                      *)
(***************************************************************************)

(* An error string the fragment returns reaches the caller intact.         *)
ErrorTextIntact == fault.kind # "use_after_free"
=============================================================================
