----------------------------- MODULE NifProgram -----------------------------
(***************************************************************************)
(* The life of a compiled program in niffler_nif.c: compile() reads the    *)
(* method list, builds a TinyCC state and wraps both in a NIF resource;    *)
(* run() enters the compiled code; the destructor free_state() runs when   *)
(* the last reference to the resource is garbage collected.                *)
(*                                                                         *)
(* One Handle stands for one call of nif_compile/2 and for the program it  *)
(* may create.  A NIF call is split into the steps between which other     *)
(* schedulers can run.  C memory is tracked by who owns it: the Method     *)
(* array of a handle, one ParamDef array per slot <<method, side>>, and    *)
(* the TCCState.  A detected memory error stops the emulator: `fault`      *)
(* records which one, and no step is taken afterwards.                     *)
(***************************************************************************)
EXTENDS Integers, FiniteSets, Sequences

CONSTANTS
  Procs,        \* BEAM processes
  Handles,      \* calls of nif_compile/2, one per program
  NoHandle,     \* "no program"
  MaxMethods,   \* longest method list
  MethodLists   \* the method lists a caller may pass

Sides == {"in", "out"}
Slots == (1..MaxMethods) \X Sides

(* What scan_params() distinguishes in a parameter list: "empty"; "good"   *)
(* (1 to MAX_ARGS well-formed items); "oversize" (more than MAX_ARGS);     *)
(* "nomem" (as good, but malloc fails); "improper" (not a proper list);    *)
(* "malformed" (scan_param rejects an item).                               *)
Shapes == {"empty", "good", "oversize", "nomem", "improper", "malformed"}
Elements == [pair : BOOLEAN, in : Shapes, out : Shapes]

ASSUME HandlesAssumption == NoHandle \notin Handles
ASSUME ProcsAssumption == IsFiniteSet(Procs)
ASSUME MaxMethodsAssumption == MaxMethods \in Nat \ {0}
ASSUME MethodListsAssumption ==
  \A ml \in MethodLists : ml \in Seq(Elements) /\ Len(ml) <= MaxMethods

VARIABLES
  pc,      \* where each process is, in which program, at which method
  arg,     \* arg[h]: the method list of the call
  status,  \* status[h]: what became of the call
  method,  \* method[h][slot]: the Params struct, its pointer being NULL or not
  arrays,  \* handles whose Method array is allocated
  lists,   \* <<h, slot>> whose ParamDef array is allocated
  states,  \* handles whose TCCState, and the code it holds, is allocated
  refc,    \* refc[h]: reference count of the resource
  mso,     \* mso[p]: resources on p's off-heap list
  roots,   \* roots[p]: programs p can still name
  fault    \* the memory error that stopped the emulator

vars == <<pc, arg, status, method, arrays, lists, states, refc, mso, roots, fault>>
memory == <<arrays, lists, states>>
beam == <<refc, mso, roots>>

Statuses == {"unused", "scanning", "rejected", "created", "failed", "ready", "destroyed"}
ScanStages == {"inputs", "outputs", "tcc_new"}
BuildStages == {"compile_string", "relocate", "get_symbol"}
RunStages == {"decode", "runop", "encode"}
Stages == {"idle", "exited"} \cup ScanStages \cup BuildStages \cup RunStages
FaultKinds == {"none", "double_free", "null_dereference", "use_after_free"}

At(stage, h, i) == [at |-> stage, h |-> h, i |-> i]
Idle == At("idle", NoHandle, 0)
NoFault == [kind |-> "none", h |-> NoHandle]
Up == fault = NoFault

ParamsValues == [size : {-1, 0, 1}, ptr : BOOLEAN]
ZeroParams == [size |-> 0, ptr |-> FALSE]
ZeroMethods == [s \in Slots |-> ZeroParams]

(***************************************************************************)
(* compile()                                                               *)
(***************************************************************************)

(* scan_params() returns a struct by value: size is -1 on failure and else *)
(* the length (1 stands for every positive length).  Two returns leave a   *)
(* size the caller accepts with a NULL pointer, one leaves a pointer to    *)
(* memory already freed.                                                   *)
ScanParamsNoReset(shape) ==
  CASE shape = "empty"                -> ZeroParams
    [] shape \in {"oversize", "nomem"} -> [size |-> 1, ptr |-> FALSE]
    [] shape = "good"                 -> [size |-> 1, ptr |-> TRUE]
    [] shape = "improper"             -> [size |-> -1, ptr |-> TRUE]
    [] shape = "malformed"            -> [size |-> -1, ptr |-> TRUE]

ScanParams(shape) ==
  CASE shape = "empty"                -> ZeroParams
    [] shape \in {"oversize", "nomem"} -> [size |-> 1, ptr |-> FALSE]
    [] shape = "good"                 -> [size |-> 1, ptr |-> TRUE]
    [] shape = "improper"             -> [size |-> -1, ptr |-> FALSE]
    [] shape = "malformed"            -> [size |-> -1, ptr |-> TRUE]

(* The ParamDef arrays free_methods() hands to free(): every non-NULL      *)
(* pointer of the table.  The Method array itself is not among them.       *)
FreeMethodsInputsOnly(h, m) == {<<h, s>> : s \in {t \in Slots : m[t].ptr /\ t[2] = "in"}}
FreeMethods(h, m) == {<<h, s>> : s \in {t \in Slots : m[t].ptr}}

Init ==
  /\ pc = [p \in Procs |-> Idle]
  /\ arg = [h \in Handles |-> <<>>]
  /\ status = [h \in Handles |-> "unused"]
  /\ method = [h \in Handles |-> ZeroMethods]
  /\ arrays = {} /\ lists = {} /\ states = {}
  /\ refc = [h \in Handles |-> 0]
  /\ mso = [p \in Procs |-> {}]
  /\ roots = [p \in Procs |-> {}]
  /\ fault = NoFault

(* The checks of compile() before the loop.  The empty method list stands  *)
(* for every first argument the checks refuse.                             *)
CompileRejected(p, h, ml) ==
  /\ Up /\ pc[p] = Idle /\ status[h] = "unused"
  /\ arg' = [arg EXCEPT ![h] = ml]
  /\ status' = [status EXCEPT ![h] = "rejected"]   \* ml = <<>>, or malloc failed
  /\ UNCHANGED <<pc, method, memory, beam, fault>>

CompileBegin(p, h, ml) ==
  /\ Up /\ pc[p] = Idle /\ status[h] = "unused" /\ ml # <<>>
  /\ arg' = [arg EXCEPT ![h] = ml]
  /\ status' = [status EXCEPT ![h] = "scanning"]
  /\ arrays' = arrays \cup {h}
  /\ method' = [method EXCEPT ![h] = ZeroMethods]
  /\ pc' = [pc EXCEPT ![p] = At("inputs", h, 1)]
  /\ UNCHANGED <<lists, states, beam, fault>>

(* A return from compile() that creates no resource. *)
Reject(p, h) ==
  /\ status' = [status EXCEPT ![h] = "rejected"]
  /\ pc' = [pc EXCEPT ![p] = Idle]

(* free_methods(methods, size); return error.  free() of an array that is  *)
(* no longer allocated is a double free, on which the C library aborts.    *)
FreeAndReject(p, h) ==
  LET freed == FreeMethods(h, method'[h])
  IN  IF freed \subseteq lists
      THEN /\ lists' = lists \ freed
           /\ Reject(p, h)
           /\ UNCHANGED fault
      ELSE /\ fault' = [kind |-> "double_free", h |-> h]
           /\ UNCHANGED <<lists, status, pc>>

(* methods[i].side = scan_params(...), and the test of its size.           *)
StoreParams(p, h, slot, shape, next) ==
  LET r == ScanParams(shape)
  IN  /\ method' = [method EXCEPT ![h][slot] = r]
      /\ IF r.size < 0
         THEN FreeAndReject(p, h)
         ELSE /\ lists' = IF r.ptr THEN lists \cup {<<h, slot>>} ELSE lists
              /\ pc' = [pc EXCEPT ![p] = next]
              /\ UNCHANGED <<status, fault>>

(* An element that is not a 2-tuple: compile() returns without freeing.    *)
ScanNotAPair(p) ==
  LET h == pc[p].h
  IN  /\ Up /\ pc[p].at = "inputs"
      /\ ~arg[h][pc[p].i].pair
      /\ Reject(p, h)
      /\ UNCHANGED <<arg, method, memory, beam, fault>>

ScanInputs(p) ==
  LET h == pc[p].h
      i == pc[p].i
  IN  /\ Up /\ pc[p].at = "inputs"
      /\ arg[h][i].pair
      /\ StoreParams(p, h, <<i, "in">>, arg[h][i].in, At("outputs", h, i))
      /\ UNCHANGED <<arg, arrays, states, beam>>

(* The loop head of compile() after the outputs of method i.               *)
NextMethodNoAdvance(h, i) ==
  IF i < Len(arg[h]) THEN At("inputs", h, i) ELSE At("tcc_new", h, i)
NextMethod(h, i) ==
  IF i < Len(arg[h]) THEN At("inputs", h, i + 1) ELSE At("tcc_new", h, i)

ScanOutputs(p) ==
  LET h == pc[p].h
      i == pc[p].i
  IN  /\ Up /\ pc[p].at = "outputs"
      /\ StoreParams(p, h, <<i, "out">>, arg[h][i].out, NextMethod(h, i))
      /\ UNCHANGED <<arg, arrays, states, beam>>

TccNewFails(p) ==
  /\ Up /\ pc[p].at = "tcc_new"
  /\ UNCHANGED method
  /\ FreeAndReject(p, pc[p].h)
  /\ UNCHANGED <<arg, arrays, states, beam>>

(* tcc_new(), then enif_alloc_resource, enif_make_resource and             *)
(* enif_release_resource: the term on the caller's heap is the only        *)
(* reference, on its off-heap list but not yet named by the process.       *)
NewResourceRefcDoubleRelease == 1 + 1 - 2
NewResourceRefcNoRelease == 1 + 1
NewResourceRefc == 1 + 1 - 1

TccNew(p) ==
  LET h == pc[p].h
  IN  /\ Up /\ pc[p].at = "tcc_new"
      /\ states' = states \cup {h}
      /\ refc' = [refc EXCEPT ![h] = NewResourceRefc]
      /\ mso' = [mso EXCEPT ![p] = @ \cup {h}]
      /\ status' = [status EXCEPT ![h] = "created"]
      /\ pc' = [pc EXCEPT ![p].at = "compile_string"]
      /\ UNCHANGED <<arg, method, arrays, lists, roots, fault>>

(* tcc_compile_string, tcc_relocate and tcc_get_symbol: on an error the    *)
(* call returns and leaves the resource to the garbage collector.          *)
BuildFailsIgnored(p) ==
  /\ Up /\ pc[p].at \in BuildStages
  /\ status' = [status EXCEPT ![pc[p].h] = "failed"]
  /\ roots' = [roots EXCEPT ![p] = @ \cup {pc[p].h}]
  /\ pc' = [pc EXCEPT ![p] = Idle]
  /\ UNCHANGED <<arg, method, memory, refc, mso, fault>>

BuildFails(p) ==
  /\ Up /\ pc[p].at \in BuildStages
  /\ status' = [status EXCEPT ![pc[p].h] = "failed"]
  /\ pc' = [pc EXCEPT ![p] = Idle]
  /\ UNCHANGED <<arg, method, memory, beam, fault>>

BuildStep(p) ==
  /\ Up /\ pc[p].at \in {"compile_string", "relocate"}
  /\ pc' = [pc EXCEPT ![p].at = IF @ = "compile_string" THEN "relocate" ELSE "get_symbol"]
  /\ UNCHANGED <<arg, status, method, memory, beam, fault>>

(* return {:ok, program}                                                   *)
CompileOk(p) ==
  LET h == pc[p].h
  IN  /\ Up /\ pc[p].at = "get_symbol"
      /\ status' = [status EXCEPT ![h] = "ready"]
      /\ roots' = [roots EXCEPT ![p] = @ \cup {h}]
      /\ pc' = [pc EXCEPT ![p] = Idle]
      /\ UNCHANGED <<arg, method, memory, refc, mso, fault>>

(***************************************************************************)
(* run()                                                                   *)
(***************************************************************************)

(* The bounds check of run() refuses an index of no method.                *)
RunBegin(p, h, i) ==
  /\ Up /\ pc[p] = Idle /\ h \in roots[p]
  /\ i \in 1..Len(arg[h])
  /\ pc' = [pc EXCEPT ![p] = At("decode", h, i)]
  /\ UNCHANGED <<arg, status, method, memory, beam, fault>>

(* method->side.params[i].type for every i below method->side.size         *)
ReadParams(h, slot) ==
  IF method[h][slot].size <= 0 THEN "none"
  ELSE IF ~method[h][slot].ptr THEN "null_dereference"
  ELSE IF <<h, slot>> \notin lists \/ h \notin arrays THEN "use_after_free"
  ELSE "none"

(* Reading the parameter table, then going on to `next` or stopping.       *)
Access(p, slot, next) ==
  LET h == pc[p].h
      kind == ReadParams(h, slot)
  IN  IF kind = "none"
      THEN pc' = [pc EXCEPT ![p] = next] /\ UNCHANGED fault
      ELSE fault' = [kind |-> kind, h |-> h] /\ UNCHANGED pc

Return(p) ==
  /\ pc' = [pc EXCEPT ![p] = Idle]
  /\ UNCHANGED fault

(* The decode loop: the first parameter is read only after an argument was *)
(* found for it, and an argument of another type ends the call.            *)
RunDecode(p) ==
  LET h == pc[p].h
      slot == <<pc[p].i, "in">>
  IN  /\ Up /\ pc[p].at = "decode"
      /\ \/ Access(p, slot, [pc[p] EXCEPT !.at = "runop"])
         \/ method[h][slot].size > 0 /\ Return(p)           \* not enough arguments
         \/ ReadParams(h, slot) = "none" /\ method[h][slot].size > 0
            /\ Return(p)                                     \* wrong type
      /\ UNCHANGED <<arg, status, method, memory, beam>>

(* program->runop(...): the compiled code, which returns NULL or an error. *)
RunOp(p) ==
  LET h == pc[p].h
  IN  /\ Up /\ pc[p].at = "runop"
      /\ IF h \in states
         THEN Return(p) \/ (pc' = [pc EXCEPT ![p].at = "encode"] /\ UNCHANGED fault)
         ELSE fault' = [kind |-> "use_after_free", h |-> h] /\ UNCHANGED pc
      /\ UNCHANGED <<arg, status, method, memory, beam>>

RunEncode(p) ==
  /\ Up /\ pc[p].at = "encode"
  /\ Access(p, <<pc[p].i, "out">>, Idle)
  /\ UNCHANGED <<arg, status, method, memory, beam>>

(***************************************************************************)
(* The emulator: references to a resource, and the destructor free_state() *)
(***************************************************************************)

(* A message copies the term: the receiver gets a reference of its own.    *)
Send(p, q, h) ==
  /\ Up /\ pc[p] = Idle /\ h \in roots[p]
  /\ pc[q].at # "exited" /\ h \notin mso[q]
  /\ refc' = [refc EXCEPT ![h] = @ + 1]
  /\ mso' = [mso EXCEPT ![q] = @ \cup {h}]
  /\ roots' = [roots EXCEPT ![q] = @ \cup {h}]
  /\ UNCHANGED <<pc, arg, status, method, memory, fault>>

(* A process forgets a program: nothing is collected yet.  A process       *)
(* inside a NIF keeps its arguments.                                       *)
Drop(p, h) ==
  /\ Up /\ pc[p] = Idle /\ h \in roots[p]
  /\ roots' = [roots EXCEPT ![p] = @ \ {h}]
  /\ UNCHANGED <<pc, arg, status, method, memory, refc, mso, fault>>

(* free_state(): tcc_delete(state), then free_methods().                   *)
Destroyed(h) == FreeMethods(h, method[h])

(* p gives up its references to the resources in `lost`; those whose count *)
(* reaches 0 are destroyed.                                                *)
Released(lost) == {h \in lost : refc[h] = 1}

Release(p, lost) ==
  LET dead == Released(lost)
      freed == UNION {Destroyed(h) : h \in dead}
  IN  /\ mso' = [mso EXCEPT ![p] = @ \ lost]
      /\ refc' = [h \in Handles |-> IF h \in lost THEN refc[h] - 1 ELSE refc[h]]
      /\ status' = [h \in Handles |-> IF h \in dead THEN "destroyed" ELSE status[h]]
      /\ states' = states \ dead
      /\ IF freed \subseteq lists
         THEN lists' = lists \ freed /\ UNCHANGED fault
         ELSE fault' = [kind |-> "double_free", h |-> NoHandle] /\ UNCHANGED lists
      /\ UNCHANGED <<arg, method, arrays>>

(* A garbage collection of p sweeps its off-heap list.                     *)
Gc(p) ==
  /\ Up /\ pc[p] = Idle
  /\ mso[p] # roots[p]
  /\ Release(p, mso[p] \ roots[p])
  /\ UNCHANGED <<pc, roots>>

(* A process exits, by itself or killed; inside a NIF it waits for the     *)
(* return.                                                                 *)
Exit(p) ==
  /\ Up /\ pc[p] = Idle
  /\ pc' = [pc EXCEPT ![p] = At("exited", NoHandle, 0)]
  /\ roots' = [roots EXCEPT ![p] = {}]
  /\ Release(p, mso[p])

Compile(p) ==
  \/ ScanNotAPair(p) \/ ScanInputs(p) \/ ScanOutputs(p)
  \/ TccNewFails(p) \/ TccNew(p)
  \/ BuildFails(p) \/ BuildStep(p) \/ CompileOk(p)

Next ==
  \E p \in Procs :
    \/ \E h \in Handles, ml \in MethodLists : CompileRejected(p, h, ml) \/ CompileBegin(p, h, ml)
    \/ Compile(p)
    \/ \E h \in Handles, i \in 1..MaxMethods : RunBegin(p, h, i)
    \/ RunDecode(p) \/ RunOp(p) \/ RunEncode(p)
    \/ \E q \in Procs, h \in Handles : Send(p, q, h)
    \/ \E h \in Handles : Drop(p, h)
    \/ Gc(p) \/ Exit(p)

Spec == Init /\ [][Next]_vars

(* A NIF call on a running scheduler takes its next step.  Only compile()  *)
(* is assumed to: compiled code may loop.                                  *)
FairSpec == Spec /\ \A p \in Procs : WF_vars(Compile(p))

(***************************************************************************)
(* Properties                                                              *)
(***************************************************************************)

TypeOK ==
  /\ pc \in [Procs -> [at : Stages, h : Handles \cup {NoHandle}, i : 0..MaxMethods]]
  /\ arg \in [Handles -> MethodLists \cup {<<>>}]
  /\ status \in [Handles -> Statuses]
  /\ method \in [Handles -> [Slots -> ParamsValues]]
  /\ arrays \subseteq Handles
  /\ lists \subseteq Handles \X Slots
  /\ states \subseteq Handles
  /\ refc \in [Handles -> Nat]
  /\ mso \in [Procs -> SUBSET Handles]
  /\ roots \in [Procs -> SUBSET Handles]
  /\ fault \in [kind : FaultKinds, h : Handles \cup {NoHandle}]

(* A program some item of whose method list has one of these shapes.       *)
Has(h, shapes) ==
  \E i \in 1..Len(arg[h]) : arg[h][i].pair /\ {arg[h][i].in, arg[h][i].out} \cap shapes # {}

(* Memory errors have two causes only: a double free inside the compile()  *)
(* call whose own list scan_param() refused, and a NULL table met by run() *)
(* in a program whose list was oversize or not allocated.  No interleaving *)
(* of calls, messages, exits and collections adds a third, and no call     *)
(* with well-formed lists brings the emulator down.                        *)
FaultsExplained ==
  \/ fault = NoFault
  \/ /\ fault.kind = "double_free" /\ status[fault.h] = "scanning"
     /\ Has(fault.h, {"malformed"})
  \/ /\ fault.kind = "null_dereference" /\ status[fault.h] = "ready"
     /\ Has(fault.h, {"oversize", "nomem"})

Running(p, h) == pc[p].h = h /\ pc[p].at \in RunStages

(* run() works on a program that stays whole until it returns: the code,   *)
(* the method table and every parameter list are still allocated, whoever  *)
(* drops, collects or dies meanwhile (run() itself takes no reference).    *)
RunningAlive ==
  \A p \in Procs, h \in Handles :
    Running(p, h) =>
      /\ status[h] = "ready" /\ h \in states /\ h \in arrays
      /\ \A s \in Slots : method[h][s].ptr => <<h, s>> \in lists

(* When a call was refused or its program destroyed, its parameter lists   *)
(* are free again, except after the early return on an element that is not *)
(* a 2-tuple.  (The Method array is never freed by anyone.)                *)
ParamsReclaimed ==
  \A h \in Handles :
    status[h] \in {"rejected", "destroyed"} /\ (\A i \in 1..Len(arg[h]) : arg[h][i].pair)
      => \A s \in Slots : <<h, s>> \notin lists

(* Every allocated TCCState, of failed builds too, belongs to a resource   *)
(* some process's next collection or exit can still reach.                 *)
StateReachable == \A h \in states : \E p \in Procs : h \in mso[p]

(* compile() returns, whatever list it was given, unless it crashes.       *)
CompileReturns ==
  \A p \in Procs : pc[p].at \in ScanStages \cup BuildStages ~> (pc[p].at = "idle" \/ ~Up)

(* What other code may rely on (ProgramLifetime): the detailed steps only  *)
(* enter published programs and only reclaim those nobody holds or runs.   *)
Phase(h) ==
  CASE status[h] = "unused" -> "none"
    [] status[h] \in {"scanning", "created"} -> "building"
    [] status[h] = "failed" -> "broken"
    [] status[h] = "ready" -> "usable"
    [] status[h] \in {"rejected", "destroyed"} -> "gone"

Lifetime == INSTANCE ProgramLifetime WITH
  phase <- [h \in Handles |-> Phase(h)],
  holders <- [h \in Handles |-> {p \in Procs : h \in roots[p]}],
  running <- [h \in Handles |-> {p \in Procs : Running(p, h)}]

LifetimeSpec == Lifetime!Spec

(***************************************************************************)
(* A statement of the code that the code does not keep                     *)
(***************************************************************************)

(* niffler_nif.c answers an item it cannot use with {:error, reason} ("name *)
(* is too long (max 63 chars)"): the call should return it, not crash.     *)
MalformedAnswered == fault.kind # "double_free"
=============================================================================
