--------------------------- MODULE NifProgram_proofs ---------------------------
(***************************************************************************)
(* Type correctness and the invariants of NifProgram, and that it          *)
(* implements ProgramLifetime, for any processes, any number of programs   *)
(* and any method lists.                                                   *)
(***************************************************************************)
EXTENDS NifProgram, FiniteSetTheorems, TLAPS

Holders(h) == {p \in Procs : h \in mso[p]}

(* References: a process names only what is on its off-heap list, only     *)
(* finished programs are named, and the count of a resource is the number  *)
(* of processes that list it.                                              *)
RefsInv ==
  /\ \A p \in Procs : roots[p] \subseteq mso[p] /\ mso[p] \subseteq states
  /\ \A p \in Procs : \A h \in roots[p] : status[h] = "ready"
  /\ \A h \in Handles : refc[h] = Cardinality(Holders(h))

(* A TCCState exists exactly while its resource does, and is listed.       *)
StatesInv ==
  /\ \A h \in Handles : h \in states <=> status[h] \in {"created", "failed", "ready"}
  /\ \A h \in states : \E p \in Procs : h \in mso[p]

(* What a process inside a NIF may count on: a runner still names the      *)
(* program, a builder has it to itself.                                    *)
RunStage ==
  \A p \in Procs : pc[p].at \in RunStages => pc[p].h \in roots[p]
ScanStage ==
  \A p \in Procs : pc[p].at \in ScanStages =>
    /\ pc[p].h \in Handles /\ status[pc[p].h] = "scanning"
    /\ pc[p].i \in 1..Len(arg[pc[p].h])
BuildStage ==
  \A p \in Procs : pc[p].at \in BuildStages =>
    pc[p].h \in mso[p] /\ status[pc[p].h] = "created"
OneBuilder ==
  \A p, q \in Procs :
    /\ pc[p].at \in ScanStages \cup BuildStages
    /\ pc[q].at \in ScanStages \cup BuildStages
    /\ pc[p].h = pc[q].h
    => p = q
StagesInv == RunStage /\ ScanStage /\ BuildStage /\ OneBuilder

(* Every pointer in the method table of a program, or of a call still      *)
(* scanning, points to an allocated list; a detected double free is the    *)
(* exception.                                                              *)
TablesInv ==
  \A h \in Handles :
    \/ status[h] \in {"created", "failed", "ready"}
    \/ Up /\ status[h] = "scanning"
    => h \in arrays /\ \A s \in Slots : method[h][s].ptr => <<h, s>> \in lists

IInv == TypeOK /\ RefsInv /\ StatesInv /\ StagesInv /\ TablesInv

-----------------------------------------------------------------------------
(* What scan_params() returns has the type of a Params struct.             *)
LEMMA ScanParamsType ==
  ASSUME NEW shape \in Shapes
  PROVE  /\ ScanParams(shape) \in ParamsValues
         /\ ScanParams(shape).ptr /\ ScanParams(shape).size >= 0 => shape = "good"
<1>1. CASE shape = "empty"
  BY <1>1 DEF ScanParams, ParamsValues, ZeroParams
<1>2. CASE shape \in {"oversize", "nomem"}
  BY <1>2 DEF ScanParams, ParamsValues
<1>3. CASE shape = "good"
  BY <1>3 DEF ScanParams, ParamsValues
<1>4. CASE shape = "improper"
  BY <1>4 DEF ScanParams, ParamsValues
<1>5. CASE shape = "malformed"
  BY <1>5 DEF ScanParams, ParamsValues
<1>6. QED
  BY <1>1, <1>2, <1>3, <1>4, <1>5 DEF Shapes

(* The items of the method list of a call.                                 *)
LEMMA ArgElements ==
  ASSUME TypeOK, NEW h \in Handles
  PROVE  /\ Len(arg[h]) \in 0..MaxMethods
         /\ \A i \in 1..Len(arg[h]) :
              /\ arg[h][i].in \in Shapes /\ arg[h][i].out \in Shapes
              /\ i \in 1..MaxMethods
<1>1. arg[h] \in Seq(Elements) /\ Len(arg[h]) <= MaxMethods
  <2>1. CASE arg[h] \in MethodLists
    BY <2>1, MethodListsAssumption
  <2>2. CASE arg[h] = <<>>
    BY <2>2, MaxMethodsAssumption
  <2>3. QED
    BY <2>1, <2>2 DEF TypeOK
<1>2. \A i \in 1..Len(arg[h]) : arg[h][i] \in Elements
  BY <1>1
<1>3. QED
  BY <1>1, <1>2, MaxMethodsAssumption DEF Elements

(* Where a process can be.                                                 *)
PcValues == [at : Stages, h : Handles \cup {NoHandle}, i : 0..MaxMethods]

(* The idle process is somewhere a process can be.                         *)
LEMMA IdleType == Idle \in PcValues
  BY MaxMethodsAssumption DEF Idle, At, Stages, PcValues

(* The processes that list a resource are finitely many.                     *)
LEMMA HoldersFinite == ASSUME NEW h PROVE IsFiniteSet(Holders(h))
  BY ProcsAssumption, FS_Subset DEF Holders

(* The empty emulator, before the first nif_compile(), satisfies the       *)
(* inductive invariant.                                                    *)
THEOREM InitIInv == Init => IInv
<1> SUFFICES ASSUME Init PROVE IInv
  OBVIOUS
<1>1. TypeOK
  BY MaxMethodsAssumption DEF Init, TypeOK, Idle, At, ZeroMethods, ZeroParams, ParamsValues,
     NoFault, Stages, Statuses, FaultKinds
<1>2. \A h \in Handles : Holders(h) = {}
  BY DEF Init, Holders
<1>3. RefsInv
  BY <1>2, FS_EmptySet DEF Init, RefsInv
<1>4. StatesInv /\ StagesInv /\ TablesInv
  BY DEF Init, StatesInv, StagesInv, RunStage, ScanStage, BuildStage, OneBuilder, TablesInv, Idle, At, RunStages, ScanStages, BuildStages
<1>5. QED
  BY <1>1, <1>3, <1>4 DEF IInv

-----------------------------------------------------------------------------
(* Steps that leave the emulator's references and the TCC states alone.    *)
LEMMA RefsFrame ==
  ASSUME RefsInv, UNCHANGED <<beam, states>>,
         \A h \in Handles : status[h] = "ready" => status'[h] = "ready",
         TypeOK
  PROVE  RefsInv'
<1>1. \A h \in Handles : Holders(h)' = Holders(h)
  BY DEF Holders, beam
<1>2. QED
  BY <1>1 DEF RefsInv, beam, TypeOK

(* Steps that leave the TCC states and their off-heap lists alone.         *)
LEMMA StatesFrame ==
  ASSUME StatesInv, UNCHANGED <<mso, states>>,
         \A h \in Handles : status'[h] \in {"created", "failed", "ready"}
                        <=> status[h] \in {"created", "failed", "ready"}
  PROVE  StatesInv'
  BY DEF StatesInv

(* A call refused before it builds anything keeps the invariant.           *)
LEMMA CompileRejectedStep ==
  ASSUME IInv, NEW p \in Procs, NEW h \in Handles, NEW ml \in MethodLists, CompileRejected(p, h, ml)
  PROVE  IInv'
<1> USE DEF IInv
<1>1. TypeOK'
  BY DEF CompileRejected, TypeOK, memory, beam, Statuses
<1>2. RefsInv' /\ StatesInv'
  BY RefsFrame, StatesFrame DEF CompileRejected, TypeOK, memory, beam
<1>3. StagesInv'
  BY DEF CompileRejected, TypeOK, StagesInv, RunStage, ScanStage, BuildStage, OneBuilder, memory, beam
<1>4. TablesInv'
  BY DEF CompileRejected, TypeOK, TablesInv, memory, Up
<1>5. QED
  BY <1>1, <1>2, <1>3, <1>4

(* A call that starts scanning has an empty table and no list of its own.  *)
LEMMA CompileBeginStep ==
  ASSUME IInv, NEW p \in Procs, NEW h \in Handles, NEW ml \in MethodLists, CompileBegin(p, h, ml)
  PROVE  IInv'
<1> USE DEF IInv
<1>1. ml \in Seq(Elements) /\ ml # <<>>
  BY MethodListsAssumption DEF CompileBegin
<1>2. 1 \in 1..Len(ml)
  BY <1>1
<1>3. TypeOK'
  BY MaxMethodsAssumption DEF CompileBegin, TypeOK, beam, Statuses, Stages, ScanStages, At,
     ZeroMethods, ZeroParams, ParamsValues
<1>4. RefsInv' /\ StatesInv'
  BY RefsFrame, StatesFrame DEF CompileBegin, TypeOK, beam
<1>5. StagesInv'
  BY <1>2 DEF CompileBegin, TypeOK, StagesInv, RunStage, ScanStage, BuildStage, OneBuilder, beam, At, ScanStages, BuildStages, RunStages
<1>6. TablesInv'
  BY DEF CompileBegin, TypeOK, TablesInv, Up, ZeroMethods, ZeroParams
<1>7. QED
  BY <1>3, <1>4, <1>5, <1>6

(* Releasing the lists of a call that fails: no other program owns them.   *)
LEMMA FreeAndRejectStep ==
  ASSUME IInv, NEW p \in Procs, pc[p].at \in ScanStages, Up,
         UNCHANGED <<arg, arrays, states, beam>>,
         method' \in [Handles -> [Slots -> ParamsValues]],
         \A h \in Handles \ {pc[p].h} : method'[h] = method[h],
         FreeAndReject(p, pc[p].h)
  PROVE  IInv'
<1> USE DEF IInv
<1>1. PICK h \in Handles : h = pc[p].h /\ status[h] = "scanning"
  BY DEF StagesInv, RunStage, ScanStage, BuildStage, OneBuilder
<1>2. \/ /\ lists' = lists \ FreeMethods(h, method'[h]) /\ fault' = fault
         /\ status' = [status EXCEPT ![h] = "rejected"]
         /\ pc' = [pc EXCEPT ![p] = Idle]
      \/ /\ fault' = [kind |-> "double_free", h |-> h]
         /\ lists' = lists /\ status' = status /\ pc' = pc
  BY <1>1 DEF FreeAndReject, Reject
<1>3. TypeOK'
  <2>1. Idle \in [at : Stages, h : Handles \cup {NoHandle}, i : 0..MaxMethods]
    BY MaxMethodsAssumption DEF Idle, At, Stages
  <2>2. /\ pc' = pc \/ pc' = [pc EXCEPT ![p] = Idle]
        /\ status' = status \/ status' = [status EXCEPT ![h] = "rejected"]
        /\ lists' \subseteq lists
    BY <1>2
  <2>3. fault' \in [kind : FaultKinds, h : Handles \cup {NoHandle}]
    BY <1>2 DEF TypeOK, FaultKinds
  <2>4. pc' \in [Procs -> [at : Stages, h : Handles \cup {NoHandle}, i : 0..MaxMethods]]
    BY <2>1, <2>2 DEF TypeOK
  <2>5. status' \in [Handles -> Statuses]
    BY <2>2 DEF TypeOK, Statuses
  <2>6. QED
    BY <2>2, <2>3, <2>4, <2>5 DEF TypeOK, beam
<1>4. RefsInv' /\ StatesInv'
  BY <1>1, <1>2, RefsFrame, StatesFrame DEF TypeOK, beam
<1>5. StagesInv'
  <2>1. CASE pc' = pc /\ status' = status
    BY <2>1 DEF StagesInv, RunStage, ScanStage, BuildStage, OneBuilder, beam
  <2>2. CASE pc' = [pc EXCEPT ![p] = Idle] /\ status' = [status EXCEPT ![h] = "rejected"]
    <3>1. /\ pc'[p].at = "idle"
          /\ \A q \in Procs \ {p} : pc'[q] = pc[q]
          /\ \A g \in Handles \ {h} : status'[g] = status[g]
      BY <2>2 DEF TypeOK, Idle, At
    <3>2. \A q \in Procs \ {p} :
            pc[q].at \in ScanStages \cup BuildStages => pc[q].h \in Handles \ {h}
      BY <1>1 DEF StagesInv, RunStage, ScanStage, BuildStage, OneBuilder, TypeOK
    <3>3. pc'[p].at \notin ScanStages \cup BuildStages \cup RunStages
      BY <3>1 DEF ScanStages, BuildStages, RunStages
    <3>4. RunStage' /\ OneBuilder'
      BY <3>1, <3>3 DEF StagesInv, RunStage, OneBuilder, beam
    <3>5. ScanStage' /\ BuildStage'
      BY <3>1, <3>2, <3>3 DEF StagesInv, ScanStage, BuildStage, beam
    <3>6. QED
      BY <3>4, <3>5 DEF StagesInv
  <2>3. QED
    BY <1>2, <2>1, <2>2
<1>6. TablesInv'
  <2>1. \A g \in Handles \ {h} : \A s \in Slots : <<g, s>> \in lists => <<g, s>> \in lists'
    BY <1>1, <1>2 DEF FreeMethods
  <2>2. status'[h] = "rejected" \/ (status'[h] = "scanning" /\ ~Up')
    BY <1>1, <1>2 DEF TypeOK, Up, NoFault
  <2>3. \A g \in Handles \ {h} : status'[g] = status[g] /\ (Up' => Up)
    BY <1>2 DEF TypeOK, Up
  <2>4. QED
    BY <1>1, <2>1, <2>2, <2>3 DEF TablesInv, TypeOK
<1>7. QED
  BY <1>3, <1>4, <1>5, <1>6

(* One scan_params() of the loop, stored or answered with an error.        *)
LEMMA StoreParamsStep ==
  ASSUME IInv, NEW p \in Procs, pc[p].at \in ScanStages, Up,
         NEW slot \in Slots, NEW shape \in Shapes,
         NEW next, next \in [at : ScanStages, h : {pc[p].h}, i : 1..Len(arg[pc[p].h])],
         UNCHANGED <<arg, arrays, states, beam>>,
         StoreParams(p, pc[p].h, slot, shape, next)
  PROVE  IInv'
<1> DEFINE h == pc[p].h
           r == ScanParams(shape)
<1> USE DEF IInv
<1>1. h \in Handles /\ status[h] = "scanning" /\ h \in arrays
  BY DEF StagesInv, RunStage, ScanStage, BuildStage, OneBuilder, TablesInv
<1>2. /\ r \in ParamsValues
      /\ method' = [method EXCEPT ![h][slot] = r]
      /\ method' \in [Handles -> [Slots -> ParamsValues]]
  BY <1>1, ScanParamsType DEF StoreParams, TypeOK
<1>3. CASE r.size < 0
  <2>1. FreeAndReject(p, h)
    BY <1>3 DEF StoreParams
  <2>2. \A g \in Handles \ {h} : method'[g] = method[g]
    BY <1>2 DEF TypeOK
  <2>3. QED
    BY <1>2, <2>1, <2>2, FreeAndRejectStep
<1>4. CASE ~(r.size < 0)
  <2>1. /\ lists' = IF r.ptr THEN lists \cup {<<h, slot>>} ELSE lists
        /\ pc' = [pc EXCEPT ![p] = next]
        /\ UNCHANGED <<status, fault>>
    BY <1>4 DEF StoreParams
  <2>2. TypeOK'
    <3>1. next \in [at : Stages, h : Handles \cup {NoHandle}, i : 0..MaxMethods]
      BY <1>1, ArgElements DEF Stages
    <3>2. QED
      BY <1>1, <1>2, <2>1, <3>1 DEF TypeOK, beam
  <2>3. RefsInv' /\ StatesInv'
    BY <2>1, RefsFrame, StatesFrame DEF beam
  <2>4. StagesInv'
    BY <1>1, <2>1 DEF StagesInv, RunStage, ScanStage, BuildStage, OneBuilder, TypeOK, beam, ScanStages, BuildStages, RunStages
  <2>5. TablesInv'
    BY <1>1, <1>2, <2>1 DEF TablesInv, TypeOK, Up
  <2>6. QED
    BY <2>2, <2>3, <2>4, <2>5
<1>5. QED
  BY <1>3, <1>4

(* The steps of the scanning loop of compile().                            *)
LEMMA ScanStep ==
  ASSUME IInv, NEW p \in Procs, ScanNotAPair(p) \/ ScanInputs(p) \/ ScanOutputs(p) \/ TccNewFails(p)
  PROVE  IInv'
<1> USE DEF IInv
<1>1. Up /\ pc[p].at \in ScanStages
  BY DEF ScanNotAPair, ScanInputs, ScanOutputs, TccNewFails, ScanStages
<1>2. PICK h \in Handles : h = pc[p].h /\ status[h] = "scanning"
  BY <1>1 DEF StagesInv, ScanStage
<1>3. PICK i \in 1..Len(arg[h]) : i = pc[p].i
  BY <1>1, <1>2 DEF StagesInv, ScanStage
<1>4. /\ i \in 1..MaxMethods /\ Len(arg[h]) \in Nat
      /\ arg[h][i].in \in Shapes /\ arg[h][i].out \in Shapes
      /\ <<i, "in">> \in Slots /\ <<i, "out">> \in Slots
  BY <1>2, <1>3, ArgElements DEF Slots, Sides
<1>5. CASE ScanNotAPair(p)
  <2>1. /\ status' = [status EXCEPT ![h] = "rejected"]
        /\ pc' = [pc EXCEPT ![p] = Idle]
        /\ UNCHANGED <<arg, method, memory, beam, fault>>
    BY <1>2, <1>5 DEF ScanNotAPair, Reject
  <2>2. /\ pc'[p].at = "idle" /\ pc'[p] = Idle
        /\ \A q \in Procs \ {p} : pc'[q] = pc[q]
        /\ \A g \in Handles \ {h} : status'[g] = status[g]
        /\ status'[h] = "rejected"
    BY <1>2, <2>1 DEF TypeOK, Idle, At
  <2>3. TypeOK'
    BY <2>1, MaxMethodsAssumption DEF TypeOK, memory, beam, Statuses, Idle, At, Stages
  <2>4. RefsInv' /\ StatesInv'
    BY <1>2, <2>1, <2>2, RefsFrame, StatesFrame DEF memory, beam
  <2>5. pc'[p].at \notin ScanStages \cup BuildStages \cup RunStages
    BY <2>2 DEF ScanStages, BuildStages, RunStages
  <2>6. \A q \in Procs \ {p} :
          pc[q].at \in ScanStages \cup BuildStages => pc[q].h \in Handles \ {h}
    BY <1>1, <1>2 DEF StagesInv, ScanStage, BuildStage, OneBuilder, TypeOK
  <2>7. StagesInv'
    BY <2>1, <2>2, <2>5, <2>6 DEF StagesInv, RunStage, ScanStage, BuildStage, OneBuilder, beam
  <2>8. TablesInv'
    BY <1>2, <2>1, <2>2 DEF TablesInv, memory, Up
  <2>9. QED
    BY <2>3, <2>4, <2>7, <2>8
<1>6. CASE ScanInputs(p)
  <2>1. At("outputs", h, i) \in [at : ScanStages, h : {h}, i : 1..Len(arg[h])]
    BY <1>3 DEF At, ScanStages
  <2>2. StoreParams(p, h, <<i, "in">>, arg[h][i].in, At("outputs", h, i))
    BY <1>2, <1>3, <1>6 DEF ScanInputs
  <2>3. UNCHANGED <<arg, arrays, states, beam>>
    BY <1>6 DEF ScanInputs
  <2>4. QED
    BY <1>1, <1>2, <1>4, <2>1, <2>2, <2>3, StoreParamsStep
<1>7. CASE ScanOutputs(p)
  <2>1. NextMethod(h, i) \in [at : ScanStages, h : {h}, i : 1..Len(arg[h])]
    BY <1>3, <1>4 DEF NextMethod, At, ScanStages
  <2>2. StoreParams(p, h, <<i, "out">>, arg[h][i].out, NextMethod(h, i))
    BY <1>2, <1>3, <1>7 DEF ScanOutputs
  <2>3. UNCHANGED <<arg, arrays, states, beam>>
    BY <1>7 DEF ScanOutputs
  <2>4. QED
    BY <1>1, <1>2, <1>4, <2>1, <2>2, <2>3, StoreParamsStep
<1>8. CASE TccNewFails(p)
  <2>1. /\ UNCHANGED <<arg, arrays, states, beam>> /\ method' = method
        /\ FreeAndReject(p, pc[p].h)
    BY <1>8 DEF TccNewFails
  <2>2. method' \in [Handles -> [Slots -> ParamsValues]]
    BY <2>1 DEF TypeOK
  <2>3. QED
    BY <1>1, <2>1, <2>2, FreeAndRejectStep
<1>9. QED
  BY <1>5, <1>6, <1>7, <1>8

(* The new resource has one reference: the caller's off-heap list.         *)
LEMMA TccNewStep ==
  ASSUME IInv, NEW p \in Procs, TccNew(p)
  PROVE  IInv'
<1> USE DEF IInv
<1>1. pc[p].at = "tcc_new" /\ Up
  BY DEF TccNew
<1>2. PICK h \in Handles : h = pc[p].h /\ status[h] = "scanning" /\ h \notin states
  BY <1>1 DEF StagesInv, ScanStage, ScanStages, StatesInv
<1>3. /\ states' = states \cup {h}
      /\ refc' = [refc EXCEPT ![h] = 1]
      /\ mso' = [mso EXCEPT ![p] = mso[p] \cup {h}]
      /\ status' = [status EXCEPT ![h] = "created"]
      /\ pc' = [pc EXCEPT ![p].at = "compile_string"]
      /\ UNCHANGED <<arg, method, arrays, lists, roots, fault>>
  BY <1>2 DEF TccNew, NewResourceRefc
<1>4. TypeOK'
  <2>1. pc' \in [Procs -> [at : Stages, h : Handles \cup {NoHandle}, i : 0..MaxMethods]]
    <3>1. pc \in [Procs -> PcValues] /\ "compile_string" \in Stages
      BY DEF TypeOK, PcValues, Stages, BuildStages
    <3>2. [pc[p] EXCEPT !.at = "compile_string"] \in PcValues
      BY <3>1 DEF PcValues
    <3>3. pc' = [pc EXCEPT ![p] = [pc[p] EXCEPT !.at = "compile_string"]]
      BY <1>3
    <3>4. pc' \in [Procs -> PcValues]
      BY <3>1, <3>2, <3>3
    <3>5. QED
      BY <3>4 DEF PcValues
  <2>2. QED
    BY <1>3, <2>1 DEF TypeOK, Statuses
<1>5. /\ \A q \in Procs \ {p} : pc'[q] = pc[q] /\ mso'[q] = mso[q]
      /\ \A g \in Handles \ {h} : status'[g] = status[g]
      /\ status'[h] = "created" /\ mso'[p] = mso[p] \cup {h}
      /\ pc'[p].h = h /\ pc'[p].at = "compile_string"
  BY <1>2, <1>3 DEF TypeOK
<1>6. RefsInv'
  <2>1. \A q \in Procs : h \notin mso[q]
    BY <1>2 DEF RefsInv
  <2>2. Holders(h)' = {p}
    BY <1>5, <2>1 DEF Holders
  <2>3. \A g \in Handles \ {h} : Holders(g)' = Holders(g)
    BY <1>5 DEF Holders
  <2>4. \A g \in Handles : refc'[g] = Cardinality(Holders(g)')
    <3>1. Cardinality({p}) = 1
      BY FS_Singleton
    <3>2. QED
      BY <1>3, <2>2, <2>3, <3>1 DEF RefsInv, TypeOK
  <2>5. \A q \in Procs : roots'[q] \subseteq mso'[q] /\ mso'[q] \subseteq states'
    BY <1>3, <1>5 DEF RefsInv
  <2>6. \A q \in Procs : \A g \in roots'[q] : status'[g] = "ready"
    BY <1>2, <1>3, <1>5 DEF RefsInv, TypeOK
  <2>7. QED
    BY <2>4, <2>5, <2>6 DEF RefsInv
<1>7. StatesInv'
  BY <1>2, <1>3, <1>5 DEF StatesInv, TypeOK
<1>8. StagesInv'
  <2>1. \A q \in Procs \ {p} :
          pc[q].at \in ScanStages \cup BuildStages => pc[q].h \in Handles \ {h}
    BY <1>1, <1>2 DEF StagesInv, ScanStage, BuildStage, OneBuilder, TypeOK, ScanStages
  <2>2. RunStage'
    BY <1>3, <1>5 DEF StagesInv, RunStage, RunStages
  <2>3. ScanStage'
    BY <1>3, <1>5, <2>1 DEF StagesInv, ScanStage, ScanStages
  <2>4. BuildStage'
    BY <1>3, <1>5, <2>1 DEF StagesInv, BuildStage, BuildStages
  <2>5. OneBuilder'
    BY <1>3, <1>5, <2>1 DEF StagesInv, OneBuilder
  <2>6. QED
    BY <2>2, <2>3, <2>4, <2>5 DEF StagesInv
<1>9. TablesInv'
  BY <1>1, <1>2, <1>3, <1>5 DEF TablesInv, Up
<1>10. QED
  BY <1>4, <1>6, <1>7, <1>8, <1>9

(* Steps of one process that move it between stages and change the status  *)
(* of at most the program it builds.                                       *)
LEMMA BuildStageStep ==
  ASSUME IInv, NEW p \in Procs, BuildFails(p) \/ BuildStep(p) \/ CompileOk(p)
  PROVE  IInv'
<1> USE DEF IInv
<1>1. pc[p].at \in BuildStages /\ Up
  BY DEF BuildFails, BuildStep, CompileOk, BuildStages
<1>2. PICK h \in Handles : h = pc[p].h /\ status[h] = "created" /\ h \in mso[p]
  BY <1>1 DEF StagesInv, BuildStage, TypeOK
<1>3. \A q \in Procs \ {p} :
        pc[q].at \in ScanStages \cup BuildStages => pc[q].h \in Handles \ {h}
  BY <1>1, <1>2 DEF StagesInv, ScanStage, BuildStage, OneBuilder, TypeOK
<1>4. /\ UNCHANGED <<arg, method, memory, refc, mso, fault>>
      /\ \A q \in Procs \ {p} : pc'[q] = pc[q] /\ roots'[q] = roots[q]
      /\ \A g \in Handles \ {h} : status'[g] = status[g]
      /\ \/ /\ pc'[p].at \in BuildStages /\ pc'[p].h = h
            /\ status'[h] = "created" /\ roots'[p] = roots[p]
         \/ /\ pc'[p] = Idle /\ status'[h] = "failed" /\ roots'[p] = roots[p]
         \/ /\ pc'[p] = Idle /\ status'[h] = "ready" /\ roots'[p] = roots[p] \cup {h}
  <2>1. CASE BuildFails(p)
    BY <2>1, <1>2 DEF BuildFails, TypeOK, beam
  <2>2. CASE BuildStep(p)
    BY <2>2, <1>2 DEF BuildStep, TypeOK, beam, BuildStages
  <2>3. CASE CompileOk(p)
    BY <2>3, <1>2 DEF CompileOk, TypeOK
  <2>4. QED
    BY <2>1, <2>2, <2>3
<1>5. TypeOK'
  <2>1. pc'[p] \in PcValues /\ pc' = [pc EXCEPT ![p] = pc'[p]]
    <3>1. CASE BuildFails(p) \/ CompileOk(p)
      BY <3>1, IdleType DEF BuildFails, CompileOk, TypeOK
    <3>2. CASE BuildStep(p)
      <4>1. PICK stage \in BuildStages : pc' = [pc EXCEPT ![p].at = stage]
        BY <3>2 DEF BuildStep, BuildStages
      <4>2. pc[p] \in PcValues /\ pc' = [pc EXCEPT ![p] = [pc[p] EXCEPT !.at = stage]]
        BY <4>1 DEF TypeOK, PcValues
      <4>3. [pc[p] EXCEPT !.at = stage] \in PcValues
        BY <4>2 DEF PcValues, Stages
      <4> HIDE DEF PcValues
      <4>4. QED
        BY <4>2, <4>3 DEF TypeOK
    <3>3. QED
      BY <3>1, <3>2
  <2>2. status' \in [Handles -> Statuses] /\ roots' \in [Procs -> SUBSET Handles]
    <3>1. CASE BuildFails(p)
      BY <1>2, <3>1 DEF BuildFails, TypeOK, Statuses, beam
    <3>2. CASE BuildStep(p)
      BY <3>2 DEF BuildStep, TypeOK, Statuses, beam
    <3>3. CASE CompileOk(p)
      BY <1>2, <3>3 DEF CompileOk, TypeOK, Statuses
    <3>4. QED
      BY <3>1, <3>2, <3>3
  <2>3. QED
    BY <1>4, <2>1, <2>2 DEF TypeOK, memory, PcValues
<1>6. RefsInv'
  <2>1. \A g \in Handles : Holders(g)' = Holders(g)
    BY <1>4 DEF Holders
  <2>2. \A q \in Procs : roots'[q] \subseteq mso[q] /\ \A g \in roots'[q] : status'[g] = "ready"
    <3>1. \A q \in Procs : roots[q] \subseteq Handles \ {h}
      BY <1>2 DEF RefsInv, TypeOK
    <3>2. \A q \in Procs : \A g \in roots[q] : status'[g] = "ready"
      BY <1>4, <3>1 DEF RefsInv
    <3>3. \A q \in Procs : \/ roots'[q] = roots[q]
                           \/ q = p /\ roots'[q] = roots[q] \cup {h} /\ status'[h] = "ready"
      BY <1>4
    <3>4. QED
      BY <1>2, <3>2, <3>3 DEF RefsInv
  <2>3. QED
    BY <1>4, <2>1, <2>2 DEF RefsInv, memory
<1>7. StatesInv'
  BY <1>2, <1>4 DEF StatesInv, memory
<1>8. StagesInv'
  <2>1. pc'[p] = Idle => pc'[p].at \notin ScanStages \cup BuildStages \cup RunStages
    BY DEF Idle, At, ScanStages, BuildStages, RunStages
  <2>2. pc'[p].at \in BuildStages => pc'[p].at \notin ScanStages \cup RunStages
    BY DEF ScanStages, BuildStages, RunStages
  <2>3. RunStage'
    BY <1>4, <2>1, <2>2 DEF StagesInv, RunStage
  <2>4. ScanStage'
    BY <1>3, <1>4, <2>1, <2>2 DEF StagesInv, ScanStage
  <2>5. BuildStage'
    BY <1>2, <1>3, <1>4, <2>1 DEF StagesInv, BuildStage
  <2>6. OneBuilder'
    BY <1>3, <1>4, <2>1 DEF StagesInv, OneBuilder
  <2>7. QED
    BY <2>3, <2>4, <2>5, <2>6 DEF StagesInv
<1>9. TablesInv'
  BY <1>1, <1>2, <1>4 DEF TablesInv, memory, Up
<1>10. QED
  BY <1>5, <1>6, <1>7, <1>8, <1>9

(* run() only moves its own process, between the run stages or back, and   *)
(* may raise a fault.                                                      *)
LEMMA RunStepEffect ==
  ASSUME IInv, NEW p \in Procs, RunDecode(p) \/ RunOp(p) \/ RunEncode(p)
  PROVE  /\ Up /\ pc[p].at \in RunStages
         /\ UNCHANGED <<arg, status, method, memory, beam>>
         /\ fault' \in [kind : FaultKinds, h : Handles \cup {NoHandle}]
         /\ \E v \in PcValues :
              /\ pc' = [pc EXCEPT ![p] = v]
              /\ v = Idle \/ (v.at \in RunStages /\ v.h = pc[p].h /\ v.i = pc[p].i)
<1> USE DEF IInv
<1>1. Up /\ pc[p].at \in RunStages /\ UNCHANGED <<arg, status, method, memory, beam>>
  BY DEF RunDecode, RunOp, RunEncode, RunStages
<1>2. pc[p].h \in Handles /\ pc[p] \in PcValues /\ pc = [pc EXCEPT ![p] = pc[p]]
  BY <1>1 DEF StagesInv, RunStage, TypeOK, PcValues
<1>3. ASSUME NEW slot, NEW next \in PcValues, Access(p, slot, next),
             next = Idle \/ (next.at \in RunStages /\ next.h = pc[p].h /\ next.i = pc[p].i)
      PROVE  /\ fault' \in [kind : FaultKinds, h : Handles \cup {NoHandle}]
             /\ \E v \in PcValues :
                  /\ pc' = [pc EXCEPT ![p] = v]
                  /\ v = Idle \/ (v.at \in RunStages /\ v.h = pc[p].h /\ v.i = pc[p].i)
  <2>1. ReadParams(pc[p].h, slot) \in FaultKinds
    BY DEF ReadParams, FaultKinds
  <2>2. CASE pc' = [pc EXCEPT ![p] = next] /\ fault' = fault
    BY <1>3, <2>2 DEF TypeOK
  <2>3. CASE pc' = pc /\ fault' = [kind |-> ReadParams(pc[p].h, slot), h |-> pc[p].h]
    BY <1>1, <1>2, <2>1, <2>3
  <2>4. QED
    BY <1>3, <2>2, <2>3 DEF Access
<1>4. CASE RunDecode(p)
  <2>1. CASE Return(p)
    BY <1>1, <2>1, IdleType DEF Return, TypeOK
  <2>2. CASE Access(p, <<pc[p].i, "in">>, [pc[p] EXCEPT !.at = "runop"])
    <3>1. [pc[p] EXCEPT !.at = "runop"] \in PcValues
      BY <1>2 DEF PcValues, Stages, RunStages
    <3>2. /\ [pc[p] EXCEPT !.at = "runop"].h = pc[p].h
          /\ [pc[p] EXCEPT !.at = "runop"].i = pc[p].i
          /\ [pc[p] EXCEPT !.at = "runop"].at \in RunStages
      BY <1>2 DEF PcValues, RunStages
    <3>3. QED
      BY <1>1, <1>3, <2>2, <3>1, <3>2
  <2>3. QED
    BY <1>4, <2>1, <2>2 DEF RunDecode
<1>5. CASE RunEncode(p)
  BY <1>1, <1>3, <1>5, IdleType DEF RunEncode
<1>6. CASE RunOp(p)
  <2>1. CASE Return(p)
    BY <1>1, <2>1, IdleType DEF Return, TypeOK
  <2>2. CASE pc' = [pc EXCEPT ![p].at = "encode"] /\ fault' = fault
    <3>1. [pc[p] EXCEPT !.at = "encode"] \in PcValues
      BY <1>2 DEF PcValues, Stages, RunStages
    <3>2. /\ [pc[p] EXCEPT !.at = "encode"].h = pc[p].h
          /\ [pc[p] EXCEPT !.at = "encode"].i = pc[p].i
          /\ [pc[p] EXCEPT !.at = "encode"].at \in RunStages
      BY <1>2 DEF PcValues, RunStages
    <3>3. pc' = [pc EXCEPT ![p] = [pc[p] EXCEPT !.at = "encode"]]
      BY <2>2
    <3>4. QED
      BY <1>1, <2>2, <3>1, <3>2, <3>3 DEF TypeOK
  <2>3. CASE pc' = pc /\ fault' = [kind |-> "use_after_free", h |-> pc[p].h]
    BY <1>1, <1>2, <2>3 DEF FaultKinds
  <2>4. QED
    BY <1>6, <2>1, <2>2, <2>3 DEF RunOp
<1>7. QED
  BY <1>4, <1>5, <1>6

(* run() is entered only for a program its process names, hence lists.     *)
LEMMA RunBeginStep ==
  ASSUME IInv, NEW p \in Procs, NEW h \in Handles, NEW i \in 1..MaxMethods, RunBegin(p, h, i)
  PROVE  IInv'
<1> USE DEF IInv
<1>1. /\ UNCHANGED <<arg, status, method, memory, beam, fault>>
      /\ h \in roots[p]
      /\ pc' = [pc EXCEPT ![p] = At("decode", h, i)]
  BY DEF RunBegin
<1>2. At("decode", h, i) \in PcValues
  BY MaxMethodsAssumption DEF At, PcValues, Stages, RunStages
<1>3. TypeOK'
  BY <1>1, <1>2 DEF TypeOK, PcValues, memory, beam
<1>4. RefsInv' /\ StatesInv'
  BY <1>1, RefsFrame, StatesFrame DEF memory, beam
<1>5. /\ pc'[p].at = "decode" /\ pc'[p].h = h
      /\ \A q \in Procs \ {p} : pc'[q] = pc[q]
  BY <1>1 DEF TypeOK, At
<1>6. StagesInv'
  BY <1>1, <1>5 DEF StagesInv, RunStage, ScanStage, BuildStage, OneBuilder, beam,
     ScanStages, BuildStages, RunStages
<1>7. TablesInv'
  BY <1>1 DEF TablesInv, memory, Up
<1>8. QED
  BY <1>3, <1>4, <1>6, <1>7

(* The steps of run() keep the invariant.                                  *)
LEMMA RunStep ==
  ASSUME IInv, NEW p \in Procs, RunDecode(p) \/ RunOp(p) \/ RunEncode(p)
  PROVE  IInv'
<1> USE DEF IInv
<1>1. /\ Up /\ pc[p].at \in RunStages
      /\ UNCHANGED <<arg, status, method, memory, beam>>
      /\ fault' \in [kind : FaultKinds, h : Handles \cup {NoHandle}]
  BY RunStepEffect
<1>2. PICK v \in PcValues :
        /\ pc' = [pc EXCEPT ![p] = v]
        /\ v = Idle \/ (v.at \in RunStages /\ v.h = pc[p].h)
  BY RunStepEffect
<1>3. TypeOK'
  BY <1>1, <1>2 DEF TypeOK, PcValues, memory, beam
<1>4. RefsInv' /\ StatesInv'
  BY <1>1, RefsFrame, StatesFrame DEF memory, beam
<1>5. /\ pc'[p] = v
      /\ \A q \in Procs \ {p} : pc'[q] = pc[q]
  BY <1>2 DEF TypeOK
<1>6. v.at \notin ScanStages \cup BuildStages /\ (v.at \in RunStages => v.h \in roots[p])
  BY <1>1, <1>2 DEF Idle, At, ScanStages, BuildStages, RunStages, StagesInv, RunStage
<1>7. StagesInv'
  BY <1>1, <1>5, <1>6 DEF StagesInv, RunStage, ScanStage, BuildStage, OneBuilder, beam
<1>8. TablesInv'
  BY <1>1 DEF TablesInv, memory
<1>9. QED
  BY <1>3, <1>4, <1>7, <1>8

-----------------------------------------------------------------------------
(* A message adds one holder, and one to the count.                        *)
LEMMA SendStep ==
  ASSUME IInv, NEW p \in Procs, NEW q \in Procs, NEW h \in Handles, Send(p, q, h)
  PROVE  IInv'
<1> USE DEF IInv
<1>1. /\ h \in roots[p] /\ h \notin mso[q] /\ Up
      /\ refc' = [refc EXCEPT ![h] = refc[h] + 1]
      /\ mso' = [mso EXCEPT ![q] = mso[q] \cup {h}]
      /\ roots' = [roots EXCEPT ![q] = roots[q] \cup {h}]
      /\ UNCHANGED <<pc, arg, status, method, arrays, lists, states, fault>>
  BY DEF Send, memory
<1>2. h \in states /\ status[h] = "ready"
  BY <1>1 DEF RefsInv
<1>3. TypeOK'
  BY <1>1 DEF TypeOK
<1>4. /\ \A g \in Handles \ {h} : Holders(g)' = Holders(g) /\ refc'[g] = refc[g]
      /\ Holders(h)' = Holders(h) \cup {q} /\ refc'[h] = refc[h] + 1 /\ q \notin Holders(h)
  BY <1>1 DEF Holders, TypeOK
<1>5. RefsInv'
  <2>1. Cardinality(Holders(h) \cup {q}) = Cardinality(Holders(h)) + 1
    BY <1>4, HoldersFinite, FS_AddElement
  <2>2. \A g \in Handles : refc'[g] = Cardinality(Holders(g)')
    BY <1>4, <2>1 DEF RefsInv
  <2>3. \A r \in Procs : roots'[r] \subseteq mso'[r] /\ mso'[r] \subseteq states'
    BY <1>1, <1>2 DEF RefsInv, TypeOK
  <2>4. \A r \in Procs : \A g \in roots'[r] : status'[g] = "ready"
    BY <1>1, <1>2 DEF RefsInv, TypeOK
  <2>5. QED
    BY <2>2, <2>3, <2>4 DEF RefsInv
<1>6. StatesInv'
  BY <1>1 DEF StatesInv, TypeOK
<1>7. StagesInv'
  <2>1. \A r \in Procs : roots[r] \subseteq roots'[r] /\ mso[r] \subseteq mso'[r]
    BY <1>1 DEF TypeOK
  <2>2. QED
    BY <1>1, <2>1 DEF StagesInv, RunStage, ScanStage, BuildStage, OneBuilder
<1>8. TablesInv'
  BY <1>1 DEF TablesInv, Up
<1>9. QED
  BY <1>3, <1>5, <1>6, <1>7, <1>8

(* Forgetting a program changes no reference until the next collection.    *)
LEMMA DropStep ==
  ASSUME IInv, NEW p \in Procs, NEW h \in Handles, Drop(p, h)
  PROVE  IInv'
<1> USE DEF IInv
<1>1. /\ pc[p] = Idle
      /\ roots' = [roots EXCEPT ![p] = roots[p] \ {h}]
      /\ UNCHANGED <<pc, arg, status, method, memory, refc, mso, fault>>
  BY DEF Drop
<1>2. /\ \A q \in Procs : roots'[q] \subseteq roots[q]
      /\ \A q \in Procs \ {p} : roots'[q] = roots[q]
  BY <1>1 DEF TypeOK
<1>3. TypeOK'
  BY <1>1 DEF TypeOK, memory
<1>4. RefsInv'
  <2>1. \A g \in Handles : Holders(g)' = Holders(g)
    BY <1>1 DEF Holders
  <2>2. QED
    BY <1>1, <1>2, <2>1 DEF RefsInv, memory
<1>5. StatesInv'
  BY <1>1 DEF StatesInv, memory
<1>6. StagesInv'
  <2>1. pc[p].at \notin RunStages
    BY <1>1 DEF Idle, At, RunStages
  <2>2. QED
    BY <1>1, <1>2, <2>1 DEF StagesInv, RunStage, ScanStage, BuildStage, OneBuilder
<1>7. TablesInv'
  BY <1>1 DEF TablesInv, memory, Up
<1>8. QED
  BY <1>3, <1>4, <1>5, <1>6, <1>7

(* A collection or an exit destroys exactly the programs nobody else       *)
(* lists; so it never touches what another process runs or builds, and     *)
(* what it frees was allocated.                                            *)
LEMMA ReleaseStep ==
  ASSUME IInv, NEW p \in Procs, NEW lost \in SUBSET mso[p],
         Up, pc[p] = Idle, Release(p, lost),
         NEW v \in PcValues, v.at \in {"idle", "exited"}, pc' = [pc EXCEPT ![p] = v],
         NEW left \in SUBSET (roots[p] \ lost), roots' = [roots EXCEPT ![p] = left]
  PROVE  IInv'
<1> USE DEF IInv
<1> DEFINE dead == Released(lost)
<1>1. lost \subseteq Handles /\ dead \subseteq lost /\ lost \subseteq states
  BY DEF TypeOK, Released, RefsInv
<1>2. \A h \in dead : Holders(h) = {p}
  <2> SUFFICES ASSUME NEW h \in dead PROVE Holders(h) = {p}
    OBVIOUS
  <2>1. Cardinality(Holders(h)) = 1 /\ p \in Holders(h)
    BY <1>1 DEF Released, RefsInv, Holders
  <2>2. Cardinality(Holders(h) \ {p}) = 0 /\ IsFiniteSet(Holders(h) \ {p})
    BY <2>1, HoldersFinite, FS_RemoveElement
  <2>3. Holders(h) \ {p} = {}
    BY <2>2, FS_EmptySet
  <2>4. QED
    BY <2>1, <2>3
<1>3. \A q \in Procs \ {p} : mso[q] \cap dead = {}
  BY <1>2 DEF Holders
<1>4. \A h \in dead : Destroyed(h) \subseteq lists
  BY <1>1 DEF Destroyed, FreeMethods, TablesInv, StatesInv
<1>5. /\ mso' = [mso EXCEPT ![p] = mso[p] \ lost]
      /\ refc' = [h \in Handles |-> IF h \in lost THEN refc[h] - 1 ELSE refc[h]]
      /\ status' = [h \in Handles |-> IF h \in dead THEN "destroyed" ELSE status[h]]
      /\ states' = states \ dead
      /\ lists' = lists \ UNION {Destroyed(h) : h \in dead} /\ fault' = fault
      /\ arg' = arg /\ method' = method /\ arrays' = arrays
  BY <1>4 DEF Release
<1>6. /\ \A q \in Procs \ {p} : mso'[q] = mso[q] /\ roots'[q] = roots[q] /\ pc'[q] = pc[q]
      /\ mso'[p] = mso[p] \ lost /\ pc'[p] = v /\ roots'[p] = left
      /\ v.at \notin ScanStages \cup BuildStages \cup RunStages
  BY <1>5 DEF TypeOK, ScanStages, BuildStages, RunStages
<1>7. \A h \in Handles :
        /\ h \in lost => p \in Holders(h) /\ Holders(h)' = Holders(h) \ {p}
        /\ h \notin lost => Holders(h)' = Holders(h)
  BY <1>6 DEF Holders
<1>8. \A h \in Handles : refc'[h] = Cardinality(Holders(h)')
  <2>1. \A h \in Handles : h \in lost => Cardinality(Holders(h) \ {p}) = Cardinality(Holders(h)) - 1
    BY <1>7, HoldersFinite, FS_RemoveElement
  <2>2. QED
    BY <1>5, <1>7, <2>1 DEF RefsInv
<1>9. \A h \in Handles : Cardinality(Holders(h)') \in Nat
  <2>1. \A h \in Handles : IsFiniteSet(Holders(h)')
    BY ProcsAssumption, FS_Subset DEF Holders
  <2>2. QED
    BY <2>1, FS_CardinalityType
<1>10. TypeOK'
  <2>1. refc' \in [Handles -> Nat]
    BY <1>5, <1>8, <1>9
  <2>2. pc' \in [Procs -> PcValues] /\ roots' \in [Procs -> SUBSET Handles]
    BY <1>1 DEF TypeOK, PcValues
  <2>3. status' \in [Handles -> Statuses]
    BY <1>5 DEF TypeOK, Statuses
  <2>4. mso' \in [Procs -> SUBSET Handles] /\ lists' \subseteq lists /\ states' \subseteq states
    BY <1>5 DEF TypeOK
  <2>5. QED
    BY <1>5, <2>1, <2>2, <2>3, <2>4 DEF TypeOK, PcValues
<1>11. RefsInv'
  <2>1. \A q \in Procs : roots'[q] \subseteq mso'[q] /\ mso'[q] \subseteq states'
    <3>1. \A q \in Procs \ {p} : roots'[q] \subseteq mso'[q] /\ mso'[q] \subseteq states'
      BY <1>3, <1>5, <1>6 DEF RefsInv
    <3>2. roots'[p] \subseteq mso'[p] /\ mso'[p] \subseteq states'
      BY <1>1, <1>5, <1>6 DEF RefsInv
    <3>3. QED
      BY <3>1, <3>2
  <2>2. \A q \in Procs : roots'[q] \subseteq roots[q] /\ roots'[q] \cap dead = {}
    BY <1>1, <1>3, <1>6 DEF RefsInv
  <2>3. \A q \in Procs : \A h \in roots'[q] : status'[h] = "ready"
    BY <1>5, <2>2 DEF RefsInv, TypeOK
  <2>4. QED
    BY <1>8, <2>1, <2>3 DEF RefsInv
<1>12. StatesInv'
  <2>1. \A h \in Handles : h \in states' <=> status'[h] \in {"created", "failed", "ready"}
    BY <1>5 DEF StatesInv
  <2>2. ASSUME NEW h \in states' PROVE \E q \in Procs : h \in mso'[q]
    <3>1. h \in Handles /\ h \in states /\ h \notin dead
      BY <1>5, <2>2 DEF TypeOK
    <3>2. CASE h \notin lost
      BY <1>6, <3>1, <3>2 DEF StatesInv
    <3>3. CASE h \in lost
      <4>1. refc[h] # 1
        BY <3>1, <3>3 DEF Released
      <4>2. Holders(h) # {p}
        BY <3>1, <4>1, FS_Singleton DEF RefsInv
      <4>3. PICK q \in Procs \ {p} : h \in mso[q]
        BY <1>7, <3>1, <3>3, <4>2 DEF Holders
      <4>4. QED
        BY <1>6, <4>3
    <3>4. QED
      BY <3>2, <3>3
  <2>3. QED
    BY <2>1, <2>2 DEF StatesInv
<1>13. StagesInv'
  <2>1. \A q \in Procs \ {p} : \A h \in mso[q] : status'[h] = status[h]
    BY <1>3, <1>5 DEF TypeOK
  <2>2. \A h \in Handles : status[h] = "scanning" => status'[h] = "scanning"
    BY <1>1, <1>5 DEF StatesInv
  <2>3. RunStage' /\ OneBuilder'
    BY <1>6 DEF StagesInv, RunStage, OneBuilder
  <2>4. ScanStage'
    BY <1>5, <1>6, <2>2 DEF StagesInv, ScanStage
  <2>5. BuildStage'
    BY <1>6, <2>1 DEF StagesInv, BuildStage
  <2>6. QED
    BY <2>3, <2>4, <2>5 DEF StagesInv
<1>14. TablesInv'
  <2>1. \A h \in Handles \ dead : \A s \in Slots : <<h, s>> \in lists => <<h, s>> \in lists'
    BY <1>5 DEF Destroyed, FreeMethods
  <2>2. QED
    BY <1>5, <2>1 DEF TablesInv, Up
<1>15. QED
  BY <1>10, <1>11, <1>12, <1>13, <1>14

(* Collections and exits, as uses of ReleaseStep.                          *)
LEMMA GcStep ==
  ASSUME IInv, NEW p \in Procs, Gc(p) \/ Exit(p)
  PROVE  IInv'
<1> USE DEF IInv
<1>1. CASE Gc(p)
  <2>1. /\ Up /\ pc[p] = Idle /\ Release(p, mso[p] \ roots[p])
        /\ pc' = [pc EXCEPT ![p] = Idle] /\ roots' = [roots EXCEPT ![p] = roots[p]]
    BY <1>1 DEF Gc, TypeOK
  <2>2. roots[p] \in SUBSET (roots[p] \ (mso[p] \ roots[p]))
    OBVIOUS
  <2>3. Idle.at \in {"idle", "exited"}
    BY DEF Idle, At
  <2>4. QED
    BY <2>1, <2>2, <2>3, IdleType, ReleaseStep
<1>2. CASE Exit(p)
  <2>1. At("exited", NoHandle, 0) \in PcValues /\ At("exited", NoHandle, 0).at \in {"idle", "exited"}
    BY MaxMethodsAssumption DEF At, PcValues, Stages
  <2>2. /\ Up /\ pc[p] = Idle /\ Release(p, mso[p])
        /\ pc' = [pc EXCEPT ![p] = At("exited", NoHandle, 0)]
        /\ roots' = [roots EXCEPT ![p] = {}]
    BY <1>2 DEF Exit
  <2>3. QED
    BY <2>1, <2>2, ReleaseStep
<1>3. QED
  BY <1>1, <1>2

-----------------------------------------------------------------------------
(* Every step of the emulator keeps the inductive invariant.               *)
LEMMA NextIInv == IInv /\ [Next]_vars => IInv'
<1> SUFFICES ASSUME IInv, [Next]_vars PROVE IInv'
  OBVIOUS
<1>1. CASE UNCHANGED vars
  <2>1. \A h \in Handles : Holders(h)' = Holders(h)
    BY <1>1 DEF vars, Holders
  <2>2. RefsInv'
    BY <1>1, <2>1 DEF IInv, RefsInv, vars
  <2>3. TypeOK' /\ StatesInv' /\ TablesInv'
    BY <1>1 DEF IInv, TypeOK, StatesInv, TablesInv, Up, vars
  <2>4. StagesInv'
    BY <1>1 DEF IInv, StagesInv, RunStage, ScanStage, BuildStage, OneBuilder, vars
  <2>5. QED
    BY <2>2, <2>3, <2>4 DEF IInv
<1>2. ASSUME NEW p \in Procs, NEW h \in Handles, NEW ml \in MethodLists,
             CompileRejected(p, h, ml) \/ CompileBegin(p, h, ml)
      PROVE  IInv'
  BY <1>2, CompileRejectedStep, CompileBeginStep
<1>3. ASSUME NEW p \in Procs, Compile(p) PROVE IInv'
  BY <1>3, ScanStep, TccNewStep, BuildStageStep DEF Compile
<1>4. ASSUME NEW p \in Procs, NEW h \in Handles, NEW i \in 1..MaxMethods, RunBegin(p, h, i)
      PROVE  IInv'
  BY <1>4, RunBeginStep
<1>5. ASSUME NEW p \in Procs, RunDecode(p) \/ RunOp(p) \/ RunEncode(p) PROVE IInv'
  BY <1>5, RunStep
<1>6. ASSUME NEW p \in Procs, NEW q \in Procs, NEW h \in Handles, Send(p, q, h) PROVE IInv'
  BY <1>6, SendStep
<1>7. ASSUME NEW p \in Procs, NEW h \in Handles, Drop(p, h) PROVE IInv'
  BY <1>7, DropStep
<1>8. ASSUME NEW p \in Procs, Gc(p) \/ Exit(p) PROVE IInv'
  BY <1>8, GcStep
<1>9. QED
  BY <1>1, <1>2, <1>3, <1>4, <1>5, <1>6, <1>7, <1>8 DEF Next

(* The inductive invariant holds throughout: counts match the off-heap     *)
(* lists, stages match statuses, and tables match the allocated lists.     *)
THEOREM Invariance == Spec => []IInv
  BY InitIInv, NextIInv, PTL DEF Spec

(* The variables keep their types; in particular no resource count is ever *)
(* decremented below zero.                                                 *)
THEOREM TypeCorrect == Spec => []TypeOK
<1>1. IInv => TypeOK
  BY DEF IInv
<1>2. QED
  BY <1>1, Invariance, PTL

(* run() never works on a destroyed or half destroyed program, whatever    *)
(* the other processes send, drop, collect or exit meanwhile.              *)
THEOREM RunsOnlyLivePrograms == Spec => []RunningAlive
<1>1. IInv => RunningAlive
  <2> SUFFICES ASSUME IInv, NEW p \in Procs, NEW h \in Handles, Running(p, h)
               PROVE  /\ status[h] = "ready" /\ h \in states /\ h \in arrays
                      /\ \A s \in Slots : method[h][s].ptr => <<h, s>> \in lists
    BY DEF RunningAlive
  <2>1. h \in roots[p]
    BY DEF IInv, StagesInv, RunStage, Running
  <2>2. status[h] = "ready" /\ h \in states
    BY <2>1 DEF IInv, RefsInv
  <2>3. QED
    BY <2>2 DEF IInv, TablesInv
<1>2. QED
  BY <1>1, Invariance, PTL

(* No TCCState is lost: while one is allocated, some process can still     *)
(* collect it, also after a build that failed half way.                    *)
THEOREM NoStateIsLost == Spec => []StateReachable
<1>1. IInv => StateReachable
  BY DEF IInv, StatesInv, StateReachable
<1>2. QED
  BY <1>1, Invariance, PTL

-----------------------------------------------------------------------------
(* Why memory errors happen.  A parameter list with a length but no array  *)
(* comes from an item of an oversize or unallocated shape; and the outputs *)
(* of an element are scanned only after it was found to be a pair, and run() *)
(* enters an existing method.                                              *)
TablesExplained ==
  \A h \in Handles : status[h] \in {"scanning", "created", "ready"} =>
    \A s \in Slots : method[h][s].size > 0 /\ ~method[h][s].ptr => Has(h, {"oversize", "nomem"})
OutputsOfPair ==
  \A p \in Procs : pc[p].at = "outputs" => arg[pc[p].h][pc[p].i].pair
RunsAMethod ==
  \A p \in Procs : pc[p].at \in RunStages => pc[p].i # 0

FInv == TablesExplained /\ OutputsOfPair /\ RunsAMethod /\ FaultsExplained

(* Positions of a process that OutputsOfPair and RunsAMethod allow.        *)
Safe(v) == v.at # "outputs" /\ (v.at \in RunStages => v.i # 0)

(* The empty emulator has nothing to explain.                              *)
LEMMA InitFInv == Init => FInv
  BY DEF Init, FInv, TablesExplained, OutputsOfPair, RunsAMethod, FaultsExplained, Idle, At, RunStages

(* Steps without an error that leave method lists and tables alone.        *)
LEMMA FaultFrame ==
  ASSUME FInv, Up, UNCHANGED <<arg, method, fault>>,
         \A h \in Handles : status'[h] \in {"scanning", "created", "ready"}
                         => status[h] \in {"scanning", "created", "ready"},
         \A p \in Procs : pc'[p] = pc[p] \/ Safe(pc'[p])
  PROVE  FInv'
<1>1. \A h \in Handles : Has(h, {"oversize", "nomem"})' = Has(h, {"oversize", "nomem"})
  BY DEF Has
<1>2. TablesExplained'
  BY <1>1 DEF FInv, TablesExplained
<1>3. OutputsOfPair' /\ RunsAMethod'
  BY DEF FInv, OutputsOfPair, RunsAMethod, Safe
<1>4. FaultsExplained'
  BY DEF Up, FaultsExplained
<1>5. QED
  BY <1>2, <1>3, <1>4 DEF FInv

(* A new call touches neither the table nor the list of another.           *)
LEMMA CompileEntersExplained ==
  ASSUME IInv, FInv, NEW p \in Procs, NEW h \in Handles, NEW ml \in MethodLists,
         CompileRejected(p, h, ml) \/ CompileBegin(p, h, ml)
  PROVE  FInv'
<1>1. /\ Up /\ fault' = fault /\ status[h] = "unused"
      /\ arg' = [arg EXCEPT ![h] = ml]
      /\ \A q \in Procs : pc'[q] = pc[q] \/ Safe(pc'[q])
      /\ \A g \in Handles \ {h} : arg'[g] = arg[g] /\ status'[g] = status[g] /\ method'[g] = method[g]
      /\ status'[h] = "rejected" \/ method'[h] = ZeroMethods
  BY DEF CompileRejected, CompileBegin, At, IInv, TypeOK, Safe, RunStages
<1>2. \A q \in Procs : pc[q].at = "outputs" => pc[q].h \in Handles \ {h}
  BY <1>1 DEF IInv, StagesInv, ScanStage, ScanStages
<1>3. \A g \in Handles \ {h} : Has(g, {"oversize", "nomem"})' = Has(g, {"oversize", "nomem"})
  BY <1>1 DEF Has
<1>4. TablesExplained'
  BY <1>1, <1>3 DEF FInv, TablesExplained, ZeroMethods, ZeroParams
<1>5. OutputsOfPair' /\ RunsAMethod'
  BY <1>1, <1>2 DEF FInv, OutputsOfPair, RunsAMethod, Safe
<1>6. FaultsExplained'
  BY <1>1 DEF Up, FaultsExplained
<1>7. QED
  BY <1>4, <1>5, <1>6 DEF FInv

(* A list is freed twice only right after scan_param() refused an item of  *)
(* it: the other error return of scan_params() resets the pointer.         *)
LEMMA StoreParamsExplained ==
  ASSUME IInv, FInv, NEW p \in Procs, pc[p].at \in ScanStages, Up,
         NEW h \in Handles, h = pc[p].h, NEW i \in 1..Len(arg[h]), arg[h][i].pair,
         NEW slot \in Slots, NEW shape \in Shapes,
         shape \in {arg[h][i].in, arg[h][i].out},
         NEW next, next.at = "outputs" => arg[next.h][next.i].pair,
         next.at \notin RunStages,
         UNCHANGED arg, StoreParams(p, h, slot, shape, next)
  PROVE  FInv'
<1> DEFINE r == ScanParams(shape)
<1>1. status[h] = "scanning"
  BY DEF IInv, StagesInv, ScanStage
<1>2. /\ method' = [method EXCEPT ![h][slot] = r]
      /\ \A g \in Handles \ {h} : method'[g] = method[g]
      /\ \A s \in Slots \ {slot} : method'[h][s] = method[h][s]
      /\ method'[h][slot] = r
  BY DEF StoreParams, IInv, TypeOK
<1>3. \A g \in Handles : \A shapes : Has(g, shapes)' = Has(g, shapes)
  BY DEF Has
<1>4. r.size > 0 /\ ~r.ptr => Has(h, {"oversize", "nomem"})
  <2>1. CASE shape \in {"oversize", "nomem"}
    BY <2>1 DEF Has
  <2>2. CASE shape \in {"empty", "good"}
    BY <2>2 DEF ScanParams, ZeroParams
  <2>3. CASE shape \in {"improper", "malformed"}
    BY <2>3 DEF ScanParams
  <2>4. QED
    BY <2>1, <2>2, <2>3 DEF Shapes
<1>5. ASSUME \A g \in Handles : status'[g] \in {status[g], "rejected"}
      PROVE  TablesExplained'
  BY <1>1, <1>2, <1>3, <1>4, <1>5 DEF FInv, TablesExplained
<1>6. CASE r.size < 0
  <2>1. FreeAndReject(p, h)
    BY <1>6 DEF StoreParams
  <2>2. CASE FreeMethods(h, method'[h]) \subseteq lists
    <3>1. /\ status' = [status EXCEPT ![h] = "rejected"]
          /\ pc' = [pc EXCEPT ![p] = Idle] /\ fault' = fault
      BY <2>1, <2>2 DEF FreeAndReject, Reject
    <3>2. TablesExplained'
      BY <1>5, <3>1 DEF IInv, TypeOK
    <3>3. OutputsOfPair' /\ RunsAMethod'
      BY <3>1 DEF FInv, OutputsOfPair, RunsAMethod, IInv, TypeOK, Idle, At, RunStages
    <3>4. FaultsExplained'
      BY <3>1 DEF Up, FaultsExplained
    <3>5. QED
      BY <3>2, <3>3, <3>4 DEF FInv
  <2>3. CASE ~(FreeMethods(h, method'[h]) \subseteq lists)
    <3>1. /\ fault' = [kind |-> "double_free", h |-> h]
          /\ status' = status /\ pc' = pc
      BY <2>1, <2>3 DEF FreeAndReject
    <3>2. r.ptr
      BY <1>1, <1>2, <2>3 DEF FreeMethods, IInv, TablesInv
    <3>3. shape = "malformed"
      <4>1. CASE shape \in {"oversize", "nomem"}
        BY <3>2, <4>1 DEF ScanParams
      <4>2. CASE shape \in {"empty", "improper"}
        BY <3>2, <4>2 DEF ScanParams, ZeroParams
      <4>3. CASE shape = "good"
        BY <1>6, <4>3 DEF ScanParams
      <4>4. QED
        BY <4>1, <4>2, <4>3 DEF Shapes
    <3>4. Has(h, {"malformed"})
      BY <3>3 DEF Has
    <3>5. FaultsExplained'
      BY <1>1, <1>3, <3>1, <3>4 DEF FaultsExplained
    <3>6. TablesExplained' /\ OutputsOfPair' /\ RunsAMethod'
      BY <1>5, <3>1 DEF FInv, OutputsOfPair, RunsAMethod
    <3>7. QED
      BY <3>5, <3>6 DEF FInv
  <2>4. QED
    BY <2>2, <2>3
<1>7. CASE ~(r.size < 0)
  <2>1. pc' = [pc EXCEPT ![p] = next] /\ status' = status /\ fault' = fault
    BY <1>7 DEF StoreParams
  <2>2. TablesExplained'
    BY <1>5, <2>1
  <2>3. OutputsOfPair' /\ RunsAMethod'
    BY <2>1 DEF FInv, OutputsOfPair, RunsAMethod, IInv, TypeOK
  <2>4. FaultsExplained'
    BY <2>1 DEF Up, FaultsExplained
  <2>5. QED
    BY <2>2, <2>3, <2>4 DEF FInv
<1>8. QED
  BY <1>6, <1>7

(* The other steps of compile() free only what is allocated.               *)
LEMMA CompileExplained ==
  ASSUME IInv, FInv, NEW p \in Procs, Compile(p)
  PROVE  FInv'
<1>1. Up /\ pc[p].at \in ScanStages \cup BuildStages
  BY DEF Compile, ScanNotAPair, ScanInputs, ScanOutputs, TccNewFails, TccNew, BuildFails,
     BuildStep, CompileOk, ScanStages, BuildStages
<1>2. PICK h \in Handles : h = pc[p].h
  BY <1>1 DEF IInv, StagesInv, ScanStage, BuildStage, TypeOK
<1>3. ASSUME pc[p].at \in {"inputs", "outputs"}
      PROVE  /\ pc[p].at \in ScanStages
             /\ pc[p].i \in 1..Len(arg[h]) /\ pc[p].i \in 1..MaxMethods
             /\ arg[h][pc[p].i].in \in Shapes /\ arg[h][pc[p].i].out \in Shapes
             /\ <<pc[p].i, "in">> \in Slots /\ <<pc[p].i, "out">> \in Slots
  <2>1. pc[p].at \in ScanStages /\ pc[p].i \in 1..Len(arg[h])
    BY <1>2, <1>3 DEF IInv, StagesInv, ScanStage, ScanStages
  <2>2. QED
    BY <2>1, ArgElements DEF IInv, Slots, Sides
<1>4. CASE ScanInputs(p)
  <2>1. /\ pc[p].at = "inputs" /\ arg[h][pc[p].i].pair /\ arg' = arg
        /\ StoreParams(p, h, <<pc[p].i, "in">>, arg[h][pc[p].i].in, At("outputs", h, pc[p].i))
    BY <1>2, <1>4 DEF ScanInputs
  <2>2. /\ arg[At("outputs", h, pc[p].i).h][At("outputs", h, pc[p].i).i].pair
        /\ At("outputs", h, pc[p].i).at \notin RunStages
    BY <2>1 DEF At, RunStages
  <2>3. QED
    BY <1>1, <1>2, <1>3, <2>1, <2>2, StoreParamsExplained
<1>5. CASE ScanOutputs(p)
  <2>1. /\ pc[p].at = "outputs" /\ arg[h][pc[p].i].pair /\ arg' = arg
        /\ StoreParams(p, h, <<pc[p].i, "out">>, arg[h][pc[p].i].out, NextMethod(h, pc[p].i))
    BY <1>2, <1>5 DEF ScanOutputs, FInv, OutputsOfPair
  <2>2. NextMethod(h, pc[p].i).at \notin RunStages \cup {"outputs"}
    BY DEF NextMethod, At, RunStages
  <2>3. QED
    BY <1>1, <1>2, <1>3, <2>1, <2>2, StoreParamsExplained
<1>6. CASE TccNewFails(p)
  <2>1. status[h] = "scanning" /\ method' = method /\ arg' = arg /\ FreeAndReject(p, h)
    BY <1>2, <1>6 DEF TccNewFails, IInv, StagesInv, ScanStage, ScanStages
  <2>2. FreeMethods(h, method'[h]) \subseteq lists
    BY <1>1, <2>1 DEF FreeMethods, IInv, TablesInv
  <2>3. /\ status' = [status EXCEPT ![h] = "rejected"]
        /\ pc' = [pc EXCEPT ![p] = Idle] /\ fault' = fault
    BY <2>1, <2>2 DEF FreeAndReject, Reject
  <2>4. /\ \A g \in Handles : status'[g] \in {status[g], "rejected"}
        /\ \A q \in Procs : pc'[q] = pc[q] \/ Safe(pc'[q])
    BY <2>3 DEF IInv, TypeOK, Idle, At, Safe,
       BuildStages, RunStages
  <2>5. QED
    BY <1>1, <2>1, <2>3, <2>4, FaultFrame
<1>7. CASE ScanNotAPair(p) \/ TccNew(p)
  <2>1. status[h] = "scanning"
    BY <1>2, <1>7 DEF ScanNotAPair, TccNew, IInv, StagesInv, ScanStage, ScanStages
  <2>2. /\ UNCHANGED <<arg, method, fault>>
        /\ \A g \in Handles : status'[g] = status[g] \/ g = h
        /\ \A q \in Procs : pc'[q] = pc[q] \/ Safe(pc'[q])
    BY <1>2, <1>7 DEF ScanNotAPair, TccNew, Reject, IInv, TypeOK, Idle, At, Safe,
       BuildStages, RunStages
  <2>3. QED
    BY <1>1, <2>1, <2>2, FaultFrame
<1>8. CASE BuildFails(p) \/ BuildStep(p) \/ CompileOk(p)
  <2>1. status[h] = "created"
    BY <1>2, <1>8 DEF BuildFails, BuildStep, CompileOk, IInv, StagesInv, BuildStage, BuildStages
  <2>2. /\ UNCHANGED <<arg, method, fault>>
        /\ \A g \in Handles : status'[g] = status[g] \/ g = h
        /\ \A q \in Procs : pc'[q] = pc[q] \/ Safe(pc'[q])
    BY <1>2, <1>8 DEF BuildFails, BuildStep, CompileOk, IInv, TypeOK, Idle, At, Safe,
       BuildStages, RunStages
  <2>3. QED
    BY <1>1, <2>1, <2>2, FaultFrame
<1>9. QED
  BY <1>4, <1>5, <1>6, <1>7, <1>8 DEF Compile

(* run() reads a program its process names, so what it reads is allocated  *)
(* or was never there.                                                     *)
LEMMA RunExplained ==
  ASSUME IInv, FInv, NEW p \in Procs, RunDecode(p) \/ RunOp(p) \/ RunEncode(p)
  PROVE  FInv'
<1> DEFINE h == pc[p].h
<1>1. Up /\ pc[p].at \in RunStages /\ UNCHANGED <<arg, status, method>>
  BY RunStepEffect DEF IInv
<1>2. h \in Handles /\ status[h] = "ready" /\ h \in states /\ h \in arrays
  BY <1>1 DEF IInv, StagesInv, RunStage, RefsInv, TypeOK, TablesInv
<1>3. \A q \in Procs : pc'[q] = pc[q] \/ Safe(pc'[q])
  <2>1. PICK v \in PcValues :
          /\ pc' = [pc EXCEPT ![p] = v]
          /\ v = Idle \/ (v.at \in RunStages /\ v.h = pc[p].h /\ v.i = pc[p].i)
    BY RunStepEffect
  <2>2. Safe(v)
    BY <1>1, <2>1 DEF Safe, FInv, RunsAMethod, Idle, At, RunStages
  <2>3. QED
    BY <2>1, <2>2 DEF IInv, TypeOK
<1>4. \A s \in Slots : ReadParams(h, s) # "none" =>
        ReadParams(h, s) = "null_dereference" /\ Has(h, {"oversize", "nomem"})
  <2> SUFFICES ASSUME NEW s \in Slots, ReadParams(h, s) # "none"
               PROVE  ReadParams(h, s) = "null_dereference" /\ Has(h, {"oversize", "nomem"})
    OBVIOUS
  <2>1. method[h][s].size > 0
    <3>1. method[h][s].size \in {-1, 0, 1}
      BY <1>2 DEF IInv, TypeOK, ParamsValues
    <3>2. ~(method[h][s].size <= 0)
      BY DEF ReadParams
    <3>3. QED
      BY <3>1, <3>2
  <2>2. CASE ~method[h][s].ptr
    BY <1>2, <2>1, <2>2 DEF ReadParams, FInv, TablesExplained
  <2>3. CASE method[h][s].ptr
    BY <1>2, <2>3 DEF ReadParams, IInv, TablesInv
  <2>4. QED
    BY <2>2, <2>3
<1>5. <<pc[p].i, "in">> \in Slots /\ <<pc[p].i, "out">> \in Slots
  BY <1>1, MaxMethodsAssumption DEF IInv, TypeOK, FInv, RunsAMethod, Slots, Sides
<1>6. fault' = fault \/ (/\ fault' = [kind |-> "null_dereference", h |-> h]
                         /\ Has(h, {"oversize", "nomem"}) /\ pc' = pc)
  <2>1. CASE RunDecode(p)
    BY <1>4, <1>5, <2>1 DEF RunDecode, Access, Return
  <2>2. CASE RunEncode(p)
    BY <1>4, <1>5, <2>2 DEF RunEncode, Access
  <2>3. CASE RunOp(p)
    BY <1>2, <2>3 DEF RunOp, Return
  <2>4. QED
    BY <2>1, <2>2, <2>3
<1>7. CASE fault' = fault
  BY <1>1, <1>3, <1>7, FaultFrame
<1>8. CASE fault' = [kind |-> "null_dereference", h |-> h] /\ Has(h, {"oversize", "nomem"}) /\ pc' = pc
  <2>1. \A g \in Handles : \A shapes : Has(g, shapes)' = Has(g, shapes)
    BY <1>1 DEF Has
  <2>2. Has(h, {"oversize", "nomem"})'
    BY <1>1, <1>8 DEF Has
  <2>3. FaultsExplained'
    BY <1>1, <1>2, <1>8, <2>2 DEF FaultsExplained
  <2>4. TablesExplained' /\ OutputsOfPair' /\ RunsAMethod'
    BY <1>1, <1>8, <2>1 DEF FInv, TablesExplained, OutputsOfPair, RunsAMethod
  <2>5. QED
    BY <2>3, <2>4 DEF FInv
<1>9. QED
  BY <1>6, <1>7, <1>8

(* Messages, forgetting, collections and exits raise no fault: what they   *)
(* free was allocated.                                                     *)
LEMMA EmulatorExplained ==
  ASSUME IInv, FInv, NEW p \in Procs,
         \/ \E h \in Handles, i \in 1..MaxMethods : RunBegin(p, h, i)
         \/ \E q \in Procs, h \in Handles : Send(p, q, h)
         \/ \E h \in Handles : Drop(p, h)
         \/ Gc(p) \/ Exit(p)
  PROVE  FInv'
<1>1. ASSUME NEW h \in Handles, NEW i \in 1..MaxMethods, RunBegin(p, h, i) PROVE FInv'
  <2>1. Up /\ UNCHANGED <<arg, method, fault, status>> /\ pc' = [pc EXCEPT ![p] = At("decode", h, i)]
    BY <1>1 DEF RunBegin
  <2>2. Safe(At("decode", h, i))
    BY MaxMethodsAssumption DEF Safe, At
  <2>3. \A q \in Procs : pc'[q] = pc[q] \/ Safe(pc'[q])
    BY <2>1, <2>2 DEF IInv, TypeOK
  <2>4. QED
    BY <2>1, <2>3, FaultFrame
<1>2. ASSUME NEW q \in Procs, NEW h \in Handles, Send(p, q, h) \/ Drop(p, h) PROVE FInv'
  <2>1. Up /\ UNCHANGED <<arg, method, fault, status, pc>>
    BY <1>2 DEF Send, Drop
  <2>2. QED
    BY <2>1, FaultFrame
<1>3. CASE Gc(p) \/ Exit(p)
  <2>1. PICK lost \in SUBSET mso[p] : Release(p, lost)
    BY <1>3 DEF Gc, Exit
  <2>2. Up /\ (pc' = pc \/ pc' = [pc EXCEPT ![p] = At("exited", NoHandle, 0)])
    BY <1>3 DEF Gc, Exit
  <2>3. \A h \in Released(lost) : h \in Handles /\ Destroyed(h) \subseteq lists
    <3>1. \A h \in Released(lost) : h \in Handles /\ h \in states
      BY DEF IInv, TypeOK, RefsInv, Released
    <3>2. QED
      BY <3>1 DEF IInv, StatesInv, TablesInv, Destroyed, FreeMethods
  <2>4. UNCHANGED <<arg, method, fault>>
    BY <2>1, <2>3 DEF Release
  <2>5. \A h \in Handles : status'[h] \in {status[h], "destroyed"}
    BY <2>1 DEF Release
  <2>6. \A q \in Procs : pc'[q] = pc[q] \/ Safe(pc'[q])
    BY <2>2 DEF IInv, TypeOK, Safe, At, RunStages
  <2>7. QED
    BY <2>2, <2>4, <2>5, <2>6, FaultFrame
<1>4. QED
  BY <1>1, <1>2, <1>3

(* Every step leaves each memory error with one of its two causes.         *)
LEMMA NextFInv == IInv /\ FInv /\ [Next]_vars => FInv'
<1> SUFFICES ASSUME IInv, FInv, [Next]_vars PROVE FInv'
  OBVIOUS
<1>1. CASE UNCHANGED vars
  BY <1>1 DEF vars, FInv, TablesExplained, OutputsOfPair, RunsAMethod, FaultsExplained, Has
<1>2. CASE Next
  BY <1>2, CompileEntersExplained, CompileExplained, RunExplained, EmulatorExplained DEF Next
<1>3. QED
  BY <1>1, <1>2

(* Memory errors have two causes only, whatever the programs, lists and    *)
(* interleavings: a list scan_param() refused, freed twice by its own      *)
(* compile(), and an oversize or unallocated table, read by run().         *)
THEOREM FaultsHaveTwoCauses == Spec => []FaultsExplained
<1>1. FInv => FaultsExplained
  BY DEF FInv
<1>2. QED
  BY <1>1, InitFInv, NextFInv, Invariance, PTL DEF Spec

-----------------------------------------------------------------------------
(***************************************************************************)
(* What becomes of a program.  NifProgram implements ProgramLifetime:      *)
(* every step of the emulator, for any processes and programs, is a step   *)
(* of the abstract life of one program, or a stutter.  And when that life  *)
(* is over, its parameter lists are free again.                            *)
(***************************************************************************)

(* A TCCState under construction has a process that constructs it; so no   *)
(* collection, which only idle processes do, can meet one.                 *)
Constructed ==
  \A h \in Handles : status[h] = "created" =>
    \E p \in Procs : pc[p].at \in BuildStages /\ pc[p].h = h

phase == [h \in Handles |-> Phase(h)]
holders == [h \in Handles |-> {p \in Procs : h \in roots[p]}]
running == [h \in Handles |-> {p \in Procs : Running(p, h)}]

-----------------------------------------------------------------------------
(* No other process takes over the construction of a program, and it is    *)
(* given up only together with the status.                                 *)
LEMMA ConstructedStep == IInv /\ Constructed /\ [Next]_vars => Constructed'
<1> SUFFICES ASSUME IInv, Constructed, [Next]_vars,
                    NEW h \in Handles, status'[h] = "created"
             PROVE  \E p \in Procs : pc'[p].at \in BuildStages /\ pc'[p].h = h
  BY DEF Constructed
<1>1. ASSUME status[h] = "created",
             NEW p \in Procs, \A q \in Procs \ {p} : pc'[q] = pc[q],
             \/ pc[p].at \notin BuildStages
             \/ pc[p].h # h
             \/ pc'[p].at \in BuildStages /\ pc'[p].h = pc[p].h
      PROVE  \E q \in Procs : pc'[q].at \in BuildStages /\ pc'[q].h = h
  BY <1>1 DEF Constructed
<1>2. CASE UNCHANGED vars
  BY <1>2 DEF vars, Constructed
<1>3. ASSUME NEW p \in Procs, NEW g \in Handles, NEW ml \in MethodLists,
             CompileRejected(p, g, ml) \/ CompileBegin(p, g, ml)
      PROVE  \E q \in Procs : pc'[q].at \in BuildStages /\ pc'[q].h = h
  <2>1. /\ pc[p].at = "idle" /\ \A q \in Procs \ {p} : pc'[q] = pc[q]
        /\ status[h] = "created"
    BY <1>3 DEF CompileRejected, CompileBegin, IInv, TypeOK, Idle, At
  <2>2. QED
    BY <1>1, <2>1 DEF BuildStages
<1>4. ASSUME NEW p \in Procs, TccNew(p)
      PROVE  \E q \in Procs : pc'[q].at \in BuildStages /\ pc'[q].h = h
  <2>1. /\ pc[p].at = "tcc_new" /\ pc'[p].at = "compile_string" /\ pc'[p].h = pc[p].h
        /\ \A q \in Procs \ {p} : pc'[q] = pc[q]
        /\ status[h] = "created" \/ h = pc[p].h
    BY <1>4 DEF TccNew, IInv, TypeOK
  <2>2. QED
    BY <1>1, <2>1 DEF BuildStages
<1>5. ASSUME NEW p \in Procs, BuildFails(p) \/ BuildStep(p) \/ CompileOk(p)
      PROVE  \E q \in Procs : pc'[q].at \in BuildStages /\ pc'[q].h = h
  <2>1. /\ \A q \in Procs \ {p} : pc'[q] = pc[q]
        /\ status[h] = "created"
        /\ pc[p].h # h \/ (pc'[p].at \in BuildStages /\ pc'[p].h = pc[p].h)
    <3>1. CASE BuildFails(p)
      BY <3>1 DEF BuildFails, IInv, TypeOK
    <3>2. CASE CompileOk(p)
      BY <3>2 DEF CompileOk, IInv, TypeOK
    <3>3. CASE BuildStep(p)
      BY <3>3 DEF BuildStep, IInv, TypeOK, BuildStages
    <3>4. QED
      BY <1>5, <3>1, <3>2, <3>3
  <2>2. QED
    BY <1>1, <2>1
<1>6. ASSUME NEW p \in Procs, ScanNotAPair(p) \/ ScanInputs(p) \/ ScanOutputs(p) \/ TccNewFails(p)
      PROVE  \E q \in Procs : pc'[q].at \in BuildStages /\ pc'[q].h = h
  <2>1. /\ pc[p].at \in ScanStages /\ \A q \in Procs \ {p} : pc'[q] = pc[q]
        /\ status[h] = "created"
    BY <1>6 DEF ScanNotAPair, ScanInputs, ScanOutputs, TccNewFails, StoreParams, FreeAndReject, Reject,
       ScanStages, IInv, TypeOK
  <2>2. QED
    BY <1>1, <2>1 DEF BuildStages, ScanStages
<1>7. ASSUME NEW p \in Procs, RunDecode(p) \/ RunOp(p) \/ RunEncode(p)
      PROVE  \E q \in Procs : pc'[q].at \in BuildStages /\ pc'[q].h = h
  <2>1. pc[p].at \in RunStages /\ status' = status /\ \A q \in Procs \ {p} : pc'[q] = pc[q]
    BY <1>7, RunStepEffect DEF IInv, TypeOK
  <2>2. QED
    BY <1>1, <2>1 DEF BuildStages, RunStages
<1>8. ASSUME NEW p \in Procs, NEW g \in Handles,
             \/ \E i \in 1..MaxMethods : RunBegin(p, g, i)
             \/ \E q \in Procs : Send(p, q, g)
             \/ Drop(p, g)
      PROVE  \E q \in Procs : pc'[q].at \in BuildStages /\ pc'[q].h = h
  <2>1. pc[p].at = "idle" /\ status' = status /\ \A q \in Procs \ {p} : pc'[q] = pc[q]
    BY <1>8 DEF RunBegin, Send, Drop, IInv, TypeOK, Idle, At
  <2>2. QED
    BY <1>1, <2>1 DEF BuildStages
<1>9. ASSUME NEW p \in Procs, Gc(p) \/ Exit(p)
      PROVE  \E q \in Procs : pc'[q].at \in BuildStages /\ pc'[q].h = h
  <2>1. /\ pc[p].at = "idle" /\ \A q \in Procs \ {p} : pc'[q] = pc[q]
        /\ status'[h] \in {status[h], "destroyed"}
    BY <1>9 DEF Gc, Exit, Release, IInv, TypeOK, Idle, At
  <2>2. QED
    BY <1>1, <2>1 DEF BuildStages
<1>10. QED
  BY <1>2, <1>3, <1>4, <1>5, <1>6, <1>7, <1>8, <1>9 DEF Next, Compile

(* Every program under construction is held by its builder.                *)
LEMMA ConstructedHolds == Spec => [](IInv /\ Constructed)
<1>1. Init => Constructed
  BY DEF Init, Constructed
<1>2. QED
  BY <1>1, ConstructedStep, Invariance, PTL DEF Spec

-----------------------------------------------------------------------------
(* A process that is not inside compiled code before and after a step is   *)
(* no runner; one that stays inside stays the same runner.                 *)
LEMMA RunningFrame ==
  ASSUME NEW p \in Procs, \A q \in Procs \ {p} : pc'[q] = pc[q],
         \/ pc'[p] = pc[p]
         \/ pc[p].at \notin RunStages /\ pc'[p].at \notin RunStages
         \/ pc[p].at \in RunStages /\ pc'[p].at \in RunStages /\ pc'[p].h = pc[p].h
  PROVE  running' = running
<1>1. \A q \in Procs, h \in Handles : Running(q, h)' <=> Running(q, h)
  BY DEF Running
<1>2. QED
  BY <1>1 DEF running

(* The status of one program decides about its phase only.                 *)
LEMMA PhaseChange ==
  ASSUME TypeOK, NEW h \in Handles, NEW s, status' = [status EXCEPT ![h] = s]
  PROVE  phase' = [phase EXCEPT ![h] = Phase(h)']
<1>1. \A g \in Handles \ {h} : Phase(g)' = Phase(g)
  BY DEF TypeOK, Phase
<1>2. QED
  BY <1>1 DEF phase

(* compile() before the resource exists: a call starts, fails or goes on.  *)
LEMMA EntersLifetime ==
  ASSUME IInv, NEW p \in Procs, NEW h \in Handles, NEW ml \in MethodLists,
         CompileRejected(p, h, ml) \/ CompileBegin(p, h, ml)
  PROVE  Lifetime!Start(h)
<1>1. /\ status[h] = "unused" /\ roots' = roots
      /\ \E s \in {"rejected", "scanning"} : status' = [status EXCEPT ![h] = s]
  BY DEF CompileRejected, CompileBegin, beam
<1>2. Phase(h) = "none" /\ Phase(h)' \in {"building", "gone"}
  BY <1>1 DEF Phase, IInv, TypeOK
<1>3. phase' = [phase EXCEPT ![h] = Phase(h)'] /\ holders' = holders
  BY <1>1, PhaseChange DEF IInv, holders
<1>4. running' = running
  <2>1. /\ \A q \in Procs \ {p} : pc'[q] = pc[q]
        /\ pc'[p] = pc[p] \/ (pc[p].at = "idle" /\ pc'[p].at = "inputs")
    BY DEF CompileRejected, CompileBegin, IInv, TypeOK, Idle, At
  <2>2. QED
    BY <2>1, RunningFrame DEF RunStages
<1>5. QED
  BY <1>2, <1>3, <1>4 DEF Lifetime!Start, phase, holders, running

(* The scanning loop: a call that is refused is given up, and nothing else *)
(* shows.                                                                  *)
LEMMA ScanLifetime ==
  ASSUME IInv, NEW p \in Procs,
         ScanNotAPair(p) \/ ScanInputs(p) \/ ScanOutputs(p) \/ TccNewFails(p)
  PROVE  \/ \E h \in Handles : Lifetime!GiveUp(h)
         \/ UNCHANGED <<phase, holders, running>>
<1>1. PICK h \in Handles : pc[p].at \in ScanStages /\ h = pc[p].h /\ status[h] = "scanning"
  BY DEF ScanNotAPair, ScanInputs, ScanOutputs, TccNewFails, ScanStages, IInv, StagesInv, ScanStage
<1>2. /\ holders' = holders
      /\ status' = status \/ status' = [status EXCEPT ![h] = "rejected"]
      /\ \E v : pc' = [pc EXCEPT ![p] = v] /\ v.at \notin RunStages
  <2>1. ASSUME Reject(p, h)
        PROVE  /\ status' = [status EXCEPT ![h] = "rejected"]
               /\ pc' = [pc EXCEPT ![p] = Idle] /\ Idle.at \notin RunStages
    BY <2>1 DEF Reject, Idle, At, RunStages
  <2>2. pc[p].at \notin RunStages /\ pc = [pc EXCEPT ![p] = pc[p]]
    BY <1>1 DEF ScanStages, RunStages, IInv, TypeOK
  <2>3. ASSUME FreeAndReject(p, h)
        PROVE  /\ status' = status \/ status' = [status EXCEPT ![h] = "rejected"]
               /\ \E v : pc' = [pc EXCEPT ![p] = v] /\ v.at \notin RunStages
    BY <2>1, <2>2, <2>3 DEF FreeAndReject
  <2>4. ASSUME NEW slot, NEW shape, NEW next, StoreParams(p, h, slot, shape, next),
               next.at \notin RunStages
        PROVE  /\ status' = status \/ status' = [status EXCEPT ![h] = "rejected"]
               /\ \E v : pc' = [pc EXCEPT ![p] = v] /\ v.at \notin RunStages
    BY <2>3, <2>4 DEF StoreParams
  <2>5. CASE ScanNotAPair(p)
    BY <1>1, <2>1, <2>5 DEF ScanNotAPair, beam, holders
  <2>6. CASE ScanInputs(p)
    <3>1. At("outputs", h, pc[p].i).at \notin RunStages
      BY DEF At, RunStages
    <3>2. QED
      BY <1>1, <2>4, <2>6, <3>1 DEF ScanInputs, beam, holders
  <2>7. CASE ScanOutputs(p)
    <3>1. NextMethod(h, pc[p].i).at \notin RunStages
      BY DEF NextMethod, At, RunStages
    <3>2. QED
      BY <1>1, <2>4, <2>7, <3>1 DEF ScanOutputs, beam, holders
  <2>8. CASE TccNewFails(p)
    BY <1>1, <2>3, <2>8 DEF TccNewFails, beam, holders
  <2>9. QED
    BY <2>5, <2>6, <2>7, <2>8
<1>3. running' = running
  <2>1. /\ \A q \in Procs \ {p} : pc'[q] = pc[q]
        /\ pc[p].at \notin RunStages /\ pc'[p].at \notin RunStages
    BY <1>1, <1>2 DEF ScanStages, RunStages, IInv, TypeOK
  <2>2. QED
    BY <2>1, RunningFrame
<1>4. CASE status' = status
  BY <1>2, <1>3, <1>4 DEF phase, Phase
<1>5. CASE status' = [status EXCEPT ![h] = "rejected"]
  <2>1. Phase(h) = "building" /\ Phase(h)' = "gone"
    BY <1>1, <1>5 DEF Phase, IInv, TypeOK
  <2>2. phase' = [phase EXCEPT ![h] = "gone"]
    BY <1>5, <2>1, PhaseChange DEF IInv
  <2>3. Lifetime!GiveUp(h)
    BY <1>2, <1>3, <2>1, <2>2 DEF Lifetime!GiveUp, phase, holders, running
  <2>4. QED
    BY <2>3
<1>6. QED
  BY <1>2, <1>4, <1>5

(* Building: the program is published to its builder, which nobody can     *)
(* name before, or broken; until then nothing shows.                       *)
LEMMA BuildLifetime ==
  ASSUME IInv, NEW p \in Procs,
         TccNew(p) \/ BuildFails(p) \/ BuildStep(p) \/ CompileOk(p)
  PROVE  \/ \E h \in Handles : Lifetime!GiveUp(h) \/ Lifetime!Publish(p, h)
         \/ UNCHANGED <<phase, holders, running>>
<1>1. PICK h \in Handles :
        /\ h = pc[p].h /\ pc[p].at \notin RunStages
        /\ status[h] = IF TccNew(p) THEN "scanning" ELSE "created"
  <2>1. CASE TccNew(p)
    BY <2>1 DEF TccNew, IInv, StagesInv, ScanStage, ScanStages, RunStages
  <2>2. CASE ~TccNew(p)
    BY <2>2 DEF BuildFails, BuildStep, CompileOk, IInv, TypeOK, StagesInv, BuildStage, BuildStages,
       RunStages
  <2>3. QED
    BY <2>1, <2>2
<1>2. ASSUME NEW v, pc' = [pc EXCEPT ![p] = v], v.at \notin RunStages
      PROVE  running' = running
  <2>1. /\ \A q \in Procs \ {p} : pc'[q] = pc[q]
        /\ pc[p].at \notin RunStages /\ pc'[p].at \notin RunStages
    BY <1>1, <1>2 DEF IInv, TypeOK
  <2>2. QED
    BY <2>1, RunningFrame
<1>3. Idle.at \notin RunStages
  BY DEF Idle, At, RunStages
<1>4. CASE TccNew(p)
  <2>1. /\ status[h] = "scanning" /\ status' = [status EXCEPT ![h] = "created"]
        /\ roots' = roots /\ pc' = [pc EXCEPT ![p] = [pc[p] EXCEPT !.at = "compile_string"]]
    BY <1>1, <1>4 DEF TccNew
  <2>2. Phase(h)' = "building" /\ Phase(h) = "building"
    BY <2>1 DEF Phase, IInv, TypeOK
  <2>3. phase' = phase
    BY <2>1, <2>2, PhaseChange DEF IInv, phase
  <2>4. [pc[p] EXCEPT !.at = "compile_string"].at \notin RunStages
    BY DEF IInv, TypeOK, RunStages
  <2>5. QED
    BY <1>2, <2>1, <2>3, <2>4 DEF holders
<1>5. CASE BuildStep(p)
  <2>1. PICK stage \in BuildStages : pc' = [pc EXCEPT ![p] = [pc[p] EXCEPT !.at = stage]]
    BY <1>5 DEF BuildStep, BuildStages
  <2>2. [pc[p] EXCEPT !.at = stage].at \notin RunStages
    BY DEF IInv, TypeOK, RunStages, BuildStages
  <2>3. UNCHANGED <<status, roots>>
    BY <1>5 DEF BuildStep, beam
  <2>4. running' = running
    BY <1>2, <2>1, <2>2
  <2>5. phase' = phase
    BY <2>3 DEF phase, Phase
  <2>6. holders' = holders
    BY <2>3 DEF holders
  <2>7. QED
    BY <2>4, <2>5, <2>6
<1>6. CASE BuildFails(p)
  <2>1. /\ status[h] = "created" /\ status' = [status EXCEPT ![h] = "failed"]
        /\ roots' = roots /\ pc' = [pc EXCEPT ![p] = Idle]
    BY <1>1, <1>6 DEF BuildFails, beam, TccNew, BuildStages
  <2>2. Phase(h) = "building" /\ Phase(h)' = "broken"
    BY <2>1 DEF Phase, IInv, TypeOK
  <2>3. phase' = [phase EXCEPT ![h] = "broken"]
    BY <2>1, <2>2, PhaseChange DEF IInv
  <2>4. Lifetime!GiveUp(h)
    BY <1>2, <1>3, <2>1, <2>2, <2>3 DEF Lifetime!GiveUp, phase, holders, running
  <2>5. QED
    BY <2>4
<1>7. CASE CompileOk(p)
  <2>1. /\ status[h] = "created" /\ status' = [status EXCEPT ![h] = "ready"]
        /\ roots' = [roots EXCEPT ![p] = roots[p] \cup {h}] /\ pc' = [pc EXCEPT ![p] = Idle]
    BY <1>1, <1>7 DEF CompileOk, TccNew
  <2>2. Phase(h) = "building" /\ Phase(h)' = "usable"
    BY <2>1 DEF Phase, IInv, TypeOK
  <2>3. phase' = [phase EXCEPT ![h] = "usable"]
    BY <2>1, <2>2, PhaseChange DEF IInv
  <2>4. holders' = [holders EXCEPT ![h] = {p}]
    <3>1. \A q \in Procs : h \notin roots[q]
      BY <2>1 DEF IInv, RefsInv
    <3>2. \A g \in Handles, q \in Procs :
            g \in roots'[q] <=> (g \in roots[q] \/ (g = h /\ q = p))
      BY <2>1 DEF IInv, TypeOK
    <3>3. QED
      BY <3>1, <3>2 DEF holders
  <2>5. Lifetime!Publish(p, h)
    BY <1>2, <1>3, <2>1, <2>2, <2>3, <2>4 DEF Lifetime!Publish, phase, holders, running
  <2>6. QED
    BY <2>5
<1>8. QED
  BY <1>4, <1>5, <1>6, <1>7

(* run() enters a program its process names and leaves it again.           *)
LEMMA RunLifetime ==
  ASSUME IInv, NEW p \in Procs,
         \/ \E h \in Handles, i \in 1..MaxMethods : RunBegin(p, h, i)
         \/ RunDecode(p) \/ RunOp(p) \/ RunEncode(p)
  PROVE  \/ \E h \in Handles : Lifetime!Enter(p, h) \/ Lifetime!Leave(p, h)
         \/ UNCHANGED <<phase, holders, running>>
<1>1. ASSUME UNCHANGED <<status, roots>>
      PROVE  phase' = phase /\ holders' = holders
  <2>1. \A h \in Handles : Phase(h)' = Phase(h)
    BY <1>1 DEF Phase
  <2>2. QED
    BY <1>1, <2>1 DEF phase, holders
<1>2. ASSUME NEW h \in Handles, NEW i \in 1..MaxMethods, RunBegin(p, h, i)
      PROVE  Lifetime!Enter(p, h)
  <2>1. /\ pc[p].at = "idle" /\ h \in roots[p] /\ UNCHANGED <<status, roots>>
        /\ pc'[p].at = "decode" /\ pc'[p].h = h /\ \A q \in Procs \ {p} : pc'[q] = pc[q]
    BY <1>2 DEF RunBegin, beam, IInv, TypeOK, Idle, At
  <2>2. phase[h] = "usable" /\ p \in holders[h]
    BY <2>1 DEF IInv, RefsInv, phase, Phase, holders
  <2>3. \A q \in Procs, g \in Handles :
          Running(q, g)' <=> (Running(q, g) \/ (q = p /\ g = h))
    BY <2>1 DEF Running, RunStages
  <2>4. running' = [running EXCEPT ![h] = @ \cup {p}]
    BY <2>3 DEF running
  <2>5. QED
    BY <1>1, <2>1, <2>2, <2>4 DEF Lifetime!Enter, phase, holders, running
<1>3. CASE RunDecode(p) \/ RunOp(p) \/ RunEncode(p)
  <2>1. /\ pc[p].at \in RunStages /\ UNCHANGED <<status, roots>>
        /\ \A q \in Procs \ {p} : pc'[q] = pc[q]
        /\ \/ pc'[p] = Idle
           \/ pc'[p].at \in RunStages /\ pc'[p].h = pc[p].h
    BY <1>3, RunStepEffect DEF beam, IInv, TypeOK
  <2>2. pc[p].h \in Handles
    BY <2>1 DEF IInv, StagesInv, RunStage, TypeOK
  <2>3. CASE pc'[p].at \in RunStages /\ pc'[p].h = pc[p].h
    BY <1>1, <2>1, <2>3, RunningFrame
  <2>4. CASE pc'[p] = Idle
    <3>1. \A q \in Procs, g \in Handles :
            Running(q, g)' <=> (Running(q, g) /\ ~(q = p /\ g = pc[p].h))
      BY <2>1, <2>4 DEF Running, RunStages, Idle, At
    <3>2. running' = [running EXCEPT ![pc[p].h] = @ \ {p}]
      BY <3>1 DEF running
    <3>3. p \in running[pc[p].h]
      BY <2>1, <2>2 DEF running, Running
    <3>4. Lifetime!Leave(p, pc[p].h)
      BY <1>1, <2>1, <3>2, <3>3 DEF Lifetime!Leave, phase, holders, running
    <3>5. QED
      BY <2>2, <3>4
  <2>5. QED
    BY <2>1, <2>3, <2>4
<1>4. QED
  BY <1>2, <1>3

(* A message shares a program, forgetting lets go of it.                   *)
LEMMA ShareLifetime ==
  ASSUME IInv, NEW p \in Procs, NEW h \in Handles
  PROVE  /\ \A q \in Procs : Send(p, q, h) => Lifetime!Share(p, q, h)
         /\ Drop(p, h) => Lifetime!LetGo(p, {h}, {})
<1>1. ASSUME UNCHANGED <<status, pc>>
      PROVE  phase' = phase /\ running' = running
  <2>1. \A g \in Handles : Phase(g)' = Phase(g)
    BY <1>1 DEF Phase
  <2>2. QED
    BY <1>1, <2>1 DEF phase, running, Running
<1>2. ASSUME NEW q \in Procs, Send(p, q, h) PROVE Lifetime!Share(p, q, h)
  <2>1. /\ h \in roots[p] /\ UNCHANGED <<status, pc>>
        /\ \A r \in Procs, g \in Handles :
             g \in roots'[r] <=> (g \in roots[r] \/ (g = h /\ r = q))
    BY <1>2 DEF Send, IInv, TypeOK
  <2>2. holders' = [holders EXCEPT ![h] = @ \cup {q}]
    <3>1. \A g \in Handles : holders'[g] = IF g = h THEN holders[g] \cup {q} ELSE holders[g]
      BY <2>1 DEF holders
    <3> QED BY <3>1 DEF holders
  <2>3. QED
    BY <1>1, <2>1, <2>2 DEF Lifetime!Share, phase, holders, running
<1>3. ASSUME Drop(p, h) PROVE Lifetime!LetGo(p, {h}, {})
  <2>1. /\ pc[p].at = "idle" /\ UNCHANGED <<status, pc>>
        /\ \A r \in Procs, g \in Handles :
             g \in roots'[r] <=> (g \in roots[r] /\ ~(g = h /\ r = p))
    BY <1>3 DEF Drop, IInv, TypeOK, Idle, At
  <2>2. p \notin running[h]
    BY <2>1 DEF running, Running, RunStages
  <2>3. holders' = [g \in Handles |-> IF g \in {h} THEN holders[g] \ {p} ELSE holders[g]]
    BY <2>1 DEF holders
  <2>4. phase' = [g \in Handles |-> IF g \in {} THEN "gone" ELSE phase[g]]
    BY <1>1, <2>1 DEF phase
  <2>5. QED
    BY <1>1, <2>1, <2>2, <2>3, <2>4 DEF Lifetime!LetGo, phase, holders, running
<1>4. QED
  BY <1>2, <1>3

(* A collection or an exit lets go of what the process still named among   *)
(* `lost` and reclaims what nobody else lists: those programs are finished,*)
(* because a program under construction is listed by its builder alone,    *)
(* which is not idle.                                                      *)
LEMMA ReleaseLifetime ==
  ASSUME IInv, Constructed, NEW p \in Procs, NEW lost \in SUBSET mso[p],
         pc[p] = Idle, Release(p, lost),
         NEW v \in PcValues, v.at \in {"idle", "exited"}, pc' = [pc EXCEPT ![p] = v],
         roots' = [roots EXCEPT ![p] = roots[p] \ lost]
  PROVE  Lifetime!Next
<1> PICK dead \in SUBSET lost : dead = Released(lost)
  BY DEF Released
<1> PICK left \in SUBSET lost : left = roots[p] \cap lost
  OBVIOUS
<1>1. lost \subseteq Handles /\ lost \subseteq states /\ pc[p].at = "idle"
  BY DEF IInv, TypeOK, RefsInv, Released, Idle, At
<1>2. \A h \in dead : Holders(h) = {p}
  <2> SUFFICES ASSUME NEW h \in dead PROVE Holders(h) = {p}
    OBVIOUS
  <2>1. Cardinality(Holders(h)) = 1 /\ p \in Holders(h)
    BY <1>1 DEF IInv, Released, RefsInv, Holders
  <2>2. Cardinality(Holders(h) \ {p}) = 0 /\ IsFiniteSet(Holders(h) \ {p})
    <3> DEFINE all == Holders(h)
    <3>1. IsFiniteSet(all) /\ Cardinality(all) = 1 /\ p \in all
      BY <2>1, HoldersFinite
    <3> HIDE DEF all
    <3>2. Cardinality(all \ {p}) = 0 /\ IsFiniteSet(all \ {p})
      BY <3>1, FS_RemoveElement
    <3> QED BY <3>2 DEF all
  <2>3. Holders(h) \ {p} = {}
    <3> DEFINE others == Holders(h) \ {p}
    <3>1. Cardinality(others) = 0 /\ IsFiniteSet(others)
      BY <2>2
    <3> HIDE DEF others
    <3>2. others = {}
      BY <3>1, FS_EmptySet
    <3> QED BY <3>2 DEF others
  <2>4. QED
    BY <2>1, <2>3
<1>3. \A h \in dead, q \in Procs \ {p} : h \notin mso[q] /\ h \notin roots[q]
  BY <1>2 DEF Holders, IInv, RefsInv
<1>4. \A h \in dead : phase[h] \in {"broken", "usable"}
  <2> SUFFICES ASSUME NEW h \in dead PROVE status[h] \in {"failed", "ready"}
    BY <1>1 DEF phase, Phase
  <2>1. status[h] \in {"created", "failed", "ready"}
    BY <1>1 DEF IInv, StatesInv
  <2>2. ASSUME status[h] = "created" PROVE FALSE
    <3>1. PICK q \in Procs : pc[q].at \in BuildStages /\ pc[q].h = h
      BY <1>1, <2>2 DEF Constructed
    <3>2. h \in mso[q]
      BY <3>1 DEF IInv, StagesInv, BuildStage
    <3>3. q = p
      BY <1>3, <3>2
    <3>4. QED
      BY <1>1, <3>1, <3>3 DEF BuildStages
  <2>3. QED
    BY <2>1, <2>2
<1>5. /\ roots'[p] = roots[p] \ lost
      /\ \A q \in Procs \ {p} : roots'[q] = roots[q] /\ pc'[q] = pc[q]
      /\ pc[p].at \notin RunStages /\ pc'[p].at \notin RunStages
  BY <1>1 DEF IInv, TypeOK, RunStages
<1>6. running' = running
  BY <1>5, RunningFrame
<1>7. holders' = [h \in Handles |-> IF h \in left THEN holders[h] \ {p} ELSE holders[h]]
  <2>1. \A q \in Procs, h \in Handles :
          h \in roots'[q] <=> (h \in roots[q] /\ ~(q = p /\ h \in lost))
    BY <1>5
  <2>2. QED
    BY <2>1 DEF holders
<1>8. \A h \in dead : holders'[h] = {} /\ running[h] = {}
  <2>1. \A h \in dead, q \in Procs : h \notin roots'[q]
    BY <1>1, <1>3, <1>5
  <2>2. \A h \in dead, q \in Procs : ~Running(q, h)
    BY <1>3, <1>5 DEF Running, IInv, StagesInv, RunStage
  <2>3. QED
    BY <1>1, <2>1, <2>2 DEF holders, running
<1>9. phase' = [h \in Handles |-> IF h \in dead THEN "gone" ELSE phase[h]]
  <2>1. \A h \in Handles : status'[h] = IF h \in dead THEN "destroyed" ELSE status[h]
    BY DEF Release
  <2>2. \A h \in Handles : h \in dead => Phase(h)' = "gone"
    BY <2>1 DEF Phase
  <2>3. \A h \in Handles : h \notin dead => Phase(h)' = Phase(h)
    BY <2>1 DEF Phase
  <2>4. QED
    BY <2>2, <2>3 DEF phase
<1>10. \A h \in left : p \notin running[h]
  BY <1>1, <1>5 DEF running, Running
<1>11. Lifetime!LetGo(p, left, dead)
  BY <1>4, <1>6, <1>7, <1>8, <1>9, <1>10 DEF Lifetime!LetGo, phase, holders, running
<1>12. left \in SUBSET Handles /\ dead \in SUBSET Handles
  BY <1>1
<1>13. QED
  BY <1>11, <1>12 DEF Lifetime!Next

-----------------------------------------------------------------------------
(* Before the first nif_compile() no program has begun its life.           *)
LEMMA InitLifetime == Init => Lifetime!Init
<1> SUFFICES ASSUME Init PROVE Lifetime!Init
  OBVIOUS
<1>1. phase = [h \in Handles |-> "none"]
  BY DEF Init, phase, Phase
<1>2. holders = [h \in Handles |-> {}]
  BY DEF Init, holders
<1>3. running = [h \in Handles |-> {}]
  BY DEF Init, running, Running, Idle, At, RunStages
<1>4. QED
  BY <1>1, <1>2, <1>3 DEF Lifetime!Init, phase, holders, running

(* Every step of the emulator is a step of the abstract life of a program, *)
(* or a stutter.                                                           *)
LEMMA NextLifetime ==
  IInv /\ Constructed /\ [Next]_vars => [Lifetime!Next]_(Lifetime!lifetime)
<1> SUFFICES ASSUME IInv, Constructed, [Next]_vars
             PROVE  Lifetime!Next \/ UNCHANGED <<phase, holders, running>>
  BY DEF Lifetime!lifetime, phase, holders, running
<1>1. CASE UNCHANGED vars
  <2>1. \A h \in Handles : Phase(h)' = Phase(h)
    BY <1>1 DEF vars, Phase
  <2>2. QED
    BY <1>1, <2>1 DEF vars, phase, holders, running, Running
<1>2. ASSUME NEW p \in Procs, NEW h \in Handles, NEW ml \in MethodLists,
             CompileRejected(p, h, ml) \/ CompileBegin(p, h, ml)
      PROVE  Lifetime!Next
  BY <1>2, EntersLifetime DEF Lifetime!Next
<1>3. ASSUME NEW p \in Procs, Compile(p)
      PROVE  Lifetime!Next \/ UNCHANGED <<phase, holders, running>>
  BY <1>3, ScanLifetime, BuildLifetime DEF Compile, Lifetime!Next
<1>4. ASSUME NEW p \in Procs,
             \/ \E h \in Handles, i \in 1..MaxMethods : RunBegin(p, h, i)
             \/ RunDecode(p) \/ RunOp(p) \/ RunEncode(p)
      PROVE  Lifetime!Next \/ UNCHANGED <<phase, holders, running>>
  BY <1>4, RunLifetime DEF Lifetime!Next
<1>5. ASSUME NEW p \in Procs, NEW q \in Procs, NEW h \in Handles, Send(p, q, h)
      PROVE  Lifetime!Next
  BY <1>5, ShareLifetime DEF Lifetime!Next
<1>6. ASSUME NEW p \in Procs, NEW h \in Handles, Drop(p, h)
      PROVE  Lifetime!Next
  <2>1. Lifetime!LetGo(p, {h}, {}) /\ {h} \in SUBSET Handles /\ {} \in SUBSET Handles
    BY <1>6, ShareLifetime
  <2>2. QED
    BY <2>1 DEF Lifetime!Next
<1>7. ASSUME NEW p \in Procs, Gc(p) \/ Exit(p)
      PROVE  Lifetime!Next
  <2>1. CASE Gc(p)
    <3>1. PICK lost \in SUBSET mso[p] : lost = mso[p] \ roots[p] /\ Release(p, lost)
      BY <2>1 DEF Gc
    <3>2. PICK v \in PcValues :
            /\ pc[p] = Idle /\ v.at \in {"idle", "exited"} /\ pc' = [pc EXCEPT ![p] = v]
            /\ roots' = [roots EXCEPT ![p] = roots[p] \ lost]
      BY <2>1, <3>1, IdleType DEF Gc, IInv, TypeOK, Idle, At
    <3>3. QED
      BY <3>1, <3>2, ReleaseLifetime
  <2>2. CASE Exit(p)
    <3>1. PICK lost \in SUBSET mso[p] : lost = mso[p] /\ Release(p, lost)
      BY <2>2 DEF Exit
    <3>2. PICK v \in PcValues : v = At("exited", NoHandle, 0) /\ v.at = "exited"
      <4>1. At("exited", NoHandle, 0) \in PcValues /\ At("exited", NoHandle, 0).at = "exited"
        BY MaxMethodsAssumption DEF At, PcValues, Stages
      <4>2. QED
        BY <4>1
    <3>3. roots[p] \ lost = {}
      BY <3>1 DEF IInv, RefsInv
    <3>4. /\ pc[p] = Idle /\ pc' = [pc EXCEPT ![p] = v]
          /\ roots' = [roots EXCEPT ![p] = roots[p] \ lost]
      BY <2>2, <3>2, <3>3 DEF Exit
    <3>5. QED
      BY <3>1, <3>2, <3>4, ReleaseLifetime
  <2>3. QED
    BY <1>7, <2>1, <2>2
<1>8. QED
  BY <1>1, <1>2, <1>3, <1>4, <1>5, <1>6, <1>7 DEF Next

(* niffler_nif.c and the reference counts of the emulator keep the promise *)
(* of ProgramLifetime, for any number of processes and programs: only      *)
(* published programs are entered, and only by who holds them; none is     *)
(* reclaimed while held or running; none comes back.                       *)
THEOREM LifetimeKept == Spec => LifetimeSpec
<1>1. Spec => [](IInv /\ Constructed)
  BY ConstructedHolds
<1>2. QED
  BY <1>1, InitLifetime, NextLifetime, PTL DEF Spec, LifetimeSpec, Lifetime!Spec

-----------------------------------------------------------------------------
(* An allocated parameter list is one that the method table of its program *)
(* points to, so that free_methods() finds it; a call that was refused has *)
(* some left only after an element that is no 2-tuple.                     *)
Listed ==
  \A h \in Handles, s \in Slots : <<h, s>> \in lists =>
    /\ status[h] \notin {"unused", "destroyed"}
    /\ status[h] \in {"scanning", "created", "failed", "ready"} => method[h][s].ptr
    /\ status[h] = "rejected" => \E i \in 1..Len(arg[h]) : ~arg[h][i].pair

(* The scanning loop fills the table in order: it never overwrites the     *)
(* pointer to an allocated list.                                           *)
InOrder ==
  \A p \in Procs, s \in Slots : <<pc[p].h, s>> \in lists =>
    /\ pc[p].at = "inputs" => s[1] < pc[p].i
    /\ pc[p].at = "outputs" => (s[1] < pc[p].i \/ s = <<pc[p].i, "in">>)

PInv == Listed /\ InOrder

(* Steps that store no list: what they free or publish had its lists in    *)
(* the table, and no call moves on in its scanning loop.                   *)
LEMMA ListedFrame ==
  ASSUME PInv, lists' \subseteq lists, UNCHANGED <<arg, method>>,
         \A h \in Handles :
           \/ status'[h] = status[h]
           \/ status[h] \in {"scanning", "created"} /\ status'[h] \in {"created", "failed", "ready"}
           \/ \A s \in Slots : <<h, s>> \notin lists',
         \A q \in Procs : pc'[q] = pc[q] \/ pc'[q].at \notin {"inputs", "outputs"}
  PROVE  PInv'
<1>1. Listed'
  BY DEF PInv, Listed
<1>2. InOrder'
  BY DEF PInv, InOrder
<1>3. QED
  BY <1>1, <1>2 DEF PInv

(* The scanning loop of one call.                                          *)
LEMMA ScanListed ==
  ASSUME IInv, PInv, NEW p \in Procs,
         ScanNotAPair(p) \/ ScanInputs(p) \/ ScanOutputs(p) \/ TccNewFails(p)
  PROVE  PInv'
<1>1. PICK h \in Handles :
        /\ h = pc[p].h /\ status[h] = "scanning" /\ pc[p].i \in 1..Len(arg[h])
        /\ pc[p].at \in ScanStages
  BY DEF ScanNotAPair, ScanInputs, ScanOutputs, TccNewFails, ScanStages, IInv, StagesInv, ScanStage
<1>2. arg' = arg
  BY DEF ScanNotAPair, ScanInputs, ScanOutputs, TccNewFails
<1>3. \A q \in Procs \ {p} : pc[q].at \in {"inputs", "outputs"} => pc[q].h # h
  BY <1>1 DEF IInv, StagesInv, OneBuilder, ScanStages
<1>4. \A s \in Slots : <<h, s>> \in lists => method[h][s].ptr
  BY <1>1 DEF PInv, Listed
<1>5. ASSUME Reject(p, h), lists' \subseteq lists, \A g \in Handles \ {h} : method'[g] = method[g],
             ~arg[h][pc[p].i].pair \/ \A s \in Slots : <<h, s>> \notin lists'
      PROVE  PInv'
  <2>1. /\ status'[h] = "rejected" /\ \A g \in Handles \ {h} : status'[g] = status[g]
        /\ pc'[p].at = "idle" /\ \A q \in Procs \ {p} : pc'[q] = pc[q]
    BY <1>5 DEF Reject, IInv, TypeOK, Idle, At
  <2>2. Listed'
    BY <1>1, <1>2, <1>5, <2>1 DEF PInv, Listed
  <2>3. InOrder'
    BY <1>5, <2>1 DEF PInv, InOrder
  <2>4. QED
    BY <2>2, <2>3 DEF PInv
<1>6. ASSUME FreeAndReject(p, h), \A g \in Handles \ {h} : method'[g] = method[g],
             \A s \in Slots : <<h, s>> \in lists => method'[h][s].ptr
      PROVE  PInv'
  <2>1. CASE FreeMethods(h, method'[h]) \subseteq lists
    <3>1. Reject(p, h) /\ lists' = lists \ FreeMethods(h, method'[h])
      BY <1>6, <2>1 DEF FreeAndReject
    <3>2. \A s \in Slots : <<h, s>> \notin lists'
      BY <1>6, <3>1 DEF FreeMethods
    <3>3. QED
      BY <1>5, <1>6, <3>1, <3>2
  <2>2. CASE ~(FreeMethods(h, method'[h]) \subseteq lists)
    <3>1. UNCHANGED <<lists, status, pc>>
      BY <1>6, <2>2 DEF FreeAndReject
    <3>2. Listed'
      BY <1>1, <1>2, <1>6, <3>1 DEF PInv, Listed
    <3>3. QED
      BY <3>1, <3>2 DEF PInv, InOrder
  <2>3. QED
    BY <2>1, <2>2
<1>7. ASSUME NEW slot \in Slots, NEW shape \in Shapes, NEW next \in PcValues,
             StoreParams(p, h, slot, shape, next), <<h, slot>> \notin lists,
             slot[1] = pc[p].i, next.h = h,
             pc[p].at \in {"inputs", "outputs"},
             next.at = "inputs" => next.i > pc[p].i,
             next.at = "outputs" => /\ pc[p].at = "inputs" /\ next.i = pc[p].i
                                    /\ slot = <<pc[p].i, "in">>
      PROVE  PInv'
  <2>1. PICK r \in ParamsValues :
          /\ r = ScanParams(shape)
          /\ method' = [method EXCEPT ![h] = [method[h] EXCEPT ![slot] = r]]
    BY <1>7, ScanParamsType DEF StoreParams
  <2>2. /\ \A g \in Handles \ {h} : method'[g] = method[g]
        /\ \A s \in Slots \ {slot} : method'[h][s] = method[h][s]
        /\ method'[h][slot] = r
    BY <2>1 DEF IInv, TypeOK
  <2>3. CASE r.size < 0
    <3>1. FreeAndReject(p, h)
      BY <1>7, <2>1, <2>3 DEF StoreParams
    <3>2. QED
      BY <1>4, <1>6, <1>7, <2>2, <3>1
  <2>4. CASE ~(r.size < 0)
    <3>1. /\ \A g \in Handles, s \in Slots :
                <<g, s>> \in lists' => <<g, s>> \in lists \/ (g = h /\ s = slot /\ r.ptr)
          /\ pc' = [pc EXCEPT ![p] = next] /\ status' = status
      BY <1>7, <2>1, <2>4 DEF StoreParams
    <3>2. Listed'
      <4> SUFFICES ASSUME NEW g \in Handles, NEW s \in Slots, <<g, s>> \in lists'
                   PROVE  /\ status[g] \notin {"unused", "destroyed"}
                          /\ status[g] \in {"scanning", "created", "failed", "ready"}
                               => method'[g][s].ptr
                          /\ status[g] = "rejected" => \E i \in 1..Len(arg[g]) : ~arg[g][i].pair
        BY <1>2, <3>1 DEF Listed
      <4>1. CASE <<g, s>> \in lists
        <5>1. method'[g][s] = method[g][s]
          BY <1>7, <2>2, <4>1
        <5>2. QED
          BY <4>1, <5>1 DEF PInv, Listed
      <4>2. CASE g = h /\ s = slot /\ r.ptr
        BY <1>1, <2>2, <4>2
      <4>3. QED
        BY <3>1, <4>1, <4>2
    <3>3. pc'[p] = next /\ \A q \in Procs \ {p} : pc'[q] = pc[q]
      BY <3>1 DEF IInv, TypeOK
    <3>4. ASSUME NEW s \in Slots, <<h, s>> \in lists'
          PROVE  /\ next.at = "inputs" => s[1] < next.i
                 /\ next.at = "outputs" => (s[1] < next.i \/ s = <<next.i, "in">>)
      <4>1. <<h, s>> \in lists => s[1] < pc[p].i \/ s[1] = pc[p].i
        BY <1>1, <1>7 DEF PInv, InOrder
      <4>2. next.i \in Int /\ pc[p].i \in Int /\ s[1] \in Int
        BY <1>1, MaxMethodsAssumption DEF PcValues, IInv, TypeOK, Slots
      <4>3. CASE next.at = "inputs"
        BY <1>7, <3>1, <3>4, <4>1, <4>2, <4>3
      <4>4. CASE next.at = "outputs"
        BY <1>1, <1>7, <3>1, <3>4, <4>4 DEF PInv, InOrder
      <4>5. QED
        BY <4>3, <4>4
    <3>5. ASSUME NEW q \in Procs \ {p}, NEW s \in Slots, <<pc[q].h, s>> \in lists',
                 pc[q].at \in {"inputs", "outputs"}
          PROVE  <<pc[q].h, s>> \in lists
      <4>1. pc[q].h # h /\ pc[q].h \in Handles
        BY <1>3, <3>5 DEF IInv, StagesInv, ScanStage, ScanStages
      <4>2. QED
        BY <3>1, <3>5, <4>1
    <3>6. InOrder'
      <4> SUFFICES ASSUME NEW q \in Procs, NEW s \in Slots, <<pc'[q].h, s>> \in lists'
                   PROVE  /\ pc'[q].at = "inputs" => s[1] < pc'[q].i
                          /\ pc'[q].at = "outputs" => (s[1] < pc'[q].i \/ s = <<pc'[q].i, "in">>)
        BY DEF InOrder
      <4>1. CASE q = p
        BY <1>7, <3>3, <3>4, <4>1
      <4>2. CASE q # p
        BY <3>3, <3>5, <4>2 DEF PInv, InOrder
      <4>3. QED
        BY <4>1, <4>2
    <3>7. QED
      BY <3>2, <3>6 DEF PInv
  <2>5. QED
    BY <2>3, <2>4
<1>8. /\ pc[p].i \in 1..MaxMethods /\ arg[h][pc[p].i].in \in Shapes /\ arg[h][pc[p].i].out \in Shapes
      /\ Len(arg[h]) \in 0..MaxMethods
  BY <1>1, ArgElements DEF IInv
<1>9. CASE ScanNotAPair(p)
  BY <1>1, <1>5, <1>9 DEF ScanNotAPair, memory
<1>10. CASE TccNewFails(p)
  BY <1>1, <1>4, <1>6, <1>10 DEF TccNewFails
<1>11. CASE ScanInputs(p)
  <2>1. PICK slot \in Slots : slot = <<pc[p].i, "in">>
    BY <1>8 DEF Slots, Sides
  <2>2. PICK next \in PcValues : next = At("outputs", h, pc[p].i)
    <3>1. At("outputs", h, pc[p].i) \in PcValues
      BY <1>8, MaxMethodsAssumption DEF At, PcValues, Stages, ScanStages
    <3>2. QED
      BY <3>1
  <2>3. pc[p].at = "inputs" /\ StoreParams(p, h, slot, arg[h][pc[p].i].in, next)
    BY <1>1, <1>11, <2>1, <2>2 DEF ScanInputs
  <2>4. <<h, slot>> \notin lists
    BY <1>1, <1>8, <2>1, <2>3 DEF PInv, InOrder
  <2>5. next.h = h /\ next.at = "outputs" /\ next.i = pc[p].i /\ slot[1] = pc[p].i
    BY <2>1, <2>2 DEF At
  <2>6. QED
    BY <1>7, <1>8, <2>1, <2>3, <2>4, <2>5
<1>12. CASE ScanOutputs(p)
  <2>1. PICK slot \in Slots : slot = <<pc[p].i, "out">>
    BY <1>8 DEF Slots, Sides
  <2>2. PICK next \in PcValues :
          /\ next = NextMethod(h, pc[p].i) /\ next.h = h
          /\ next.at # "outputs" /\ (next.at = "inputs" => next.i > pc[p].i)
    <3>1. /\ NextMethod(h, pc[p].i) \in PcValues /\ NextMethod(h, pc[p].i).h = h
          /\ NextMethod(h, pc[p].i).at # "outputs"
          /\ (NextMethod(h, pc[p].i).at = "inputs" => NextMethod(h, pc[p].i).i > pc[p].i)
      BY <1>1, <1>8, MaxMethodsAssumption DEF NextMethod, At, PcValues, Stages, ScanStages
    <3>2. QED
      BY <3>1
  <2>3. pc[p].at = "outputs" /\ StoreParams(p, h, slot, arg[h][pc[p].i].out, next)
    BY <1>1, <1>12, <2>1, <2>2 DEF ScanOutputs
  <2>4. <<h, slot>> \notin lists
    BY <1>1, <1>8, <2>1, <2>3 DEF PInv, InOrder
  <2>5. QED
    BY <1>7, <1>8, <2>1, <2>2, <2>3, <2>4
<1>13. QED
  BY <1>9, <1>10, <1>11, <1>12

(* A destructor finds every list of its program in the table.              *)
LEMMA ReleaseListed ==
  ASSUME IInv, PInv, NEW p \in Procs, NEW lost \in SUBSET mso[p], Release(p, lost),
         \A q \in Procs : pc'[q] = pc[q] \/ pc'[q].at = "exited"
  PROVE  PInv'
<1>1. \A h \in Released(lost) : status[h] \in {"created", "failed", "ready"} /\ h \in Handles
  BY DEF IInv, TypeOK, RefsInv, StatesInv, Released
<1>2. UNION {Destroyed(h) : h \in Released(lost)} \subseteq lists
  BY <1>1 DEF Destroyed, FreeMethods, IInv, TablesInv
<1>3. lists' = lists \ UNION {Destroyed(h) : h \in Released(lost)}
  BY <1>2 DEF Release
<1>4. \A h \in Released(lost), s \in Slots : <<h, s>> \notin lists'
  <2> SUFFICES ASSUME NEW h \in Released(lost), NEW s \in Slots, <<h, s>> \in lists
               PROVE  <<h, s>> \in Destroyed(h)
    BY <1>3
  <2>1. method[h][s].ptr
    BY <1>1 DEF PInv, Listed
  <2>2. QED
    BY <2>1 DEF Destroyed, FreeMethods
<1>5. \A h \in Handles : status'[h] = status[h] \/ \A s \in Slots : <<h, s>> \notin lists'
  BY <1>4 DEF Release
<1>6. UNCHANGED <<arg, method>>
  BY DEF Release
<1>7. QED
  BY <1>3, <1>5, <1>6, ListedFrame

(* Lists are never lost from the tables, whatever step the emulator takes. *)
LEMMA NextPInv == IInv /\ PInv /\ [Next]_vars => PInv'
<1> SUFFICES ASSUME IInv, PInv, [Next]_vars PROVE PInv'
  OBVIOUS
<1>1. CASE UNCHANGED vars
  BY <1>1, ListedFrame DEF vars
<1>2. ASSUME NEW p \in Procs, NEW h \in Handles, NEW ml \in MethodLists,
             CompileRejected(p, h, ml) \/ CompileBegin(p, h, ml)
      PROVE  PInv'
  <2>1. \A s \in Slots : <<h, s>> \notin lists
    BY <1>2 DEF CompileRejected, CompileBegin, PInv, Listed
  <2>2. /\ lists' = lists
        /\ \A g \in Handles \ {h} :
              status'[g] = status[g] /\ arg'[g] = arg[g] /\ method'[g] = method[g]
        /\ \A q \in Procs : pc'[q] = pc[q] \/ pc'[q].h = h
    BY <1>2 DEF CompileRejected, CompileBegin, memory, IInv, TypeOK, At
  <2>3. Listed'
    BY <2>1, <2>2 DEF PInv, Listed
  <2>4. InOrder'
    BY <2>1, <2>2 DEF PInv, InOrder
  <2>5. QED
    BY <2>3, <2>4 DEF PInv
<1>3. ASSUME NEW p \in Procs, TccNew(p) \/ BuildFails(p) \/ BuildStep(p) \/ CompileOk(p)
      PROVE  PInv'
  <2>1. UNCHANGED <<arg, method, lists>>
    BY <1>3 DEF TccNew, BuildFails, BuildStep, CompileOk, memory
  <2>2. \A h \in Handles :
          \/ status'[h] = status[h]
          \/ status[h] \in {"scanning", "created"} /\ status'[h] \in {"created", "failed", "ready"}
    <3>1. CASE TccNew(p)
      BY <3>1 DEF TccNew, IInv, TypeOK, StagesInv, ScanStage, ScanStages
    <3>2. CASE ~TccNew(p)
      BY <1>3, <3>2 DEF BuildFails, BuildStep, CompileOk, IInv, TypeOK, StagesInv, BuildStage,
         BuildStages
    <3>3. QED
      BY <3>1, <3>2
  <2>3. \A q \in Procs : pc'[q] = pc[q] \/ pc'[q].at \notin {"inputs", "outputs"}
    <3>1. CASE BuildStep(p)
      BY <3>1 DEF BuildStep, IInv, TypeOK
    <3>2. CASE ~BuildStep(p)
      BY <1>3, <3>2 DEF TccNew, BuildFails, CompileOk, IInv, TypeOK, Idle, At
    <3>3. QED
      BY <3>1, <3>2
  <2>4. QED
    BY <2>1, <2>2, <2>3, ListedFrame
<1>4. ASSUME NEW p \in Procs, RunDecode(p) \/ RunOp(p) \/ RunEncode(p)
      PROVE  PInv'
  <2>1. PICK v \in PcValues :
          /\ pc' = [pc EXCEPT ![p] = v]
          /\ v = Idle \/ v.at \in RunStages
    BY <1>4, RunStepEffect
  <2>2. \A q \in Procs : pc'[q] = pc[q] \/ pc'[q].at \notin {"inputs", "outputs"}
    BY <2>1 DEF IInv, TypeOK, Idle, At, RunStages
  <2>3. UNCHANGED <<arg, status, method, lists>>
    BY <1>4, RunStepEffect DEF memory
  <2>4. QED
    BY <2>2, <2>3, ListedFrame
<1>5. ASSUME NEW p \in Procs, NEW h \in Handles,
             \/ \E i \in 1..MaxMethods : RunBegin(p, h, i)
             \/ \E q \in Procs : Send(p, q, h)
             \/ Drop(p, h)
      PROVE  PInv'
  <2>1. /\ UNCHANGED <<arg, status, method, lists>>
        /\ \A q \in Procs : pc'[q] = pc[q] \/ pc'[q].at \notin {"inputs", "outputs"}
    BY <1>5 DEF RunBegin, Send, Drop, memory, IInv, TypeOK, At
  <2>2. QED
    BY <2>1, ListedFrame
<1>6. ASSUME NEW p \in Procs, Gc(p) \/ Exit(p)
      PROVE  PInv'
  <2>1. PICK lost \in SUBSET mso[p] : Release(p, lost)
    BY <1>6 DEF Gc, Exit
  <2>2. \A q \in Procs : pc'[q] = pc[q] \/ pc'[q].at = "exited"
    BY <1>6 DEF Gc, Exit, IInv, TypeOK, At
  <2>3. QED
    BY <2>1, <2>2, ReleaseListed
<1>7. QED
  BY <1>1, <1>2, <1>3, <1>4, <1>5, <1>6, ScanListed DEF Next, Compile

(* A refused nif_compile() and a destroyed program give every parameter    *)
(* list back, for any method lists and however calls, collections and      *)
(* exits interleave; the early return on an element that is no 2-tuple is  *)
(* the only leak.                                                          *)
THEOREM ListsReclaimed == Spec => []ParamsReclaimed
<1>1. Init => PInv
  BY DEF Init, PInv, Listed, InOrder
<1>2. IInv /\ PInv => ParamsReclaimed
  BY DEF PInv, Listed, ParamsReclaimed
<1>3. QED
  BY <1>1, <1>2, NextPInv, Invariance, PTL DEF Spec
=============================================================================
