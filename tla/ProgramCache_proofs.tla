------------------------ MODULE ProgramCache_proofs ------------------------
(***************************************************************************)
(* The cache of Niffler.defnif for any number of callers, functions and    *)
(* programs.  Its key is the name of a function, so what can be proved     *)
(* without a condition is said of names; that a function runs its own      *)
(* source needs names that differ (f/1 and f/2 of one module would share   *)
(* an entry).                                                              *)
(***************************************************************************)
EXTENDS ProgramCache, TLAPS

(* No module defines one name with two arities.                            *)
UniqueNames == \A f, g \in Functions : NameOf[f] = NameOf[g] => f = g

Holding == {"put", "run", "running"}

(* The entry of a name, and the program a caller holds, were compiled from *)
(* a function of that name; a caller that holds nothing keeps no program   *)
(* from being reclaimed.                                                   *)
CachedNames ==
  \A n \in Names : cache[n] # NoProgram => NameOf[source[cache[n]]] = n
HeldNames ==
  \A c \in Callers :
    /\ pc[c] \in Holding => NameOf[source[prog[c]]] = NameOf[fun[c]]
    /\ pc[c] \notin Holding => prog[c] = NoProgram

IInv == TypeOK /\ CachedNames /\ HeldNames

(* Calls that never overlapped: one is under way, it compiles only what is *)
(* not cached and runs what is, and the counter of each entry is the       *)
(* number of calls that returned.                                          *)
OneCall == \A c, d \in Callers : pc[c] # "idle" /\ pc[d] # "idle" => c = d
SoloCall ==
  \A c \in Callers :
    /\ pc[c] \in {"compile", "put"} => cache[Key(fun[c])] = NoProgram
    /\ pc[c] = "put" => counter[prog[c]] = 0
    /\ pc[c] \in {"run", "running"} => prog[c] = cache[Key(fun[c])]
    /\ pc[c] = "running" => seen[c] = counter[prog[c]]
Counted ==
  \A f \in Functions :
    /\ completed[f] # 0 => cache[Key(f)] # NoProgram
    /\ cache[Key(f)] # NoProgram => counter[cache[Key(f)]] = completed[f]

SInv == ~overlapped => OneCall /\ SoloCall /\ Counted

-----------------------------------------------------------------------------
(* Where the cache looks a function up.                                    *)
LEMMA KeyIsAName == ASSUME NEW f \in Functions PROVE Key(f) = NameOf[f] /\ Key(f) \in Names
  BY DEF Key, Names

(* One more, up to the bound.                                              *)
LEMMA SumType == ASSUME NEW n \in 0..MaxCount PROVE Sum1(n) \in 0..MaxCount
  BY MaxCountAssumption DEF Sum1

(* Before the first call.                                                  *)
LEMMA InitInv == Init => IInv /\ SInv
<1> SUFFICES ASSUME Init PROVE IInv /\ SInv
  OBVIOUS
<1>1. (CHOOSE f \in Functions : TRUE) \in Functions
  BY FunctionsAssumption
<1>2. TypeOK
  <2>1. /\ pc \in [Callers -> Stages] /\ \A c \in Callers : pc[c] = "idle"
        /\ fun \in [Callers -> Functions] /\ overlapped \in BOOLEAN
        /\ prog \in [Callers -> Programs \cup {NoProgram}]
        /\ cache \in [Names -> Programs \cup {NoProgram}]
    BY DEF Init, Stages
  <2>2. source \in [Programs -> Functions]
    BY <1>1 DEF Init
  <2>3. /\ counter \in [Programs -> 0..MaxCount] /\ seen \in [Callers -> 0..MaxCount]
        /\ completed \in [Functions -> 0..MaxCount]
    BY MaxCountAssumption DEF Init
  <2>4. QED
    BY <2>1, <2>2, <2>3 DEF TypeOK
<1>3. CachedNames /\ HeldNames
  BY DEF Init, CachedNames, HeldNames, Holding
<1>4. SInv
  BY KeyIsAName DEF Init, SInv, OneCall, SoloCall, Counted
<1>5. QED
  BY <1>2, <1>3, <1>4 DEF IInv

(* A call begins: if another is under way, the two overlap.                *)
LEMMA CallStep ==
  ASSUME IInv, NEW c \in Callers, NEW f \in Functions, Call(c, f)
  PROVE  IInv' /\ (SInv => SInv')
<1>1. /\ pc[c] = "idle" /\ pc'[c] = "get" /\ fun'[c] = f
      /\ \A d \in Callers \ {c} : pc'[d] = pc[d] /\ fun'[d] = fun[d]
      /\ UNCHANGED <<prog, cache, source, counter, seen, completed>>
  BY DEF Call, IInv, TypeOK
<1>2. TypeOK'
  BY DEF Call, IInv, TypeOK, Stages
<1>3. CachedNames' /\ HeldNames'
  BY <1>1 DEF IInv, CachedNames, HeldNames, Holding
<1>4. ASSUME SInv, ~overlapped' PROVE OneCall' /\ SoloCall' /\ Counted'
  <2>1. ~overlapped /\ \A d \in Callers : pc[d] = "idle"
    BY <1>4 DEF Call
  <2>2. QED
    BY <1>1, <1>4, <2>1 DEF SInv, OneCall, SoloCall, Counted
<1>5. QED
  BY <1>2, <1>3, <1>4 DEF IInv, SInv

(* :persistent_term.get finds the program of the name, or nothing.         *)
LEMMA GetStep ==
  ASSUME IInv, NEW c \in Callers, Get(c)
  PROVE  IInv' /\ (SInv => SInv')
<1>1. PICK n \in Names : n = Key(fun[c]) /\ n = NameOf[fun[c]]
  BY KeyIsAName DEF IInv, TypeOK
<1>2. cache[n] \in Programs \cup {NoProgram}
  BY DEF IInv, TypeOK
<1>3. /\ pc[c] = "get" /\ prog'[c] = cache[n]
      /\ pc'[c] = IF cache[n] = NoProgram THEN "compile" ELSE "run"
      /\ \A d \in Callers \ {c} : pc'[d] = pc[d] /\ prog'[d] = prog[d]
      /\ UNCHANGED <<fun, cache, source, counter, seen, history>>
  BY <1>1 DEF Get, IInv, TypeOK
<1>4. TypeOK'
  <2>1. /\ pc' \in [Callers -> Stages] /\ prog' \in [Callers -> Programs \cup {NoProgram}]
    BY <1>1, <1>2 DEF Get, IInv, TypeOK, Stages
  <2>2. QED
    BY <1>2, <1>3, <2>1 DEF IInv, TypeOK, history
<1>5. CachedNames' /\ HeldNames'
  BY <1>1, <1>3 DEF IInv, CachedNames, HeldNames, Holding
<1>6. ASSUME SInv, ~overlapped' PROVE OneCall' /\ SoloCall' /\ Counted'
  <2>1. OneCall /\ SoloCall /\ Counted
    BY <1>3, <1>6 DEF SInv, history
  <2>2. OneCall'
    BY <1>1, <1>3, <2>1 DEF OneCall
  <2>3. SoloCall'
    BY <1>1, <1>3, <2>1, <2>2 DEF OneCall, SoloCall
  <2>4. Counted'
    BY <1>3, <2>1 DEF Counted, history
  <2>5. QED
    BY <2>2, <2>3, <2>4
<1>7. QED
  BY <1>4, <1>5, <1>6 DEF IInv, SInv

(* Compiling takes a handle nothing refers to.                             *)
LEMMA CompileStep ==
  ASSUME IInv, NEW c \in Callers, NEW q \in Programs, Compile(c, q)
  PROVE  IInv' /\ (SInv => SInv')
<1>1. /\ pc[c] = "compile" /\ pc'[c] = "put" /\ prog'[c] = q
      /\ source'[q] = fun[c] /\ counter'[q] = 0
      /\ \A d \in Callers \ {c} : pc'[d] = pc[d] /\ prog'[d] = prog[d] /\ prog[d] # q
      /\ \A r \in Programs \ {q} : source'[r] = source[r] /\ counter'[r] = counter[r]
      /\ \A n \in Names : cache[n] # q /\ cache[n] \in Programs \cup {NoProgram}
      /\ UNCHANGED <<fun, cache, seen, history>>
  BY DEF Compile, Unreferenced, IInv, TypeOK
<1>2. TypeOK'
  BY MaxCountAssumption DEF Compile, IInv, TypeOK, Stages, history
<1>3. CachedNames'
  BY <1>1 DEF IInv, CachedNames
<1>4. HeldNames'
  BY <1>1 DEF IInv, TypeOK, HeldNames, Holding
<1>5. ASSUME SInv, ~overlapped' PROVE OneCall' /\ SoloCall' /\ Counted'
  <2>1. OneCall /\ SoloCall /\ Counted
    BY <1>1, <1>5 DEF SInv, history
  <2>2. OneCall' /\ SoloCall'
    BY <1>1, <2>1 DEF OneCall, SoloCall
  <2>3. Counted'
    BY <1>1, <2>1, KeyIsAName DEF Counted, history
  <2>4. QED
    BY <2>2, <2>3
<1>6. QED
  BY <1>2, <1>3, <1>4, <1>5 DEF IInv, SInv

(* A compilation that fails leaves no trace.                               *)
LEMMA CompileRaisesStep ==
  ASSUME IInv, NEW c \in Callers, CompileRaises(c)
  PROVE  IInv' /\ (SInv => SInv')
<1>1. /\ pc[c] = "compile" /\ pc'[c] = "idle" /\ \A d \in Callers \ {c} : pc'[d] = pc[d]
      /\ UNCHANGED <<fun, prog, cache, source, counter, seen, history>>
  BY DEF CompileRaises, IInv, TypeOK
<1>2. TypeOK'
  BY <1>1 DEF CompileRaises, IInv, TypeOK, Stages, history
<1>3. CachedNames' /\ HeldNames'
  BY <1>1 DEF IInv, CachedNames, HeldNames, Holding
<1>4. ASSUME SInv, ~overlapped' PROVE OneCall' /\ SoloCall' /\ Counted'
  BY <1>1, <1>4 DEF history, SInv, OneCall, SoloCall, Counted
<1>5. QED
  BY <1>2, <1>3, <1>4 DEF IInv, SInv

(* :persistent_term.put publishes the program under the name of its source.*)
LEMMA PutStep ==
  ASSUME IInv, NEW c \in Callers, Put(c)
  PROVE  IInv' /\ (UniqueNames /\ SInv => SInv')
<1>1. PICK n \in Names : n = Key(fun[c]) /\ n = NameOf[fun[c]]
  BY KeyIsAName DEF IInv, TypeOK
<1>2. /\ pc[c] = "put" /\ pc'[c] = "run" /\ \A d \in Callers \ {c} : pc'[d] = pc[d]
      /\ cache' = [cache EXCEPT ![n] = prog[c]] /\ prog[c] \in Programs
      /\ UNCHANGED <<fun, prog, source, counter, seen, history>>
  BY <1>1 DEF Put, IInv, TypeOK
<1>3. cache'[n] = prog[c] /\ \A m \in Names \ {n} : cache'[m] = cache[m]
  BY <1>2 DEF IInv, TypeOK
<1>4. TypeOK'
  BY <1>2 DEF Put, IInv, TypeOK, Stages, history
<1>5. CachedNames' /\ HeldNames'
  BY <1>1, <1>2, <1>3 DEF IInv, CachedNames, HeldNames, Holding
<1>6. ASSUME UniqueNames, SInv, ~overlapped' PROVE OneCall' /\ SoloCall' /\ Counted'
  <2>1. OneCall /\ SoloCall /\ Counted
    BY <1>2, <1>6 DEF SInv, history
  <2>2a. OneCall'
    BY <1>1, <1>2, <2>1 DEF OneCall
  <2>2b. SoloCall'
    BY <1>1, <1>2, <1>3, <2>1, <2>2a DEF OneCall, SoloCall
  <2>2. OneCall' /\ SoloCall'
    BY <2>2a, <2>2b
  <2>3. ASSUME NEW f \in Functions
        PROVE  /\ completed'[f] # 0 => cache'[Key(f)] # NoProgram
               /\ cache'[Key(f)] # NoProgram => counter'[cache'[Key(f)]] = completed'[f]
    <3>1. CASE f = fun[c]
      BY <1>1, <1>2, <1>3, <2>1, <3>1, NoProgramAssumption DEF SoloCall, Counted, history
    <3>2. CASE f # fun[c]
      <4>1. Key(f) \in Names \ {n}
        BY <1>1, <1>6, <3>2, KeyIsAName DEF UniqueNames, IInv, TypeOK
      <4>2. QED
        BY <1>2, <1>3, <2>1, <4>1 DEF Counted, history
    <3>3. QED
      BY <3>1, <3>2
  <2>4. QED
    BY <2>2, <2>3 DEF Counted
<1>7. QED
  BY <1>4, <1>5, <1>6 DEF IInv, SInv

(* A run reads the static variable.                                        *)
LEMMA RunBeginStep ==
  ASSUME IInv, NEW c \in Callers, RunBegin(c)
  PROVE  IInv' /\ (SInv => SInv')
<1>1. /\ pc[c] = "run" /\ pc'[c] = "running" /\ seen'[c] = counter[prog[c]] /\ prog[c] \in Programs
      /\ \A d \in Callers \ {c} : pc'[d] = pc[d] /\ seen'[d] = seen[d]
      /\ UNCHANGED <<fun, prog, cache, source, counter, history>>
  BY DEF RunBegin, IInv, TypeOK
<1>2. TypeOK'
  <2>1. pc' \in [Callers -> Stages] /\ seen' \in [Callers -> 0..MaxCount]
    BY <1>1 DEF RunBegin, IInv, TypeOK, Stages
  <2>2. QED
    BY <1>1, <2>1 DEF IInv, TypeOK, history
<1>3. CachedNames' /\ HeldNames'
  BY <1>1 DEF IInv, CachedNames, HeldNames, Holding
<1>4. ASSUME SInv, ~overlapped' PROVE OneCall' /\ SoloCall' /\ Counted'
  BY <1>1, <1>4 DEF history, SInv, OneCall, SoloCall, Counted
<1>5. QED
  BY <1>2, <1>3, <1>4 DEF IInv, SInv

(* A run stores what it read plus one.                                     *)
LEMMA RunEndStep ==
  ASSUME IInv, NEW c \in Callers, RunEnd(c)
  PROVE  IInv' /\ (UniqueNames /\ SInv => SInv')
<1>1. PICK q \in Programs : q = prog[c]
  BY DEF RunEnd, IInv, TypeOK
<1>2. PICK f \in Functions : f = fun[c]
  BY DEF IInv, TypeOK
<1>3. Sum1(seen[c]) \in 0..MaxCount /\ Sum1(completed[f]) \in 0..MaxCount
  BY SumType DEF IInv, TypeOK
<1>4. /\ pc[c] = "running" /\ pc'[c] = "idle" /\ prog'[c] = NoProgram
      /\ counter' = [counter EXCEPT ![q] = Sum1(seen[c])]
      /\ completed' = [completed EXCEPT ![f] = Sum1(completed[f])]
      /\ \A d \in Callers \ {c} : pc'[d] = pc[d] /\ prog'[d] = prog[d] /\ seen'[d] = seen[d]
      /\ UNCHANGED <<fun, cache, source, overlapped>>
  BY <1>1, <1>2 DEF RunEnd, IInv, TypeOK
<1>5. TypeOK'
  <2>1. /\ pc' \in [Callers -> Stages] /\ seen' \in [Callers -> 0..MaxCount]
        /\ prog' \in [Callers -> Programs \cup {NoProgram}]
    BY MaxCountAssumption DEF RunEnd, IInv, TypeOK, Stages
  <2>2. counter' \in [Programs -> 0..MaxCount] /\ completed' \in [Functions -> 0..MaxCount]
    BY <1>3, <1>4 DEF IInv, TypeOK
  <2>3. QED
    BY <1>4, <2>1, <2>2 DEF IInv, TypeOK
<1>6. CachedNames' /\ HeldNames'
  BY <1>4 DEF IInv, CachedNames, HeldNames, Holding
<1>7. ASSUME UniqueNames, SInv, ~overlapped' PROVE OneCall' /\ SoloCall' /\ Counted'
  <2>1. OneCall /\ SoloCall /\ Counted
    BY <1>4, <1>7 DEF SInv
  <2>2. \A d \in Callers : pc'[d] = "idle"
    BY <1>4, <2>1 DEF OneCall
  <2>3. OneCall' /\ SoloCall'
    BY <2>2 DEF OneCall, SoloCall
  <2>4. q = cache[Key(f)] /\ seen[c] = counter[q] /\ counter[q] = completed[f] /\ q # NoProgram
    BY <1>1, <1>2, <1>4, <2>1, NoProgramAssumption DEF SoloCall, Counted
  <2>5. /\ counter'[q] = Sum1(seen[c]) /\ completed'[f] = Sum1(completed[f])
        /\ \A r \in Programs \ {q} : counter'[r] = counter[r]
        /\ \A g \in Functions \ {f} : completed'[g] = completed[g]
    BY <1>4 DEF IInv, TypeOK
  <2>6. ASSUME NEW g \in Functions
        PROVE  /\ completed'[g] # 0 => cache'[Key(g)] # NoProgram
               /\ cache'[Key(g)] # NoProgram => counter'[cache'[Key(g)]] = completed'[g]
    <3>1. CASE g = f
      BY <1>4, <2>4, <2>5, <3>1
    <3>2. CASE g # f
      <4>1. cache[Key(g)] # q
        BY <1>7, <2>4, <3>2, KeyIsAName DEF UniqueNames, IInv, CachedNames
      <4>2. cache[Key(g)] \in Programs \cup {NoProgram}
        BY KeyIsAName DEF IInv, TypeOK
      <4>3. QED
        BY <1>4, <2>1, <2>5, <3>2, <4>1, <4>2 DEF Counted
    <3>3. QED
      BY <3>1, <3>2
  <2>7. QED
    BY <2>3, <2>6 DEF Counted
<1>8. QED
  BY <1>5, <1>6, <1>7 DEF IInv, SInv

-----------------------------------------------------------------------------
(* Every step keeps both invariants; the second needs names that differ.   *)
LEMMA NextInv ==
  /\ IInv /\ [Next]_vars => IInv'
  /\ UniqueNames /\ IInv /\ SInv /\ [Next]_vars => SInv'
<1> SUFFICES ASSUME IInv, [Next]_vars PROVE IInv' /\ (UniqueNames /\ SInv => SInv')
  OBVIOUS
<1>1. CASE UNCHANGED vars
  BY <1>1 DEF vars, IInv, TypeOK, CachedNames, HeldNames, SInv, OneCall, SoloCall, Counted
<1>2. ASSUME NEW c \in Callers, NEW f \in Functions, Call(c, f)
      PROVE  IInv' /\ (SInv => SInv')
  BY <1>2, CallStep
<1>3. ASSUME NEW c \in Callers, Step(c)
      PROVE  IInv' /\ (UniqueNames /\ SInv => SInv')
  BY <1>3, GetStep, CompileStep, CompileRaisesStep, PutStep, RunBeginStep, RunEndStep DEF Step
<1>4. QED
  BY <1>1, <1>2, <1>3 DEF Next

(* What is said of names holds for any functions.                          *)
THEOREM Invariance == Spec => []IInv
<1>1. Init => IInv
  BY InitInv
<1>2. IInv /\ [Next]_vars => IInv'
  BY NextInv
<1>3. QED
  BY <1>1, <1>2, PTL DEF Spec

(* The cache holds programs and each caller its own, in any interleaving.  *)
THEOREM TypeCorrect == Spec => []TypeOK
<1>1. IInv => TypeOK
  BY DEF IInv
<1>2. QED
  BY <1>1, Invariance, PTL

(* The program a call runs was compiled from a function of the same name.  *)
SameName ==
  \A c \in Callers : pc[c] = "running" => NameOf[source[prog[c]]] = NameOf[fun[c]]

(* A call runs a program compiled from a function of its own name, however *)
(* many callers race for the first compilation and although the handles of *)
(* reclaimed programs are used again.                                      *)
THEOREM RunsOwnName == Spec => []SameName
<1>1. IInv => SameName
  BY DEF IInv, HeldNames, SameName, Holding
<1>2. QED
  BY <1>1, Invariance, PTL

(* Where names differ, that is the function itself.                        *)
THEOREM RunsOwnFunction ==
  ASSUME UniqueNames PROVE Spec => []RunsOwnSource
<1>1. IInv => RunsOwnSource
  BY UniqueNames DEF UniqueNames, IInv, TypeOK, HeldNames, RunsOwnSource, Running, Holding
<1>2. QED
  BY <1>1, Invariance, PTL

(* Calls that do not overlap share one instance, whose static counter      *)
(* counts them, for any functions with names that differ.                  *)
THEOREM CountsAreKept ==
  ASSUME UniqueNames PROVE Spec => []SoloCallsCount
<1>1. Init => SInv
  BY InitInv
<1>2. IInv /\ SInv /\ [Next]_vars => SInv'
  BY NextInv, UniqueNames
<1>3. SInv => SoloCallsCount
  BY DEF SInv, Counted, SoloCallsCount
<1>4. QED
  BY <1>1, <1>2, <1>3, Invariance, PTL DEF Spec
=============================================================================
