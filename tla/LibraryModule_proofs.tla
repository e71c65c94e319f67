------------------------ MODULE LibraryModule_proofs ------------------------
(***************************************************************************)
(* A Niffler.Library module with any functions, any number of library      *)
(* globals and any number of callers: the index of a function selects its  *)
(* own case, on_load() precedes every function unless two of its fragments *)
(* race, and only overlapping calls can take each other's input.           *)
(***************************************************************************)
EXTENDS LibraryModule, TLAPS

(* The functions are collected in their order, each with its index; the    *)
(* program is made of all of them, and nobody calls before it exists.      *)
Collected ==
  /\ Len(niffler_nifs) <= Len(Definitions)
  /\ \A k \in 1..Len(niffler_nifs) :
       niffler_nifs[k] = Definitions[k] /\ idx[Definitions[k]] = k - 1
  /\ module = "loaded" => Len(niffler_nifs) = Len(Definitions) /\ cases = niffler_nifs
  /\ module # "loaded" => \A c \in Callers : ~InProgram(c)

(* A call is in its own case, and returned what that computed.             *)
OwnCase ==
  \A c \in Callers :
    /\ pc[c].at = "compute" => pc[c].i = idx[fun[c]]
    /\ outcome[c].kind = "ok" => outcome[c].fun = fun[c]

(* Calls that are under way together disturb each other; the others find   *)
(* their input where they left it.                                         *)
Quiet ==
  /\ \A c, d \in Callers : c # d /\ InProgram(c) /\ InProgram(d) => c \in disturbed
  /\ \A c \in Callers \ disturbed :
       /\ pc[c].at = "compute" => scratch = c
       /\ outcome[c].kind = "ok" => outcome[c].input = c

(* As long as no two on_load() fragments have run at once: one at a time   *)
(* runs, the globals before its step are assigned, and once one succeeded  *)
(* none runs again.                                                        *)
Loading ==
  /\ \A c, d \in Callers : pc[c].at = "on_load" /\ pc[d].at = "on_load" => c = d
  /\ \A c \in Callers :
       /\ pc[c].at = "on_load" => ~niffler_initialized /\ \A g \in Globals : g < pc[c].i => globals[g]
       /\ InFunction(c) => niffler_initialized
  /\ niffler_initialized => \A g \in Globals : globals[g]
  /\ loads = IF niffler_initialized THEN 1 ELSE 0

OnLoadIndex == \A c \in Callers : pc[c].at = "on_load" => pc[c].i \in 1..(NumGlobals + 1)

IInv ==
  /\ TypeOK /\ OnLoadIndex
  /\ Collected /\ OwnCase /\ Quiet
  /\ ~racing => Loading

PcValues == [at : Stages, i : 0..(NumGlobals + Len(Definitions))]

-----------------------------------------------------------------------------
(* The functions of the module and their places.                           *)
LEMMA DefinitionTypes ==
  /\ Len(Definitions) \in Nat \ {0}
  /\ \A k \in 1..Len(Definitions) : Definitions[k] \in Functions
  /\ \A f \in Functions : \E k \in 1..Len(Definitions) : f = Definitions[k]
  /\ \A j, k \in 1..Len(Definitions) : Definitions[j] = Definitions[k] => j = k
<1>1. Definitions \in Seq(Functions) /\ Definitions # <<>>
  BY DefinitionsAssumption DEF Functions
<1>2. Len(Definitions) \in Nat \ {0} /\ DOMAIN Definitions = 1..Len(Definitions)
  BY <1>1
<1>3. QED
  BY <1>1, <1>2, DefinitionsAssumption DEF Functions, ToSet, IsInjective

(* Where a call can be.                                                    *)
LEMMA AtTypes ==
  ASSUME NEW stage \in Stages, NEW i \in 0..(NumGlobals + Len(Definitions))
  PROVE  At(stage, i) \in PcValues /\ At(stage, i).at = stage /\ At(stage, i).i = i
  BY DEF At, PcValues

(* The bounds of the places of a call.                                     *)
LEMMA PlaceBounds ==
  /\ 0 \in 0..(NumGlobals + Len(Definitions)) /\ 1 \in 0..(NumGlobals + Len(Definitions))
  /\ \A i \in 1..NumGlobals : i + 1 \in 0..(NumGlobals + Len(Definitions))
  /\ \A i \in 0..(Len(Definitions) - 1) : i \in 0..(NumGlobals + Len(Definitions))
  BY DefinitionTypes, NumGlobalsAssumption

(* The idle caller is somewhere a caller can be.                           *)
LEMMA IdleTypes == Idle \in PcValues /\ Idle.at = "idle"
  BY PlaceBounds DEF Idle, At, PcValues, Stages

(* No outcome yet.                                                         *)
LEMMA NoOutcomeTypes == NoOutcome \in Outcomes /\ NoOutcome.kind = "none"
  BY DefinitionTypes DEF NoOutcome, Outcomes

(* Before the module is compiled.                                          *)
LEMMA InitIInv == Init => IInv
<1> SUFFICES ASSUME Init PROVE IInv
  OBVIOUS
<1>1. TypeOK
  <2>1. pc \in [Callers -> PcValues] /\ outcome \in [Callers -> Outcomes]
    BY IdleTypes, NoOutcomeTypes DEF Init
  <2>2. /\ idx \in [Functions -> 0..(Len(Definitions) - 1)] /\ fun \in [Callers -> Functions]
        /\ calls \in [Callers -> 0..MaxCalls]
    BY DefinitionTypes, MaxCallsAssumption DEF Init
  <2>3. /\ module = "compiling" /\ niffler_nifs = <<>> /\ cases = <<>> /\ niffler_initialized = FALSE
        /\ globals \in [Globals -> BOOLEAN] /\ scratch = NoInput
        /\ loads = 0 /\ racing = FALSE /\ disturbed = {}
    BY DEF Init
  <2>4. niffler_nifs \in Seq(Functions) /\ cases \in Seq(Functions)
    BY <2>3
  <2>5. QED
    BY <2>1, <2>2, <2>3, <2>4 DEF TypeOK, PcValues
<1>2. \A c \in Callers : pc[c].at = "idle" /\ outcome[c].kind = "none"
  BY IdleTypes, NoOutcomeTypes DEF Init
<1>3. Collected
  BY <1>2, DefinitionTypes DEF Init, Collected, InProgram
<1>4. OnLoadIndex /\ OwnCase /\ Quiet /\ Loading
  BY <1>2 DEF Init, OnLoadIndex, OwnCase, Quiet, Loading, InProgram, InFunction
<1>5. QED
  BY <1>1, <1>3, <1>4 DEF IInv

(* defnif collects the next function.                                      *)
LEMMA DefineNifStep ==
  ASSUME IInv, NEW f \in Functions, DefineNif(f)
  PROVE  IInv'
<1>1. PICK n \in 1..Len(Definitions) : n = Len(niffler_nifs) + 1 /\ f = Definitions[n]
  BY DefinitionTypes DEF DefineNif, IInv, TypeOK
<1>2. /\ module = "compiling" /\ niffler_nifs' = Append(niffler_nifs, f)
      /\ idx' = [idx EXCEPT ![f] = n - 1]
      /\ UNCHANGED <<module, program, pc, fun, outcome, calls, history>>
  BY <1>1 DEF DefineNif, Collect, Index, IInv, TypeOK
<1>3. \A c \in Callers : pc[c].at = "idle"
  BY <1>2 DEF IInv, Collected, InProgram
<1>4. TypeOK'
  <2>1. niffler_nifs' \in Seq(Functions) /\ idx' \in [Functions -> 0..(Len(Definitions) - 1)]
    BY <1>1, <1>2, DefinitionTypes DEF IInv, TypeOK
  <2>2. QED
    BY <1>2, <2>1 DEF IInv, TypeOK, program, history
<1>5. Collected'
  <2>1. /\ Len(niffler_nifs') = n /\ niffler_nifs'[n] = f
        /\ \A k \in 1..(n - 1) : niffler_nifs'[k] = niffler_nifs[k]
    BY <1>1, <1>2 DEF IInv, TypeOK
  <2>2. \A k \in 1..n : niffler_nifs'[k] = Definitions[k] /\ idx'[Definitions[k]] = k - 1
    <3> SUFFICES ASSUME NEW k \in 1..n
                 PROVE  niffler_nifs'[k] = Definitions[k] /\ idx'[Definitions[k]] = k - 1
      OBVIOUS
    <3>1. CASE k = n
      BY <1>1, <1>2, <2>1, <3>1 DEF IInv, TypeOK
    <3>2. CASE k # n
      <4>1. /\ k \in 1..(n - 1) /\ k \in 1..Len(niffler_nifs) /\ k \in 1..Len(Definitions)
        BY <1>1, <3>2, DefinitionTypes DEF IInv, TypeOK
      <4>2. Definitions[k] # f /\ Definitions[k] \in Functions
        BY <1>1, <3>2, <4>1, DefinitionTypes
      <4>3. QED
        BY <1>2, <2>1, <4>1, <4>2 DEF IInv, TypeOK, Collected
    <3>3. QED
      BY <3>1, <3>2
  <2>3. QED
    BY <1>1, <1>2, <1>3, <2>1, <2>2 DEF Collected, InProgram
<1>6. (OnLoadIndex /\ OwnCase /\ Quiet /\ (~racing => Loading))'
  BY <1>2, <1>3 DEF IInv, program, history, OnLoadIndex, OwnCase, Quiet, Loading, InProgram,
     InFunction
<1>7. QED
  BY <1>4, <1>5, <1>6 DEF IInv

(* The module is loaded, with all its functions as cases, or it is not.    *)
LEMMA PreCompileStep ==
  ASSUME IInv, PreCompile \/ PreCompileRaises
  PROVE  IInv'
<1>1. /\ module = "compiling" /\ Len(niffler_nifs) = Len(Definitions)
      /\ (module' = "loaded" /\ cases' = niffler_nifs) \/ (module' = "not_loaded" /\ cases' = cases)
      /\ UNCHANGED <<definition, niffler_initialized, globals, scratch, pc, fun, outcome, calls, history>>
  BY DEF PreCompile, PreCompileRaises, program
<1>2. \A c \in Callers : pc[c].at = "idle"
  BY <1>1 DEF IInv, Collected, InProgram
<1>3. TypeOK'
  BY <1>1 DEF IInv, TypeOK, definition, history
<1>4. Collected'
  BY <1>1, <1>2 DEF IInv, Collected, definition, InProgram
<1>5. (OnLoadIndex /\ OwnCase /\ Quiet /\ (~racing => Loading))'
  BY <1>1, <1>2 DEF IInv, definition, history, OnLoadIndex, OwnCase, Quiet, Loading, InProgram,
     InFunction
<1>6. QED
  BY <1>3, <1>4, <1>5 DEF IInv

(* A call enters the program: from now on it and those under way disturb   *)
(* each other.                                                             *)
LEMMA CallStep ==
  ASSUME IInv, NEW c \in Callers, NEW f \in Functions, Call(c, f)
  PROVE  IInv'
<1>1. /\ module = "loaded" /\ pc[c].at = "idle"
      /\ pc' = [pc EXCEPT ![c] = At("enter", 0)]
      /\ fun' = [fun EXCEPT ![c] = f] /\ outcome' = [outcome EXCEPT ![c] = NoOutcome]
      /\ calls' = [calls EXCEPT ![c] = calls[c] + 1] /\ calls[c] < MaxCalls
      /\ UNCHANGED <<module, definition, program, loads, racing>>
      /\ disturbed' = IF Others(c) = {} THEN disturbed \ {c} ELSE disturbed \cup Others(c) \cup {c}
  BY IdleTypes DEF Call, Go
<1>2. /\ pc'[c] = At("enter", 0) /\ pc'[c].at = "enter" /\ fun'[c] = f /\ outcome'[c] = NoOutcome
      /\ \A d \in Callers \ {c} : pc'[d] = pc[d] /\ fun'[d] = fun[d] /\ outcome'[d] = outcome[d]
  BY <1>1 DEF IInv, TypeOK, At
<1>3. TypeOK'
  <2>1. pc' \in [Callers -> PcValues] /\ outcome' \in [Callers -> Outcomes]
    BY <1>1, AtTypes, PlaceBounds, NoOutcomeTypes DEF IInv, TypeOK, PcValues, Stages
  <2>2. calls' \in [Callers -> 0..MaxCalls]
    BY <1>1, MaxCallsAssumption DEF IInv, TypeOK
  <2>3. disturbed' \subseteq Callers /\ fun' \in [Callers -> Functions]
    BY <1>1 DEF Others, IInv, TypeOK
  <2>4. QED
    BY <1>1, <2>1, <2>2, <2>3 DEF IInv, TypeOK, PcValues, definition, program
<1>4. Collected'
  BY <1>1 DEF IInv, Collected, definition, program
<1>5. OnLoadIndex' /\ OwnCase'
  BY <1>1, <1>2, NoOutcomeTypes DEF IInv, OnLoadIndex, OwnCase, definition
<1>6. Quiet'
  <2>1. CASE Others(c) = {}
    <3>1. \A d \in Callers \ {c} : ~InProgram(d)' /\ pc'[d].at = "idle"
      BY <1>2, <2>1 DEF Others, InProgram
    <3>2. disturbed' = disturbed \ {c}
      BY <1>1, <2>1
    <3>3. QED
      BY <1>2, <3>1, <3>2, NoOutcomeTypes DEF IInv, Quiet, InProgram
  <2>2. CASE Others(c) # {}
    <3>1. disturbed' = disturbed \cup Others(c) \cup {c}
      BY <1>1, <2>2
    <3>2. QED
      BY <1>1, <1>2, <3>1 DEF IInv, Quiet, InProgram, Others, program
  <2>3. QED
    BY <2>1, <2>2
<1>7. (~racing => Loading)'
  BY <1>1, <1>2 DEF IInv, Loading, program, InFunction
<1>8. QED
  BY <1>3, <1>4, <1>5, <1>6, <1>7 DEF IInv

(* Steps inside a call that touch neither functions nor outcomes keep what *)
(* they left in place.                                                     *)
LEMMA InCallFrame ==
  ASSUME IInv, NEW c \in Callers, InProgram(c), NEW v \in PcValues, pc' = [pc EXCEPT ![c] = v],
         v.at \notin {"idle", "compute"}, v.at = "on_load" => v.i \in 1..(NumGlobals + 1),
         UNCHANGED <<module, definition, cases, scratch, fun, outcome, disturbed>>
  PROVE  /\ pc' \in [Callers -> PcValues]
         /\ pc'[c] = v /\ \A d \in Callers \ {c} : pc'[d] = pc[d]
         /\ OnLoadIndex' /\ Collected' /\ OwnCase' /\ Quiet'
<1>1. pc' \in [Callers -> PcValues] /\ pc'[c] = v /\ \A d \in Callers \ {c} : pc'[d] = pc[d]
  BY DEF IInv, TypeOK, PcValues
<1>2. OnLoadIndex' /\ OwnCase'
  BY <1>1 DEF IInv, OnLoadIndex, OwnCase, definition
<1>3. Collected' /\ Quiet'
  BY <1>1 DEF IInv, Collected, Quiet, InProgram, definition
<1>4. QED
  BY <1>1, <1>2, <1>3

(* The flag is tested: on to the switch, or into on_load().                *)
LEMMA CheckInitializedStep ==
  ASSUME IInv, NEW c \in Callers, CheckInitialized(c)
  PROVE  IInv'
<1>1. /\ pc[c].at = "enter" /\ InProgram(c)
      /\ UNCHANGED <<module, definition, program, fun, outcome, calls, loads, disturbed>>
  BY DEF CheckInitialized, InProgram
<1>2. CASE niffler_initialized
  <2>1. PICK v \in PcValues : v = At("switch", 0) /\ v.at = "switch"
    BY AtTypes, PlaceBounds DEF Stages
  <2>2. pc' = [pc EXCEPT ![c] = v] /\ racing' = racing
    BY <1>2, <2>1 DEF CheckInitialized, Go
  <2>3. /\ pc' \in [Callers -> PcValues]
        /\ pc'[c] = v /\ \A d \in Callers \ {c} : pc'[d] = pc[d]
        /\ OnLoadIndex' /\ Collected' /\ OwnCase' /\ Quiet'
    BY <1>1, <2>1, <2>2, InCallFrame DEF program
  <2>4. TypeOK'
    BY <1>1, <2>2, <2>3 DEF IInv, TypeOK, PcValues, definition, program
  <2>5. (~racing => Loading)'
    BY <1>1, <1>2, <2>1, <2>2, <2>3 DEF IInv, Loading, program, InFunction
  <2>6. QED
    BY <2>3, <2>4, <2>5 DEF IInv
<1>3. CASE ~niffler_initialized
  <2>1. PICK v \in PcValues : v = At("on_load", 1) /\ v.at = "on_load" /\ v.i = 1
    BY AtTypes, PlaceBounds DEF Stages
  <2>2. /\ pc' = [pc EXCEPT ![c] = v]
        /\ racing' = (racing \/ \E d \in Callers : pc[d].at = "on_load")
    BY <1>3, <2>1 DEF CheckInitialized, Go
  <2>3. /\ pc' \in [Callers -> PcValues]
        /\ pc'[c] = v /\ \A d \in Callers \ {c} : pc'[d] = pc[d]
        /\ OnLoadIndex' /\ Collected' /\ OwnCase' /\ Quiet'
    <3>1. 1 \in 1..(NumGlobals + 1)
      BY NumGlobalsAssumption
    <3>2. QED
      BY <1>1, <2>1, <2>2, <3>1, InCallFrame DEF program
  <2>4. TypeOK'
    BY <1>1, <2>2, <2>3 DEF IInv, TypeOK, PcValues, definition, program
  <2>5. ASSUME ~racing' PROVE Loading'
    <3>1. ~racing /\ \A d \in Callers : pc[d].at # "on_load"
      BY <2>2, <2>5
    <3>2. \A g \in Globals : ~(g < 1)
      BY NumGlobalsAssumption DEF Globals
    <3>3. QED
      BY <1>1, <1>3, <2>1, <2>3, <3>1, <3>2 DEF IInv, Loading, program, InFunction
  <2>6. QED
    BY <2>3, <2>4, <2>5 DEF IInv
<1>4. QED
  BY <1>2, <1>3

(* on_load() assigns the next global.                                      *)
LEMMA OnLoadStepStep ==
  ASSUME IInv, NEW c \in Callers, OnLoadStep(c)
  PROVE  IInv'
<1>1. PICK i \in Globals : i = pc[c].i
  BY DEF OnLoadStep, IInv, OnLoadIndex, Globals
<1>2. /\ pc[c].at = "on_load" /\ InProgram(c) /\ globals' = [globals EXCEPT ![i] = TRUE]
      /\ UNCHANGED <<module, definition, cases, niffler_initialized, scratch, fun, outcome, calls, history>>
  BY <1>1 DEF OnLoadStep, Assign, InProgram
<1>3. PICK v \in PcValues :
        v = At("on_load", i + 1) /\ v.at = "on_load" /\ v.i = i + 1 /\ v.i \in 1..(NumGlobals + 1)
  BY <1>1, AtTypes, PlaceBounds, NumGlobalsAssumption DEF Stages, Globals
<1>4. pc' = [pc EXCEPT ![c] = v]
  BY <1>1, <1>3 DEF OnLoadStep, Go
<1>5. /\ pc' \in [Callers -> PcValues]
      /\ pc'[c] = v /\ \A d \in Callers \ {c} : pc'[d] = pc[d]
      /\ OnLoadIndex' /\ Collected' /\ OwnCase' /\ Quiet'
  BY <1>2, <1>3, <1>4, InCallFrame DEF history
<1>6. globals' \in [Globals -> BOOLEAN] /\ globals'[i]
      /\ \A g \in Globals \ {i} : globals'[g] = globals[g]
  BY <1>2 DEF IInv, TypeOK
<1>7. TypeOK'
  BY <1>2, <1>5, <1>6 DEF IInv, TypeOK, PcValues, definition, history
<1>8. ASSUME ~racing PROVE Loading'
  <2>1. Loading /\ ~niffler_initialized /\ \A d \in Callers \ {c} : pc[d].at # "on_load"
    BY <1>2, <1>8 DEF IInv, Loading
  <2>2. \A g \in Globals : g < i + 1 => g < i \/ g = i
    BY NumGlobalsAssumption DEF Globals
  <2>3. \A g \in Globals : g < i + 1 => globals'[g]
    BY <1>1, <1>2, <1>6, <2>1, <2>2 DEF Loading
  <2>4. QED
    BY <1>2, <1>3, <1>5, <2>1, <2>3 DEF Loading, InFunction, history
<1>9. QED
  BY <1>2, <1>5, <1>7, <1>8 DEF IInv, history

(* on_load() finds a global NULL: the call fails and the flag stays 0.     *)
LEMMA OnLoadErrorStep ==
  ASSUME IInv, NEW c \in Callers, OnLoadError(c)
  PROVE  IInv'
<1>1. PICK i \in Globals : i = pc[c].i
  BY DEF OnLoadError, IInv, OnLoadIndex, Globals
<1>2. /\ pc[c].at = "on_load" /\ InProgram(c) /\ globals' = [globals EXCEPT ![i] = FALSE]
      /\ pc' = [pc EXCEPT ![c] = Idle]
      /\ outcome' = [outcome EXCEPT ![c] = [outcome[c] EXCEPT !.kind = "not_loaded"]]
      /\ UNCHANGED <<module, definition, cases, niffler_initialized, scratch, fun, calls, history>>
  BY <1>1 DEF OnLoadError, Assign, InProgram
<1>3. [outcome[c] EXCEPT !.kind = "not_loaded"] \in Outcomes
  BY DEF IInv, TypeOK, Outcomes
<1>4. /\ pc'[c].at = "idle" /\ outcome'[c].kind = "not_loaded"
      /\ \A d \in Callers \ {c} : pc'[d] = pc[d] /\ outcome'[d] = outcome[d]
      /\ \A g \in Globals \ {i} : globals'[g] = globals[g]
  BY <1>2, IdleTypes DEF IInv, TypeOK, Outcomes
<1>5. TypeOK'
  <2>1. /\ pc' \in [Callers -> PcValues] /\ outcome' \in [Callers -> Outcomes]
        /\ globals' \in [Globals -> BOOLEAN]
    BY <1>2, <1>3, IdleTypes DEF IInv, TypeOK, PcValues
  <2>2. QED
    BY <1>2, <2>1 DEF IInv, TypeOK, PcValues, definition, history
<1>6. OnLoadIndex' /\ Collected' /\ OwnCase' /\ Quiet'
  BY <1>2, <1>4 DEF IInv, OnLoadIndex, Collected, OwnCase, Quiet, InProgram, definition, history
<1>7. ASSUME ~racing PROVE Loading'
  BY <1>2, <1>4, <1>7 DEF IInv, Loading, InFunction, history
<1>8. QED
  BY <1>2, <1>5, <1>6, <1>7 DEF IInv, history

(* on_load() succeeded: the flag is set with every global assigned.        *)
LEMMA SetInitializedStep ==
  ASSUME IInv, NEW c \in Callers, SetInitialized(c)
  PROVE  IInv'
<1>1. /\ pc[c].at = "on_load" /\ InProgram(c) /\ pc[c].i > NumGlobals
      /\ niffler_initialized' = TRUE /\ loads' = loads + 1
      /\ UNCHANGED <<module, definition, cases, globals, scratch, fun, outcome, calls, racing, disturbed>>
  BY DEF SetInitialized, InProgram
<1>2. PICK v \in PcValues : v = At("switch", 0) /\ v.at = "switch"
  BY AtTypes, PlaceBounds DEF Stages
<1>3. pc' = [pc EXCEPT ![c] = v]
  BY <1>2 DEF SetInitialized, Go
<1>4. /\ pc' \in [Callers -> PcValues]
      /\ pc'[c] = v /\ \A d \in Callers \ {c} : pc'[d] = pc[d]
      /\ OnLoadIndex' /\ Collected' /\ OwnCase' /\ Quiet'
  BY <1>1, <1>2, <1>3, InCallFrame
<1>5. TypeOK'
  BY <1>1, <1>4 DEF IInv, TypeOK, PcValues, definition
<1>6. ASSUME ~racing PROVE Loading'
  <2>1. Loading /\ ~niffler_initialized /\ \A d \in Callers \ {c} : pc[d].at # "on_load"
    BY <1>1, <1>6 DEF IInv, Loading
  <2>2. \A g \in Globals : globals[g]
    <3>1. \A g \in Globals : g < pc[c].i
      BY <1>1, NumGlobalsAssumption DEF Globals, IInv, OnLoadIndex
    <3>2. QED
      BY <1>1, <2>1, <3>1 DEF Loading
  <2>3. QED
    BY <1>1, <1>2, <1>4, <2>1, <2>2 DEF Loading, InFunction
<1>7. QED
  BY <1>1, <1>4, <1>5, <1>6 DEF IInv

(* The case of the function starts with its input copied to the global.    *)
LEMMA SwitchStep ==
  ASSUME IInv, NEW c \in Callers, Switch(c)
  PROVE  IInv'
<1>1. /\ pc[c].at = "switch" /\ InProgram(c) /\ scratch' = c
      /\ UNCHANGED <<module, definition, cases, niffler_initialized, globals, fun, outcome, calls, history>>
  BY DEF Switch, InProgram
<1>2. idx[fun[c]] \in 0..(Len(Definitions) - 1)
  BY DEF IInv, TypeOK
<1>3. PICK v \in PcValues : v = At("compute", idx[fun[c]]) /\ v.at = "compute" /\ v.i = idx[fun[c]]
  BY <1>2, AtTypes, PlaceBounds DEF Stages
<1>4. pc' = [pc EXCEPT ![c] = v]
  BY <1>3 DEF Switch, Go
<1>5. /\ pc' \in [Callers -> PcValues]
      /\ pc'[c] = v /\ \A d \in Callers \ {c} : pc'[d] = pc[d]
  BY <1>4 DEF IInv, TypeOK, PcValues
<1>6. TypeOK'
  BY <1>1, <1>5 DEF IInv, TypeOK, PcValues, definition, history
<1>7. OnLoadIndex' /\ Collected' /\ OwnCase'
  BY <1>1, <1>3, <1>5 DEF IInv, OnLoadIndex, Collected, OwnCase, InProgram, definition
<1>8. Quiet'
  <2>1. \A d \in Callers \ {c} : pc[d].at = "compute" => d \in disturbed
    BY <1>1 DEF IInv, Quiet, InProgram
  <2>2. QED
    BY <1>1, <1>3, <1>5, <2>1 DEF IInv, Quiet, InProgram, history
<1>9. ASSUME ~racing PROVE Loading'
  BY <1>1, <1>3, <1>5, <1>9 DEF IInv, Loading, InFunction, history
<1>10. QED
  BY <1>1, <1>6, <1>7, <1>8, <1>9 DEF IInv, history

(* The output is that of the function whose index was compiled in.         *)
LEMMA ComputeStep ==
  ASSUME IInv, NEW c \in Callers, Compute(c)
  PROVE  IInv'
<1>1. /\ pc[c].at = "compute" /\ InProgram(c) /\ pc' = [pc EXCEPT ![c] = Idle]
      /\ UNCHANGED <<module, definition, program, fun, calls, history>>
  BY DEF Compute, InProgram
<1>2. cases[pc[c].i + 1] = fun[c] /\ fun[c] \in Functions
  <2>1. PICK k \in 1..Len(Definitions) : fun[c] = Definitions[k]
    BY DefinitionTypes DEF IInv, TypeOK
  <2>2. Len(niffler_nifs) = Len(Definitions) /\ cases = niffler_nifs
    BY <1>1 DEF IInv, Collected, TypeOK
  <2>3. pc[c].i = k - 1 /\ cases[k] = Definitions[k]
    BY <1>1, <2>1, <2>2 DEF IInv, Collected, OwnCase
  <2>4. (k - 1) + 1 = k
    OBVIOUS
  <2>5. QED
    BY <2>1, <2>3, <2>4 DEF IInv, TypeOK
<1>3. PICK o \in Outcomes :
        o = [kind |-> "ok", fun |-> cases[pc[c].i + 1], input |-> scratch] /\ o.fun = fun[c]
        /\ o.input = scratch
  <2>1. [kind |-> "ok", fun |-> fun[c], input |-> scratch] \in Outcomes
    BY <1>2 DEF Outcomes, IInv, TypeOK
  <2>2. QED
    BY <1>2, <2>1
<1>4. outcome' = [outcome EXCEPT ![c] = o]
  BY <1>3 DEF Compute
<1>5. /\ pc'[c].at = "idle" /\ outcome'[c] = o
      /\ \A d \in Callers \ {c} : pc'[d] = pc[d] /\ outcome'[d] = outcome[d]
  BY <1>1, <1>4, IdleTypes DEF IInv, TypeOK
<1>6. TypeOK'
  <2>1. pc' \in [Callers -> PcValues] /\ outcome' \in [Callers -> Outcomes]
    BY <1>1, <1>4, IdleTypes DEF IInv, TypeOK, PcValues
  <2>2. QED
    BY <1>1, <2>1 DEF IInv, TypeOK, PcValues, definition, program, history
<1>7. OnLoadIndex' /\ Collected' /\ OwnCase' /\ Quiet'
  BY <1>1, <1>3, <1>5 DEF IInv, OnLoadIndex, Collected, OwnCase, Quiet, InProgram, definition,
     program, history
<1>8. ASSUME ~racing PROVE Loading'
  BY <1>1, <1>5, <1>8 DEF IInv, Loading, InFunction, program, history
<1>9. QED
  BY <1>1, <1>6, <1>7, <1>8 DEF IInv, history

-----------------------------------------------------------------------------
(* Every step of the module and of its callers keeps the invariant.        *)
LEMMA NextIInv == IInv /\ [Next]_vars => IInv'
<1> SUFFICES ASSUME IInv, [Next]_vars PROVE IInv'
  OBVIOUS
<1>1. CASE UNCHANGED vars
  BY <1>1 DEF vars, definition, program, history, IInv, TypeOK, OnLoadIndex, Collected, OwnCase,
     Quiet, Loading, InProgram, InFunction
<1>2. ASSUME NEW f \in Functions, DefineNif(f) PROVE IInv'
  BY <1>2, DefineNifStep
<1>3. CASE PreCompile \/ PreCompileRaises
  BY <1>3, PreCompileStep
<1>4. ASSUME NEW c \in Callers, NEW f \in Functions, Call(c, f) PROVE IInv'
  BY <1>4, CallStep
<1>5. ASSUME NEW c \in Callers, InCall(c) PROVE IInv'
  BY <1>5, CheckInitializedStep, OnLoadStepStep, OnLoadErrorStep, SetInitializedStep, SwitchStep,
     ComputeStep DEF InCall
<1>6. QED
  BY <1>1, <1>2, <1>3, <1>4, <1>5 DEF Next

(* What a library module keeps up, in one invariant.                       *)
THEOREM Invariance == Spec => []IInv
  BY InitIInv, NextIInv, PTL DEF Spec

(* The state of the module and its callers has its types.                  *)
THEOREM TypeCorrect == Spec => []TypeOK
<1>1. IInv => TypeOK
  BY DEF IInv
<1>2. QED
  BY <1>1, Invariance, PTL

(* on_load() has succeeded before any function starts, and ran to its end  *)
(* once, for any functions, globals and callers, unless two of its         *)
(* fragments raced.                                                        *)
THEOREM OnLoadComesFirst == Spec => []LoadedBeforeUse
<1>1. IInv => LoadedBeforeUse
  BY DEF IInv, Loading, LoadedBeforeUse
<1>2. QED
  BY <1>1, Invariance, PTL

(* A call returns the result of its own function, and, if no other call    *)
(* overlapped it, for its own input.                                       *)
THEOREM CallsGetTheirFunction == Spec => []QuietCallsOwnResult
<1>1. IInv => QuietCallsOwnResult
  BY DEF IInv, TypeOK, OwnCase, Quiet, QuietCallsOwnResult
<1>2. QED
  BY <1>1, Invariance, PTL
=============================================================================
