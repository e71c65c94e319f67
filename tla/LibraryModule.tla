---------------------------- MODULE LibraryModule ---------------------------
(***************************************************************************)
(* A module that uses Niffler.Library.  Its defnif functions are collected *)
(* while the module is compiled, put into one C program when it is loaded, *)
(* and told apart at a call by their index.  The C program runs the        *)
(* on_load() fragment before its first function, guarded by a static flag. *)
(* The variables of header() belong to the program, and so do all races    *)
(* on them: no lock is taken anywhere.                                     *)
(*                                                                         *)
(* The on_load() fragment stands for the documented one: it assigns one    *)
(* library global after the other (dlopen, dlsym ...) and returns an error *)
(* as soon as one of them is NULL.  A function stands for the documented   *)
(* mul: it copies its input to a global (mpz_set_si(ma, $a)), and computes *)
(* its output from there.                                                  *)
(***************************************************************************)
EXTENDS Naturals, Sequences, SequencesExt

CONSTANTS
  Callers,     \* BEAM processes; also the input each passes
  NoInput,
  Definitions, \* the functions of the module, in the order of their defnif
  NumGlobals,  \* globals on_load() assigns
  MaxCalls     \* bound: calls of one caller

ASSUME DefinitionsAssumption ==
  Definitions \in Seq(ToSet(Definitions)) /\ IsInjective(Definitions) /\ Definitions # <<>>
ASSUME NumGlobalsAssumption == NumGlobals \in Nat \ {0}
ASSUME MaxCallsAssumption == MaxCalls \in Nat
ASSUME NoInputAssumption == NoInput \notin Callers

Functions == ToSet(Definitions)
Globals == 1..NumGlobals

VARIABLES
  module,        \* what became of the Elixir module
  niffler_nifs,  \* the attribute: functions collected so far
  idx,           \* idx[f]: the @idx compiled into f
  cases,         \* the case bodies of the program's switch, <<>>: no program
  niffler_initialized,  \* the static flag of the program
  globals,       \* globals[g]: the header() variable is not NULL
  scratch,       \* the input last copied into the program's variable
  pc,            \* where each caller is
  fun,           \* fun[c]: the function it called last
  outcome,       \* outcome[c]: what that call returned
  calls,         \* calls[c]
  loads,         \* on_load() fragments that ran to the end (history)
  racing,        \* two on_load() fragments ever ran at once (history)
  disturbed      \* callers whose call overlapped another one (history)

definition == <<niffler_nifs, idx>>
program == <<cases, niffler_initialized, globals, scratch>>
history == <<loads, racing, disturbed>>
vars == <<module, definition, program, pc, fun, outcome, calls, history>>

At(stage, i) == [at |-> stage, i |-> i]
Idle == At("idle", 0)
Stages == {"idle", "enter", "check", "on_load", "switch", "compute"}
NoOutcome == [kind |-> "none", fun |-> Definitions[1], input |-> NoInput]
Outcomes == [kind : {"none", "ok", "not_loaded"}, fun : Functions, input : Callers \cup {NoInput}]

InProgram(c) == pc[c].at # "idle"
Go(c, stage, i) == pc' = [pc EXCEPT ![c] = At(stage, i)]

Init ==
  /\ module = "compiling"
  /\ niffler_nifs = <<>>
  /\ idx = [f \in Functions |-> 0]
  /\ cases = <<>>
  /\ niffler_initialized = FALSE
  /\ globals = [g \in Globals |-> FALSE]
  /\ scratch = NoInput
  /\ pc = [c \in Callers |-> Idle]
  /\ fun = [c \in Callers |-> Definitions[1]]
  /\ outcome = [c \in Callers |-> NoOutcome]
  /\ calls = [c \in Callers |-> 0]
  /\ loads = 0 /\ racing = FALSE /\ disturbed = {}

(***************************************************************************)
(* Compiling and loading the Elixir module                                 *)
(***************************************************************************)

(* defnif: @idx length(nifs), then nifs ++ [...].                          *)
CollectInFront(f) == <<f>> \o niffler_nifs
Collect(f) == Append(niffler_nifs, f)

IndexAfterCollect == Len(niffler_nifs) + 1
Index == Len(niffler_nifs)

DefineNif(f) ==
  /\ module = "compiling" /\ Len(niffler_nifs) < Len(Definitions)
  /\ f = Definitions[Len(niffler_nifs) + 1]
  /\ idx' = [idx EXCEPT ![f] = Index]
  /\ niffler_nifs' = Collect(f)
  /\ UNCHANGED <<module, program, pc, fun, outcome, calls, history>>

(* @on_load :pre_compile: all functions become cases of one program, which *)
(* goes to persistent_term.                                                *)
PreCompile ==
  /\ module = "compiling" /\ Len(niffler_nifs) = Len(Definitions)
  /\ cases' = niffler_nifs
  /\ module' = "loaded"
  /\ UNCHANGED <<definition, niffler_initialized, globals, scratch, pc, fun, outcome, calls, history>>

(* Niffler.compile! raises in on_load: the module is not loaded.           *)
PreCompileRaises ==
  /\ module = "compiling" /\ Len(niffler_nifs) = Len(Definitions)
  /\ module' = "not_loaded"
  /\ UNCHANGED <<definition, program, pc, fun, outcome, calls, history>>

(***************************************************************************)
(* A call: persistent_term.get(...) |> Niffler.run(@idx, [...])            *)
(***************************************************************************)

Others(c) == {d \in Callers \ {c} : InProgram(d)}

Call(c, f) ==
  /\ module = "loaded" /\ pc[c] = Idle /\ calls[c] < MaxCalls
  /\ Go(c, "enter", 0)
  /\ fun' = [fun EXCEPT ![c] = f]
  /\ outcome' = [outcome EXCEPT ![c] = NoOutcome]
  /\ calls' = [calls EXCEPT ![c] = @ + 1]
  /\ disturbed' = IF Others(c) = {} THEN disturbed \ {c} ELSE disturbed \cup Others(c) \cup {c}
  /\ UNCHANGED <<module, definition, program, loads, racing>>

(* if (!niffler_initialized)                                               *)
InitializedUnchecked(c) ==
  /\ pc[c].at = "enter"
  /\ Go(c, "switch", 0)
  /\ UNCHANGED <<module, definition, program, fun, outcome, calls, history>>

CheckInitialized(c) ==
  /\ pc[c].at = "enter"
  /\ IF niffler_initialized
     THEN Go(c, "switch", 0) /\ UNCHANGED racing
     ELSE /\ Go(c, "on_load", 1)
          /\ racing' = (racing \/ \E d \in Callers : pc[d].at = "on_load")
  /\ UNCHANGED <<module, definition, program, fun, outcome, calls, loads, disturbed>>

Assign(c, ok) == globals' = [globals EXCEPT ![pc[c].i] = ok]

(* One step of the fragment: handle = dlopen(...), pointer = dlsym(...).   *)
OnLoadStep(c) ==
  /\ pc[c].at = "on_load" /\ pc[c].i <= NumGlobals
  /\ Assign(c, TRUE)
  /\ Go(c, "on_load", pc[c].i + 1)
  /\ UNCHANGED <<module, definition, cases, niffler_initialized, scratch, fun, outcome, calls, history>>

(* ... and NULL: return "could not load ...", the flag stays 0.            *)
OnLoadErrorIgnored(c) ==
  /\ pc[c].at = "on_load" /\ pc[c].i <= NumGlobals
  /\ Assign(c, FALSE)
  /\ Go(c, "on_load", pc[c].i + 1)
  /\ UNCHANGED <<module, definition, cases, niffler_initialized, scratch, fun, outcome, calls, history>>

OnLoadError(c) ==
  /\ pc[c].at = "on_load" /\ pc[c].i <= NumGlobals
  /\ Assign(c, FALSE)
  /\ outcome' = [outcome EXCEPT ![c].kind = "not_loaded"]
  /\ pc' = [pc EXCEPT ![c] = Idle]
  /\ UNCHANGED <<module, definition, cases, niffler_initialized, scratch, fun, calls, history>>

(* niffler_initialized = 1                                                 *)
SetInitialized(c) ==
  /\ pc[c].at = "on_load" /\ pc[c].i > NumGlobals
  /\ niffler_initialized' = TRUE
  /\ loads' = loads + 1
  /\ Go(c, "switch", 0)
  /\ UNCHANGED <<module, definition, cases, globals, scratch, fun, outcome, calls, racing, disturbed>>

(* switch (niffler_env->method): the case of this index starts.            *)
Switch(c) ==
  /\ pc[c].at = "switch"
  /\ Go(c, "compute", idx[fun[c]])
  /\ scratch' = c
  /\ UNCHANGED <<module, definition, cases, niffler_initialized, globals, fun, outcome, calls, history>>

(* The end of the case, END_RUN: the output is read from the global.       *)
Compute(c) ==
  /\ pc[c].at = "compute"
  /\ outcome' = [outcome EXCEPT ![c] =
       [kind |-> "ok", fun |-> cases[pc[c].i + 1], input |-> scratch]]
  /\ pc' = [pc EXCEPT ![c] = Idle]
  /\ UNCHANGED <<module, definition, program, fun, calls, history>>

InCall(c) ==
  \/ CheckInitialized(c) \/ OnLoadStep(c) \/ OnLoadError(c) \/ SetInitialized(c)
  \/ Switch(c) \/ Compute(c)

Next ==
  \/ \E f \in Functions : DefineNif(f)
  \/ PreCompile \/ PreCompileRaises
  \/ \E c \in Callers : InCall(c) \/ \E f \in Functions : Call(c, f)

Spec == Init /\ [][Next]_vars

(***************************************************************************)
(* Properties                                                              *)
(***************************************************************************)

TypeOK ==
  /\ module \in {"compiling", "loaded", "not_loaded"}
  /\ niffler_nifs \in Seq(Functions)
  /\ idx \in [Functions -> 0..(Len(Definitions) - 1)]
  /\ cases \in Seq(Functions)
  /\ niffler_initialized \in BOOLEAN
  /\ globals \in [Globals -> BOOLEAN]
  /\ scratch \in Callers \cup {NoInput}
  /\ pc \in [Callers -> [at : Stages, i : 0..(NumGlobals + Len(Definitions))]]
  /\ fun \in [Callers -> Functions]
  /\ outcome \in [Callers -> Outcomes]
  /\ calls \in [Callers -> 0..MaxCalls]
  /\ loads \in Nat /\ racing \in BOOLEAN /\ disturbed \subseteq Callers

InFunction(c) == pc[c].at \in {"switch", "compute"}

(* No function starts before on_load() has succeeded, whoever ran it and   *)
(* however often it failed before: each finds every library global         *)
(* assigned, and the fragment that succeeded is the last one; unless two   *)
(* on_load() fragments have run at once (then both can reach their end,    *)
(* and the later one can fail and clear a global under the functions'      *)
(* feet).                                                                  *)
LoadedBeforeUse ==
  ~racing =>
    /\ loads <= 1
    /\ niffler_initialized => \A g \in Globals : globals[g]
    /\ \A c \in Callers : InFunction(c) => niffler_initialized

(* A call that overlapped no other returns the output of its own function  *)
(* for its own input: the index compiled into it selects its case, and     *)
(* nothing earlier calls left in the globals shows.                        *)
QuietCallsOwnResult ==
  \A c \in Callers :
    outcome[c].kind = "ok" =>
      /\ outcome[c].fun = fun[c]
      /\ c \notin disturbed => outcome[c].input = c
=============================================================================
