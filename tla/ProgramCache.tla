---------------------------- MODULE ProgramCache ----------------------------
(***************************************************************************)
(* The functions Niffler.defnif/4 generates.  The first call compiles the  *)
(* C source and stores the program in persistent_term under the module and *)
(* the function name; later calls find it there.  Nothing makes lookup,    *)
(* compilation and store one step, so first calls can race.                *)
(*                                                                         *)
(* The C source stands for the stateful counter of the documentation: a    *)
(* static variable of the program, read at the start of a run and stored   *)
(* back, plus one, at its end.  Counting stops at MaxCount.                *)
(***************************************************************************)
EXTENDS Naturals, FiniteSets

CONSTANTS
  Callers,    \* BEAM processes
  Functions,  \* the name/arity pairs that one module defines with defnif
  NameOf,     \* NameOf[f]: the name of f, without its arity
  Programs,   \* handles of compiled programs
  NoProgram,  \* nil
  MaxCount    \* bound: where the counters stop

ASSUME FunctionsAssumption == Functions # {}
ASSUME NoProgramAssumption == NoProgram \notin Programs
ASSUME NameOfAssumption == DOMAIN NameOf = Functions
ASSUME MaxCountAssumption == MaxCount \in Nat

Names == {NameOf[f] : f \in Functions}
Sum1(n) == IF n < MaxCount THEN n + 1 ELSE MaxCount

VARIABLES
  pc,          \* where each caller is
  fun,         \* fun[c]: the function it called last
  prog,        \* prog[c]: the program it holds
  cache,       \* cache[n]: persistent_term at {module, n}
  source,      \* source[q]: the function whose source q was compiled from
  counter,     \* counter[q]: the static variable of q
  seen,        \* seen[c]: what c's run has read from it
  completed,   \* completed[f]: runs of f that have returned (history)
  overlapped   \* two calls were ever under way at once (history)

vars == <<pc, fun, prog, cache, source, counter, seen, completed, overlapped>>
history == <<completed, overlapped>>

Stages == {"idle", "get", "compile", "put", "run", "running"}

Init ==
  /\ pc = [c \in Callers |-> "idle"]
  /\ fun \in [Callers -> Functions]
  /\ \A c, d \in Callers : fun[c] = fun[d]
  /\ prog = [c \in Callers |-> NoProgram]
  /\ cache = [n \in Names |-> NoProgram]
  /\ source = [q \in Programs |-> CHOOSE f \in Functions : TRUE]
  /\ counter = [q \in Programs |-> 0]
  /\ seen = [c \in Callers |-> 0]
  /\ completed = [f \in Functions |-> 0]
  /\ overlapped = FALSE

(* key = {@niffler_module, unquote(name)}                                  *)
KeySharedByModule(f) == NameOf[CHOOSE g \in Functions : TRUE]
Key(f) == NameOf[f]

(* A program is reclaimed when neither the cache nor a caller refers to it *)
(* (NifProgram); its handle then serves the next compilation.              *)
Unreferenced(q) == (\A n \in Names : cache[n] # q) /\ (\A c \in Callers : prog[c] # q)

Call(c, f) ==
  /\ pc[c] = "idle"
  /\ pc' = [pc EXCEPT ![c] = "get"]
  /\ fun' = [fun EXCEPT ![c] = f]
  /\ overlapped' = (overlapped \/ \E d \in Callers : pc[d] # "idle")
  /\ UNCHANGED <<prog, cache, source, counter, seen, completed>>

(* :persistent_term.get(key, nil)                                          *)
GetNeverHits(c) ==
  /\ pc[c] = "get"
  /\ pc' = [pc EXCEPT ![c] = "compile"]
  /\ UNCHANGED <<fun, prog, cache, source, counter, seen, history>>

Get(c) ==
  /\ pc[c] = "get"
  /\ prog' = [prog EXCEPT ![c] = cache[Key(fun[c])]]
  /\ pc' = [pc EXCEPT ![c] = IF cache[Key(fun[c])] = NoProgram THEN "compile" ELSE "run"]
  /\ UNCHANGED <<fun, cache, source, counter, seen, history>>

(* Niffler.compile!(source, inputs, outputs)                               *)
Compile(c, q) ==
  /\ pc[c] = "compile" /\ Unreferenced(q)
  /\ prog' = [prog EXCEPT ![c] = q]
  /\ source' = [source EXCEPT ![q] = fun[c]]
  /\ counter' = [counter EXCEPT ![q] = 0]
  /\ pc' = [pc EXCEPT ![c] = "put"]
  /\ UNCHANGED <<fun, cache, seen, history>>

(* {:error, message} does not match {:ok, prog}: the call raises and the   *)
(* cache stays empty.                                                      *)
CompileErrorKept(c) ==
  /\ pc[c] = "compile"
  /\ pc' = [pc EXCEPT ![c] = "put"]
  /\ UNCHANGED <<fun, prog, cache, source, counter, seen, history>>

CompileRaises(c) ==
  /\ pc[c] = "compile"
  /\ pc' = [pc EXCEPT ![c] = "idle"]
  /\ UNCHANGED <<fun, prog, cache, source, counter, seen, history>>

(* :persistent_term.put(key, prog), over what another caller has put.      *)
PutForgotten(c) ==
  /\ pc[c] = "put"
  /\ pc' = [pc EXCEPT ![c] = "run"]
  /\ UNCHANGED <<fun, prog, cache, source, counter, seen, history>>

Put(c) ==
  /\ pc[c] = "put"
  /\ cache' = [cache EXCEPT ![Key(fun[c])] = prog[c]]
  /\ pc' = [pc EXCEPT ![c] = "run"]
  /\ UNCHANGED <<fun, prog, source, counter, seen, history>>

(* |> Niffler.run(args)                                                    *)
RunBegin(c) ==
  /\ pc[c] = "run"
  /\ seen' = [seen EXCEPT ![c] = counter[prog[c]]]
  /\ pc' = [pc EXCEPT ![c] = "running"]
  /\ UNCHANGED <<fun, prog, cache, source, counter, history>>

RunEnd(c) ==
  /\ pc[c] = "running"
  /\ counter' = [counter EXCEPT ![prog[c]] = Sum1(seen[c])]
  /\ seen' = [seen EXCEPT ![c] = 0]
  /\ prog' = [prog EXCEPT ![c] = NoProgram]
  /\ completed' = [completed EXCEPT ![fun[c]] = Sum1(@)]
  /\ pc' = [pc EXCEPT ![c] = "idle"]
  /\ UNCHANGED <<fun, cache, source, overlapped>>

Step(c) ==
  \/ Get(c) \/ Put(c) \/ RunBegin(c) \/ RunEnd(c) \/ CompileRaises(c)
  \/ \E q \in Programs : Compile(c, q)

Next == \E c \in Callers : Step(c) \/ \E f \in Functions : Call(c, f)

Spec == Init /\ [][Next]_vars

(* A process that called goes on until the call returns or raises; the C   *)
(* function of the model ends.                                             *)
FairSpec == Spec /\ \A c \in Callers : WF_vars(Step(c))

(***************************************************************************)
(* Properties                                                              *)
(***************************************************************************)

TypeOK ==
  /\ pc \in [Callers -> Stages]
  /\ fun \in [Callers -> Functions]
  /\ prog \in [Callers -> Programs \cup {NoProgram}]
  /\ cache \in [Names -> Programs \cup {NoProgram}]
  /\ source \in [Programs -> Functions]
  /\ counter \in [Programs -> 0..MaxCount]
  /\ seen \in [Callers -> 0..MaxCount]
  /\ completed \in [Functions -> 0..MaxCount]
  /\ overlapped \in BOOLEAN
  /\ \A c \in Callers : pc[c] \in {"put", "run", "running"} => prog[c] \in Programs

Running(c, f) == pc[c] = "running" /\ fun[c] = f

(* The program a call of f runs was compiled from f's own C source and     *)
(* parameter lists, whatever other functions of the module are called.     *)
RunsOwnSource == \A c \in Callers, f \in Functions : Running(c, f) => source[prog[c]] = f

(* As long as no two calls overlap, the static counter counts the calls of *)
(* its function: one instance serves them all and no count is lost (the    *)
(* "test counter" of test/niffler_test.exs, for every order of calls).     *)
SoloCallsCount ==
  ~overlapped => \A f \in Functions :
    completed[f] # 0 => /\ cache[Key(f)] # NoProgram
                        /\ counter[cache[Key(f)]] = completed[f]

(* Racing first calls may leave several instances of one function, but not *)
(* for good: from some point on every call runs the cached one.            *)
OneInstanceInTheEnd ==
  <>[](\A c \in Callers, f \in Functions : Running(c, f) => prog[c] = cache[Key(f)])
=============================================================================
