------------------------------ MODULE TccState ------------------------------
(***************************************************************************)
(* How concurrent compilations share libtcc.  The parser and the code      *)
(* generator live in global variables; tcc_compile() enters them through   *)
(* tcc_enter_state(), which takes a semaphore that the first caller        *)
(* creates, and points the global tcc_state at its own TCCState.  Errors   *)
(* are reported through the same global: error1() finds out from it whose  *)
(* error it is, and jumps to the handler that state holds.                 *)
(*                                                                         *)
(* Each scheduler thread compiles and relocates one program at a time, so  *)
(* a thread also names its current TCCState.                               *)
(***************************************************************************)
EXTENDS Naturals, FiniteSets

CONSTANTS
  Threads,      \* scheduler threads inside nif_compile
  NoState,      \* the NULL TCCState
  MaxCompiles,  \* bound: MaxCompiles[t] compilations of thread t
  FirstAlone    \* the first compilation has created the semaphore before
                \* another one starts

ASSUME NoStateAssumption == NoState \notin Threads
ASSUME FirstAloneAssumption == FirstAlone \in BOOLEAN
ASSUME MaxCompilesAssumption == MaxCompiles \in [Threads -> Nat]

VARIABLES
  pc,        \* where each thread is
  why,       \* why it entered the state: to compile, or for an error message
  tcc_sem_init, tcc_sem, tcc_state,   \* the globals of libtcc.c
  parser,    \* whose file the parser globals hold
  jmp,       \* jmp[t]: error_set_jmp_enabled
  nb_errors, \* nb_errors[t] > 0
  erred,     \* erred[t]: where t's own source or symbols were at fault
  outcome,   \* outcome[t]: what tcc_compile_string and tcc_relocate told t
  compiles,  \* compiles[t]: compilations started
  fault      \* why the emulator stopped, if it did

globals == <<tcc_sem_init, tcc_sem, tcc_state, parser>>
private == <<jmp, nb_errors, erred, outcome, compiles>>
vars == <<pc, why, globals, private, fault>>

EnterStages == {"wait_sem", "sem_init", "set_init", "sem_wait", "set_state"}
ParserStages == {"setjmp", "parse", "finish"}
ExitStages == {"clear", "post"}
OutsideStages == {"end_file", "add_symbols", "relocate"}
Stages == {"idle", "report"} \cup OutsideStages \cup EnterStages \cup ParserStages \cup ExitStages
Causes == {"compile", "end_file", "add_symbols", "relocate", "mprotect"}

Up == fault = "none"
Go(t, stage) == pc' = [pc EXCEPT ![t] = stage]

Init ==
  /\ pc = [t \in Threads |-> "idle"]
  /\ why = [t \in Threads |-> "compile"]
  /\ tcc_sem_init = FALSE /\ tcc_sem = 0
  /\ tcc_state = NoState /\ parser = NoState
  /\ jmp = [t \in Threads |-> FALSE]
  /\ nb_errors = [t \in Threads |-> FALSE]
  /\ erred = [t \in Threads |-> {}]
  /\ outcome = [t \in Threads |-> "none"]
  /\ compiles = [t \in Threads |-> 0]
  /\ fault = "none"

(* tcc_new() and tcc_compile_string().                                     *)
Begin(t) ==
  /\ Up /\ pc[t] = "idle" /\ compiles[t] < MaxCompiles[t]
  /\ FirstAlone => tcc_sem_init \/ \A u \in Threads : pc[u] = "idle"
  /\ compiles' = [compiles EXCEPT ![t] = @ + 1]
  /\ outcome' = [outcome EXCEPT ![t] = "none"]
  /\ erred' = [erred EXCEPT ![t] = {}]
  /\ nb_errors' = [nb_errors EXCEPT ![t] = FALSE]
  /\ why' = [why EXCEPT ![t] = "compile"]
  /\ Go(t, "wait_sem")
  /\ UNCHANGED <<globals, jmp, fault>>

(***************************************************************************)
(* tcc_enter_state(): wait_sem(), then tcc_state = s1                      *)
(***************************************************************************)

(* if (!tcc_sem_init) ...                                                  *)
WaitSem(t) ==
  /\ Up /\ pc[t] = "wait_sem"
  /\ Go(t, IF tcc_sem_init THEN "sem_wait" ELSE "sem_init")
  /\ UNCHANGED <<why, globals, private, fault>>

(* sem_init(&tcc_sem, 0, 1)                                                *)
SemInit(t) ==
  /\ Up /\ pc[t] = "sem_init"
  /\ tcc_sem' = 1
  /\ Go(t, "set_init")
  /\ UNCHANGED <<why, tcc_sem_init, tcc_state, parser, private, fault>>

SetInit(t) ==
  /\ Up /\ pc[t] = "set_init"
  /\ tcc_sem_init' = TRUE
  /\ Go(t, "sem_wait")
  /\ UNCHANGED <<why, tcc_sem, tcc_state, parser, private, fault>>

(* while (sem_wait(&tcc_sem) < 0 && errno == EINTR);                       *)
SemWaitInterrupted(t) ==
  /\ Up /\ pc[t] = "sem_wait"
  /\ Go(t, "set_state")
  /\ tcc_sem' = IF tcc_sem > 0 THEN tcc_sem - 1 ELSE 0
  /\ UNCHANGED <<why, tcc_sem_init, tcc_state, parser, private, fault>>

SemWait(t) ==
  /\ Up /\ pc[t] = "sem_wait" /\ tcc_sem > 0
  /\ tcc_sem' = tcc_sem - 1
  /\ Go(t, "set_state")
  /\ UNCHANGED <<why, tcc_sem_init, tcc_state, parser, private, fault>>

SetState(t) ==
  /\ Up /\ pc[t] = "set_state"
  /\ tcc_state' = t
  /\ Go(t, IF why[t] = "compile" THEN "setjmp" ELSE "report")
  /\ UNCHANGED <<why, tcc_sem_init, tcc_sem, parser, private, fault>>

(***************************************************************************)
(* tcc_compile()                                                           *)
(***************************************************************************)

(* setjmp, the error flags, tcc_open_bf ... tccgen_init                    *)
SetJmp(t) ==
  /\ Up /\ pc[t] = "setjmp"
  /\ jmp' = [jmp EXCEPT ![t] = TRUE]
  /\ nb_errors' = [nb_errors EXCEPT ![t] = FALSE]
  /\ parser' = t
  /\ Go(t, "parse")
  /\ UNCHANGED <<why, tcc_sem_init, tcc_sem, tcc_state, erred, outcome, compiles, fault>>

(* tccgen_compile() reaches the end of the source.                         *)
Parsed(t) ==
  /\ Up /\ pc[t] = "parse"
  /\ Go(t, "finish")
  /\ UNCHANGED <<why, globals, private, fault>>

(* error1() without a tcc_state prints and exits the process; with one     *)
(* that has no handler it leaves the state first.  A handler of another    *)
(* thread is jumped to all the same.                                       *)
JumpFault ==
  IF tcc_state = NoState \/ ~jmp[tcc_state] THEN "exit" ELSE "foreign_longjmp"

(* tcc_error_noabort(): the error is counted and parsing goes on.          *)
CountError(t) ==
  /\ Up /\ pc[t] = "parse"
  /\ erred' = [erred EXCEPT ![t] = @ \cup {"compile"}]
  /\ IF tcc_state = NoState
     THEN fault' = "exit" /\ UNCHANGED nb_errors
     ELSE nb_errors' = [nb_errors EXCEPT ![tcc_state] = TRUE] /\ UNCHANGED fault
  /\ UNCHANGED <<pc, why, globals, jmp, outcome, compiles>>

(* tcc_error(): counted, then longjmp to the end of tcc_compile().         *)
ParseErrorSkipsExit(t) ==
  /\ Up /\ pc[t] = "parse"
  /\ erred' = [erred EXCEPT ![t] = @ \cup {"compile"}]
  /\ nb_errors' = [nb_errors EXCEPT ![t] = TRUE]
  /\ jmp' = [jmp EXCEPT ![t] = FALSE]
  /\ Go(t, "end_file")
  /\ UNCHANGED <<why, globals, outcome, compiles, fault>>

ParseError(t) ==
  /\ Up /\ pc[t] = "parse"
  /\ erred' = [erred EXCEPT ![t] = @ \cup {"compile"}]
  /\ IF tcc_state = t /\ jmp[t]
     THEN /\ nb_errors' = [nb_errors EXCEPT ![t] = TRUE]
          /\ Go(t, "finish")
          /\ UNCHANGED fault
     ELSE /\ fault' = JumpFault
          /\ UNCHANGED <<pc, nb_errors>>
  /\ UNCHANGED <<why, globals, jmp, outcome, compiles>>

(* error_set_jmp_enabled = 0; tccgen_finish(); preprocess_end()            *)
FinishKeepsJmp(t) ==
  /\ Up /\ pc[t] = "finish"
  /\ parser' = NoState
  /\ Go(t, "clear")
  /\ UNCHANGED <<why, tcc_sem_init, tcc_sem, tcc_state, private, fault>>

Finish(t) ==
  /\ Up /\ pc[t] = "finish"
  /\ jmp' = [jmp EXCEPT ![t] = FALSE]
  /\ parser' = NoState
  /\ Go(t, "clear")
  /\ UNCHANGED <<why, tcc_sem_init, tcc_sem, tcc_state, nb_errors, erred, outcome, compiles, fault>>

(* tcc_exit_state(): tcc_state = NULL, then sem_post.                      *)
Clear(t) ==
  /\ Up /\ pc[t] = "clear"
  /\ tcc_state' = NoState
  /\ Go(t, "post")
  /\ UNCHANGED <<why, tcc_sem_init, tcc_sem, parser, private, fault>>

(* After an error message the caller goes on, but for a fatal one, which   *)
(* ends in exit(1): nothing outside tcc_compile() catches it.              *)
AfterPost(t) ==
  CASE why[t] = "compile"  -> "end_file"
    [] why[t] \in OutsideStages -> why[t]
    [] why[t] = "mprotect" -> "idle"

Post(t) ==
  /\ Up /\ pc[t] = "post"
  /\ tcc_sem' = tcc_sem + 1
  /\ Go(t, AfterPost(t))
  /\ nb_errors' = IF why[t] = "compile" THEN nb_errors ELSE [nb_errors EXCEPT ![t] = TRUE]
  /\ fault' = IF why[t] = "mprotect" THEN "exit" ELSE fault
  /\ UNCHANGED <<why, tcc_sem_init, tcc_state, parser, jmp, erred, outcome, compiles>>

(* error1() called outside tcc_compile(), after tcc_enter_state(): it      *)
(* leaves the state again before it prints, unless a handler is set.       *)
Report(t) ==
  /\ Up /\ pc[t] = "report"
  /\ IF tcc_state = t /\ ~jmp[t]
     THEN Go(t, "clear") /\ UNCHANGED fault
     ELSE fault' = JumpFault /\ UNCHANGED pc
  /\ UNCHANGED <<why, globals, private>>

(***************************************************************************)
(* Outside the state: tccelf_end_file(), tcc_add_symbol(), tcc_relocate()  *)
(***************************************************************************)

(* TCC_SET_STATE: tcc_error_noabort() in a file without USING_GLOBALS is   *)
(* preceded by tcc_enter_state(s1).  One error of each kind is reported.   *)
ErrorOutside(t, cause) ==
  /\ cause \notin erred[t]
  /\ why' = [why EXCEPT ![t] = cause]
  /\ erred' = [erred EXCEPT ![t] = @ \cup {cause}]
  /\ Go(t, "wait_sem")
  /\ UNCHANGED <<globals, jmp, nb_errors, outcome, compiles, fault>>

(* A symbol defined twice.                                                 *)
EndFileError(t) == Up /\ pc[t] = "end_file" /\ ErrorOutside(t, "end_file")

(* return s1->nb_errors != 0 ? -1 : 0;                                     *)
EndFileIgnoresErrors(t) ==
  /\ Up /\ pc[t] = "end_file"
  /\ Go(t, "add_symbols")
  /\ UNCHANGED <<why, globals, private, fault>>

EndFile(t) ==
  /\ Up /\ pc[t] = "end_file"
  /\ IF nb_errors[t]
     THEN outcome' = [outcome EXCEPT ![t] = "failed"] /\ Go(t, "idle")
     ELSE Go(t, "add_symbols") /\ UNCHANGED outcome
  /\ UNCHANGED <<why, globals, jmp, nb_errors, erred, compiles, fault>>

(* compile() adds the functions of symbols.def.  One that the program has  *)
(* defined itself is "defined twice", but tcc_add_symbol() returns 0 ...   *)
AddSymbolError(t) == Up /\ pc[t] = "add_symbols" /\ ErrorOutside(t, "add_symbols")

(* ... and tcc_relocate_ex() starts with nb_errors = 0.                    *)
AddSymbols(t) ==
  /\ Up /\ pc[t] = "add_symbols"
  /\ nb_errors' = [nb_errors EXCEPT ![t] = FALSE]
  /\ Go(t, "relocate")
  /\ UNCHANGED <<why, globals, jmp, erred, outcome, compiles, fault>>

(* An undefined symbol, or one the linker defines, too; or, once there is  *)
(* no such error, mprotect() failing, which is a tcc_error().              *)
RelocateError(t) == Up /\ pc[t] = "relocate" /\ ErrorOutside(t, "relocate")
ProtectError(t) ==
  Up /\ pc[t] = "relocate" /\ ~nb_errors[t] /\ ErrorOutside(t, "mprotect")

Relocated(t) ==
  /\ Up /\ pc[t] = "relocate"
  /\ outcome' = [outcome EXCEPT ![t] = IF nb_errors[t] THEN "failed" ELSE "ok"]
  /\ Go(t, "idle")
  /\ UNCHANGED <<why, globals, jmp, nb_errors, erred, compiles, fault>>

(* tcc_malloc() failing outside the state (while symbols are added, too):  *)
(* _tcc_error() without tcc_enter_state, so error1() takes the global      *)
(* state of whoever is compiling for its own.                              *)
MallocFails(t) ==
  /\ Up /\ pc[t] \in OutsideStages
  /\ fault' = IF JumpFault = "exit" THEN "exit" ELSE "malloc_longjmp"
  /\ UNCHANGED <<pc, why, globals, private>>

Enter(t) == WaitSem(t) \/ SemInit(t) \/ SetInit(t) \/ SemWait(t) \/ SetState(t)
InParser(t) == SetJmp(t) \/ Parsed(t) \/ CountError(t) \/ ParseError(t) \/ Finish(t)
Leave(t) == Clear(t) \/ Post(t) \/ Report(t)
Outside(t) == EndFileError(t) \/ EndFile(t) \/ AddSymbolError(t) \/ AddSymbols(t)
              \/ RelocateError(t) \/ ProtectError(t) \/ Relocated(t) \/ MallocFails(t)

Next == \E t \in Threads : Begin(t) \/ Enter(t) \/ InParser(t) \/ Leave(t) \/ Outside(t)

Spec == Init /\ [][Next]_vars

(* A thread inside nif_compile keeps running, and each source is finite:   *)
(* the parser reaches its end.                                             *)
FairSpec ==
  /\ Spec
  /\ \A t \in Threads :
       /\ WF_vars(Enter(t)) /\ WF_vars(SetJmp(t)) /\ WF_vars(Parsed(t)) /\ WF_vars(Finish(t))
       /\ WF_vars(Leave(t)) /\ WF_vars(EndFile(t)) /\ WF_vars(AddSymbols(t))
       /\ WF_vars(Relocated(t))

(***************************************************************************)
(* Properties                                                              *)
(***************************************************************************)

TypeOK ==
  /\ pc \in [Threads -> Stages] /\ why \in [Threads -> Causes]
  /\ tcc_sem_init \in BOOLEAN /\ tcc_sem \in {0, 1}
  /\ tcc_state \in Threads \cup {NoState} /\ parser \in Threads \cup {NoState}
  /\ jmp \in [Threads -> BOOLEAN] /\ nb_errors \in [Threads -> BOOLEAN]
  /\ erred \in [Threads -> SUBSET Causes] /\ outcome \in [Threads -> {"none", "ok", "failed"}]
  /\ compiles \in [Threads -> Nat] /\ \A t \in Threads : compiles[t] <= MaxCompiles[t]
  /\ fault \in {"none", "exit", "foreign_longjmp", "malloc_longjmp"}

(* The threads that have taken the semaphore and not yet posted it.        *)
Inside == {t \in Threads : pc[t] \in {"set_state", "report"} \cup ParserStages \cup ExitStages}

(* libtcc.c: "Other threads need to wait until we're done."  One thread at *)
(* a time is inside, error messages of link steps included, and while it   *)
(* parses the globals are its own.                                         *)
MutualExclusion ==
  /\ \A t, u \in Inside : t = u
  /\ \A t \in Threads : pc[t] \in {"parse", "finish"} => parser = t /\ tcc_state = t /\ jmp[t]

(* Every entry is matched by one exit, whichever way tcc_compile() and the *)
(* error reports end: the semaphore is free exactly when nobody is inside. *)
SemaphoreBalanced == tcc_sem_init => tcc_sem + Cardinality(Inside) = 1

(* A program is reported as failed exactly if its own source or symbols    *)
(* were at fault, but for symbols it shares with symbols.def: errors of    *)
(* compilations running at the same time are not charged to it, and the    *)
(* one error of its own it may lose is "defined twice" for such a symbol.  *)
Own(t) == erred[t] \ {"add_symbols"}

ErrorsGoHome ==
  Up => \A t \in Threads :
          /\ outcome[t] = "failed" => Own(t) # {}
          /\ outcome[t] = "ok" => Own(t) = {}

(* Nobody's error report jumps into another thread's tcc_compile(), but    *)
(* for memory running out outside the state.                               *)
NoForeignJump == fault # "foreign_longjmp"

(* A compilation that started returns, however many threads compile,       *)
(* unless the emulator stops.                                              *)
CompilationsReturn == \A t \in Threads : pc[t] # "idle" ~> (pc[t] = "idle" \/ ~Up)
=============================================================================
