--------------------------- MODULE TccState_proofs ---------------------------
(***************************************************************************)
(* The properties of TccState for any number of threads and compilations,  *)
(* once the first compilation has created the semaphore alone.             *)
(***************************************************************************)
EXTENDS TccState, FiniteSetTheorems, TLAPS

InsideStages == {"set_state", "report"} \cup ParserStages \cup ExitStages

(* Until the semaphore exists one thread at most is on its way to create   *)
(* it; from then on it is free exactly when nobody is inside, and one      *)
(* thread at most is.                                                      *)
Booting ==
  ~tcc_sem_init =>
    /\ \A t \in Threads : pc[t] \in {"idle", "wait_sem", "sem_init", "set_init"}
    /\ \A t, u \in Threads : pc[t] # "idle" /\ pc[u] # "idle" => t = u
    /\ \A t \in Threads : pc[t] = "set_init" => tcc_sem = 1
Guarded ==
  tcc_sem_init =>
    /\ \A t \in Threads : pc[t] \notin {"sem_init", "set_init"}
    /\ tcc_sem = 1 <=> \A t \in Threads : pc[t] \notin InsideStages
OneInside ==
  \A t, u \in Threads : pc[t] \in InsideStages /\ pc[u] \in InsideStages => t = u

(* The globals are those of the thread inside, from the step that sets     *)
(* them to the step that clears them; a handler is set just while parsing. *)
OwnGlobals ==
  \A t \in Threads :
    /\ pc[t] \in ParserStages \cup {"report", "clear"} => tcc_state = t
    /\ pc[t] \in {"parse", "finish"} => parser = t
    /\ jmp[t] <=> pc[t] \in {"parse", "finish"}

(* Why a thread entered the state is known from where it is.               *)
Reasons ==
  \A t \in Threads :
    /\ pc[t] \in ParserStages => why[t] = "compile"
    /\ pc[t] = "report" => why[t] # "compile"

(* The error count of a TCCState tells whether its own thread erred, but   *)
(* for symbols of symbols.def, except where tcc_compile() and the error    *)
(* reports are about to set it; and a result is kept until the next call.  *)
Counted ==
  \A t \in Threads :
    /\ pc[t] \in {"end_file", "relocate", "parse", "finish"} => (Own(t) # {} <=> nb_errors[t])
    /\ pc[t] \in ExitStages /\ why[t] = "compile" => (Own(t) # {} <=> nb_errors[t])
    /\ pc[t] \in EnterStages \cup {"setjmp"} /\ why[t] = "compile" => Own(t) = {}
    /\ pc[t] \in EnterStages \cup ExitStages \cup {"report"} /\ why[t] # "compile" =>
         (Own(t) = {} <=> why[t] = "add_symbols")
    /\ pc[t] = "add_symbols" => Own(t) = {}
    /\ pc[t] # "idle" => outcome[t] = "none"
    /\ outcome[t] = "failed" => Own(t) # {}
    /\ outcome[t] = "ok" => Own(t) = {}

IInv ==
  /\ TypeOK /\ Booting /\ Guarded /\ OneInside
  /\ OwnGlobals /\ Reasons /\ Counted /\ NoForeignJump
-----------------------------------------------------------------------------
(* Before the first compilation nobody is anywhere.                        *)
LEMMA InitIInv == Init => IInv
<1> SUFFICES ASSUME Init PROVE IInv
  OBVIOUS
<1>1. TypeOK
  <2>1. /\ jmp \in [Threads -> BOOLEAN] /\ nb_errors \in [Threads -> BOOLEAN]
        /\ erred \in [Threads -> SUBSET Causes]
    BY Zenon DEF Init
  <2>2. pc \in [Threads -> Stages] /\ why \in [Threads -> Causes]
    BY DEF Init, Stages, OutsideStages, Causes
  <2>3. /\ outcome \in [Threads -> {"none", "ok", "failed"}]
        /\ compiles \in [Threads -> Nat] /\ \A t \in Threads : compiles[t] <= MaxCompiles[t]
    BY MaxCompilesAssumption DEF Init
  <2>4. QED
    BY <2>2, <2>3 DEF Init, TypeOK
<1>2. Booting /\ Guarded /\ OneInside
  BY DEF Init, Booting, Guarded, OneInside, InsideStages, ParserStages, ExitStages
<1>3. OwnGlobals /\ Reasons /\ Counted /\ NoForeignJump
  BY DEF Init, OwnGlobals, Reasons, Counted, Own, NoForeignJump, ParserStages
<1>4. QED
  BY <1>1, <1>2, <1>3 DEF IInv

(* A new call starts outside the state with nothing counted against it;    *)
(* without a semaphore it starts alone.                                    *)
LEMMA BeginStep ==
  ASSUME FirstAlone, IInv, NEW t \in Threads, Begin(t)
  PROVE  IInv'
<1> USE DEF IInv, Begin, Go, Up, globals, private
<1>1. TypeOK'
  <2>1. /\ compiles' \in [Threads -> Nat]
        /\ \A u \in Threads : compiles'[u] <= MaxCompiles[u]
    <3>1. compiles \in [Threads -> Nat] /\ \A u \in Threads : compiles[u] <= MaxCompiles[u]
      BY DEF TypeOK
    <3>2. compiles' = [compiles EXCEPT ![t] = compiles[t] + 1] /\ compiles[t] < MaxCompiles[t]
      OBVIOUS
    <3> HIDE DEF IInv, Begin, Go, Up, globals, private
    <3>3. compiles[t] + 1 \in Nat /\ compiles[t] + 1 <= MaxCompiles[t]
      <4>1. compiles[t] \in Nat /\ MaxCompiles[t] \in Nat
        BY <3>1, MaxCompilesAssumption
      <4>2. QED
        BY <4>1, <3>2
    <3>4. QED
      BY <3>1, <3>2, <3>3
  <2>2. QED
    BY <2>1 DEF TypeOK, Causes, Stages, OutsideStages, EnterStages
<1>2. Booting'
  BY DEF Booting
<1>3. Guarded'
  BY DEF Guarded, InsideStages, ParserStages, ExitStages
<1>4. OneInside'
  BY DEF OneInside, InsideStages, ParserStages, ExitStages
<1>5. OwnGlobals' /\ Reasons'
  BY DEF OwnGlobals, Reasons, ParserStages
<1>6. Counted' /\ NoForeignJump'
  BY DEF Counted, Own, NoForeignJump, TypeOK
<1>7. QED
  BY <1>1, <1>2, <1>3, <1>4, <1>5, <1>6

(* The flag sends a thread to the semaphore or to its creation.            *)
LEMMA WaitSemStep ==
  ASSUME FirstAlone, IInv, NEW t \in Threads, WaitSem(t)
  PROVE  IInv'
<1> USE DEF IInv, WaitSem, Go, Up, globals, private
<1>1. TypeOK'
  BY DEF TypeOK, Stages, OutsideStages, EnterStages
<1>2. Booting'
  BY DEF Booting
<1>3. Guarded'
  BY DEF Guarded, InsideStages, ParserStages, ExitStages
<1>4. OneInside'
  BY DEF OneInside, InsideStages, ParserStages, ExitStages
<1>5. OwnGlobals' /\ Reasons'
  BY DEF OwnGlobals, Reasons, ParserStages
<1>6. Counted' /\ NoForeignJump'
  BY DEF Counted, Own, NoForeignJump, EnterStages, ExitStages
<1>7. QED
  BY <1>1, <1>2, <1>3, <1>4, <1>5, <1>6

(* Only the thread that found no semaphore creates it.                     *)
LEMMA SemInitStep ==
  ASSUME FirstAlone, IInv, NEW t \in Threads, SemInit(t)
  PROVE  IInv'
<1> USE DEF IInv, SemInit, Go, Up, globals, private
<1>1. TypeOK'
  BY DEF TypeOK, Stages, OutsideStages, EnterStages
<1>2. Booting'
  BY DEF Booting
<1>3. Guarded'
  BY DEF Guarded
<1>4. OneInside'
  BY DEF OneInside, InsideStages, ParserStages, ExitStages
<1>5. OwnGlobals' /\ Reasons'
  BY DEF OwnGlobals, Reasons, ParserStages
<1>6. Counted' /\ NoForeignJump'
  BY DEF Counted, Own, NoForeignJump, EnterStages, ExitStages
<1>7. QED
  BY <1>1, <1>2, <1>3, <1>4, <1>5, <1>6

(* The semaphore it publishes is free, and nobody is inside.               *)
LEMMA SetInitStep ==
  ASSUME FirstAlone, IInv, NEW t \in Threads, SetInit(t)
  PROVE  IInv'
<1> USE DEF IInv, SetInit, Go, Up, globals, private
<1>1. TypeOK'
  BY DEF TypeOK, Stages, OutsideStages, EnterStages
<1>2. Booting'
  BY DEF Booting
<1>3. Guarded'
  BY DEF Guarded, Booting, TypeOK, InsideStages, ParserStages, ExitStages
<1>4. OneInside'
  BY DEF OneInside, InsideStages, ParserStages, ExitStages
<1>5. OwnGlobals' /\ Reasons'
  BY DEF OwnGlobals, Reasons, ParserStages
<1>6. Counted' /\ NoForeignJump'
  BY DEF Counted, Own, NoForeignJump, EnterStages, ExitStages
<1>7. QED
  BY <1>1, <1>2, <1>3, <1>4, <1>5, <1>6

(* Taking the semaphore makes a thread the only one inside.                *)
LEMMA SemWaitStep ==
  ASSUME FirstAlone, IInv, NEW t \in Threads, SemWait(t)
  PROVE  IInv'
<1> USE DEF IInv, SemWait, Go, Up, globals, private
<1>1. TypeOK'
  BY DEF TypeOK, Stages, OutsideStages, EnterStages
<1>2. Booting'
  BY DEF Booting
<1>3. Guarded'
  BY DEF Guarded, TypeOK, InsideStages
<1>4. OneInside'
  BY DEF OneInside, Guarded, Booting, TypeOK
<1>5. OwnGlobals' /\ Reasons'
  BY DEF OwnGlobals, Reasons, ParserStages
<1>6. Counted' /\ NoForeignJump'
  BY DEF Counted, Own, NoForeignJump, EnterStages, ExitStages
<1>7. QED
  BY <1>1, <1>2, <1>3, <1>4, <1>5, <1>6

(* The thread inside makes the globals its own.                            *)
LEMMA SetStateStep ==
  ASSUME FirstAlone, IInv, NEW t \in Threads, SetState(t)
  PROVE  IInv'
<1> USE DEF IInv, SetState, Go, Up, globals, private
<1>1. TypeOK'
  BY DEF TypeOK, Stages, OutsideStages, ParserStages
<1>2. Booting'
  BY DEF Booting
<1>3. Guarded'
  BY DEF Guarded, InsideStages, ParserStages
<1>4. OneInside'
  BY DEF OneInside, InsideStages
<1>5. OwnGlobals' /\ Reasons'
  BY DEF OwnGlobals, Reasons, OneInside, TypeOK, Stages, OutsideStages, InsideStages, EnterStages,
     ParserStages
<1>6. Counted' /\ NoForeignJump'
  BY DEF Counted, Own, NoForeignJump, EnterStages, ExitStages
<1>7. QED
  BY <1>1, <1>2, <1>3, <1>4, <1>5, <1>6

(* tcc_compile() arms the handler of the state it entered.                 *)
LEMMA SetJmpStep ==
  ASSUME FirstAlone, IInv, NEW t \in Threads, SetJmp(t)
  PROVE  IInv'
<1> USE DEF IInv, SetJmp, Go, Up, globals, private
<1>1. TypeOK'
  BY DEF TypeOK, Stages, OutsideStages, ParserStages
<1>2. Booting'
  BY DEF Booting
<1>3. Guarded'
  BY DEF Guarded, InsideStages, ParserStages
<1>4. OneInside'
  BY DEF OneInside, TypeOK, Stages, OutsideStages, InsideStages, EnterStages
<1>5. OwnGlobals' /\ Reasons'
  BY DEF OwnGlobals, Reasons, TypeOK, ParserStages
<1>6. Counted' /\ NoForeignJump'
  BY DEF Counted, Own, Reasons, NoForeignJump, TypeOK, ParserStages
<1>7. QED
  BY <1>1, <1>2, <1>3, <1>4, <1>5, <1>6

(* The end of the source changes no flag.                                  *)
LEMMA ParsedStep ==
  ASSUME FirstAlone, IInv, NEW t \in Threads, Parsed(t)
  PROVE  IInv'
<1> USE DEF IInv, Parsed, Go, Up, globals, private
<1>1. TypeOK'
  BY DEF TypeOK, Stages, OutsideStages, ParserStages
<1>2. Booting'
  BY DEF Booting
<1>3. Guarded'
  BY DEF Guarded, InsideStages, ParserStages
<1>4. OneInside'
  BY DEF OneInside, TypeOK, Stages, OutsideStages, InsideStages, EnterStages
<1>5. OwnGlobals' /\ Reasons'
  BY DEF OwnGlobals, Reasons, ParserStages
<1>6. Counted' /\ NoForeignJump'
  BY DEF Counted, Own, Reasons, NoForeignJump, TypeOK, Stages, OutsideStages, EnterStages
<1>7. QED
  BY <1>1, <1>2, <1>3, <1>4, <1>5, <1>6

(* A counted error goes to the thread that parses: tcc_state is its own.   *)
LEMMA CountErrorStep ==
  ASSUME FirstAlone, IInv, NEW t \in Threads, CountError(t)
  PROVE  IInv'
<1> USE DEF IInv, CountError, Go, Up, globals, private
<1>1. TypeOK'
  BY DEF TypeOK, Causes
<1>2. Booting'
  BY DEF Booting
<1>3. Guarded'
  BY DEF Guarded
<1>4. OneInside'
  BY DEF OneInside
<1>5. OwnGlobals' /\ Reasons'
  BY DEF OwnGlobals, Reasons
<1>6. Counted' /\ NoForeignJump'
  <2>1. tcc_state = t /\ why[t] = "compile" /\ pc[t] = "parse"
    BY DEF OwnGlobals, Reasons, ParserStages
  <2>2. /\ UNCHANGED <<pc, why, outcome, fault>>
        /\ nb_errors' = [nb_errors EXCEPT ![t] = TRUE]
        /\ erred' = [erred EXCEPT ![t] = @ \cup {"compile"}]
    BY <2>1, NoStateAssumption
  <2>3. "compile" \in Own(t)' /\ \A u \in Threads \ {t} : Own(u)' = Own(u)
    BY <2>2 DEF Own, TypeOK
  <2>4. outcome[t] = "none"
    BY <2>1 DEF Counted
  <2>5. QED
    BY <2>1, <2>2, <2>3, <2>4 DEF Counted, NoForeignJump, TypeOK, EnterStages, ExitStages
<1>7. QED
  BY <1>1, <1>2, <1>3, <1>4, <1>5, <1>6

(* A fatal error jumps to the handler of the thread that met it.           *)
LEMMA ParseErrorStep ==
  ASSUME FirstAlone, IInv, NEW t \in Threads, ParseError(t)
  PROVE  IInv'
<1> USE DEF IInv, ParseError, Go, Up, globals, private, JumpFault
<1>1. TypeOK'
  BY DEF TypeOK, Causes, Stages, OutsideStages, ParserStages
<1>2. Booting'
  BY DEF Booting
<1>3. Guarded'
  BY DEF Guarded, TypeOK, InsideStages, ParserStages
<1>4. OneInside'
  BY DEF OneInside, TypeOK, Stages, OutsideStages, InsideStages, EnterStages
<1>5. OwnGlobals' /\ Reasons'
  BY DEF OwnGlobals, Reasons, TypeOK, ParserStages
<1>6. Counted' /\ NoForeignJump'
  <2>1. tcc_state = t /\ jmp[t] /\ why[t] = "compile" /\ pc[t] = "parse"
    BY DEF OwnGlobals, Reasons, ParserStages
  <2>2. /\ UNCHANGED <<why, outcome, fault>> /\ pc' = [pc EXCEPT ![t] = "finish"]
        /\ nb_errors' = [nb_errors EXCEPT ![t] = TRUE]
        /\ erred' = [erred EXCEPT ![t] = @ \cup {"compile"}]
    BY <2>1
  <2>3. "compile" \in Own(t)' /\ \A u \in Threads \ {t} : Own(u)' = Own(u)
    BY <2>2 DEF Own, TypeOK
  <2>4. outcome[t] = "none"
    BY <2>1 DEF Counted
  <2>5. QED
    BY <2>1, <2>2, <2>3, <2>4 DEF Counted, NoForeignJump, TypeOK, EnterStages, ExitStages
<1>7. QED
  BY <1>1, <1>2, <1>3, <1>4, <1>5, <1>6

(* tcc_compile() disarms the handler before it leaves.                     *)
LEMMA FinishStep ==
  ASSUME FirstAlone, IInv, NEW t \in Threads, Finish(t)
  PROVE  IInv'
<1> USE DEF IInv, Finish, Go, Up, globals, private
<1>1. TypeOK'
  BY DEF TypeOK, Stages, OutsideStages, ExitStages
<1>2. Booting'
  BY DEF Booting
<1>3. Guarded'
  BY DEF Guarded, TypeOK, Stages, OutsideStages, InsideStages, EnterStages, ExitStages
<1>4. OneInside'
  BY DEF OneInside, TypeOK, Stages, OutsideStages, InsideStages, EnterStages
<1>5. OwnGlobals' /\ Reasons'
  BY DEF OwnGlobals, Reasons, TypeOK, ParserStages
<1>6. Counted' /\ NoForeignJump'
  BY DEF Counted, Own, Reasons, NoForeignJump, TypeOK, Stages, OutsideStages, EnterStages
<1>7. QED
  BY <1>1, <1>2, <1>3, <1>4, <1>5, <1>6

(* tcc_state is cleared while the semaphore is still held.                 *)
LEMMA ClearStep ==
  ASSUME FirstAlone, IInv, NEW t \in Threads, Clear(t)
  PROVE  IInv'
<1> USE DEF IInv, Clear, Go, Up, globals, private
<1>1. TypeOK'
  BY DEF TypeOK, Stages, OutsideStages, ExitStages
<1>2. Booting'
  BY DEF Booting
<1>3. Guarded'
  BY DEF Guarded, InsideStages, ExitStages
<1>4. OneInside'
  BY DEF OneInside, TypeOK, Stages, OutsideStages, InsideStages, EnterStages
<1>5. OwnGlobals' /\ Reasons'
  BY DEF OwnGlobals, Reasons, TypeOK, ParserStages
<1>6. Counted' /\ NoForeignJump'
  BY DEF Counted, Own, NoForeignJump, TypeOK, Stages, OutsideStages, EnterStages, ParserStages
<1>7. QED
  BY <1>1, <1>2, <1>3, <1>4, <1>5, <1>6

(* The thread that posts was the only one inside, so the count returns to  *)
(* 1; what it was inside for says whether its error is counted.            *)
LEMMA PostStep ==
  ASSUME FirstAlone, IInv, NEW t \in Threads, Post(t)
  PROVE  IInv'
<1> USE DEF IInv
<1>1. /\ pc[t] = "post" /\ AfterPost(t) \in OutsideStages \cup {"idle"}
      /\ pc' = [pc EXCEPT ![t] = AfterPost(t)] /\ tcc_sem' = tcc_sem + 1
      /\ UNCHANGED <<why, tcc_sem_init, tcc_state, parser, jmp, erred, outcome, compiles>>
  <2>1. why[t] \in OutsideStages \cup {"compile", "mprotect"}
    BY DEF TypeOK, Causes, OutsideStages
  <2>2. AfterPost(t) \in OutsideStages \cup {"idle"}
    BY <2>1 DEF AfterPost, OutsideStages
  <2>3. QED
    BY <2>2 DEF Post, Go
<1>2. tcc_sem_init /\ tcc_sem = 0
  BY <1>1 DEF Booting, Guarded, TypeOK, InsideStages, ExitStages
<1>3. TypeOK'
  <2>1. pc' \in [Threads -> Stages]
    BY <1>1 DEF TypeOK, Stages, OutsideStages
  <2>2. nb_errors' \in [Threads -> BOOLEAN]
    BY DEF Post, TypeOK
  <2>3. fault' \in {"none", "exit", "foreign_longjmp", "malloc_longjmp"}
    BY DEF Post, TypeOK
  <2>4. QED
    BY <1>1, <1>2, <2>1, <2>2, <2>3 DEF TypeOK
<1>4. Booting' /\ Guarded' /\ OneInside'
  BY <1>1 DEF Booting, Guarded, OneInside, TypeOK, InsideStages, OutsideStages, ParserStages,
     ExitStages
<1>5. OwnGlobals' /\ Reasons'
  BY <1>1 DEF OwnGlobals, Reasons, OutsideStages, ParserStages
<1>6. Counted'
  <2>1. \A u \in Threads : Own(u)' = Own(u)
    BY <1>1 DEF Own
  <2>2. CASE why[t] = "compile"
    BY <1>1, <2>1, <2>2 DEF Post, AfterPost, Counted, EnterStages, ExitStages
  <2>3. CASE why[t] = "mprotect"
    BY <1>1, <2>1, <2>3 DEF Post, AfterPost, Counted, ExitStages
  <2>4. CASE why[t] \in OutsideStages
    <3>1. AfterPost(t) = why[t] /\ nb_errors' = [nb_errors EXCEPT ![t] = TRUE]
      BY <2>4 DEF AfterPost, Post, OutsideStages
    <3>2. QED
      BY <1>1, <2>1, <2>4, <3>1 DEF Counted, TypeOK, EnterStages, ExitStages, OutsideStages
  <2>5. QED
    BY <2>2, <2>3, <2>4 DEF TypeOK, Causes, OutsideStages
<1>7. NoForeignJump'
  BY DEF Post, NoForeignJump
<1>8. QED
  BY <1>3, <1>4, <1>5, <1>6, <1>7

(* An error message outside tcc_compile() finds its own state and no handler. *)
LEMMA ReportStep ==
  ASSUME FirstAlone, IInv, NEW t \in Threads, Report(t)
  PROVE  IInv'
<1> USE DEF IInv, Report, Go, Up, globals, private, JumpFault
<1>1. TypeOK'
  BY DEF TypeOK, Stages, OutsideStages, ExitStages
<1>2. Booting'
  BY DEF Booting
<1>3. Guarded'
  BY DEF Guarded, TypeOK, InsideStages, ExitStages
<1>4. OneInside'
  BY DEF OneInside, TypeOK, InsideStages
<1>5. OwnGlobals' /\ Reasons'
  BY DEF OwnGlobals, Reasons, TypeOK, ParserStages
<1>6. Counted' /\ NoForeignJump'
  BY DEF Counted, Own, OwnGlobals, Reasons, NoForeignJump, TypeOK
<1>7. QED
  BY <1>1, <1>2, <1>3, <1>4, <1>5, <1>6

(* A thread that has to report an error enters the state again.            *)
LEMMA EndFileErrorStep ==
  ASSUME FirstAlone, IInv, NEW t \in Threads, EndFileError(t)
  PROVE  IInv'
<1> USE DEF IInv, EndFileError, ErrorOutside, Go, Up, globals, private
<1>1. TypeOK'
  BY DEF TypeOK, Causes, Stages, OutsideStages, EnterStages
<1>2. Booting'
  BY DEF Booting
<1>3. Guarded'
  BY DEF Guarded, InsideStages, ParserStages, ExitStages
<1>4. OneInside'
  BY DEF OneInside, InsideStages, ParserStages, ExitStages
<1>5. OwnGlobals' /\ Reasons'
  BY DEF OwnGlobals, Reasons, ParserStages
<1>6. Counted' /\ NoForeignJump'
  BY DEF Counted, Own, NoForeignJump, TypeOK
<1>7. QED
  BY <1>1, <1>2, <1>3, <1>4, <1>5, <1>6

(* The result of compiling is the count of this thread's errors.           *)
LEMMA EndFileStep ==
  ASSUME FirstAlone, IInv, NEW t \in Threads, EndFile(t)
  PROVE  IInv'
<1> USE DEF IInv, EndFile, Go, Up, globals, private
<1>1. TypeOK'
  BY DEF TypeOK, Stages, OutsideStages
<1>2. Booting'
  BY DEF Booting
<1>3. Guarded'
  BY DEF Guarded, TypeOK, InsideStages, ParserStages, ExitStages
<1>4. OneInside'
  BY DEF OneInside, TypeOK, InsideStages, ParserStages, ExitStages
<1>5. OwnGlobals' /\ Reasons'
  BY DEF OwnGlobals, Reasons, TypeOK, ParserStages
<1>6. Counted' /\ NoForeignJump'
  BY DEF Counted, Own, NoForeignJump, TypeOK, EnterStages, ExitStages
<1>7. QED
  BY <1>1, <1>2, <1>3, <1>4, <1>5, <1>6

(* As EndFileError, for a symbol of symbols.def: not an error of its own.   *)
LEMMA AddSymbolErrorStep ==
  ASSUME FirstAlone, IInv, NEW t \in Threads, AddSymbolError(t)
  PROVE  IInv'
<1> USE DEF IInv, AddSymbolError, ErrorOutside, Go, Up, globals, private
<1>1. TypeOK'
  BY DEF TypeOK, Causes, Stages, OutsideStages, EnterStages
<1>2. Booting'
  BY DEF Booting
<1>3. Guarded'
  BY DEF Guarded, InsideStages, ParserStages, ExitStages
<1>4. OneInside'
  BY DEF OneInside, InsideStages, ParserStages, ExitStages
<1>5. OwnGlobals' /\ Reasons'
  BY DEF OwnGlobals, Reasons, ParserStages
<1>6. Counted' /\ NoForeignJump'
  BY DEF Counted, Own, NoForeignJump, TypeOK
<1>7. QED
  BY <1>1, <1>2, <1>3, <1>4, <1>5, <1>6

(* Relocation starts with no error, and so far there was none that lasts.  *)
LEMMA AddSymbolsStep ==
  ASSUME FirstAlone, IInv, NEW t \in Threads, AddSymbols(t)
  PROVE  IInv'
<1> USE DEF IInv, AddSymbols, Go, Up, globals, private
<1>1. TypeOK'
  BY DEF TypeOK, Stages, OutsideStages
<1>2. Booting'
  BY DEF Booting
<1>3. Guarded'
  BY DEF Guarded, TypeOK, InsideStages, ParserStages, ExitStages
<1>4. OneInside'
  BY DEF OneInside, TypeOK, InsideStages, ParserStages, ExitStages
<1>5. OwnGlobals' /\ Reasons'
  BY DEF OwnGlobals, Reasons, TypeOK, ParserStages
<1>6. Counted' /\ NoForeignJump'
  BY DEF Counted, Own, NoForeignJump, TypeOK, EnterStages, ExitStages
<1>7. QED
  BY <1>1, <1>2, <1>3, <1>4, <1>5, <1>6

(* As EndFileError, while relocating.                                      *)
LEMMA RelocateErrorStep ==
  ASSUME FirstAlone, IInv, NEW t \in Threads, RelocateError(t)
  PROVE  IInv'
<1> USE DEF IInv, RelocateError, ErrorOutside, Go, Up, globals, private
<1>1. TypeOK'
  BY DEF TypeOK, Causes, Stages, OutsideStages, EnterStages
<1>2. Booting'
  BY DEF Booting
<1>3. Guarded'
  BY DEF Guarded, InsideStages, ParserStages, ExitStages
<1>4. OneInside'
  BY DEF OneInside, InsideStages, ParserStages, ExitStages
<1>5. OwnGlobals' /\ Reasons'
  BY DEF OwnGlobals, Reasons, ParserStages
<1>6. Counted' /\ NoForeignJump'
  BY DEF Counted, Own, NoForeignJump, TypeOK
<1>7. QED
  BY <1>1, <1>2, <1>3, <1>4, <1>5, <1>6

(* As EndFileError, for a failing mprotect().                              *)
LEMMA ProtectErrorStep ==
  ASSUME FirstAlone, IInv, NEW t \in Threads, ProtectError(t)
  PROVE  IInv'
<1> USE DEF IInv, ProtectError, ErrorOutside, Go, Up, globals, private
<1>1. TypeOK'
  BY DEF TypeOK, Causes, Stages, OutsideStages, EnterStages
<1>2. Booting'
  BY DEF Booting
<1>3. Guarded'
  BY DEF Guarded, InsideStages, ParserStages, ExitStages
<1>4. OneInside'
  BY DEF OneInside, InsideStages, ParserStages, ExitStages
<1>5. OwnGlobals' /\ Reasons'
  BY DEF OwnGlobals, Reasons, ParserStages
<1>6. Counted' /\ NoForeignJump'
  BY DEF Counted, Own, NoForeignJump, TypeOK
<1>7. QED
  BY <1>1, <1>2, <1>3, <1>4, <1>5, <1>6

(* The result of relocating is the count of this thread's errors.          *)
LEMMA RelocatedStep ==
  ASSUME FirstAlone, IInv, NEW t \in Threads, Relocated(t)
  PROVE  IInv'
<1> USE DEF IInv, Relocated, Go, Up, globals, private
<1>1. TypeOK'
  BY DEF TypeOK, Stages, OutsideStages
<1>2. Booting'
  BY DEF Booting
<1>3. Guarded'
  BY DEF Guarded, InsideStages, ParserStages, ExitStages
<1>4. OneInside'
  BY DEF OneInside, InsideStages, ParserStages, ExitStages
<1>5. OwnGlobals' /\ Reasons'
  BY DEF OwnGlobals, Reasons, ParserStages
<1>6. Counted' /\ NoForeignJump'
  BY DEF Counted, Own, NoForeignJump, TypeOK, EnterStages, ExitStages
<1>7. QED
  BY <1>1, <1>2, <1>3, <1>4, <1>5, <1>6

(* Running out of memory outside the state stops the emulator at worst.    *)
LEMMA MallocFailsStep ==
  ASSUME FirstAlone, IInv, NEW t \in Threads, MallocFails(t)
  PROVE  IInv'
<1> USE DEF IInv, MallocFails, Go, Up, globals, private, JumpFault
<1>1. TypeOK'
  BY DEF TypeOK
<1>2. Booting'
  BY DEF Booting
<1>3. Guarded'
  BY DEF Guarded
<1>4. OneInside'
  BY DEF OneInside
<1>5. OwnGlobals' /\ Reasons'
  BY DEF OwnGlobals, Reasons
<1>6. Counted' /\ NoForeignJump'
  BY DEF Counted, Own, NoForeignJump
<1>7. QED
  BY <1>1, <1>2, <1>3, <1>4, <1>5, <1>6

-----------------------------------------------------------------------------
(* Every step of every thread keeps the inductive invariant.               *)
LEMMA NextIInv ==
  ASSUME FirstAlone
  PROVE  IInv /\ [Next]_vars => IInv'
<1> SUFFICES ASSUME IInv, [Next]_vars PROVE IInv'
  OBVIOUS
<1>1. CASE UNCHANGED vars
  BY <1>1 DEF IInv, TypeOK, Booting, Guarded, OneInside, OwnGlobals, Reasons, Counted,
     Own, NoForeignJump, vars, globals, private
<1>2. ASSUME NEW t \in Threads, Begin(t) \/ Enter(t) PROVE IInv'
  BY <1>2, BeginStep, WaitSemStep, SemInitStep, SetInitStep, SemWaitStep, SetStateStep
     DEF Enter
<1>3. ASSUME NEW t \in Threads, InParser(t) PROVE IInv'
  BY <1>3, SetJmpStep, ParsedStep, CountErrorStep, ParseErrorStep, FinishStep DEF
     InParser
<1>4. ASSUME NEW t \in Threads, Leave(t) PROVE IInv'
  BY <1>4, ClearStep, PostStep, ReportStep DEF Leave
<1>5. ASSUME NEW t \in Threads, Outside(t) PROVE IInv'
  BY <1>5, EndFileErrorStep, EndFileStep, AddSymbolErrorStep, AddSymbolsStep,
     RelocateErrorStep, ProtectErrorStep, RelocatedStep, MallocFailsStep DEF Outside
<1>6. QED
  BY <1>1, <1>2, <1>3, <1>4, <1>5 DEF Next

(* The inductive invariant holds throughout, if the first compilation was  *)
(* alone when it created the semaphore.                                    *)
THEOREM Invariance ==
  ASSUME FirstAlone
  PROVE  Spec => []IInv
<1>1. IInv /\ [Next]_vars => IInv'
  BY NextIInv
<1>2. QED
  BY <1>1, InitIInv, PTL DEF Spec

(* The variables keep their types; in particular the semaphore is never    *)
(* posted above 1.                                                         *)
THEOREM TypeCorrect ==
  ASSUME FirstAlone
  PROVE  Spec => []TypeOK
<1>1. IInv => TypeOK
  BY DEF IInv
<1>2. Spec => []IInv
  BY Invariance
<1>3. QED
  BY <1>1, <1>2, PTL

(* However many threads compile at once, one at a time is inside libtcc,   *)
(* and while it parses the globals and the error handler are its own.      *)
THEOREM OneThreadAtATime ==
  ASSUME FirstAlone
  PROVE  Spec => []MutualExclusion
<1>1. IInv => MutualExclusion
  <2> SUFFICES ASSUME IInv PROVE MutualExclusion
    OBVIOUS
  <2>1. \A t, u \in Inside : t = u
    BY DEF IInv, OneInside, Inside, InsideStages
  <2>2. \A t \in Threads : pc[t] \in {"parse", "finish"} => parser = t /\ tcc_state = t /\ jmp[t]
    BY DEF IInv, OwnGlobals, ParserStages
  <2>3. QED
    BY <2>1, <2>2 DEF MutualExclusion
<1>2. Spec => []IInv
  BY Invariance
<1>3. QED
  BY <1>1, <1>2, PTL

(* Whichever way compilations and error reports end, the semaphore is free *)
(* exactly when nobody is inside: it is neither lost nor posted twice.     *)
THEOREM SemaphoreNeverLost ==
  ASSUME FirstAlone
  PROVE  Spec => []SemaphoreBalanced
<1>1. IInv => SemaphoreBalanced
  <2> SUFFICES ASSUME IInv, tcc_sem_init PROVE tcc_sem + Cardinality(Inside) = 1
    BY DEF SemaphoreBalanced
  <2>1. CASE tcc_sem = 1
    <3>1. Inside = {}
      BY <2>1 DEF IInv, Guarded, Inside, InsideStages
    <3>2. QED
      BY <2>1, <3>1, FS_EmptySet
  <2>2. CASE tcc_sem = 0
    <3>1. PICK t \in Threads : t \in Inside
      BY <2>2 DEF IInv, Guarded, Inside, InsideStages
    <3>2. Inside = {t}
      BY <3>1 DEF IInv, OneInside, Inside, InsideStages
    <3>3. QED
      BY <2>2, <3>2, FS_Singleton
  <2>3. QED
    BY <2>1, <2>2 DEF IInv, TypeOK
<1>2. Spec => []IInv
  BY Invariance
<1>3. QED
  BY <1>1, <1>2, PTL

(* No compilation is charged with an error of another.  It is told of its  *)
(* own errors, except "defined twice" for a symbol of symbols.def.         *)
THEOREM ErrorsReachTheirOwner ==
  ASSUME FirstAlone
  PROVE  Spec => []ErrorsGoHome
<1>1. IInv => ErrorsGoHome
  BY DEF IInv, Counted, ErrorsGoHome
<1>2. Spec => []IInv
  BY Invariance
<1>3. QED
  BY <1>1, <1>2, PTL

(* An error report never jumps into the handler of another thread, except  *)
(* when memory runs out outside the state.                                 *)
THEOREM JumpsStayHome ==
  ASSUME FirstAlone
  PROVE  Spec => []NoForeignJump
<1>1. IInv => NoForeignJump
  BY DEF IInv
<1>2. Spec => []IInv
  BY Invariance
<1>3. QED
  BY <1>1, <1>2, PTL
=============================================================================
