--------------------------- MODULE ProgramLifetime ---------------------------
(***************************************************************************)
(* What Niffler promises about a compiled program, whatever happens to the *)
(* processes that share it: code is entered only once it is published and  *)
(* only by a process that holds it, it stays in place while anyone holds   *)
(* it or runs in it, a program that failed to build is never entered, and  *)
(* what is gone never comes back.  A process holds a program while it can  *)
(* name it.                                                                *)
(***************************************************************************)
EXTENDS FiniteSets

CONSTANTS Procs, Handles

VARIABLES
  phase,    \* phase[h]: "none", "building", "broken", "usable" or "gone"
  holders,  \* holders[h]: the processes that can name h
  running   \* running[h]: the processes inside the code of h

lifetime == <<phase, holders, running>>

Init ==
  /\ phase = [h \in Handles |-> "none"]
  /\ holders = [h \in Handles |-> {}]
  /\ running = [h \in Handles |-> {}]

Start(h) ==
  /\ phase[h] = "none"
  /\ \E s \in {"building", "gone"} : phase' = [phase EXCEPT ![h] = s]
  /\ UNCHANGED <<holders, running>>

Publish(p, h) ==
  /\ phase[h] = "building"
  /\ phase' = [phase EXCEPT ![h] = "usable"]
  /\ holders' = [holders EXCEPT ![h] = {p}]
  /\ UNCHANGED running

GiveUp(h) ==
  /\ phase[h] = "building"
  /\ \E s \in {"broken", "gone"} : phase' = [phase EXCEPT ![h] = s]
  /\ UNCHANGED <<holders, running>>

Enter(p, h) ==
  /\ phase[h] = "usable" /\ p \in holders[h]
  /\ running' = [running EXCEPT ![h] = @ \cup {p}]
  /\ UNCHANGED <<phase, holders>>

Leave(p, h) ==
  /\ p \in running[h]
  /\ running' = [running EXCEPT ![h] = @ \ {p}]
  /\ UNCHANGED <<phase, holders>>

Share(p, q, h) ==
  /\ p \in holders[h]
  /\ holders' = [holders EXCEPT ![h] = @ \cup {q}]
  /\ UNCHANGED <<phase, running>>

(* p lets go of the programs in `lost`; programs in `dead`, which nobody   *)
(* holds or runs any more, are reclaimed.                                  *)
LetGo(p, lost, dead) ==
  /\ \A h \in lost : p \notin running[h]
  /\ holders' = [h \in Handles |-> IF h \in lost THEN holders[h] \ {p} ELSE holders[h]]
  /\ \A h \in dead : /\ phase[h] \in {"broken", "usable"}
                     /\ holders'[h] = {} /\ running[h] = {}
  /\ phase' = [h \in Handles |-> IF h \in dead THEN "gone" ELSE phase[h]]
  /\ UNCHANGED running

Next ==
  \/ \E h \in Handles : Start(h) \/ GiveUp(h)
  \/ \E p \in Procs, h \in Handles : Publish(p, h) \/ Enter(p, h) \/ Leave(p, h)
  \/ \E p, q \in Procs, h \in Handles : Share(p, q, h)
  \/ \E p \in Procs : \E lost, dead \in SUBSET Handles : LetGo(p, lost, dead)

Spec == Init /\ [][Next]_lifetime
=============================================================================
