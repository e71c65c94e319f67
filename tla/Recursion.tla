------------------------------ MODULE Recursion ------------------------------
(***************************************************************************)
(* Induction over the natural numbers and functions defined by recursion,  *)
(* for proofs about the recursive definitions of the models.  The          *)
(* induction theorems of the standard library range over an operator, so   *)
(* these are stated with a set in place of the predicate and a function in *)
(* place of the step.                                                      *)
(***************************************************************************)
EXTENDS Integers, WellFoundedInduction, TLAPS

(* A set of natural numbers that is not empty has a least element.         *)
LEMMA LeastNatural ==
  ASSUME NEW T \in SUBSET Nat, T # {}
  PROVE  \E x \in T : \A y \in T : x <= y
<1> DEFINE Below == {pair \in Nat \X Nat : pair[1] < pair[2]}
<1>1. IsWellFoundedOn(Below, Nat)
  BY NatLessThanWellFounded DEF OpToRel
<1>2. PICK x \in T : \A y \in T : <<y, x>> \notin Below
  <2> HIDE DEF Below
  <2> QED BY <1>1, WFMin
<1>3. ASSUME NEW y \in T, y < x PROVE FALSE
  <2>1. <<y, x>> \in Nat \X Nat /\ <<y, x>>[1] < <<y, x>>[2]
    BY <1>3
  <2>2. <<y, x>> \in Below
    BY <2>1, Zenon
  <2> QED BY <1>2, <2>2, Zenon
<1> HIDE DEF Below
<1> QED BY <1>3

(* A set that holds 0 and the successor of each of its numbers holds all.  *)
LEMMA SetInduction ==
  ASSUME NEW S, 0 \in S, \A n \in Nat : n \in S => n + 1 \in S
  PROVE  Nat \subseteq S
<1> SUFFICES ASSUME Nat \ S # {} PROVE FALSE
  OBVIOUS
<1>1. PICK x \in Nat \ S : \A y \in Nat \ S : x <= y
  BY LeastNatural
<1>2. x # 0 /\ x - 1 \in Nat
  OBVIOUS
<1>3. x - 1 \in S
  BY <1>1, <1>2
<1> QED BY <1>2, <1>3

(* The same between two bounds.                                            *)
LEMMA RangeInduction ==
  ASSUME NEW n \in Nat, NEW S, 0 \in S, \A i \in 1 .. n : i - 1 \in S => i \in S
  PROVE  0 .. n \subseteq S
<1> DEFINE T == {i \in Nat : i <= n => i \in S}
<1>1. 0 \in T
  OBVIOUS
<1>2. \A i \in Nat : i \in T => i + 1 \in T
  <2> SUFFICES ASSUME NEW i \in Nat, i \in T, i + 1 <= n PROVE i + 1 \in S
    OBVIOUS
  <2> QED BY i + 1 \in 1 .. n, (i + 1) - 1 = i
<1> HIDE DEF T
<1>3. Nat \subseteq T
  BY <1>1, <1>2, SetInduction
<1> QED BY <1>3 DEF T

Steps(n, D) == [1 .. n -> [D -> D]]
Follows(f, n, D, start, step) ==
  /\ f \in [0 .. n -> D]
  /\ f[0] = start
  /\ \A i \in 1 .. n : f[i] = step[i][f[i - 1]]

(* A function defined from its value before, step by step, exists.         *)
LEMMA RecursiveFunction ==
  ASSUME NEW n \in Nat, NEW D, NEW start \in D, NEW step \in Steps(n, D)
  PROVE  \E f : Follows(f, n, D, start, step)
<1> USE DEF Steps
<1> DEFINE Upto(m, f) == f[0] = start /\ \A i \in 1 .. m : f[i] = step[i][f[i - 1]]
           S == {m \in 0 .. n : \E f \in [0 .. m -> D] : Upto(m, f)}
<1>1. 0 \in S
  <2>1. [i \in 0 .. 0 |-> start] \in [0 .. 0 -> D] /\ Upto(0, [i \in 0 .. 0 |-> start])
    OBVIOUS
  <2> HIDE DEF Upto
  <2> QED BY <2>1, 0 \in 0 .. n
<1>2. ASSUME NEW m \in 1 .. n, m - 1 \in S PROVE m \in S
  <2>1. PICK f \in [0 .. m - 1 -> D] : Upto(m - 1, f)
    BY <1>2
  <2> DEFINE g == [i \in 0 .. m |-> IF i = m THEN step[m][f[m - 1]] ELSE f[i]]
  <2>2. g \in [0 .. m -> D]
    <3>1. f[m - 1] \in D /\ step[m][f[m - 1]] \in D
      OBVIOUS
    <3> QED BY <3>1
  <2>3. Upto(m, g)
    <3>1. g[0] = start
      BY <2>1
    <3>2. ASSUME NEW i \in 1 .. m PROVE g[i] = step[i][g[i - 1]]
      <4>1. CASE i = m
        BY <4>1
      <4>2. CASE i # m
        BY <4>2, <2>1
      <4> QED BY <4>1, <4>2
    <3> QED BY <3>1, <3>2
  <2> HIDE DEF g, Upto
  <2> QED BY <2>2, <2>3
<1> HIDE DEF S
<1>3. 0 .. n \subseteq S
  BY <1>1, <1>2, RangeInduction
<1> QED BY <1>3, n \in 0 .. n DEF S, Follows

(* Every step leads from J to J; f follows the steps and stays within J.   *)
Leads(n, J, step) == \A i \in 1 .. n : \A x \in J[i - 1] : step[i][x] \in J[i]
FollowsWithin(f, n, J, start, step) ==
  /\ f = [i \in 0 .. n |-> f[i]]
  /\ f[0] = start
  /\ \A i \in 1 .. n : f[i] = step[i][f[i - 1]]
  /\ \A i \in 0 .. n : f[i] \in J[i]

(* The same when the step is only defined, and only leads, from the states *)
(* J[i - 1] that can be reached to those of J[i].                          *)
LEMMA RecursionWithin ==
  ASSUME NEW n \in Nat, NEW J, NEW start \in J[0], NEW step, Leads(n, J, step)
  PROVE  \E f : FollowsWithin(f, n, J, start, step)
<1> USE DEF Leads
<1> DEFINE Upto(m, f) == /\ f[0] = start
                         /\ \A i \in 1 .. m : f[i] = step[i][f[i - 1]]
                         /\ \A i \in 0 .. m : f[i] \in J[i]
           S == {m \in 0 .. n : \E f : f = [i \in 0 .. m |-> f[i]] /\ Upto(m, f)}
<1>1. 0 \in S
  <2> DEFINE g == [i \in 0 .. 0 |-> start]
  <2>1. g = [i \in 0 .. 0 |-> g[i]] /\ Upto(0, g)
    OBVIOUS
  <2> HIDE DEF Upto, g
  <2> QED BY <2>1, 0 \in 0 .. n
<1>2. ASSUME NEW m \in 1 .. n, m - 1 \in S PROVE m \in S
  <2>1. PICK f : f = [i \in 0 .. m - 1 |-> f[i]] /\ Upto(m - 1, f)
    BY <1>2
  <2> DEFINE g == [i \in 0 .. m |-> IF i = m THEN step[m][f[m - 1]] ELSE f[i]]
  <2>2. g = [i \in 0 .. m |-> g[i]]
    OBVIOUS
  <2>3. \A i \in 0 .. m : g[i] = IF i = m THEN step[m][f[m - 1]] ELSE f[i]
    OBVIOUS
  <2> HIDE DEF g
  <2>4. \A i \in 1 .. m : i # m => i \in 1 .. m - 1
    OBVIOUS
  <2>5. \A i \in 0 .. m : i # m => i \in 0 .. m - 1
    OBVIOUS
  <2>6. /\ m - 1 \in 0 .. m - 1 /\ m - 1 \in 0 .. m /\ m - 1 # m
        /\ m \in 0 .. m /\ 0 \in 0 .. m /\ m # 0
    OBVIOUS
  <2>7. g[0] = start /\ g[m - 1] = f[m - 1] /\ g[m] = step[m][f[m - 1]]
    BY <2>1, <2>3, <2>6
  <2>8. ASSUME NEW i \in 1 .. m PROVE g[i] = step[i][g[i - 1]]
    <3>1. CASE i = m
      BY <2>7, <3>1
    <3>2. CASE i # m
      <4>1. i \in 1 .. m - 1 /\ i \in 0 .. m /\ i - 1 \in 0 .. m /\ i - 1 # m
        BY <3>2
      <4> QED BY <2>1, <2>3, <3>2, <4>1
    <3> QED BY <3>1, <3>2
  <2>9. ASSUME NEW i \in 0 .. m PROVE g[i] \in J[i]
    <3>1. CASE i = m
      BY <2>1, <2>6, <2>7, <3>1
    <3>2. CASE i # m
      BY <2>1, <2>3, <2>5, <3>2
    <3> QED BY <3>1, <3>2
  <2>10. Upto(m, g)
    BY <2>7, <2>8, <2>9
  <2> HIDE DEF Upto
  <2> QED BY <2>2, <2>10, m \in 0 .. n
<1> HIDE DEF S
<1>3. 0 .. n \subseteq S
  BY <1>1, <1>2, RangeInduction
<1> QED BY <1>3, n \in 0 .. n DEF S, FollowsWithin
=============================================================================
