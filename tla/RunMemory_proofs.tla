-------------------------- MODULE RunMemory_proofs --------------------------
(***************************************************************************)
(* Proofs about RunMemory: wherever malloc() puts a program its sections   *)
(* fit the block and do not overlap, a loaded program keeps its bytes and  *)
(* the protection of its pages, and no page outside it is ever protected.  *)
(***************************************************************************)
EXTENDS RunMemory, Recursion, FiniteSetTheorems

-----------------------------------------------------------------------------
(* The inductive invariant.                                                *)

Live(p) == stage[p] # "idle"
Loading(p) == stage[p] \in {"copy", "protect", "ready"}
Block(p) == Bytes(base[p], size[p])

(* Section i is of a class that has been protected.                        *)
Protected(p, i) ==
  /\ i < next[p]
  /\ next[p] <= Len(image[p]) => image[p][i].class # image[p][next[p]].class

(* Page g lies in the block of p, in front of what is still to be copied.  *)
Guards(p, g) ==
  /\ Loading(p)
  /\ base[p] <= g * Page /\ (g + 1) * Page <= base[p] + size[p]
  /\ \A i \in DOMAIN image[p] :
       ~Protected(p, i) => (g + 1) * Page <= ShAddr(image[p], base[p], i)

Typed ==
  /\ stage \in [Programs -> Stages]
  /\ image \in [Programs -> Seq(Section)]
  /\ base \in [Programs -> Addresses \cup {None}]
  /\ size \in [Programs -> Nat]
  /\ next \in [Programs -> Nat]
  /\ DOMAIN heap = Addresses
  /\ perm \in [Pages -> {"rx", "r", "rw"}]

(* Where a program that has no memory stands, and one that has.            *)
Resting(p) == stage[p] = "idle" => base[p] = None /\ image[p] = <<>> /\ next[p] = 0
Placed(p) ==
  Live(p) =>
    /\ \E secs \in Layouts : image[p] = ByClass(secs)
    /\ base[p] \in Addresses
    /\ size[p] = RequiredSize(image[p])
    /\ Block(p) \subseteq Addresses
Paced(p) ==
  /\ stage[p] = "copy" => next[p] \in DOMAIN image[p]
  /\ stage[p] = "protect" => next[p] \in DOMAIN image[p] /\ LastOfClass(image[p], next[p])
  /\ stage[p] \in {"ready", "unprotected"} => next[p] = Len(image[p]) + 1

(* The heap and the programs agree on who owns which byte.                 *)
Owned(p) == Live(p) => \A a \in Block(p) : \E n \in Nat : heap[a] = <<p, n>>
Owner(a) ==
  \/ heap[a] = Free
  \/ \E o \in Programs \cup Blocks, n \in Nat :
       heap[a] = <<o, n>> /\ (o \in Programs => Live(o) /\ a \in Block(o))

(* What has been copied is there.                                          *)
Copied(p) ==
  Live(p) => \A i \in DOMAIN image[p] :
    i < next[p] \/ (i = next[p] /\ stage[p] = "protect") =>
      \A a \in SectionBytes(p, i) : heap[a] = <<p, i>>

(* What has been protected is, and nothing else.                           *)
Shielded(p) ==
  Loading(p) => \A i \in DOMAIN image[p] :
    Protected(p, i) =>
      \A a \in SectionBytes(p, i) : perm[PageOf(a)] = Protection[image[p][i].class]
Guarded == \A g \in Pages : perm[g] # "rw" => \E p \in Programs : Guards(p, g)

ProgramInv(p) ==
  Resting(p) /\ Placed(p) /\ Paced(p) /\ Owned(p) /\ Copied(p) /\ Shielded(p)

IInv ==
  /\ Typed
  /\ \A p \in Programs : ProgramInv(p)
  /\ \A a \in Addresses : Owner(a)
  /\ Guarded

-----------------------------------------------------------------------------
(* Arithmetic: quotients, multiples and AlignUp.                           *)

LEMMA Division ==
  ASSUME NEW x \in Nat, NEW a \in Nat \ {0}
  PROVE  /\ x \div a \in Nat /\ x % a \in 0 .. a - 1
         /\ x = (x \div a) * a + (x % a)
OBVIOUS

LEMMA Quotient ==
  ASSUME NEW q \in Nat, NEW r \in Nat, NEW a \in Nat \ {0}, r < a
  PROVE  (q * a + r) \div a = q /\ (q * a + r) % a = r
OBVIOUS

LEMMA Multiple ==
  ASSUME NEW x \in Nat, NEW a \in Nat \ {0}
  PROVE  x % a = 0 <=> \E k \in Nat : x = k * a
<1>1. ASSUME x % a = 0 PROVE x = (x \div a) * a /\ x \div a \in Nat
  BY <1>1, Division
<1>2. ASSUME NEW k \in Nat, x = k * a PROVE x % a = 0
  BY <1>2, Quotient, k * a + 0 = k * a
<1> QED BY <1>1, <1>2

LEMMA MultipleTransitive ==
  ASSUME NEW x \in Nat, NEW a \in Nat \ {0}, NEW b \in Nat \ {0}, x % a = 0, a % b = 0
  PROVE  x % b = 0
<1>1. PICK k \in Nat : x = k * a
  BY Multiple
<1>2. PICK m \in Nat : a = m * b
  BY Multiple
<1>3. x = (k * m) * b /\ k * m \in Nat
  BY <1>1, <1>2
<1> QED BY <1>3, Multiple

LEMMA AlignUpBounds ==
  ASSUME NEW x \in Nat, NEW a \in Nat \ {0}
  PROVE  /\ AlignUp(x, a) \in Nat
         /\ AlignUp(x, a) % a = 0
         /\ x <= AlignUp(x, a) /\ AlignUp(x, a) <= x + a - 1
<1> DEFINE q == (x + a - 1) \div a
<1>1. q \in Nat /\ x + a - 1 = q * a + ((x + a - 1) % a) /\ (x + a - 1) % a \in 0 .. a - 1
  BY Division, x + a - 1 \in Nat
<1>2. AlignUp(x, a) = q * a
  BY DEF AlignUp
<1> HIDE DEF q
<1>3. q * a \in Nat
  BY <1>1
<1> QED BY <1>1, <1>2, <1>3, Multiple

LEMMA AlignUpLeast ==
  ASSUME NEW x \in Nat, NEW a \in Nat \ {0}, NEW m \in Nat, m % a = 0, x <= m
  PROVE  AlignUp(x, a) <= m
<1>1. PICK k \in Nat : AlignUp(x, a) = k * a
  BY AlignUpBounds, Multiple
<1>2. PICK j \in Nat : m = j * a
  BY Multiple
<1>3. k <= j => k * a <= j * a
  OBVIOUS
<1>4. k >= j + 1 => k * a >= j * a + a
  <2>1. k >= j + 1 => k * a >= (j + 1) * a
    OBVIOUS
  <2> QED BY <2>1
<1>5. k * a <= x + a - 1
  BY <1>1, AlignUpBounds
<1>6. k <= j
  BY <1>2, <1>4, <1>5
<1> QED BY <1>1, <1>2, <1>3, <1>6

LEMMA AlignUpMonotone ==
  ASSUME NEW x \in Nat, NEW y \in Nat, NEW a \in Nat \ {0}, x <= y
  PROVE  AlignUp(x, a) <= AlignUp(y, a)
BY AlignUpBounds, AlignUpLeast

LEMMA AlignUpShift ==
  ASSUME NEW x \in Nat, NEW a \in Nat \ {0}, NEW m \in Nat, m % a = 0
  PROVE  AlignUp(m + x, a) = m + AlignUp(x, a)
<1>1. PICK j \in Nat : m = j * a
  BY Multiple
<1> DEFINE q == (x + a - 1) \div a
           r == (x + a - 1) % a
<1>2. q \in Nat /\ x + a - 1 = q * a + r /\ r \in 0 .. a - 1
  BY Division, x + a - 1 \in Nat
<1>3. m + x + a - 1 = (j + q) * a + r
  BY <1>1, <1>2
<1>4. (m + x + a - 1) \div a = j + q
  <2>1. j + q \in Nat /\ r \in Nat /\ r < a
    BY <1>2
  <2> HIDE DEF q, r
  <2> QED BY <2>1, <1>3, Quotient
<1>5. AlignUp(m + x, a) = (j + q) * a /\ AlignUp(x, a) = q * a
  BY <1>4 DEF AlignUp
<1> HIDE DEF q
<1> QED BY <1>1, <1>2, <1>5

-----------------------------------------------------------------------------
(* The order of the passes.                                                *)

(* The loop of one class, as the function it computes.                     *)
LEMMA OfClassLoop ==
  ASSUME NEW secs \in Seq(Section), NEW k \in 0 .. 2
  PROVE  \E f \in [0 .. Len(secs) -> Seq(Section)] :
           /\ f[0] = <<>>
           /\ \A i \in 1 .. Len(secs) :
                f[i] = IF secs[i].class = k THEN Append(f[i - 1], secs[i]) ELSE f[i - 1]
           /\ OfClass(secs, k) = f[Len(secs)]
<1> DEFINE n == Len(secs)
           Value(g, i) == IF i = 0 THEN <<>>
                          ELSE IF secs[i].class = k THEN Append(g[i - 1], secs[i]) ELSE g[i - 1]
           step == [i \in 1 .. n |-> [s \in Seq(Section) |->
                      IF secs[i].class = k THEN Append(s, secs[i]) ELSE s]]
<1>1. n \in Nat /\ <<>> \in Seq(Section) /\ step \in [1 .. n -> [Seq(Section) -> Seq(Section)]]
  OBVIOUS
<1>2. PICK f : Follows(f, n, Seq(Section), <<>>, step)
  <2>1. step \in Steps(n, Seq(Section))
    BY <1>1 DEF Steps
  <2> HIDE DEF step, n
  <2> QED BY <1>1, <2>1, RecursiveFunction
<1>2a. f \in [0 .. n -> Seq(Section)] /\ f[0] = <<>> /\ \A i \in 1 .. n : f[i] = step[i][f[i - 1]]
  BY <1>2 DEF Follows
<1>3. \A i \in 1 .. n :
        f[i] = IF secs[i].class = k THEN Append(f[i - 1], secs[i]) ELSE f[i - 1]
  <2> TAKE i \in 1 .. n
  <2>1. f[i - 1] \in Seq(Section)
    BY <1>2a, i - 1 \in 0 .. n
  <2> QED BY <1>2a, <2>1
<1>4. f = [i \in 0 .. n |-> Value(f, i)]
  <2>1. \A i \in 0 .. n : f[i] = Value(f, i)
    <3> TAKE i \in 0 .. n
    <3>1. CASE i = 0
      BY <3>1, <1>2a
    <3>2. CASE i # 0
      BY <3>2, <1>3, i \in 1 .. n
    <3> QED BY <3>1, <3>2
  <2> HIDE DEF Value, n
  <2> QED BY <2>1, <1>2a
<1> DEFINE among == CHOOSE g : g = [i \in 0 .. n |-> Value(g, i)]
<1>5. among = [i \in 0 .. n |-> Value(among, i)]
  BY <1>4
<1>6. OfClass(secs, k) = among[n]
  BY DEF OfClass
<1>7. \A i \in 0 .. n : i \in {j \in 0 .. n : among[j] = f[j]}
  <2> DEFINE S == {j \in 0 .. n : among[j] = f[j]}
  <2> HIDE DEF among
  <2>1. 0 \in S
    BY <1>1, <1>2a, <1>5
  <2>2. ASSUME NEW i \in 1 .. n, i - 1 \in S PROVE i \in S
    <3>1. among[i] = Value(among, i)
      BY <1>5, i \in 0 .. n
    <3>2. f[i] = Value(f, i)
      BY <1>4, i \in 0 .. n
    <3> QED BY <2>2, <3>1, <3>2
  <2> HIDE DEF S
  <2>3. 0 .. n \subseteq S
    <3> HIDE DEF n
    <3> QED BY <1>1, <2>1, <2>2, RangeInduction
  <2> QED BY <2>3 DEF S
<1> HIDE DEF among
<1> QED BY <1>1, <1>2a, <1>3, <1>6, <1>7

(* A class holds the sections of its class, and all of them or none.       *)
LEMMA OfClassFacts ==
  ASSUME NEW secs \in Seq(Section), NEW k \in 0 .. 2
  PROVE  /\ OfClass(secs, k) \in Seq(Section)
         /\ \A i \in DOMAIN OfClass(secs, k) :
              /\ OfClass(secs, k)[i].class = k
              /\ \E j \in DOMAIN secs : OfClass(secs, k)[i] = secs[j]
         /\ (\E j \in DOMAIN secs : secs[j].class = k) => Len(OfClass(secs, k)) > 0
<1> DEFINE n == Len(secs)
<1>1. PICK f \in [0 .. n -> Seq(Section)] :
        /\ f[0] = <<>>
        /\ \A i \in 1 .. n :
             f[i] = IF secs[i].class = k THEN Append(f[i - 1], secs[i]) ELSE f[i - 1]
        /\ OfClass(secs, k) = f[n]
  BY OfClassLoop
<1> DEFINE From(m) ==
             /\ \A i \in DOMAIN f[m] :
                  f[m][i].class = k /\ \E j \in DOMAIN secs : f[m][i] = secs[j]
             /\ (\E j \in 1 .. m : secs[j].class = k) => Len(f[m]) > 0
           S == {m \in 0 .. n : From(m)}
<1>2. n \in Nat /\ DOMAIN secs = 1 .. n
  OBVIOUS
<1>3. 0 \in S
  BY <1>1, <1>2
<1>4. ASSUME NEW m \in 1 .. n, m - 1 \in S PROVE m \in S
  <2>1. f[m - 1] \in Seq(Section) /\ secs[m] \in Section /\ From(m - 1)
    BY <1>2, <1>4, m - 1 \in 0 .. n
  <2> SUFFICES From(m)
    BY m \in 0 .. n
  <2>2. CASE secs[m].class = k
    <3>1. f[m] = Append(f[m - 1], secs[m])
      BY <1>1, <2>2
    <3>2. Len(f[m]) = Len(f[m - 1]) + 1 /\ Len(f[m - 1]) \in Nat
      BY <2>1, <3>1
    <3>3. \A i \in DOMAIN f[m] : f[m][i] = IF i = Len(f[m]) THEN secs[m] ELSE f[m - 1][i]
      BY <2>1, <3>1
    <3>4. \A i \in DOMAIN f[m] : i = Len(f[m]) \/ i \in DOMAIN f[m - 1]
      BY <2>1, <3>1
    <3> QED BY <1>2, <2>1, <2>2, <3>2, <3>3, <3>4
  <2>3. CASE secs[m].class # k
    <3>1. f[m] = f[m - 1]
      BY <1>1, <2>3
    <3>2. \A j \in 1 .. m : secs[j].class = k => j \in 1 .. m - 1
      BY <2>3
    <3> QED BY <2>1, <3>1, <3>2
  <2> QED BY <2>2, <2>3
<1> HIDE DEF S
<1>5. n \in S
  <2>1. 0 .. n \subseteq S
    BY <1>2, <1>3, <1>4, RangeInduction
  <2> QED BY <1>2, <2>1
<1>6. From(n)
  BY <1>5 DEF S
<1>7. f[n] \in Seq(Section)
  BY <1>2
<1> QED BY <1>1, <1>2, <1>6, <1>7

(* The facts about the order every other lemma works with.                 *)
Order(order) ==
  /\ order \in Seq(Section)
  /\ \A i, j \in DOMAIN order : i <= j => order[i].class <= order[j].class
  /\ \E i \in DOMAIN order : order[i].class = 2
  /\ \A i, j \in DOMAIN order :
       /\ order[i].align % order[j].align = 0 \/ order[j].align % order[i].align = 0
       /\ order[i].align % Page = 0 \/ Page % order[i].align = 0

LEMMA ByClassOrders ==
  ASSUME NEW secs \in Layouts
  PROVE  Order(ByClass(secs))
<1> DEFINE a == OfClass(secs, 0)
           b == OfClass(secs, 1)
           c == OfClass(secs, 2)
           o == ByClass(secs)
<1>1. secs \in Seq(Section)
  BY LayoutsAssumption
<1>2. a \in Seq(Section) /\ b \in Seq(Section) /\ c \in Seq(Section)
  BY <1>1, OfClassFacts
<1>3. o = (a \o b) \o c
  BY DEF ByClass
<1>4. /\ \A i \in DOMAIN a : a[i].class = 0 /\ \E j \in DOMAIN secs : a[i] = secs[j]
      /\ \A i \in DOMAIN b : b[i].class = 1 /\ \E j \in DOMAIN secs : b[i] = secs[j]
      /\ \A i \in DOMAIN c : c[i].class = 2 /\ \E j \in DOMAIN secs : c[i] = secs[j]
      /\ Len(c) > 0
  <2>1. \E j \in DOMAIN secs : secs[j].class = 2
    BY DataAssumption
  <2>2. 0 \in 0 .. 2 /\ 1 \in 0 .. 2 /\ 2 \in 0 .. 2
    OBVIOUS
  <2>3. \A i \in DOMAIN a : a[i].class = 0 /\ \E j \in DOMAIN secs : a[i] = secs[j]
    BY <1>1, <2>2, OfClassFacts
  <2>4. \A i \in DOMAIN b : b[i].class = 1 /\ \E j \in DOMAIN secs : b[i] = secs[j]
    BY <1>1, <2>2, OfClassFacts
  <2>5. \A i \in DOMAIN c : c[i].class = 2 /\ \E j \in DOMAIN secs : c[i] = secs[j]
    BY <1>1, <2>2, OfClassFacts
  <2>6. Len(c) > 0
    BY <1>1, <2>1, <2>2, OfClassFacts
  <2> QED BY <2>3, <2>4, <2>5, <2>6
<1> HIDE DEF a, b, c, o
<1>5. /\ o \in Seq(Section)
      /\ Len(o) = Len(a) + Len(b) + Len(c)
      /\ Len(a) \in Nat /\ Len(b) \in Nat /\ Len(c) \in Nat
  BY <1>2, <1>3
<1>6. \A i \in DOMAIN o :
        \/ i <= Len(a) /\ i \in DOMAIN a /\ o[i] = a[i]
        \/ /\ i > Len(a) /\ i <= Len(a) + Len(b)
           /\ i - Len(a) \in DOMAIN b /\ o[i] = b[i - Len(a)]
        \/ /\ i > Len(a) + Len(b)
           /\ i - (Len(a) + Len(b)) \in DOMAIN c /\ o[i] = c[i - (Len(a) + Len(b))]
  <2>1. /\ a \o b \in Seq(Section) /\ Len(a \o b) = Len(a) + Len(b)
        /\ \A i \in 1 .. Len(a) + Len(b) :
             (a \o b)[i] = IF i <= Len(a) THEN a[i] ELSE b[i - Len(a)]
    BY <1>2
  <2> DEFINE ab == a \o b
  <2> HIDE DEF ab
  <2>2. \A i \in 1 .. Len(ab) + Len(c) :
          (ab \o c)[i] = IF i <= Len(ab) THEN ab[i] ELSE c[i - Len(ab)]
    BY <1>2, <2>1 DEF ab
  <2> QED BY <1>2, <1>3, <1>5, <2>1, <2>2 DEF ab
<1>7. \A i \in DOMAIN o :
        /\ \E j \in DOMAIN secs : o[i] = secs[j]
        /\ o[i].class = IF i <= Len(a) THEN 0 ELSE IF i <= Len(a) + Len(b) THEN 1 ELSE 2
  BY <1>4, <1>5, <1>6
<1>8. \E i \in DOMAIN o : o[i].class = 2
  <2>1. Len(o) \in DOMAIN o /\ Len(o) > Len(a) + Len(b)
    BY <1>4, <1>5
  <2> QED BY <1>5, <1>7, <2>1
<1>9. \A i, j \in DOMAIN o : i <= j => o[i].class <= o[j].class
  BY <1>5, <1>7
<1>10. \A i, j \in DOMAIN o :
         /\ o[i].align % o[j].align = 0 \/ o[j].align % o[i].align = 0
         /\ o[i].align % Page = 0 \/ Page % o[i].align = 0
  BY <1>7, AlignmentsAssumption
<1> QED BY <1>5, <1>8, <1>9, <1>10 DEF Order, o

-----------------------------------------------------------------------------
(* The layout of an order.                                                 *)

LEMMA SectionFacts ==
  ASSUME NEW order, Order(order), NEW i \in DOMAIN order
  PROVE  /\ order[i].class \in 0 .. 2 /\ order[i].align \in Nat \ {0} /\ order[i].length \in Nat
         /\ DOMAIN order = 1 .. Len(order) /\ Len(order) \in Nat /\ i \in Nat
<1>1. order \in Seq(Section)
  BY DEF Order
<1>2. DOMAIN order = 1 .. Len(order) /\ Len(order) \in Nat /\ order[i] \in Section
  BY <1>1
<1> QED BY <1>2 DEF Section

(* Any two alignments divide one another, the first section of a class     *)
(* starts a page, and every section gets the alignment it asked for.       *)
LEMMA AlignmentFacts ==
  ASSUME NEW order, Order(order), NEW i \in DOMAIN order
  PROVE  /\ Alignment(order, i) \in Nat \ {0}
         /\ Alignment(order, i) % order[i].align = 0
         /\ FirstOfClass(order, i) => Alignment(order, i) % Page = 0
         /\ \A j \in DOMAIN order :
              \/ Alignment(order, i) % Alignment(order, j) = 0
              \/ Alignment(order, j) % Alignment(order, i) = 0
<1> DEFINE a(j) == order[j].align
<1>1. Page \in Nat \ {0} /\ Page % Page = 0
  <2>1. Page \in Nat \ {0}
    BY PageAssumption
  <2> QED BY <2>1, Multiple, Page = 1 * Page
<1>2. \A j \in DOMAIN order : a(j) \in Nat \ {0} /\ a(j) % a(j) = 0
  <2> TAKE j \in DOMAIN order
  <2>1. a(j) \in Nat \ {0}
    BY SectionFacts
  <2> HIDE DEF a
  <2> QED BY <2>1, Multiple, a(j) = 1 * a(j)
<1>3. \A j, k \in DOMAIN order :
        /\ a(j) % a(k) = 0 \/ a(k) % a(j) = 0
        /\ a(j) % Page = 0 \/ Page % a(j) = 0
  BY DEF Order
<1>4. \A j \in DOMAIN order : Alignment(order, j) = a(j) \/ Alignment(order, j) = Page
  BY DEF Alignment
<1>5. Alignment(order, i) = Page => a(i) < Page \/ a(i) = Page
  BY DEF Alignment
<1>6. a(i) < Page => a(i) % Page = a(i)
  <2>1. ASSUME NEW x \in Nat, x < Page PROVE x % Page = x
    BY <1>1, <2>1, Quotient, 0 * Page + x = x
  <2> HIDE DEF a
  <2> QED BY <1>2, <2>1
<1>7. FirstOfClass(order, i) /\ Alignment(order, i) # Page => a(i) >= Page
  BY <1>1, <1>2 DEF Alignment
<1>8. a(i) > Page => Page % a(i) = Page
  <2>1. ASSUME NEW x \in Nat \ {0}, x > Page PROVE Page % x = Page
    BY <1>1, <2>1, Quotient, 0 * x + Page = Page
  <2> HIDE DEF a
  <2> QED BY <1>2, <2>1
<1> HIDE DEF a
<1>9. Alignment(order, i) % a(i) = 0
  BY <1>1, <1>2, <1>3, <1>4, <1>5, <1>6
<1>10. FirstOfClass(order, i) => Alignment(order, i) % Page = 0
  BY <1>1, <1>2, <1>3, <1>4, <1>7, <1>8
<1> QED BY <1>1, <1>2, <1>3, <1>4, <1>9, <1>10 DEF a

(* The layout is the function its recursion describes.                     *)
LEMMA LayoutLoop ==
  ASSUME NEW order, Order(order), NEW mem \in Nat
  PROVE  /\ Layout(order, mem) \in [0 .. Len(order) -> Nat]
         /\ Layout(order, mem)[0] = 0
         /\ \A i \in DOMAIN order :
              Layout(order, mem)[i] =
                AlignUp(mem + Layout(order, mem)[i - 1], Alignment(order, i)) - mem
                  + order[i].length
<1> DEFINE n == Len(order)
           After(x, i) == AlignUp(mem + x, Alignment(order, i)) - mem + order[i].length
           Value(g, i) == IF i = 0 THEN 0 ELSE After(g[i - 1], i)
           step == [i \in 1 .. n |-> [x \in Nat |-> After(x, i)]]
<1>1. n \in Nat /\ DOMAIN order = 1 .. n
  BY DEF Order
<1>2. \A i \in 1 .. n, x \in Nat : After(x, i) \in Nat
  <2> TAKE i \in 1 .. n, x \in Nat
  <2>1. /\ AlignUp(mem + x, Alignment(order, i)) \in Nat
        /\ mem + x <= AlignUp(mem + x, Alignment(order, i))
    BY <1>1, AlignmentFacts, AlignUpBounds, mem + x \in Nat
  <2>2. order[i].length \in Nat
    BY <1>1, SectionFacts
  <2> QED BY <2>1, <2>2
<1> HIDE DEF After
<1>3. step \in Steps(n, Nat)
  BY <1>2 DEF Steps
<1>4. PICK f : Follows(f, n, Nat, 0, step)
  <2> HIDE DEF step, n
  <2> QED BY <1>1, <1>3, RecursiveFunction
<1>5. f \in [0 .. n -> Nat] /\ f[0] = 0 /\ \A i \in 1 .. n : f[i] = step[i][f[i - 1]]
  BY <1>4 DEF Follows
<1>6. \A i \in 0 .. n : f[i] = Value(f, i)
  <2> TAKE i \in 0 .. n
  <2>1. CASE i = 0
    BY <1>5, <2>1
  <2>2. CASE i # 0
    <3>1. i \in 1 .. n /\ f[i - 1] \in Nat
      BY <1>1, <1>5, <2>2
    <3> QED BY <1>5, <2>2, <3>1
  <2> QED BY <2>1, <2>2
<1>7. f = [i \in 0 .. n |-> Value(f, i)]
  <2> HIDE DEF Value, n
  <2> QED BY <1>5, <1>6
<1> DEFINE end == CHOOSE g : g = [i \in 0 .. n |-> Value(g, i)]
<1>8. end = [i \in 0 .. n |-> Value(end, i)]
  BY <1>7
<1>9. Layout(order, mem) = end
  BY DEF Layout, After
<1> HIDE DEF end
<1> DEFINE S == {j \in 0 .. n : end[j] \in Nat}
<1>10. 0 .. n \subseteq S
  <2>1. 0 \in S
    BY <1>1, <1>8
  <2>2. ASSUME NEW i \in 1 .. n, i - 1 \in S PROVE i \in S
    <3>1. end[i] = Value(end, i) /\ end[i - 1] \in Nat
      BY <1>8, <2>2, i \in 0 .. n
    <3>2. After(end[i - 1], i) \in Nat
      BY <1>2, <3>1
    <3> QED BY <3>1, <3>2, i \in 0 .. n, i # 0
  <2> HIDE DEF S, n
  <2> QED BY <1>1, <2>1, <2>2, RangeInduction
<1>11. end \in [0 .. n -> Nat]
  BY <1>8, <1>10
<1>12. end[0] = 0
  BY <1>1, <1>8
<1>13. \A i \in 1 .. n : end[i] = After(end[i - 1], i)
  <2> TAKE i \in 1 .. n
  <2>1. end[i] = Value(end, i)
    BY <1>8, i \in 0 .. n
  <2> QED BY <2>1
<1> QED BY <1>1, <1>9, <1>11, <1>12, <1>13 DEF After

(* Where a section starts and where it ends.                               *)
LEMMA SectionPlace ==
  ASSUME NEW order, Order(order), NEW mem \in Nat, NEW i \in DOMAIN order
  PROVE  /\ ShAddr(order, mem, i) \in Nat
         /\ Layout(order, mem)[i - 1] \in Nat /\ Layout(order, mem)[i] \in Nat
         /\ ShAddr(order, mem, i) = AlignUp(mem + Layout(order, mem)[i - 1], Alignment(order, i))
         /\ mem + Layout(order, mem)[i - 1] <= ShAddr(order, mem, i)
         /\ ShAddr(order, mem, i) + order[i].length = mem + Layout(order, mem)[i]
         /\ ShAddr(order, mem, i) % order[i].align = 0
         /\ FirstOfClass(order, i) => ShAddr(order, mem, i) % Page = 0
<1> DEFINE before == Layout(order, mem)[i - 1]
           a == Alignment(order, i)
           start == AlignUp(mem + before, a)
<1>1. i - 1 \in 0 .. Len(order) /\ i \in 0 .. Len(order)
  BY SectionFacts
<1>2. before \in Nat /\ Layout(order, mem)[i] \in Nat
  BY <1>1, LayoutLoop
<1>3. Layout(order, mem)[i] = start - mem + order[i].length
  BY LayoutLoop
<1>4. a \in Nat \ {0} /\ a % order[i].align = 0 /\ (FirstOfClass(order, i) => a % Page = 0)
  BY AlignmentFacts
<1>5. order[i].length \in Nat /\ order[i].align \in Nat \ {0} /\ Page \in Nat \ {0}
  BY SectionFacts, PageAssumption
<1> HIDE DEF before, a
<1>6. start \in Nat /\ start % a = 0 /\ mem + before <= start
  BY <1>2, <1>4, AlignUpBounds, mem + before \in Nat
<1>7. ShAddr(order, mem, i) = start
  BY <1>3, <1>5, <1>6 DEF ShAddr
<1> HIDE DEF start
<1>8. start % order[i].align = 0 /\ (FirstOfClass(order, i) => start % Page = 0)
  BY <1>4, <1>5, <1>6, MultipleTransitive
<1> QED BY <1>2, <1>3, <1>5, <1>6, <1>7, <1>8 DEF before, a, start

(* No section reaches into a later one, nor begins before the block.       *)
LEMMA SectionsInOrder ==
  ASSUME NEW order, Order(order), NEW mem \in Nat
  PROVE  /\ \A i \in DOMAIN order : mem <= ShAddr(order, mem, i)
         /\ \A i, j \in DOMAIN order : i < j =>
              ShAddr(order, mem, i) + order[i].length <= ShAddr(order, mem, j)
         /\ \A i \in DOMAIN order :
              ShAddr(order, mem, i) + order[i].length <= mem + Layout(order, mem)[Len(order)]
<1> DEFINE n == Len(order)
           end == Layout(order, mem)
           S == {j \in 0 .. n : \A i \in 0 .. j : end[i] <= end[j]}
<1>1. n \in Nat /\ DOMAIN order = 1 .. n
  BY DEF Order
<1>2. end \in [0 .. n -> Nat]
  BY LayoutLoop
<1>3. \A i \in 1 .. n :
        /\ ShAddr(order, mem, i) \in Nat
        /\ mem + end[i - 1] <= ShAddr(order, mem, i)
        /\ ShAddr(order, mem, i) + order[i].length = mem + end[i]
        /\ order[i].length \in Nat
  BY <1>1, SectionPlace, SectionFacts
<1> HIDE DEF end, n
<1>4. 0 .. n \subseteq S
  <2>1. 0 \in S
    BY <1>1, <1>2
  <2>2. ASSUME NEW j \in 1 .. n, j - 1 \in S PROVE j \in S
    <3>1. end[j - 1] <= end[j] /\ end[j] \in Nat /\ end[j - 1] \in Nat
      <4>1. end[j] \in Nat /\ end[j - 1] \in Nat
        BY <1>1, <1>2, j - 1 \in 0 .. n, j \in 0 .. n
      <4>2. mem + end[j - 1] <= mem + end[j]
        BY <1>3, <4>1
      <4> QED BY <4>1, <4>2
    <3>2. \A i \in 0 .. j : i = j \/ i \in 0 .. j - 1
      OBVIOUS
    <3>3. \A i \in 0 .. j - 1 : end[i] <= end[j - 1] /\ end[i] \in Nat
      BY <1>1, <1>2, <2>2
    <3>4. \A i \in 0 .. j : end[i] <= end[j]
      BY <3>1, <3>2, <3>3
    <3> QED BY <3>4, j \in 0 .. n
  <2> HIDE DEF S
  <2> QED BY <1>1, <2>1, <2>2, RangeInduction
<1>5. \A i, j \in 0 .. n : i <= j => end[i] <= end[j] /\ end[i] \in Nat /\ end[j] \in Nat
  BY <1>1, <1>2, <1>4
<1>6. \A i \in 1 .. n : mem <= ShAddr(order, mem, i)
  BY <1>1, <1>2, <1>3
<1>7. \A i, j \in 1 .. n : i < j =>
        ShAddr(order, mem, i) + order[i].length <= ShAddr(order, mem, j)
  <2> TAKE i, j \in 1 .. n
  <2> HAVE i < j
  <2>1. i \in 0 .. n /\ j - 1 \in 0 .. n
    BY <1>1
  <2>2. end[i] <= end[j - 1]
    BY <1>1, <1>5, <2>1
  <2>3. ShAddr(order, mem, i) + order[i].length = mem + end[i]
    BY <1>1, <1>2, <1>3, <2>1
  <2>4. mem + end[j - 1] <= ShAddr(order, mem, j)
    BY <1>1, <1>2, <1>3, <2>1
  <2>5. end[i] \in Nat /\ end[j - 1] \in Nat
    BY <1>5, <2>1
  <2>6. mem + end[i] <= mem + end[j - 1]
    BY <2>2, <2>5
  <2>7. ShAddr(order, mem, j) \in Nat
    BY <1>1, <1>2, <1>3
  <2> QED BY <2>3, <2>4, <2>5, <2>6, <2>7
<1>8. \A i \in 1 .. n : ShAddr(order, mem, i) + order[i].length <= mem + end[n]
  <2> TAKE i \in 1 .. n
  <2>1. end[i] <= end[n] /\ end[i] \in Nat /\ end[n] \in Nat
    BY <1>1, <1>5, i \in 0 .. n, n \in 0 .. n
  <2> QED BY <1>3, <2>1
<1> QED BY <1>1, <1>6, <1>7, <1>8 DEF end, n

(* The allowance of the size pass: one less than an alignment that every   *)
(* other one divides, and no less than a page.                             *)
LEMMA Allowance ==
  ASSUME NEW order, Order(order)
  PROVE  \E m \in Nat \ {0} :
           /\ RequiredSize(order) = Layout(order, 0)[Len(order)] + (m - 1)
           /\ m >= Page
           /\ \A i \in DOMAIN order : m % Alignment(order, i) = 0
<1> DEFINE n == Len(order)
           a(i) == Alignment(order, i)
           All == {0} \cup {a(i) - 1 : i \in DOMAIN order}
           Above == {b \in Nat : \A x \in All : x <= b}
<1>1. n \in Nat /\ DOMAIN order = 1 .. n /\ n >= 1
  BY DEF Order
<1>2. \A i \in DOMAIN order : a(i) \in Nat \ {0}
  BY AlignmentFacts
<1>3. \A i, j \in DOMAIN order : a(i) % a(j) = 0 \/ a(j) % a(i) = 0
  BY AlignmentFacts
<1>4. Page \in Nat \ {0} /\ Page > 1
  BY PageAssumption
<1>5. a(1) >= Page
  <2>1. FirstOfClass(order, 1)
    BY <1>1 DEF FirstOfClass
  <2>2. order[1].align \in Nat \ {0}
    BY <1>1, SectionFacts
  <2> QED BY <1>4, <2>1, <2>2 DEF Alignment
<1> HIDE DEF a
<1>6. All \subseteq Nat /\ 0 \in All
  BY <1>2
<1>7. Above # {}
  <2> DEFINE S == {k \in 0 .. n : \E b \in Nat : \A i \in 1 .. k : a(i) - 1 <= b}
  <2> HIDE DEF n
  <2>1. 0 \in S
    BY <1>1
  <2>2. ASSUME NEW k \in 1 .. n, k - 1 \in S PROVE k \in S
    <3>1. PICK b \in Nat : \A i \in 1 .. k - 1 : a(i) - 1 <= b
      BY <2>2
    <3>2. a(k) \in Nat /\ \A i \in 1 .. k - 1 : a(i) \in Nat
      BY <1>1, <1>2
    <3>3. b + a(k) \in Nat /\ \A i \in 1 .. k : a(i) - 1 <= b + a(k)
      <4>1. \A i \in 1 .. k : i = k \/ i \in 1 .. k - 1
        OBVIOUS
      <4> QED BY <3>1, <3>2, <4>1
    <3> QED BY <3>3, k \in 0 .. n
  <2>3. n \in S
    <3> HIDE DEF S
    <3>1. 0 .. n \subseteq S
      BY <1>1, <2>1, <2>2, RangeInduction
    <3> QED BY <1>1, <3>1
  <2>4. PICK b \in Nat : \A i \in 1 .. n : a(i) - 1 <= b
    BY <2>3
  <2>5. \A x \in All : x <= b
    BY <1>1, <2>4
  <2> QED BY <2>5
<1>8. PICK top \in Above : \A b \in Above : top <= b
  <2> HIDE DEF All
  <2> QED BY <1>7, LeastNatural
<1>9. top \in All
  <2> SUFFICES ASSUME top \notin All PROVE FALSE
    OBVIOUS
  <2> HIDE DEF All
  <2>1. top \in Nat /\ \A x \in All : x <= top /\ x # top /\ x \in Nat
    BY <1>6, <1>8
  <2>2. top # 0
    BY <1>6, <2>1
  <2>3. top - 1 \in Nat /\ \A x \in All : x <= top - 1
    BY <2>1, <2>2
  <2> QED BY <1>8, <2>1, <2>3
<1>10. Max(All) \in All /\ \A x \in All : Max(All) >= x
  <2> HIDE DEF All
  <2>1. \A x \in All : top >= x
    BY <1>6, <1>8
  <2> QED BY <1>9, <2>1 DEF Max
<1>11. PICK i \in DOMAIN order : Max(All) = a(i) - 1
  <2>1. a(1) - 1 \in All /\ a(1) - 1 > 0
    BY <1>1, <1>2, <1>4, <1>5
  <2>2. Max(All) # 0
    <3> DEFINE x == a(1) - 1
    <3>1. x \in All /\ x > 0 /\ x \in Nat
      BY <1>6, <2>1
    <3>2. Max(All) >= x
      BY <1>10, <3>1
    <3> HIDE DEF All, x, Max
    <3> QED BY <3>1, <3>2
  <2>3. Max(All) \in All
    BY <1>10
  <2> HIDE DEF Max
  <2> QED BY <2>2, <2>3
<1>12. \A j \in DOMAIN order : a(j) <= a(i)
  BY <1>2, <1>10, <1>11
<1>13. \A j \in DOMAIN order : a(i) % a(j) = 0
  <2> TAKE j \in DOMAIN order
  <2>1. ASSUME a(j) % a(i) = 0 PROVE a(j) = a(i)
    <3> DEFINE x == a(j)
               y == a(i)
    <3>1. x \in Nat \ {0} /\ y \in Nat \ {0} /\ x <= y /\ x % y = 0
      BY <1>2, <1>12, <2>1
    <3> HIDE DEF x, y
    <3>2. x < y => x % y = x
      BY <3>1, Quotient, 0 * y + x = x
    <3>3. x = y
      BY <3>1, <3>2
    <3> QED BY <3>3 DEF x, y
  <2> QED BY <1>2, <1>3, <2>1
<1>14. a(i) >= Page
  BY <1>1, <1>2, <1>4, <1>5, <1>12
<1>15. RequiredSize(order) = Layout(order, 0)[Len(order)] + Max(All)
  BY DEF RequiredSize, a
<1> HIDE DEF All
<1> QED BY <1>2, <1>11, <1>13, <1>14, <1>15 DEF a

(* The size asked for is enough wherever malloc() puts the block: moved up *)
(* to a multiple of every alignment it would be laid out as from 0, and    *)
(* the allowance covers the way there.                                     *)
LEMMA BlockHolds ==
  ASSUME NEW order, Order(order), NEW mem \in Nat
  PROVE  /\ RequiredSize(order) \in Nat /\ RequiredSize(order) > 0
         /\ mem + Layout(order, mem)[Len(order)] <= mem + RequiredSize(order)
<1> DEFINE n == Len(order)
           end == Layout(order, mem)
           zero == Layout(order, 0)
           a(i) == Alignment(order, i)
<1>1. n \in Nat /\ DOMAIN order = 1 .. n
  BY DEF Order
<1>2. PICK m \in Nat \ {0} :
        /\ RequiredSize(order) = zero[n] + (m - 1)
        /\ m >= Page
        /\ \A i \in DOMAIN order : m % a(i) = 0
  BY Allowance
<1> DEFINE top == AlignUp(mem, m)
<1>3. top \in Nat /\ top % m = 0 /\ mem <= top /\ top <= mem + m - 1
  BY AlignUpBounds
<1>4. end \in [0 .. n -> Nat] /\ zero \in [0 .. n -> Nat] /\ end[0] = 0 /\ zero[0] = 0
  BY LayoutLoop
<1>5. \A i \in 1 .. n :
        /\ end[i] = AlignUp(mem + end[i - 1], a(i)) - mem + order[i].length
        /\ zero[i] = AlignUp(zero[i - 1], a(i)) + order[i].length
        /\ order[i].length \in Nat /\ a(i) \in Nat \ {0}
  <2> TAKE i \in 1 .. n
  <2>1. a(i) \in Nat \ {0} /\ order[i].length \in Nat
    BY <1>1, AlignmentFacts, SectionFacts
  <2>2. end[i] = AlignUp(mem + end[i - 1], a(i)) - mem + order[i].length
    BY <1>1, LayoutLoop
  <2>3. zero[i] = AlignUp(0 + zero[i - 1], a(i)) - 0 + order[i].length
    <3>1. \A j \in DOMAIN order :
            zero[j] = AlignUp(0 + zero[j - 1], a(j)) - 0 + order[j].length
      BY LayoutLoop, 0 \in Nat
    <3> HIDE DEF zero, a
    <3> QED BY <1>1, <3>1
  <2>4. zero[i - 1] \in Nat
    BY <1>4, i - 1 \in 0 .. n
  <2> HIDE DEF zero, a
  <2>5. AlignUp(zero[i - 1], a(i)) \in Nat
    BY <2>1, <2>4, AlignUpBounds
  <2>6. zero[i] = AlignUp(zero[i - 1], a(i)) - 0 + order[i].length
    <3>1. 0 + zero[i - 1] = zero[i - 1]
      BY <2>4
    <3> QED BY <2>3, <3>1
  <2> QED BY <2>1, <2>2, <2>5, <2>6
<1>6. \A i \in 1 .. n : top % a(i) = 0
  BY <1>1, <1>2, <1>3, <1>5, MultipleTransitive
<1> DEFINE S == {i \in 0 .. n : mem + end[i] <= top + zero[i]}
<1>7. 0 .. n \subseteq S
  <2> HIDE DEF end, zero, a, n, top
  <2>1. 0 \in S
    BY <1>1, <1>3, <1>4
  <2>2. ASSUME NEW i \in 1 .. n, i - 1 \in S PROVE i \in S
    <3> DEFINE x == mem + end[i - 1]
               y == zero[i - 1]
               e == AlignUp(x, a(i))
               z == AlignUp(y, a(i))
    <3>1. end[i - 1] \in Nat /\ y \in Nat /\ end[i] \in Nat /\ zero[i] \in Nat
      BY <1>1, <1>4, i - 1 \in 0 .. n, i \in 0 .. n
    <3>2. x <= top + y /\ x \in Nat /\ a(i) \in Nat \ {0}
      BY <1>5, <2>2, <3>1
    <3>3. e <= AlignUp(top + y, a(i))
      <4> HIDE DEF x, y
      <4> QED BY <1>3, <3>1, <3>2, AlignUpMonotone, top + y \in Nat
    <3>4. AlignUp(top + y, a(i)) = top + z
      <4> HIDE DEF y
      <4> QED BY <1>3, <1>6, <3>1, <3>2, AlignUpShift
    <3>5. e \in Nat /\ z \in Nat
      <4> HIDE DEF x, y
      <4> QED BY <3>1, <3>2, AlignUpBounds
    <3>6. end[i] = e - mem + order[i].length /\ zero[i] = z + order[i].length
          /\ order[i].length \in Nat
      BY <1>5
    <3> HIDE DEF e, z
    <3>7. mem + end[i] <= top + zero[i]
      BY <1>3, <3>3, <3>4, <3>5, <3>6
    <3> QED BY <3>7, i \in 0 .. n
  <2> HIDE DEF S
  <2> QED BY <1>1, <2>1, <2>2, RangeInduction
<1>8. mem + end[n] <= top + zero[n] /\ end[n] \in Nat /\ zero[n] \in Nat
  <2> HIDE DEF end, zero, n, top
  <2> QED BY <1>1, <1>4, <1>7, n \in 0 .. n
<1> HIDE DEF end, zero, n, top
<1>9. RequiredSize(order) \in Nat /\ RequiredSize(order) > 0
  BY <1>2, <1>8, PageAssumption
<1>10. mem + end[n] <= mem + RequiredSize(order)
  BY <1>2, <1>3, <1>8
<1> QED BY <1>9, <1>10 DEF end, n

-----------------------------------------------------------------------------
(* Pages.                                                                  *)

LEMMA PageBounds ==
  ASSUME NEW a \in Nat
  PROVE  PageOf(a) \in Nat /\ PageOf(a) * Page <= a /\ a < (PageOf(a) + 1) * Page
<1>1. Page \in Nat \ {0}
  BY PageAssumption
<1>2. /\ PageOf(a) \in Nat /\ a % Page \in 0 .. Page - 1
      /\ a = PageOf(a) * Page + (a % Page)
  BY <1>1, Division DEF PageOf
<1>3. (PageOf(a) + 1) * Page = PageOf(a) * Page + Page /\ PageOf(a) * Page \in Nat
  BY <1>1, <1>2
<1> QED BY <1>1, <1>2, <1>3

LEMMA PageIs ==
  ASSUME NEW a \in Nat, NEW g \in Nat, g * Page <= a, a < (g + 1) * Page
  PROVE  PageOf(a) = g
<1>1. Page \in Nat \ {0}
  BY PageAssumption
<1> DEFINE r == a - g * Page
<1>2. g * Page \in Nat /\ (g + 1) * Page = g * Page + Page
  BY <1>1
<1>3. r \in Nat /\ r < Page /\ g * Page + r = a
  BY <1>1, <1>2
<1> HIDE DEF r
<1> QED BY <1>1, <1>3, Quotient DEF PageOf

LEMMA PageMonotone ==
  ASSUME NEW a \in Nat, NEW b \in Nat, a <= b
  PROVE  PageOf(a) <= PageOf(b)
<1>1. Page \in Nat \ {0}
  BY PageAssumption
<1> DEFINE g == PageOf(a)
           h == PageOf(b)
<1>2. g \in Nat /\ h \in Nat /\ g * Page <= a /\ b < (h + 1) * Page
  BY PageBounds
<1> HIDE DEF g, h
<1>3. g >= h + 1 => g * Page >= (h + 1) * Page
  BY <1>1, <1>2
<1>4. g * Page \in Nat /\ (h + 1) * Page \in Nat
  BY <1>1, <1>2
<1> QED BY <1>2, <1>3, <1>4 DEF g, h

(* A page boundary separates the pages on its two sides.                   *)
LEMMA PageBoundary ==
  ASSUME NEW a \in Nat, NEW m \in Nat, m % Page = 0
  PROVE  /\ a < m => (PageOf(a) + 1) * Page <= m
         /\ m <= a => m <= PageOf(a) * Page
<1>1. Page \in Nat \ {0}
  BY PageAssumption
<1>2. PICK k \in Nat : m = k * Page
  BY <1>1, Multiple
<1> DEFINE g == PageOf(a)
<1>3. g \in Nat /\ g * Page <= a /\ a < (g + 1) * Page
  BY PageBounds
<1> HIDE DEF g
<1>4. /\ g >= k => g * Page >= k * Page
      /\ g + 1 <= k => (g + 1) * Page <= k * Page
  BY <1>1, <1>2, <1>3
<1>5. g * Page \in Nat /\ (g + 1) * Page \in Nat /\ k * Page \in Nat
  BY <1>1, <1>2, <1>3
<1>6. a < m => g + 1 <= k
  BY <1>2, <1>3, <1>4, <1>5
<1>7. m <= a => g >= k
  BY <1>2, <1>3, <1>4, <1>5
<1> QED BY <1>2, <1>4, <1>6, <1>7 DEF g

LEMMA PageInHeap ==
  ASSUME NEW a \in Addresses
  PROVE  a \in Nat /\ PageOf(a) \in Pages
<1>1. a \in Nat /\ a < HeapPages * Page /\ HeapPages \in Nat /\ Page \in Nat \ {0}
      /\ HeapPages * Page \in Nat
  BY HeapAssumption, PageAssumption DEF Addresses
<1>2. HeapPages * Page % Page = 0
  BY <1>1, Multiple
<1> DEFINE g == PageOf(a)
<1>3. (g + 1) * Page <= HeapPages * Page /\ g \in Nat
  BY <1>1, <1>2, PageBoundary, PageBounds
<1> HIDE DEF g
<1>4. g >= HeapPages => g * Page >= HeapPages * Page
  BY <1>1, <1>3
<1>5. (g + 1) * Page = g * Page + Page /\ g * Page \in Nat
  BY <1>1, <1>3
<1>6. g < HeapPages
  BY <1>1, <1>3, <1>4, <1>5
<1> QED BY <1>1, <1>3, <1>6 DEF g, Pages

(* What SetPages changes: the pages that hold a byte of the range.         *)
Touched(from, n) == PageOf(from) .. AlignUp(from + n, Page) \div Page - 1

LEMMA PagesTouched ==
  ASSUME NEW from \in Nat, NEW n \in Nat, n > 0
  PROVE  /\ \A a \in Bytes(from, n) : PageOf(a) \in Touched(from, n)
         /\ \A g \in Touched(from, n) : \E a \in Bytes(from, n) : PageOf(a) = g
<1>1. Page \in Nat \ {0}
  BY PageAssumption
<1> DEFINE e == AlignUp(from + n, Page)
<1>2. e \in Nat /\ e % Page = 0 /\ from + n <= e /\ e <= from + n + Page - 1
  BY <1>1, AlignUpBounds, from + n \in Nat
<1>3. PICK q \in Nat : e = q * Page
  BY <1>1, <1>2, Multiple
<1>4. e \div Page = q
  <2> HIDE DEF e
  <2> QED BY <1>1, <1>3, Quotient, q * Page + 0 = q * Page
<1>5. Touched(from, n) = PageOf(from) .. q - 1
  BY <1>4 DEF Touched
<1> HIDE DEF e
<1>6. ASSUME NEW a \in Bytes(from, n) PROVE PageOf(a) \in Touched(from, n)
  <2>1. a \in Nat /\ from <= a /\ a < e
    BY <1>2 DEF Bytes
  <2>2. PageOf(from) <= PageOf(a) /\ PageOf(a) \in Nat /\ PageOf(from) \in Nat
    BY <2>1, PageMonotone, PageBounds
  <2>3. (PageOf(a) + 1) * Page <= q * Page
    BY <1>2, <1>3, <2>1, PageBoundary
  <2>4. PageOf(a) + 1 <= q
    <3> DEFINE h == PageOf(a) + 1
    <3>1. h \in Nat /\ h * Page <= q * Page
      BY <2>2, <2>3
    <3> HIDE DEF h
    <3>2. h >= q + 1 => h * Page >= (q + 1) * Page
      BY <1>1, <3>1
    <3>3. (q + 1) * Page = q * Page + Page /\ q * Page \in Nat /\ h * Page \in Nat
      BY <1>1, <3>1
    <3>4. h <= q
      BY <1>1, <3>1, <3>2, <3>3
    <3> QED BY <3>4 DEF h
  <2> QED BY <1>5, <2>2, <2>4
<1>7. ASSUME NEW g \in Touched(from, n) PROVE \E a \in Bytes(from, n) : PageOf(a) = g
  <2>1. PageOf(from) \in Nat /\ from < (PageOf(from) + 1) * Page
    BY PageBounds
  <2>2. g \in Nat /\ PageOf(from) <= g /\ g + 1 <= q
    BY <1>5, <2>1
  <2>3. g * Page \in Nat /\ (g + 1) * Page = g * Page + Page /\ g * Page < (g + 1) * Page
    BY <1>1, <2>2
  <2>4. g * Page < from + n
    <3>1. (g + 1) * Page <= q * Page
      BY <1>1, <2>2
    <3> QED BY <1>1, <1>2, <1>3, <2>3, <3>1
  <2>5. CASE from <= g * Page
    <3>1. g * Page \in Bytes(from, n)
      BY <2>3, <2>4, <2>5 DEF Bytes
    <3>2. PageOf(g * Page) = g
      <4> DEFINE b == g * Page
      <4>1. b \in Nat /\ g * Page <= b /\ b < (g + 1) * Page
        BY <2>3
      <4> HIDE DEF b
      <4>2. PageOf(b) = g
        BY <2>2, <4>1, PageIs
      <4> QED BY <4>2 DEF b
    <3> QED BY <3>1, <3>2
  <2>6. CASE g * Page < from
    <3>1. from \in Bytes(from, n)
      BY DEF Bytes
    <3>2. from < (g + 1) * Page
      <4>1. (PageOf(from) + 1) * Page <= (g + 1) * Page
        BY <1>1, <2>1, <2>2
      <4>2. (PageOf(from) + 1) * Page \in Nat /\ (g + 1) * Page \in Nat
        BY <1>1, <2>1, <2>2
      <4> QED BY <2>1, <4>1, <4>2
    <3>3. PageOf(from) = g
      BY <2>2, <2>3, <2>6, <3>2, PageIs
    <3> QED BY <3>1, <3>3
  <2> QED BY <2>3, <2>5, <2>6
<1> QED BY <1>6, <1>7

-----------------------------------------------------------------------------
(* The pages of a class.                                                   *)

LEMMA FirstExists ==
  ASSUME NEW order, Order(order), NEW i \in DOMAIN order
  PROVE  \E f \in DOMAIN order :
           f <= i /\ order[f].class = order[i].class /\ FirstOfClass(order, f)
<1> DEFINE T == {j \in DOMAIN order : order[j].class = order[i].class}
<1>1. DOMAIN order = 1 .. Len(order) /\ Len(order) \in Nat
  BY SectionFacts
<1>2. PICK f \in T : \A j \in T : f <= j
  <2>1. T \subseteq Nat /\ i \in T
    BY <1>1
  <2> HIDE DEF T
  <2> QED BY <2>1, LeastNatural
<1>3. \A j \in 1 .. f - 1 : order[j].class # order[f].class
  BY <1>1, <1>2
<1> QED BY <1>1, <1>2, <1>3 DEF FirstOfClass

(* A page that holds a byte between the first section of a class and the   *)
(* end of another one of it starts in the block and behind the sections of *)
(* the classes before, ends in front of those of the classes behind, and   *)
(* in the block, if the class is not the last one.                         *)
LEMMA PageOfClass ==
  ASSUME NEW order, Order(order), NEW mem \in Nat,
         NEW f \in DOMAIN order, FirstOfClass(order, f),
         NEW l \in DOMAIN order, order[l].class = order[f].class,
         NEW a \in Nat, ShAddr(order, mem, f) <= a,
         a < ShAddr(order, mem, l) + order[l].length
  PROVE  /\ mem <= PageOf(a) * Page
         /\ \A j \in DOMAIN order : order[j].class > order[l].class =>
              (PageOf(a) + 1) * Page <= ShAddr(order, mem, j)
         /\ order[l].class < 2 => (PageOf(a) + 1) * Page <= mem + RequiredSize(order)
         /\ \A j \in DOMAIN order : order[j].class < order[l].class =>
              \A b \in Bytes(ShAddr(order, mem, j), order[j].length) : PageOf(b) < PageOf(a)
<1> DEFINE at(i) == ShAddr(order, mem, i)
           len(i) == order[i].length
           k(i) == order[i].class
           g == PageOf(a)
<1>1. /\ DOMAIN order = 1 .. Len(order) /\ Len(order) \in Nat
      /\ \A i \in DOMAIN order : i \in Nat /\ at(i) \in Nat /\ len(i) \in Nat /\ k(i) \in 0 .. 2
  BY SectionFacts, SectionPlace
<1>2. /\ \A i \in DOMAIN order : mem <= at(i) /\ at(i) + len(i) <= mem + RequiredSize(order)
      /\ \A i, j \in DOMAIN order : i < j => at(i) + len(i) <= at(j)
  <2> DEFINE end == mem + Layout(order, mem)[Len(order)]
  <2>1. /\ \A i \in DOMAIN order : mem <= at(i) /\ at(i) + len(i) <= end
        /\ \A i, j \in DOMAIN order : i < j => at(i) + len(i) <= at(j)
    BY SectionsInOrder
  <2>2. end <= mem + RequiredSize(order) /\ RequiredSize(order) \in Nat
    BY BlockHolds
  <2>3. end \in Nat
    <3>1. Layout(order, mem)[Len(order)] \in Nat
      <4>1. Layout(order, mem) \in [0 .. Len(order) -> Nat]
        BY LayoutLoop
      <4> QED BY <1>1, <4>1
    <3> QED BY <3>1
  <2> HIDE DEF end, at, len
  <2>4. \A i \in DOMAIN order : at(i) + len(i) <= mem + RequiredSize(order)
    <3> SUFFICES ASSUME NEW i \in DOMAIN order
                 PROVE  at(i) + len(i) <= mem + RequiredSize(order)
      OBVIOUS
    <3>1. at(i) \in Nat /\ len(i) \in Nat /\ at(i) + len(i) <= end
      BY <1>1, <2>1
    <3> QED BY <3>1, <2>2, <2>3
  <2> QED BY <2>1, <2>4
<1>3. \A i \in DOMAIN order : FirstOfClass(order, i) => at(i) % Page = 0
  BY SectionPlace
<1>4. \A i, j \in DOMAIN order : i <= j => k(i) <= k(j)
  BY DEF Order
<1>5. g \in Nat /\ Page \in Nat \ {0} /\ (g + 1) * Page \in Nat /\ g * Page \in Nat
  <2>1. g \in Nat /\ Page \in Nat \ {0}
    BY PageBounds, PageAssumption
  <2> HIDE DEF g
  <2> QED BY <2>1
<1>6. at(f) <= g * Page
  BY <1>1, <1>3, PageBoundary
<1>7. mem <= g * Page
  <2> HIDE DEF at, g
  <2> QED BY <1>1, <1>2, <1>5, <1>6
<1>8. ASSUME NEW j \in DOMAIN order, k(j) > k(l) PROVE (g + 1) * Page <= at(j)
  <2>1. PICK h \in DOMAIN order : h <= j /\ k(h) = k(j) /\ FirstOfClass(order, h)
    BY FirstExists
  <2>2. l < h
    <3>1. k(h) > k(l)
      BY <1>8, <2>1
    <3>1a. k(h) \in Nat /\ k(l) \in Nat /\ h \in Nat /\ l \in Nat
      <4> HIDE DEF k
      <4> QED BY <1>1
    <3>2. h <= l => k(h) <= k(l)
      BY <1>4
    <3> HIDE DEF k
    <3> QED BY <3>1, <3>1a, <3>2
  <2>3. a < at(h)
    <3>1. at(l) + len(l) <= at(h)
      BY <1>2, <2>2
    <3>2. a < at(l) + len(l)
      OBVIOUS
    <3>3. at(l) \in Nat /\ len(l) \in Nat /\ at(h) \in Nat
      BY <1>1
    <3> HIDE DEF at, len
    <3> QED BY <3>1, <3>2, <3>3
  <2>4. (g + 1) * Page <= at(h)
    BY <1>1, <1>3, <2>1, <2>3, PageBoundary
  <2>5. at(h) <= at(j)
    <3>1. h = j \/ h < j
      BY <1>1, <2>1
    <3>2. h < j => at(h) + len(h) <= at(j)
      BY <1>2
    <3>3. at(h) \in Nat /\ len(h) \in Nat /\ at(j) \in Nat
      BY <1>1
    <3> HIDE DEF at, len
    <3> QED BY <3>1, <3>2, <3>3
  <2>6. at(h) \in Nat /\ at(j) \in Nat
    BY <1>1
  <2> HIDE DEF at, g
  <2> QED BY <1>5, <2>4, <2>5, <2>6
<1>9. k(l) < 2 => (g + 1) * Page <= mem + RequiredSize(order)
  <2>1. PICK j \in DOMAIN order : k(j) = 2
    BY DEF Order
  <2>2. k(l) < 2 => (g + 1) * Page <= at(j)
    BY <1>8, <2>1
  <2>3. at(j) \in Nat /\ len(j) \in Nat /\ at(j) + len(j) <= mem + RequiredSize(order)
        /\ RequiredSize(order) \in Nat
    BY <1>1, <1>2, BlockHolds
  <2> HIDE DEF at, len, g, k
  <2> QED BY <1>5, <2>2, <2>3
<1>10. ASSUME NEW j \in DOMAIN order, k(j) < k(l), NEW b \in Bytes(at(j), len(j))
       PROVE  PageOf(b) < g
  <2>1. j < f
    <3>1. k(l) = k(f)
      OBVIOUS
    <3> HIDE DEF k
    <3> QED BY <1>1, <1>4, <1>10, <3>1
  <2>2. at(j) + len(j) <= at(f) /\ at(f) \in Nat /\ at(j) \in Nat /\ len(j) \in Nat
    BY <1>1, <1>2, <2>1
  <2>3. b \in Nat /\ b < at(f)
    <3> HIDE DEF at, len
    <3> QED BY <2>2 DEF Bytes
  <2>4. (PageOf(b) + 1) * Page <= at(f) /\ PageOf(b) \in Nat
    BY <1>1, <1>3, <2>3, PageBoundary, PageBounds
  <2> DEFINE h == PageOf(b)
  <2>5. h \in Nat /\ (h + 1) * Page <= g * Page
    <3>1. (h + 1) * Page \in Nat
      <4>1. h \in Nat
        BY <2>4
      <4> HIDE DEF h
      <4> QED BY <1>5, <4>1
    <3> HIDE DEF at, g
    <3> QED BY <1>5, <1>6, <2>2, <2>4, <3>1
  <2> HIDE DEF h, g
  <2>6. g <= h => g * Page <= h * Page
    BY <1>5, <2>5
  <2>7. (h + 1) * Page = h * Page + Page /\ h * Page \in Nat
    BY <1>5, <2>5
  <2>8. h < g
    BY <1>5, <2>5, <2>6, <2>7
  <2> QED BY <2>8 DEF h
<1> QED BY <1>7, <1>8, <1>9, <1>10

-----------------------------------------------------------------------------
(* Programs in their blocks.                                               *)

(* What the layout lemmas say of a program that has its memory.            *)
LEMMA Placement ==
  ASSUME NEW p \in Programs, Typed, Placed(p), Live(p)
  PROVE  /\ Order(image[p]) /\ DOMAIN image[p] = 1 .. Len(image[p]) /\ Len(image[p]) \in Nat
         /\ base[p] \in Nat /\ size[p] \in Nat /\ size[p] > 0
         /\ size[p] = RequiredSize(image[p])
         /\ \A i \in DOMAIN image[p] :
              /\ image[p][i].class \in 0 .. 2 /\ image[p][i].length \in Nat
              /\ ShAddr(image[p], base[p], i) \in Nat
              /\ SectionBytes(p, i) \subseteq Block(p)
              /\ ShAddr(image[p], base[p], i) % image[p][i].align = 0
              /\ \A j \in DOMAIN image[p] \ {i} : SectionBytes(p, i) \cap SectionBytes(p, j) = {}
<1> DEFINE order == image[p]
           mem == base[p]
           at(i) == ShAddr(order, mem, i)
           len(i) == order[i].length
           end == mem + Layout(order, mem)[Len(order)]
<1>1. Order(order)
  BY ByClassOrders DEF Placed
<1>2. mem \in Nat
  BY HeapAssumption, PageAssumption DEF Placed, Addresses
<1>3. size[p] = RequiredSize(order) /\ RequiredSize(order) \in Nat /\ RequiredSize(order) > 0
  BY <1>1, <1>2, BlockHolds DEF Placed
<1>4. DOMAIN order = 1 .. Len(order) /\ Len(order) \in Nat
  BY <1>1 DEF Order
<1>5. \A i \in DOMAIN order :
        /\ order[i].class \in 0 .. 2 /\ len(i) \in Nat /\ at(i) \in Nat /\ mem <= at(i)
        /\ at(i) % order[i].align = 0
        /\ at(i) + len(i) <= end
  BY <1>1, <1>2, SectionFacts, SectionPlace, SectionsInOrder
<1>6. \A i, j \in DOMAIN order : i < j => at(i) + len(i) <= at(j)
  BY <1>1, <1>2, SectionsInOrder
<1>7. end <= mem + size[p] /\ end \in Nat
  <2>1. Layout(order, mem) \in [0 .. Len(order) -> Nat]
    BY <1>1, <1>2, LayoutLoop
  <2>2. Layout(order, mem)[Len(order)] \in Nat
    BY <1>4, <2>1
  <2>3. end <= mem + RequiredSize(order)
    BY <1>1, <1>2, BlockHolds
  <2> QED BY <1>2, <1>3, <2>2, <2>3
<1>8. \A i \in DOMAIN order : SectionBytes(p, i) = Bytes(at(i), len(i))
  BY DEF SectionBytes
<1> HIDE DEF order, mem, at, len, end
<1>9. \A i \in DOMAIN order : Bytes(at(i), len(i)) \subseteq Bytes(mem, size[p])
  BY <1>2, <1>3, <1>5, <1>7 DEF Bytes
<1>10. \A i, j \in DOMAIN order : i # j => Bytes(at(i), len(i)) \cap Bytes(at(j), len(j)) = {}
  <2> SUFFICES ASSUME NEW i \in DOMAIN order, NEW j \in DOMAIN order, i # j
               PROVE  Bytes(at(i), len(i)) \cap Bytes(at(j), len(j)) = {}
    OBVIOUS
  <2>1. at(i) + len(i) <= at(j) \/ at(j) + len(j) <= at(i)
    BY <1>4, <1>6
  <2> QED BY <1>5, <2>1 DEF Bytes
<1> QED BY <1>1, <1>2, <1>3, <1>4, <1>5, <1>8, <1>9, <1>10 DEF order, mem, at, len, Block

(* No byte is in two blocks, nor does a free one lie in one.               *)
LEMMA BlocksApart ==
  ASSUME Typed, NEW p \in Programs, Owned(p), Live(p), NEW a \in Block(p)
  PROVE  /\ heap[a] # Free
         /\ \A b \in Blocks, n \in Nat : heap[a] # <<b, n>>
         /\ \A q \in Programs : q # p /\ Owned(q) /\ Live(q) => a \notin Block(q)
<1>1. PICK n \in Nat : heap[a] = <<p, n>>
  BY DEF Owned
<1>2. <<p, n>> \in (Programs \cup Blocks) \X Nat
  OBVIOUS
<1>3. heap[a] # Free
  BY <1>1, <1>2, OwnersAssumption
<1>4. \A b \in Blocks, m \in Nat : heap[a] # <<b, m>>
  BY <1>1, OwnersAssumption
<1>5. ASSUME NEW q \in Programs, q # p, Owned(q), Live(q), a \in Block(q) PROVE FALSE
  <2>1. PICK m \in Nat : heap[a] = <<q, m>>
    BY <1>5 DEF Owned
  <2> QED BY <1>1, <1>5, <2>1
<1> QED BY <1>3, <1>4, <1>5

(* A page that holds a byte of a protected section lies in the block.      *)
LEMMA ShieldInBlock ==
  ASSUME NEW p \in Programs, Typed, Placed(p), Live(p),
         NEW i \in DOMAIN image[p], image[p][i].class < 2,
         NEW a \in SectionBytes(p, i), NEW b \in Nat, PageOf(b) = PageOf(a)
  PROVE  b \in Block(p)
<1> DEFINE order == image[p]
           mem == base[p]
           g == PageOf(a)
<1>1. Order(order) /\ mem \in Nat /\ size[p] = RequiredSize(order) /\ size[p] \in Nat
  BY Placement
<1>2. PICK f \in DOMAIN order :
        f <= i /\ order[f].class = order[i].class /\ FirstOfClass(order, f)
  BY <1>1, FirstExists
<1>3. /\ ShAddr(order, mem, i) \in Nat /\ ShAddr(order, mem, f) \in Nat
      /\ order[i].length \in Nat /\ order[f].length \in Nat
      /\ i \in Nat /\ f \in Nat
  BY <1>1, SectionPlace, SectionFacts
<1>4. ShAddr(order, mem, f) <= ShAddr(order, mem, i)
  <2>1. f < i => ShAddr(order, mem, f) + order[f].length <= ShAddr(order, mem, i)
    BY <1>1, SectionsInOrder
  <2>2. f = i \/ f < i
    BY <1>2, <1>3
  <2> QED BY <1>3, <2>1, <2>2
<1>5. /\ a \in Nat /\ ShAddr(order, mem, f) <= a
      /\ a < ShAddr(order, mem, i) + order[i].length
  BY <1>3, <1>4 DEF SectionBytes, Bytes
<1>6. mem <= g * Page /\ (g + 1) * Page <= mem + RequiredSize(order)
  BY <1>1, <1>2, <1>5, PageOfClass
<1>7. g * Page <= b /\ b < (g + 1) * Page /\ g \in Nat
  BY PageBounds
<1>8. g * Page \in Nat /\ (g + 1) * Page \in Nat
  <2> HIDE DEF g
  <2> QED BY <1>7, PageAssumption
<1>9. mem <= b /\ b < mem + size[p]
  <2> HIDE DEF g, mem, order
  <2> QED BY <1>1, <1>6, <1>7, <1>8
<1> QED BY <1>1, <1>9 DEF Block, Bytes

(* A guarded page lies in the block, too.                                  *)
LEMMA GuardInBlock ==
  ASSUME NEW p \in Programs, Typed, Placed(p), NEW a \in Nat, Guards(p, PageOf(a))
  PROVE  Live(p) /\ a \in Block(p)
<1> DEFINE g == PageOf(a)
<1>1. Live(p) /\ base[p] <= g * Page /\ (g + 1) * Page <= base[p] + size[p]
  BY DEF Guards, Loading, Live
<1>2. base[p] \in Nat /\ size[p] \in Nat
  BY <1>1, Placement
<1>3. g * Page <= a /\ a < (g + 1) * Page /\ g \in Nat
  BY PageBounds
<1> HIDE DEF g
<1>4. g * Page \in Nat /\ (g + 1) * Page \in Nat
  BY <1>3, PageAssumption
<1>5. base[p] <= a /\ a < base[p] + size[p]
  BY <1>1, <1>2, <1>3, <1>4
<1> QED BY <1>1, <1>2, <1>5 DEF Block, Bytes

-----------------------------------------------------------------------------
(* The invariant implies what the runs check.                              *)

LEMMA IInvTypeOK == IInv => TypeOK
<1> SUFFICES ASSUME IInv PROVE TypeOK
  OBVIOUS
<1> USE DEF IInv, ProgramInv
<1>1. ASSUME NEW p \in Programs
      PROVE  /\ image[p] \in Seq(Section)
             /\ base[p] \in Addresses \cup {None}
             /\ size[p] \in Nat /\ next[p] \in 0 .. Len(image[p]) + 1
             /\ stage[p] = "idle" <=> base[p] = None
  <2>1. /\ image[p] \in Seq(Section) /\ base[p] \in Addresses \cup {None}
        /\ size[p] \in Nat /\ next[p] \in Nat /\ stage[p] \in Stages
    BY DEF Typed
  <2>2. CASE stage[p] = "idle"
    <3>1. base[p] = None /\ image[p] = <<>> /\ next[p] = 0
      BY <2>2 DEF Resting
    <3> QED BY <2>1, <2>2, <3>1
  <2>3. CASE stage[p] # "idle"
    <3>1. base[p] \in Nat /\ DOMAIN image[p] = 1 .. Len(image[p]) /\ Len(image[p]) \in Nat
      BY <2>3, Placement DEF Live
    <3>2. base[p] # None
      BY <3>1, OwnersAssumption
    <3>3. next[p] \in DOMAIN image[p] \/ next[p] = Len(image[p]) + 1
      BY <2>1, <2>3 DEF Paced, Stages
    <3> QED BY <2>1, <2>3, <3>1, <3>2, <3>3
  <2> QED BY <2>2, <2>3
<1>2. stage \in [Programs -> Stages] /\ DOMAIN heap = Addresses /\ perm \in [Pages -> {"rx", "r", "rw"}]
  BY DEF Typed
<1> QED BY <1>1, <1>2 DEF TypeOK

LEMMA IInvSectionsFit == IInv => SectionsFit
<1> SUFFICES ASSUME IInv, NEW p \in Programs, Live(p), NEW i \in DOMAIN image[p]
             PROVE  /\ SectionBytes(p, i) \subseteq Bytes(base[p], size[p])
                    /\ ShAddr(image[p], base[p], i) % image[p][i].align = 0
                    /\ \A j \in DOMAIN image[p] \ {i} :
                         SectionBytes(p, i) \cap SectionBytes(p, j) = {}
  BY DEF SectionsFit, Live
<1>1. Typed /\ Placed(p)
  BY DEF IInv, ProgramInv
<1> QED BY <1>1, Placement DEF Block

LEMMA IInvLoadedIntact == IInv => LoadedIntact
<1> SUFFICES ASSUME IInv, NEW p \in Programs, stage[p] = "ready", NEW i \in DOMAIN image[p],
                    NEW a \in SectionBytes(p, i)
             PROVE  heap[a] = <<p, i>> /\ perm[PageOf(a)] = Protection[image[p][i].class]
  BY DEF LoadedIntact
<1>1. Typed /\ Placed(p) /\ Paced(p) /\ Copied(p) /\ Shielded(p) /\ Live(p) /\ Loading(p)
  BY DEF IInv, ProgramInv, Live, Loading
<1>2. i \in 1 .. Len(image[p]) /\ Len(image[p]) \in Nat /\ next[p] = Len(image[p]) + 1
  BY <1>1, Placement DEF Paced
<1>3. i < next[p] /\ Protected(p, i)
  BY <1>2 DEF Protected
<1> QED BY <1>1, <1>3 DEF Copied, Shielded

LEMMA IInvWritersDoNotFault == IInv => WritersDoNotFault
<1> SUFFICES ASSUME IInv PROVE WritersDoNotFault
  OBVIOUS
<1> USE DEF IInv, ProgramInv
<1>1. \A a \in Addresses : a \in Nat /\ PageOf(a) \in Pages
  BY PageInHeap
<1>2. ASSUME NEW a \in Addresses, heap[a] = Free \/ heap[a][1] \in Blocks,
             perm[PageOf(a)] # "rw"
      PROVE  FALSE
  <2>1. PICK p \in Programs : Guards(p, PageOf(a))
    BY <1>1, <1>2 DEF Guarded
  <2>2. Live(p) /\ a \in Block(p)
    BY <1>1, <2>1, GuardInBlock
  <2>3. PICK n \in Nat : heap[a] = <<p, n>>
    BY <2>2 DEF Owned
  <2>4. heap[a] # Free
    BY <2>2, BlocksApart
  <2> QED BY <1>2, <2>3, <2>4, OwnersAssumption
<1>3. ASSUME NEW p \in Programs, stage[p] \in {"copy", "protect"},
             NEW i \in next[p] .. Len(image[p]), NEW a \in SectionBytes(p, i),
             perm[PageOf(a)] # "rw"
      PROVE  FALSE
  <2>1. Live(p) /\ Placed(p) /\ Owned(p) /\ next[p] \in DOMAIN image[p]
    BY <1>3 DEF Live, Paced
  <2>2. i \in DOMAIN image[p] /\ i >= next[p] /\ next[p] \in Nat /\ i \in Nat
    BY <2>1, Placement
  <2>3. a \in Block(p) /\ a \in Addresses
    BY <2>1, <2>2, Placement DEF Placed
  <2>4. PICK q \in Programs : Guards(q, PageOf(a))
    BY <1>1, <1>3, <2>3 DEF Guarded
  <2>5. Live(q) /\ a \in Block(q)
    BY <1>1, <2>3, <2>4, GuardInBlock
  <2>6. q = p
    BY <2>1, <2>3, <2>5, BlocksApart
  <2>7. ~Protected(p, i)
    BY <2>2 DEF Protected
  <2> DEFINE g == PageOf(a)
  <2>8. (g + 1) * Page <= ShAddr(image[p], base[p], i)
    BY <2>2, <2>4, <2>6, <2>7 DEF Guards
  <2>9. ShAddr(image[p], base[p], i) \in Nat /\ ShAddr(image[p], base[p], i) <= a
    <3>1. ShAddr(image[p], base[p], i) \in Nat /\ image[p][i].length \in Nat
      BY <2>1, <2>2, Placement
    <3> QED BY <3>1 DEF SectionBytes, Bytes
  <2>10. a < (g + 1) * Page /\ g \in Nat
    BY <1>1, <2>3, PageBounds
  <2> HIDE DEF g
  <2>11. (g + 1) * Page \in Nat
    BY <2>10, PageAssumption
  <2> QED BY <1>1, <2>3, <2>8, <2>9, <2>10, <2>11
<1> QED BY <1>2, <1>3 DEF WritersDoNotFault

-----------------------------------------------------------------------------
(* The initial state, and what a step leaves alone.                        *)

LEMMA InitIInv == Init => IInv
<1> SUFFICES ASSUME Init PROVE IInv
  OBVIOUS
<1> USE DEF Init
<1>1. Typed
  BY DEF Typed, Stages
<1>2. ASSUME NEW p \in Programs PROVE ProgramInv(p)
  <2>1. stage[p] = "idle" /\ base[p] = None /\ image[p] = <<>> /\ next[p] = 0
    BY <1>2
  <2> QED BY <2>1 DEF ProgramInv, Resting, Placed, Paced, Owned, Copied, Shielded, Live, Loading
<1>3. \A a \in Addresses : Owner(a)
  BY DEF Owner
<1>4. Guarded
  BY DEF Guarded
<1> QED BY <1>1, <1>2, <1>3, <1>4 DEF IInv

(* A program no variable of which changes keeps its invariant if its bytes *)
(* stay and so do the pages of what it has protected.                      *)
LEMMA ProgramFrame ==
  ASSUME NEW q \in Programs, ProgramInv(q),
         stage'[q] = stage[q], image'[q] = image[q], base'[q] = base[q],
         size'[q] = size[q], next'[q] = next[q],
         Live(q) => \A a \in Block(q) : heap'[a] = heap[a],
         Live(q) => \A i \in DOMAIN image[q] : SectionBytes(q, i) \subseteq Block(q),
         Loading(q) => \A i \in DOMAIN image[q] : Protected(q, i) =>
           \A a \in SectionBytes(q, i) :
             perm[PageOf(a)] = Protection[image[q][i].class] =>
               perm'[PageOf(a)] = Protection[image[q][i].class]
  PROVE  ProgramInv(q)'
<1>1. /\ Live(q)' = Live(q) /\ Loading(q)' = Loading(q) /\ Block(q)' = Block(q)
      /\ \A i : Protected(q, i)' = Protected(q, i)
      /\ \A i : SectionBytes(q, i)' = SectionBytes(q, i)
  BY DEF Live, Loading, Block, Protected, SectionBytes
<1>2. Resting(q)' /\ Placed(q)' /\ Paced(q)'
  BY <1>1 DEF ProgramInv, Resting, Placed, Paced
<1>3. Owned(q)'
  BY <1>1 DEF ProgramInv, Owned
<1>4. Copied(q)'
  <2> SUFFICES ASSUME Live(q), NEW i \in DOMAIN image[q],
                      i < next[q] \/ (i = next[q] /\ stage[q] = "protect"),
                      NEW a \in SectionBytes(q, i)
               PROVE  heap'[a] = <<q, i>>
    BY <1>1 DEF Copied
  <2>1. heap[a] = <<q, i>>
    BY DEF ProgramInv, Copied
  <2> QED BY <2>1
<1>5. Shielded(q)'
  <2> SUFFICES ASSUME Loading(q), NEW i \in DOMAIN image[q], Protected(q, i),
                      NEW a \in SectionBytes(q, i)
               PROVE  perm'[PageOf(a)] = Protection[image[q][i].class]
    BY <1>1 DEF Shielded
  <2>1. perm[PageOf(a)] = Protection[image[q][i].class]
    BY DEF ProgramInv, Shielded
  <2> QED BY <2>1
<1> QED BY <1>2, <1>3, <1>4, <1>5 DEF ProgramInv

(* A page is guarded by a program as long as nothing of it changes.        *)
LEMMA GuardFrame ==
  ASSUME NEW q \in Programs, NEW g,
         stage'[q] = stage[q], image'[q] = image[q], base'[q] = base[q],
         size'[q] = size[q], next'[q] = next[q]
  PROVE  Guards(q, g)' = Guards(q, g)
BY DEF Guards, Loading, Protected

(* An owner whose program is left alone stays one.                         *)
LEMMA OwnerFrame ==
  ASSUME NEW a, Owner(a), heap'[a] = heap[a],
         \A o \in Programs : Live(o) /\ a \in Block(o) => Live(o)' /\ a \in Block(o)'
  PROVE  Owner(a)'
BY DEF Owner

(* What every step may use of the invariant.                               *)
LEMMA IInvFacts ==
  ASSUME IInv, NEW p \in Programs
  PROVE  /\ Typed /\ ProgramInv(p) /\ Resting(p) /\ Placed(p) /\ Paced(p) /\ Owned(p)
         /\ Copied(p) /\ Shielded(p)
         /\ Live(p) => \A i \in DOMAIN image[p] : SectionBytes(p, i) \subseteq Block(p)
         /\ Live(p) <=> stage[p] \in Stages \ {"idle"}
         /\ Loading(p) => Live(p)
<1>1. Typed /\ ProgramInv(p) /\ Placed(p)
  BY DEF IInv, ProgramInv
<1>2. Live(p) => \A i \in DOMAIN image[p] : SectionBytes(p, i) \subseteq Block(p)
  BY <1>1, Placement
<1> QED BY <1>1, <1>2 DEF ProgramInv, Live, Loading, Stages, Typed

-----------------------------------------------------------------------------
(* Each step keeps the invariant.                                          *)

LEMMA RelocateIInv ==
  ASSUME IInv, NEW p \in Programs, NEW secs \in Layouts, NEW mem \in Starts,
         Relocate(p, secs, mem)
  PROVE  IInv'
<1> DEFINE order == ByClass(secs)
           n == RequiredSize(order)
<1>1. /\ stage[p] = "idle"
      /\ \A a \in Bytes(mem, n) : a \in Addresses /\ heap[a] = Free
      /\ image' = [image EXCEPT ![p] = order]
      /\ size' = [size EXCEPT ![p] = n]
      /\ heap' = [a \in Addresses |-> IF a \in Bytes(mem, n) THEN <<p, 0>> ELSE heap[a]]
      /\ base' = [base EXCEPT ![p] = mem]
      /\ next' = [next EXCEPT ![p] = 1]
      /\ stage' = [stage EXCEPT ![p] = "copy"]
      /\ perm' = perm
  BY DEF Relocate, Vacant, Fill
<1>2. Typed
  BY DEF IInv
<1>3. mem \in Addresses /\ mem \in Nat
  BY HeapAssumption, PageAssumption DEF Starts, Addresses
<1>4. Order(order) /\ order \in Seq(Section) /\ 1 \in DOMAIN order /\ n \in Nat
  <2>1. Order(order) /\ order \in Seq(Section)
    BY ByClassOrders DEF Order
  <2>2. 1 \in DOMAIN order
    BY <2>1 DEF Order
  <2>3. n \in Nat
    BY <1>3, <2>1, BlockHolds
  <2> QED BY <2>1, <2>2, <2>3
<1> HIDE DEF order, n
<1>5. Typed'
  BY <1>1, <1>2, <1>3, <1>4 DEF Typed, Stages
<1>6. /\ stage'[p] = "copy" /\ image'[p] = order /\ size'[p] = n /\ base'[p] = mem
      /\ next'[p] = 1
  BY <1>1, <1>2 DEF Typed
<1>7. \A q \in Programs : q # p =>
        /\ stage'[q] = stage[q] /\ image'[q] = image[q] /\ base'[q] = base[q]
        /\ size'[q] = size[q] /\ next'[q] = next[q]
  BY <1>1, <1>2 DEF Typed
<1>8. Live(p)' /\ ~Live(p) /\ ~Loading(p) /\ Block(p)' = Bytes(mem, n)
  BY <1>1, <1>6 DEF Live, Loading, Block
<1>9. ProgramInv(p)'
  <2>1. Resting(p)'
    BY <1>6 DEF Resting
  <2>2. Placed(p)'
    BY <1>1, <1>3, <1>6, <1>8 DEF Placed, order, n
  <2>3. Paced(p)'
    BY <1>4, <1>6 DEF Paced
  <2>4. Owned(p)'
    BY <1>1, <1>8 DEF Owned
  <2>5. Copied(p)'
    <3>1. \A i \in DOMAIN order : i \in Nat /\ ~(i < 1)
      BY <1>4
    <3> QED BY <1>6, <3>1 DEF Copied
  <2>6. Shielded(p)'
    <3>1. \A i \in DOMAIN order : i \in Nat /\ ~(i < 1)
      BY <1>4
    <3> QED BY <1>6, <3>1 DEF Shielded, Protected
  <2> QED BY <2>1, <2>2, <2>3, <2>4, <2>5, <2>6 DEF ProgramInv
<1>10. ASSUME NEW q \in Programs, q # p PROVE ProgramInv(q)'
  <2>1. Live(q) => \A a \in Block(q) : heap'[a] = heap[a]
    <3> SUFFICES ASSUME Live(q), NEW a \in Block(q) PROVE heap'[a] = heap[a]
      OBVIOUS
    <3>1. a \in Addresses /\ heap[a] # Free
      BY IInvFacts, BlocksApart DEF Placed
    <3> QED BY <1>1, <3>1
  <2> QED BY <1>1, <1>7, <1>10, <2>1, IInvFacts, ProgramFrame
<1>11. ASSUME NEW a \in Addresses PROVE Owner(a)'
  <2>1. CASE a \in Bytes(mem, n)
    BY <1>1, <1>8, <2>1 DEF Owner
  <2>2. CASE a \notin Bytes(mem, n)
    <3>1. heap'[a] = heap[a] /\ Owner(a)
      BY <1>1, <2>2 DEF IInv
    <3>2. \A o \in Programs : Live(o) /\ a \in Block(o) => Live(o)' /\ a \in Block(o)'
      BY <1>7, <1>8 DEF Live, Block
    <3> QED BY <3>1, <3>2, OwnerFrame
  <2> QED BY <2>1, <2>2
<1>12. Guarded'
  <2> SUFFICES ASSUME NEW g \in Pages, perm[g] # "rw"
               PROVE  \E q \in Programs : Guards(q, g)'
    BY <1>1 DEF Guarded
  <2>1. PICK q \in Programs : Guards(q, g)
    BY DEF IInv, Guarded
  <2>2. q # p
    BY <1>8, <2>1 DEF Guards
  <2> QED BY <1>7, <2>1, <2>2, GuardFrame
<1> QED BY <1>5, <1>9, <1>10, <1>11, <1>12 DEF IInv

LEMMA CopySectionIInv ==
  ASSUME IInv, NEW p \in Programs, CopySection(p)
  PROVE  IInv'
<1> DEFINE i0 == next[p]
           secs == image[p]
           last == LastOfClass(secs, i0)
<1>1. /\ stage[p] = "copy" /\ i0 \in DOMAIN secs
      /\ heap' = [a \in Addresses |->
                    IF a \in SectionBytes(p, i0) THEN <<p, i0>> ELSE heap[a]]
      /\ last => stage' = [stage EXCEPT ![p] = "protect"] /\ next' = next
      /\ ~last => next' = [next EXCEPT ![p] = i0 + 1] /\ stage' = stage
      /\ image' = image /\ base' = base /\ size' = size /\ perm' = perm
  BY DEF CopySection, Fill
<1>2. Typed /\ ProgramInv(p) /\ Placed(p) /\ Owned(p) /\ Copied(p) /\ Shielded(p)
  BY IInvFacts
<1>3. Live(p) /\ Loading(p)
  BY <1>1 DEF Live, Loading
<1>4. /\ Order(secs) /\ DOMAIN secs = 1 .. Len(secs) /\ Len(secs) \in Nat
      /\ \A i \in DOMAIN secs :
           /\ SectionBytes(p, i) \subseteq Block(p)
           /\ \A j \in DOMAIN secs \ {i} : SectionBytes(p, i) \cap SectionBytes(p, j) = {}
  BY <1>2, <1>3, Placement
<1>5. Typed'
  <2>1. i0 \in Nat /\ "protect" \in Stages
    BY <1>1, <1>4 DEF Stages
  <2>2. stage' \in [Programs -> Stages]
    BY <1>1, <1>2, <2>1 DEF Typed
  <2>3. next' \in [Programs -> Nat]
    <3>1. next \in [Programs -> Nat] /\ i0 + 1 \in Nat
      BY <1>2, <2>1 DEF Typed
    <3>2. next' = next \/ next' = [next EXCEPT ![p] = i0 + 1]
      BY <1>1
    <3> HIDE DEF i0
    <3> QED BY <3>1, <3>2
  <2>4. DOMAIN heap' = Addresses
    BY <1>1
  <2> QED BY <1>1, <1>2, <2>2, <2>3, <2>4 DEF Typed
<1>6. /\ last => stage'[p] = "protect" /\ next'[p] = i0
      /\ ~last => stage'[p] = "copy" /\ next'[p] = i0 + 1
      /\ image'[p] = secs
  BY <1>1, <1>2 DEF Typed
<1>7. \A q \in Programs : q # p =>
        /\ stage'[q] = stage[q] /\ image'[q] = image[q] /\ base'[q] = base[q]
        /\ size'[q] = size[q] /\ next'[q] = next[q]
  BY <1>1, <1>2 DEF Typed
<1>8. Live(p)' /\ Loading(p)' /\ Block(p)' = Block(p)
      /\ \A i : SectionBytes(p, i)' = SectionBytes(p, i)
  BY <1>1, <1>6 DEF Live, Loading, Block, SectionBytes
<1>9. ~last => i0 + 1 \in DOMAIN secs /\ secs[i0 + 1].class = secs[i0].class
  BY <1>1, <1>4 DEF LastOfClass
<1>10. \A i \in DOMAIN secs : Protected(p, i)' <=> Protected(p, i)
  <2> SUFFICES ASSUME NEW i \in DOMAIN secs PROVE Protected(p, i)' <=> Protected(p, i)
    OBVIOUS
  <2>1. CASE last
    BY <1>1, <2>1 DEF Protected
  <2>2. CASE ~last
    <3>1. Protected(p, i)' <=> i < i0 + 1 /\ secs[i].class # secs[i0].class
      BY <1>4, <1>6, <1>9, <2>2 DEF Protected
    <3>2. Protected(p, i) <=> i < i0 /\ secs[i].class # secs[i0].class
      BY <1>1, <1>4 DEF Protected
    <3>3. i \in Nat /\ i0 \in Nat
      BY <1>1, <1>4
    <3> QED BY <3>1, <3>2, <3>3
  <2> QED BY <2>1, <2>2
<1>11. ProgramInv(p)'
  <2>1. Resting(p)'
    BY <1>8 DEF Resting, Live
  <2>2. Placed(p)'
    BY <1>1, <1>2, <1>3, <1>8 DEF Placed
  <2>3. Paced(p)'
    BY <1>1, <1>6, <1>9 DEF Paced
  <2>4. Owned(p)'
    <3> SUFFICES ASSUME NEW a \in Block(p) PROVE \E n \in Nat : heap'[a] = <<p, n>>
      BY <1>8 DEF Owned
    <3>1. a \in Addresses /\ i0 \in Nat /\ \E n \in Nat : heap[a] = <<p, n>>
      BY <1>1, <1>2, <1>3, <1>4 DEF Placed, Owned
    <3> QED BY <1>1, <3>1
  <2>5. Copied(p)'
    <3> SUFFICES ASSUME NEW i \in DOMAIN secs,
                        i < next'[p] \/ (i = next'[p] /\ stage'[p] = "protect"),
                        NEW a \in SectionBytes(p, i)
                 PROVE  heap'[a] = <<p, i>>
      BY <1>6, <1>8 DEF Copied
    <3>1. a \in Addresses
      BY <1>2, <1>3, <1>4 DEF Placed
    <3>2. CASE i = i0
      BY <1>1, <3>1, <3>2
    <3>3. CASE i # i0
      <4>1. i < i0
        BY <1>1, <1>4, <1>6, <3>3
      <4>2. heap[a] = <<p, i>>
        BY <1>2, <1>3, <4>1 DEF Copied
      <4>3. a \notin SectionBytes(p, i0)
        BY <1>1, <1>4, <3>3
      <4> QED BY <1>1, <3>1, <4>2, <4>3
    <3> QED BY <3>2, <3>3
  <2>6. Shielded(p)'
    BY <1>1, <1>2, <1>3, <1>8, <1>10 DEF Shielded
  <2> QED BY <2>1, <2>2, <2>3, <2>4, <2>5, <2>6 DEF ProgramInv
<1>12. ASSUME NEW q \in Programs, q # p PROVE ProgramInv(q)'
  <2>1. Live(q) => \A a \in Block(q) : heap'[a] = heap[a]
    <3> SUFFICES ASSUME Live(q), NEW a \in Block(q) PROVE heap'[a] = heap[a]
      OBVIOUS
    <3>1. Placed(q) /\ Owned(q)
      BY IInvFacts
    <3>2. a \in Addresses /\ a \notin Block(p)
      BY <1>2, <1>3, <1>12, <3>1, BlocksApart DEF Placed
    <3> QED BY <1>1, <1>4, <3>2
  <2> QED BY <1>1, <1>7, <1>12, <2>1, IInvFacts, ProgramFrame
<1>13. ASSUME NEW a \in Addresses PROVE Owner(a)'
  <2>1. CASE a \in SectionBytes(p, i0)
    <3>1. heap'[a] = <<p, i0>> /\ i0 \in Nat /\ a \in Block(p)
      BY <1>1, <1>4, <2>1
    <3> QED BY <1>8, <3>1 DEF Owner
  <2>2. CASE a \notin SectionBytes(p, i0)
    <3>1. heap'[a] = heap[a] /\ Owner(a)
      BY <1>1, <2>2 DEF IInv
    <3>2. \A o \in Programs : Live(o) /\ a \in Block(o) => Live(o)' /\ a \in Block(o)'
      BY <1>7, <1>8 DEF Live, Block
    <3> QED BY <3>1, <3>2, OwnerFrame
  <2> QED BY <2>1, <2>2
<1>14. Guarded'
  <2> SUFFICES ASSUME NEW g \in Pages, perm[g] # "rw"
               PROVE  \E q \in Programs : Guards(q, g)'
    BY <1>1 DEF Guarded
  <2>1. PICK q \in Programs : Guards(q, g)
    BY DEF IInv, Guarded
  <2>2. CASE q = p
    BY <1>1, <1>6, <1>8, <1>10, <2>1, <2>2 DEF Guards
  <2>3. CASE q # p
    BY <1>7, <2>1, <2>3, GuardFrame
  <2> QED BY <2>2, <2>3
<1> QED BY <1>5, <1>11, <1>12, <1>13, <1>14 DEF IInv

(* mprotect() on a range within a block leaves what other programs have    *)
(* protected as it is, and the pages they guard.                           *)
LEMMA PagesFrame ==
  ASSUME IInv, NEW p \in Programs, Live(p), NEW from \in Nat, NEW n \in Nat, n > 0,
         Bytes(from, n) \subseteq Block(p), NEW mode \in 0 .. 2, SetPages(from, n, mode),
         NEW q \in Programs, q # p
  PROVE  /\ \A g \in Pages : Guards(q, g) => g \notin Touched(from, n)
         /\ Loading(q) => \A i \in DOMAIN image[q] : Protected(q, i) =>
              \A a \in SectionBytes(q, i) :
                perm[PageOf(a)] = Protection[image[q][i].class] =>
                  \/ perm'[PageOf(a)] = Protection[image[q][i].class]
                  \/ (mode # 2 /\ image[q][i].class = 2 /\ PageOf(a) \in Touched(from, n))
<1>1. Typed /\ Placed(p) /\ Owned(p) /\ Placed(q) /\ Owned(q)
  BY IInvFacts
<1>2. \A g \in Touched(from, n) :
        \E b \in Bytes(from, n) : b \in Nat /\ b \in Block(p) /\ PageOf(b) = g
  BY PagesTouched DEF Bytes
<1>3. perm' = [g \in Pages |-> IF g \in Touched(from, n) THEN Protection[mode] ELSE perm[g]]
  BY DEF SetPages, Touched
<1>4. ASSUME NEW g \in Pages, Guards(q, g), g \in Touched(from, n) PROVE FALSE
  <2>1. PICK b \in Bytes(from, n) : b \in Nat /\ b \in Block(p) /\ PageOf(b) = g
    BY <1>2, <1>4
  <2>2. Live(q) /\ b \in Block(q)
    BY <1>1, <1>4, <2>1, GuardInBlock
  <2> QED BY <1>1, <2>1, <2>2, BlocksApart
<1>5. ASSUME Loading(q), NEW i \in DOMAIN image[q], NEW a \in SectionBytes(q, i),
             image[q][i].class < 2, PageOf(a) \in Touched(from, n)
      PROVE  FALSE
  <2>1. PICK b \in Bytes(from, n) : b \in Nat /\ b \in Block(p) /\ PageOf(b) = PageOf(a)
    BY <1>2, <1>5
  <2>2. Live(q)
    BY <1>5 DEF Loading, Live
  <2>3. b \in Block(q)
    BY <1>1, <1>5, <2>1, <2>2, ShieldInBlock
  <2> QED BY <1>1, <2>1, <2>2, <2>3, BlocksApart
<1>6. ASSUME Loading(q), NEW i \in DOMAIN image[q], NEW a \in SectionBytes(q, i),
             perm[PageOf(a)] = Protection[image[q][i].class]
      PROVE  \/ perm'[PageOf(a)] = Protection[image[q][i].class]
             \/ (mode # 2 /\ image[q][i].class = 2 /\ PageOf(a) \in Touched(from, n))
  <2>1. Live(q)
    BY <1>6 DEF Loading, Live
  <2>2. image[q][i].class \in 0 .. 2 /\ a \in Addresses
    BY <1>1, <1>6, <2>1, Placement DEF Placed
  <2>3. PageOf(a) \in Pages
    BY <2>2, PageInHeap
  <2>4. CASE PageOf(a) \notin Touched(from, n)
    BY <1>3, <1>6, <2>3, <2>4
  <2>5. CASE PageOf(a) \in Touched(from, n)
    <3>1. image[q][i].class = 2
      BY <1>5, <1>6, <2>2, <2>5
    <3>2. perm'[PageOf(a)] = Protection[mode]
      BY <1>3, <2>3, <2>5
    <3> QED BY <2>5, <3>1, <3>2
  <2> QED BY <2>4, <2>5
<1> QED BY <1>4, <1>6

LEMMA ProtectIInv ==
  ASSUME IInv, NEW p \in Programs, Protect(p)
  PROVE  IInv'
<1> DEFINE l == next[p]
           secs == image[p]
           mem == base[p]
           k == secs[l].class
           f == CHOOSE i \in DOMAIN secs : secs[i].class = k /\ FirstOfClass(secs, i)
           addr == ShAddr(secs, mem, f)
           n == ShAddr(secs, mem, l) - addr + secs[l].length
<1>1. /\ stage[p] = "protect"
      /\ n > 0 => SetPages(addr, n, k)
      /\ ~(n > 0) => perm' = perm
      /\ stage' = [stage EXCEPT ![p] = IF l = Len(secs) THEN "ready" ELSE "copy"]
      /\ next' = [next EXCEPT ![p] = l + 1]
      /\ image' = image /\ base' = base /\ size' = size /\ heap' = heap
  BY DEF Protect
<1>2. Typed /\ ProgramInv(p) /\ Placed(p) /\ Owned(p) /\ Copied(p) /\ Shielded(p)
  BY IInvFacts
<1>3. Live(p) /\ Loading(p) /\ l \in DOMAIN secs /\ LastOfClass(secs, l)
  BY <1>1, IInvFacts DEF Live, Loading, Paced
<1>4. /\ Order(secs) /\ DOMAIN secs = 1 .. Len(secs) /\ Len(secs) \in Nat
      /\ mem \in Nat /\ size[p] \in Nat /\ size[p] = RequiredSize(secs)
      /\ \A i \in DOMAIN secs :
           /\ secs[i].class \in 0 .. 2 /\ secs[i].length \in Nat
           /\ ShAddr(secs, mem, i) \in Nat
           /\ SectionBytes(p, i) \subseteq Block(p)
  BY <1>2, <1>3, Placement
<1>4a. \A i \in DOMAIN secs : i \in Nat /\ i >= 1 /\ secs[i].class \in Nat
  BY <1>4
<1>4b. l \in Nat /\ l >= 1 /\ k \in Nat
  BY <1>3, <1>4a
<1>5. f \in DOMAIN secs /\ secs[f].class = k /\ FirstOfClass(secs, f)
  <2>1. \E i \in DOMAIN secs : secs[i].class = k /\ FirstOfClass(secs, i)
    BY <1>3, <1>4, FirstExists
  <2> QED BY <2>1
<1> HIDE DEF f
<1>6. \A i, j \in DOMAIN secs : i <= j => secs[i].class <= secs[j].class
  BY <1>4 DEF Order
<1>7. \A i, j \in DOMAIN secs :
        i < j => ShAddr(secs, mem, i) + secs[i].length <= ShAddr(secs, mem, j)
  BY <1>4, SectionsInOrder
<1>8. l + 1 \in DOMAIN secs => secs[l + 1].class > k
  <2>1. l + 1 \in DOMAIN secs => secs[l + 1].class # k
    BY <1>3, <1>4 DEF LastOfClass
  <2>2. l + 1 \in DOMAIN secs => k <= secs[l + 1].class
    BY <1>3, <1>4, <1>6
  <2>3. l + 1 \in DOMAIN secs => secs[l + 1].class \in Nat /\ k \in Nat
    BY <1>4a, <1>4b
  <2> HIDE DEF k, l, secs
  <2> QED BY <2>1, <2>2, <2>3
<1>9. addr \in Nat /\ n \in Int /\ addr + n = ShAddr(secs, mem, l) + secs[l].length
  BY <1>3, <1>4, <1>5
<1>10. Bytes(addr, n) \subseteq Block(p)
  <2>1. mem <= addr
    BY <1>4, <1>5, SectionsInOrder
  <2>2. addr + n <= mem + size[p]
    <3>1. ShAddr(secs, mem, l) + secs[l].length <= mem + Layout(secs, mem)[Len(secs)]
      BY <1>3, <1>4, SectionsInOrder
    <3>2. mem + Layout(secs, mem)[Len(secs)] <= mem + size[p]
      BY <1>4, BlockHolds
    <3>3. Layout(secs, mem)[Len(secs)] \in Nat
      <4>1. Layout(secs, mem) \in [0 .. Len(secs) -> Nat]
        BY <1>4, LayoutLoop
      <4> QED BY <1>4, <4>1
    <3> HIDE DEF addr, n
    <3> QED BY <1>3, <1>4, <1>9, <3>1, <3>2, <3>3
  <2> HIDE DEF addr, n
  <2> QED BY <1>4, <1>9, <2>1, <2>2 DEF Block, Bytes
<1>11. \A i \in DOMAIN secs : secs[i].class = k => SectionBytes(p, i) \subseteq Bytes(addr, n)
  <2> SUFFICES ASSUME NEW i \in DOMAIN secs, secs[i].class = k, NEW a \in SectionBytes(p, i)
               PROVE  a \in Bytes(addr, n)
    OBVIOUS
  <2>1. f <= i
    BY <1>4, <1>5 DEF FirstOfClass
  <2>2. i <= l
    <3>1. ASSUME i > l PROVE FALSE
      <4>1. l + 1 \in DOMAIN secs /\ l + 1 <= i
        BY <1>3, <1>4, <3>1
      <4>2. secs[l + 1].class <= secs[i].class
        BY <1>6, <4>1
      <4>3. secs[l + 1].class > k /\ secs[i].class = k
        BY <1>8, <4>1
      <4>4. secs[l + 1].class \in Nat /\ k \in Nat
        <5>1. secs[l + 1].class \in 0 .. 2 /\ k \in 0 .. 2
          BY <1>3, <1>4, <4>1
        <5> QED BY <5>1
      <4> HIDE DEF k
      <4> QED BY <4>2, <4>3, <4>4
    <3> QED BY <1>3, <1>4, <3>1
  <2>3. addr <= ShAddr(secs, mem, i)
    <3>1. f < i => addr + secs[f].length <= ShAddr(secs, mem, i)
      BY <1>5, <1>7
    <3>2. f = i \/ f < i
      BY <1>4, <1>5, <2>1
    <3>3. secs[f].length \in Nat /\ addr \in Nat /\ ShAddr(secs, mem, i) \in Nat
      BY <1>4, <1>5
    <3> QED BY <3>1, <3>2, <3>3
  <2>4. ShAddr(secs, mem, i) + secs[i].length <= addr + n
    <3>1. i < l => ShAddr(secs, mem, i) + secs[i].length <= ShAddr(secs, mem, l)
      BY <1>3, <1>7
    <3>2. i = l \/ i < l
      BY <1>3, <1>4, <2>2
    <3>3. secs[l].length \in Nat /\ ShAddr(secs, mem, l) \in Nat
          /\ secs[i].length \in Nat /\ ShAddr(secs, mem, i) \in Nat
      BY <1>3, <1>4
    <3> HIDE DEF n, addr
    <3> QED BY <1>9, <3>1, <3>2, <3>3
  <2>5. a \in Bytes(ShAddr(secs, mem, i), secs[i].length)
        /\ ShAddr(secs, mem, i) \in Nat /\ secs[i].length \in Nat
    BY <1>4 DEF SectionBytes
  <2> HIDE DEF n, addr
  <2> QED BY <1>9, <2>3, <2>4, <2>5 DEF Bytes
(* What PageOfClass says of every page this step protects.                 *)
<1>12. ASSUME n > 0, NEW g \in Touched(addr, n)
       PROVE  /\ g \in Nat /\ mem <= g * Page
              /\ \A j \in DOMAIN secs : secs[j].class > k => (g + 1) * Page <= ShAddr(secs, mem, j)
              /\ k < 2 => (g + 1) * Page <= mem + size[p]
              /\ \A j \in DOMAIN secs : secs[j].class < k =>
                   \A b \in SectionBytes(p, j) : PageOf(b) < g
  <2>1. PICK a \in Bytes(addr, n) : PageOf(a) = g
    <3> HIDE DEF addr, n
    <3> QED BY <1>9, <1>12, PagesTouched, n \in Nat
  <2>2. a \in Nat /\ addr <= a /\ a < ShAddr(secs, mem, l) + secs[l].length
    <3> HIDE DEF addr, n
    <3> QED BY <1>9, <2>1 DEF Bytes
  <2>3. g \in Nat
    BY <2>1, <2>2, PageBounds
  <2> QED BY <1>3, <1>4, <1>5, <2>1, <2>2, <2>3, PageOfClass DEF SectionBytes
<1>13. k \in 0 .. 2
  BY <1>3, <1>4
<1> HIDE DEF addr, n
<1>14. perm' = [g \in Pages |->
                  IF n > 0 /\ g \in Touched(addr, n) THEN Protection[k] ELSE perm[g]]
  <2>1. CASE n > 0
    BY <1>1, <2>1 DEF SetPages, Touched
  <2>2. CASE ~(n > 0)
    BY <1>1, <1>2, <2>2 DEF Typed
  <2> QED BY <2>1, <2>2
<1>15. Typed'
  <2>1. l \in Nat /\ l + 1 \in Nat
    BY <1>3, <1>4
  <2>2. stage' \in [Programs -> Stages]
    BY <1>1, <1>2 DEF Typed, Stages
  <2>3. next' \in [Programs -> Nat]
    <3> HIDE DEF l
    <3> QED BY <1>1, <1>2, <2>1 DEF Typed
  <2>4. perm' \in [Pages -> {"rx", "r", "rw"}]
    <3>1. Protection[k] \in {"rx", "r", "rw"}
      BY <1>13 DEF Protection
    <3> HIDE DEF k
    <3> QED BY <1>2, <1>14, <3>1 DEF Typed
  <2> QED BY <1>1, <1>2, <2>2, <2>3, <2>4 DEF Typed
<1>16. /\ stage'[p] = IF l = Len(secs) THEN "ready" ELSE "copy"
       /\ next'[p] = l + 1 /\ image'[p] = secs
  BY <1>1, <1>2 DEF Typed
<1>17. \A q \in Programs : q # p =>
         /\ stage'[q] = stage[q] /\ image'[q] = image[q] /\ base'[q] = base[q]
         /\ size'[q] = size[q] /\ next'[q] = next[q]
  BY <1>1, <1>2 DEF Typed
<1>18. Live(p)' /\ Loading(p)' /\ Block(p)' = Block(p)
       /\ \A i : SectionBytes(p, i)' = SectionBytes(p, i)
  BY <1>1, <1>16 DEF Live, Loading, Block, SectionBytes
<1>19. \A i \in DOMAIN secs :
         /\ Protected(p, i)' => secs[i].class = k \/ (Protected(p, i) /\ secs[i].class < k)
         /\ ~Protected(p, i)' => ~Protected(p, i) /\ secs[i].class > k
  <2> SUFFICES ASSUME NEW i \in DOMAIN secs
               PROVE  /\ Protected(p, i)' =>
                           secs[i].class = k \/ (Protected(p, i) /\ secs[i].class < k)
                      /\ ~Protected(p, i)' => ~Protected(p, i) /\ secs[i].class > k
    OBVIOUS
  <2>1. Protected(p, i)' <=>
          i < l + 1 /\ (l + 1 <= Len(secs) => secs[i].class # secs[l + 1].class)
    BY <1>16 DEF Protected
  <2>2. Protected(p, i) <=> i < l /\ secs[i].class # k
    BY <1>3, <1>4 DEF Protected
  <2>3. i \in Nat /\ l \in Nat /\ l >= 1 /\ k \in Nat /\ secs[i].class \in Nat
    BY <1>4a, <1>4b
  <2>4. i <= l => secs[i].class <= k
    BY <1>3, <1>6
  <2>5. i >= l + 1 => l + 1 \in DOMAIN secs /\ secs[l + 1].class <= secs[i].class
                       /\ secs[l + 1].class > k /\ secs[l + 1].class \in Nat
    <3> SUFFICES ASSUME i >= l + 1
                 PROVE  l + 1 \in DOMAIN secs /\ secs[l + 1].class <= secs[i].class
                        /\ secs[l + 1].class > k /\ secs[l + 1].class \in Nat
      OBVIOUS
    <3>1. l + 1 \in DOMAIN secs
      BY <1>3, <1>4
    <3>2. secs[l + 1].class <= secs[i].class
      BY <1>6, <3>1
    <3>3. secs[l + 1].class \in Nat
      BY <1>4, <3>1
    <3> QED BY <1>8, <3>1, <3>2, <3>3
  <2>6. l + 1 <= Len(secs) => l + 1 \in DOMAIN secs /\ secs[l + 1].class > k
                               /\ secs[l + 1].class \in Nat
    <3> SUFFICES ASSUME l + 1 <= Len(secs)
                 PROVE  l + 1 \in DOMAIN secs /\ secs[l + 1].class > k
                        /\ secs[l + 1].class \in Nat
      OBVIOUS
    <3>1. l + 1 \in DOMAIN secs
      BY <1>3, <1>4
    <3>2. secs[l + 1].class \in Nat
      BY <1>4a, <3>1
    <3> QED BY <1>8, <3>1, <3>2
  <2>7. (i <= l \/ i >= l + 1) /\ (i = l => secs[i].class = k)
    BY <2>3
  <2> HIDE DEF k, l, secs
  <2>8. CASE i <= l
    <3>1. Protected(p, i)' <=> (l + 1 <= Len(secs) => secs[i].class # secs[l + 1].class)
      BY <2>1, <2>3, <2>8
    <3>2. secs[i].class <= k
      BY <2>4, <2>8
    <3>3. Protected(p, i)'
      BY <2>3, <2>6, <3>1, <3>2
    <3>4. secs[i].class # k => i < l
      BY <2>3, <2>7, <2>8
    <3>5. secs[i].class = k \/ (Protected(p, i) /\ secs[i].class < k)
      BY <2>2, <2>3, <3>2, <3>4
    <3> QED BY <3>3, <3>5
  <2>9. CASE i >= l + 1
    BY <2>1, <2>2, <2>3, <2>5, <2>9
  <2> QED BY <2>7, <2>8, <2>9
<1>20. ProgramInv(p)'
  <2>1. Resting(p)'
    BY <1>18 DEF Resting, Live
  <2>2. Placed(p)'
    BY <1>1, <1>2, <1>3, <1>18 DEF Placed
  <2>3. Paced(p)'
    <3>1. l # Len(secs) => l + 1 \in DOMAIN secs
      BY <1>3, <1>4
    <3> QED BY <1>16, <3>1 DEF Paced
  <2>4. Owned(p)'
    BY <1>1, <1>2, <1>3, <1>18 DEF Owned
  <2>5. Copied(p)'
    <3> SUFFICES ASSUME NEW i \in DOMAIN secs,
                        i < next'[p] \/ (i = next'[p] /\ stage'[p] = "protect"),
                        NEW a \in SectionBytes(p, i)
                 PROVE  heap[a] = <<p, i>>
      BY <1>1, <1>16, <1>18 DEF Copied
    <3>1. i < l \/ i = l
      <4>1. i < l + 1 /\ i \in Nat /\ l \in Nat
        BY <1>3, <1>4, <1>16
      <4> QED BY <4>1
    <3> QED BY <1>1, <1>2, <1>3, <3>1 DEF Copied
  <2>6. Shielded(p)'
    <3> SUFFICES ASSUME NEW i \in DOMAIN secs, Protected(p, i)', NEW a \in SectionBytes(p, i)
                 PROVE  perm'[PageOf(a)] = Protection[secs[i].class]
      BY <1>16, <1>18 DEF Shielded
    <3>1. a \in Addresses
      BY <1>2, <1>3, <1>4 DEF Placed
    <3>2. PageOf(a) \in Pages /\ PageOf(a) \in Nat
      BY <3>1, PageInHeap, PageBounds
    <3>3. CASE secs[i].class = k
      <4>1. a \in Bytes(addr, n)
        BY <1>11, <3>3
      <4>2. n > 0
        BY <1>9, <4>1 DEF Bytes
      <4>3. PageOf(a) \in Touched(addr, n)
        BY <1>9, <4>1, <4>2, PagesTouched, n \in Nat
      <4> QED BY <1>14, <3>2, <3>3, <4>2, <4>3
    <3>4. CASE Protected(p, i) /\ secs[i].class < k
      <4>1. perm[PageOf(a)] = Protection[secs[i].class]
        BY <1>2, <1>3, <3>4 DEF Shielded
      <4>2. n > 0 => PageOf(a) \notin Touched(addr, n)
        <5> SUFFICES ASSUME n > 0, PageOf(a) \in Touched(addr, n) PROVE FALSE
          OBVIOUS
        <5>1. PageOf(a) < PageOf(a)
          BY <1>12, <3>4
        <5> QED BY <3>2, <5>1
      <4> QED BY <1>14, <3>2, <4>1, <4>2
    <3> QED BY <1>19, <3>3, <3>4
  <2> QED BY <2>1, <2>2, <2>3, <2>4, <2>5, <2>6 DEF ProgramInv
<1>21. ASSUME NEW q \in Programs, q # p PROVE ProgramInv(q)'
  <2>1. Loading(q) => \A i \in DOMAIN image[q] : Protected(q, i) =>
           \A a \in SectionBytes(q, i) :
             perm[PageOf(a)] = Protection[image[q][i].class] =>
               perm'[PageOf(a)] = Protection[image[q][i].class]
    <3> SUFFICES ASSUME Loading(q), NEW i \in DOMAIN image[q], Protected(q, i),
                        NEW a \in SectionBytes(q, i),
                        perm[PageOf(a)] = Protection[image[q][i].class]
                 PROVE  perm'[PageOf(a)] = Protection[image[q][i].class]
      OBVIOUS
    <3>1. Placed(q) /\ Owned(q) /\ Live(q) /\ a \in Block(q) /\ a \in Addresses
      BY IInvFacts DEF Placed
    <3>2. PageOf(a) \in Pages /\ a \in Nat
      BY <3>1, PageInHeap
    <3>3. CASE ~(n > 0)
      BY <1>1, <3>3
    <3>4. CASE n > 0 /\ k = 2
      <4>1. n \in Nat /\ SetPages(addr, n, k)
        BY <1>1, <1>9, <3>4
      <4> QED BY <1>3, <1>9, <1>10, <1>13, <1>21, <3>4, <4>1, PagesFrame
    <3>5. CASE n > 0 /\ k < 2
      <4>1. PageOf(a) \notin Touched(addr, n)
        <5> SUFFICES ASSUME PageOf(a) \in Touched(addr, n) PROVE FALSE
          OBVIOUS
        <5> DEFINE g == PageOf(a)
        <5>1. mem <= g * Page /\ (g + 1) * Page <= mem + size[p]
          BY <1>12, <3>5
        <5>2. g \in Nat /\ g * Page <= a /\ a < (g + 1) * Page
          BY <3>2, PageBounds
        <5> HIDE DEF g, mem
        <5>3. g * Page \in Nat /\ (g + 1) * Page \in Nat
          BY <5>2, PageAssumption
        <5>4. mem <= a /\ a < mem + size[p]
          BY <1>4, <3>2, <5>1, <5>2, <5>3
        <5>5. a \in Block(p)
          BY <1>4, <3>2, <5>4 DEF Block, Bytes, mem
        <5> QED BY <1>2, <1>3, <1>21, <3>1, <5>5, BlocksApart
      <4> QED BY <1>14, <3>2, <4>1
    <3> QED BY <1>13, <3>3, <3>4, <3>5
  <2>2. Live(q) => \A a \in Block(q) : heap'[a] = heap[a]
    BY <1>1
  <2> QED BY <1>17, <1>21, <2>1, <2>2, IInvFacts, ProgramFrame
<1>22. ASSUME NEW a \in Addresses PROVE Owner(a)'
  <2>1. heap'[a] = heap[a] /\ Owner(a)
    BY <1>1 DEF IInv
  <2>2. \A o \in Programs : Live(o) /\ a \in Block(o) => Live(o)' /\ a \in Block(o)'
    BY <1>17, <1>18 DEF Live, Block
  <2> QED BY <2>1, <2>2, OwnerFrame
<1>23. Guarded'
  <2> SUFFICES ASSUME NEW g \in Pages, perm'[g] # "rw"
               PROVE  \E q \in Programs : Guards(q, g)'
    BY DEF Guarded
  <2>1. CASE n > 0 /\ g \in Touched(addr, n)
    <3>1. k < 2
      <4>1. perm'[g] = Protection[k]
        BY <1>14, <2>1
      <4> QED BY <1>13, <4>1 DEF Protection
    <3>2. mem <= g * Page /\ (g + 1) * Page <= mem + size[p]
      BY <1>12, <2>1, <3>1
    <3>3. \A i \in DOMAIN secs : ~Protected(p, i)' => (g + 1) * Page <= ShAddr(secs, mem, i)
      BY <1>12, <1>19, <2>1
    <3>4. Guards(p, g)'
      BY <1>1, <1>16, <1>18, <3>2, <3>3 DEF Guards
    <3> QED BY <3>4
  <2>2. CASE ~(n > 0 /\ g \in Touched(addr, n))
    <3>1. perm[g] # "rw"
      BY <1>14, <2>2
    <3>2. PICK q \in Programs : Guards(q, g)
      BY <3>1 DEF IInv, Guarded
    <3>3. CASE q = p
      BY <1>1, <1>16, <1>18, <1>19, <3>2, <3>3 DEF Guards
    <3>4. CASE q # p
      BY <1>17, <3>2, <3>4, GuardFrame
    <3> QED BY <3>3, <3>4
  <2> QED BY <2>1, <2>2
<1> QED BY <1>15, <1>20, <1>21, <1>22, <1>23 DEF IInv

LEMMA UnprotectIInv ==
  ASSUME IInv, NEW p \in Programs, Unprotect(p)
  PROVE  IInv'
<1>1. /\ stage[p] = "ready" /\ SetPages(base[p], size[p], 2)
      /\ stage' = [stage EXCEPT ![p] = "unprotected"]
      /\ image' = image /\ base' = base /\ size' = size /\ next' = next /\ heap' = heap
  BY DEF Unprotect
<1>2. Typed /\ ProgramInv(p) /\ Placed(p) /\ Paced(p) /\ Owned(p) /\ Copied(p)
  BY IInvFacts
<1>3. Live(p) /\ base[p] \in Nat /\ size[p] \in Nat /\ size[p] > 0
  <2>1. Live(p)
    BY <1>1 DEF Live
  <2> QED BY <1>2, <2>1, Placement
<1> DEFINE from == base[p]
           n == size[p]
<1>4. perm' = [g \in Pages |-> IF g \in Touched(from, n) THEN "rw" ELSE perm[g]]
  <2>1. Protection[2] = "rw"
    BY DEF Protection
  <2> QED BY <1>1, <2>1 DEF SetPages, Touched
<1>5. Bytes(from, n) \subseteq Block(p) /\ 2 \in 0 .. 2
  BY DEF Block
<1>6. Typed'
  BY <1>1, <1>2, <1>4 DEF Typed, Stages
<1>7. stage'[p] = "unprotected"
  BY <1>1, <1>2 DEF Typed
<1>8. \A q \in Programs : q # p => stage'[q] = stage[q]
  BY <1>1, <1>2 DEF Typed
<1>9. Live(p)' /\ ~Loading(p)' /\ \A q \in Programs : Block(q)' = Block(q)
  BY <1>1, <1>7 DEF Live, Loading, Block
<1>10. ProgramInv(p)'
  <2>1. Resting(p)' /\ Placed(p)'
    BY <1>1, <1>2, <1>3, <1>9 DEF Resting, Placed, Live
  <2>2. Paced(p)'
    BY <1>1, <1>2, <1>7 DEF Paced
  <2>3. Owned(p)'
    BY <1>1, <1>2, <1>3, <1>9 DEF Owned
  <2>4. Copied(p)'
    BY <1>1, <1>2, <1>3, <1>7 DEF Copied, SectionBytes
  <2>5. Shielded(p)'
    BY <1>9 DEF Shielded
  <2> QED BY <2>1, <2>2, <2>3, <2>4, <2>5 DEF ProgramInv
<1>11. ASSUME NEW q \in Programs, q # p PROVE ProgramInv(q)'
  <2>1. Loading(q) => \A i \in DOMAIN image[q] : Protected(q, i) =>
           \A a \in SectionBytes(q, i) :
             perm[PageOf(a)] = Protection[image[q][i].class] =>
               perm'[PageOf(a)] = Protection[image[q][i].class]
    BY <1>1, <1>3, <1>5, <1>11, PagesFrame
  <2> QED BY <1>1, <1>8, <1>11, <2>1, IInvFacts, ProgramFrame
<1>12. ASSUME NEW a \in Addresses PROVE Owner(a)'
  <2>1. heap'[a] = heap[a] /\ Owner(a)
    BY <1>1 DEF IInv
  <2>2. \A o \in Programs : Live(o) /\ a \in Block(o) => Live(o)' /\ a \in Block(o)'
    BY <1>8, <1>9 DEF Live
  <2> QED BY <2>1, <2>2, OwnerFrame
<1>13. Guarded'
  <2> SUFFICES ASSUME NEW g \in Pages, perm'[g] # "rw"
               PROVE  \E q \in Programs : Guards(q, g)'
    BY DEF Guarded
  <2>1. g \notin Touched(from, n) /\ perm[g] # "rw"
    BY <1>4
  <2>2. PICK q \in Programs : Guards(q, g)
    BY <2>1 DEF IInv, Guarded
  <2>3. q # p
    <3> SUFFICES ASSUME Guards(p, g) PROVE FALSE
      BY <2>2
    <3> HIDE DEF from, n
    <3>1. from <= g * Page /\ (g + 1) * Page <= from + n
      BY DEF Guards, from, n
    <3>2. g \in Nat /\ Page \in Nat \ {0}
      BY HeapAssumption, PageAssumption DEF Pages
    <3> DEFINE a == g * Page
    <3>3. a \in Nat /\ (g + 1) * Page = a + Page
      BY <3>2
    <3>4. PageOf(a) = g
      BY <3>2, <3>3, PageIs
    <3> HIDE DEF a
    <3>5. from \in Nat /\ n \in Nat /\ n > 0
      BY <1>3 DEF from, n
    <3>6. a \in Bytes(from, n)
      BY <3>1, <3>2, <3>3, <3>5 DEF Bytes, a
    <3> QED BY <2>1, <3>4, <3>5, <3>6, PagesTouched
  <2> QED BY <1>1, <1>8, <2>2, <2>3, GuardFrame
<1> QED BY <1>6, <1>10, <1>11, <1>12, <1>13 DEF IInv

LEMMA RunFreeIInv ==
  ASSUME IInv, NEW p \in Programs, RunFree(p)
  PROVE  IInv'
<1>1. /\ stage[p] = "unprotected"
      /\ heap' = [a \in Addresses |-> IF a \in Block(p) THEN Free ELSE heap[a]]
      /\ stage' = [stage EXCEPT ![p] = "idle"]
      /\ image' = [image EXCEPT ![p] = <<>>]
      /\ base' = [base EXCEPT ![p] = None]
      /\ size' = [size EXCEPT ![p] = 0]
      /\ next' = [next EXCEPT ![p] = 0]
      /\ perm' = perm
  BY DEF RunFree, Fill, Block
<1>2. Typed /\ ProgramInv(p) /\ Placed(p) /\ Owned(p)
  BY IInvFacts
<1>3. Live(p) /\ ~Loading(p)
  BY <1>1 DEF Live, Loading
<1>4. Typed'
  BY <1>1, <1>2 DEF Typed, Stages
<1>5. /\ stage'[p] = "idle" /\ image'[p] = <<>> /\ base'[p] = None /\ next'[p] = 0
  BY <1>1, <1>2 DEF Typed
<1>6. \A q \in Programs : q # p =>
        /\ stage'[q] = stage[q] /\ image'[q] = image[q] /\ base'[q] = base[q]
        /\ size'[q] = size[q] /\ next'[q] = next[q]
  BY <1>1, <1>2 DEF Typed
<1>7. ProgramInv(p)'
  <2>1. ~Live(p)' /\ ~Loading(p)' /\ Resting(p)' /\ Paced(p)'
    BY <1>5 DEF Live, Loading, Resting, Paced
  <2> QED BY <2>1 DEF ProgramInv, Placed, Owned, Copied, Shielded
<1>8. ASSUME NEW q \in Programs, q # p PROVE ProgramInv(q)'
  <2>1. Live(q) => \A a \in Block(q) : heap'[a] = heap[a]
    <3> SUFFICES ASSUME Live(q), NEW a \in Block(q) PROVE heap'[a] = heap[a]
      OBVIOUS
    <3>1. Placed(q) /\ Owned(q)
      BY IInvFacts
    <3>2. a \in Addresses /\ a \notin Block(p)
      BY <1>2, <1>3, <1>8, <3>1, BlocksApart DEF Placed
    <3> QED BY <1>1, <3>2
  <2> QED BY <1>1, <1>6, <1>8, <2>1, IInvFacts, ProgramFrame
<1>9. ASSUME NEW a \in Addresses PROVE Owner(a)'
  <2>1. CASE a \in Block(p)
    BY <1>1, <2>1 DEF Owner
  <2>2. CASE a \notin Block(p)
    <3>1. heap'[a] = heap[a] /\ Owner(a)
      BY <1>1, <2>2 DEF IInv
    <3>2. \A o \in Programs : Live(o) /\ a \in Block(o) => Live(o)' /\ a \in Block(o)'
      BY <1>6, <2>2 DEF Live, Block
    <3> QED BY <3>1, <3>2, OwnerFrame
  <2> QED BY <2>1, <2>2
<1>10. Guarded'
  <2> SUFFICES ASSUME NEW g \in Pages, perm[g] # "rw"
               PROVE  \E q \in Programs : Guards(q, g)'
    BY <1>1 DEF Guarded
  <2>1. PICK q \in Programs : Guards(q, g)
    BY DEF IInv, Guarded
  <2>2. q # p
    BY <1>3, <2>1 DEF Guards
  <2> QED BY <1>6, <2>1, <2>2, GuardFrame
<1> QED BY <1>4, <1>7, <1>8, <1>9, <1>10 DEF IInv

(* The rest of the process keeps off the blocks of the programs.           *)
LEMMA OthersIInv ==
  ASSUME IInv, UNCHANGED <<stage, image, base, size, next, perm>>, DOMAIN heap' = Addresses,
         \A a \in Addresses :
           \/ heap'[a] = heap[a]
           \/ /\ heap[a] = Free \/ \E b \in Blocks : heap[a] = <<b, 0>>
              /\ heap'[a] = Free \/ \E b \in Blocks : heap'[a] = <<b, 0>>
  PROVE  IInv'
<1>1. Typed'
  BY DEF IInv, Typed
<1>2. ASSUME NEW q \in Programs PROVE ProgramInv(q)'
  <2>1. Live(q) => \A a \in Block(q) : heap'[a] = heap[a]
    <3> SUFFICES ASSUME Live(q), NEW a \in Block(q) PROVE heap'[a] = heap[a]
      OBVIOUS
    <3>1. Typed /\ Owned(q) /\ a \in Addresses
      BY IInvFacts DEF Placed
    <3>2. heap[a] # Free /\ \A b \in Blocks : heap[a] # <<b, 0>>
      BY <3>1, BlocksApart
    <3> QED BY <3>1, <3>2
  <2> QED BY <2>1, IInvFacts, ProgramFrame
<1>3. ASSUME NEW a \in Addresses PROVE Owner(a)'
  <2>1. CASE heap'[a] = heap[a]
    <3>1. Owner(a) /\ \A o \in Programs : Live(o)' = Live(o) /\ Block(o)' = Block(o)
      BY DEF IInv, Live, Block
    <3> QED BY <2>1, <3>1, OwnerFrame
  <2>2. CASE heap'[a] = Free \/ \E b \in Blocks : heap'[a] = <<b, 0>>
    BY <2>2, OwnersAssumption DEF Owner
  <2> QED BY <2>1, <2>2
<1>4. Guarded'
  BY GuardFrame DEF IInv, Guarded
<1> QED BY <1>1, <1>2, <1>3, <1>4 DEF IInv

LEMMA MallocIInv ==
  ASSUME IInv, NEW b \in Blocks, NEW n \in BlockSizes, NEW mem \in Starts, Malloc(b, n, mem)
  PROVE  IInv'
<1>1. \A a \in Addresses :
        \/ heap'[a] = heap[a]
        \/ heap[a] = Free /\ heap'[a] = <<b, 0>>
  BY DEF Malloc, Vacant, Fill
<1>2. DOMAIN heap' = Addresses
  BY DEF Malloc, Fill
<1> QED BY <1>1, <1>2, OthersIInv DEF Malloc

LEMMA MallocFreeIInv ==
  ASSUME IInv, NEW b \in Blocks, MallocFree(b)
  PROVE  IInv'
<1>1. \A a \in Addresses :
        \/ heap'[a] = heap[a]
        \/ heap[a] = <<b, 0>> /\ heap'[a] = Free
  BY DEF MallocFree, Fill
<1>2. DOMAIN heap' = Addresses
  BY DEF MallocFree, Fill
<1> QED BY <1>1, <1>2, OthersIInv DEF MallocFree

LEMMA NextIInv == IInv /\ [Next]_vars => IInv'
<1> SUFFICES ASSUME IInv, [Next]_vars PROVE IInv'
  OBVIOUS
<1>1. ASSUME NEW p \in Programs, NEW secs \in Layouts, NEW mem \in Starts,
             Relocate(p, secs, mem)
      PROVE  IInv'
  BY <1>1, RelocateIInv
<1>2. ASSUME NEW p \in Programs, CopySection(p) \/ Protect(p) \/ Unprotect(p) \/ RunFree(p)
      PROVE  IInv'
  BY <1>2, CopySectionIInv, ProtectIInv, UnprotectIInv, RunFreeIInv
<1>3. ASSUME NEW b \in Blocks, NEW n \in BlockSizes, NEW mem \in Starts, Malloc(b, n, mem)
      PROVE  IInv'
  BY <1>3, MallocIInv
<1>4. ASSUME NEW b \in Blocks, MallocFree(b) PROVE IInv'
  BY <1>4, MallocFreeIInv
<1>5. CASE UNCHANGED vars
  <2>1. UNCHANGED <<stage, image, base, size, next, perm>> /\ heap' = heap
    BY <1>5 DEF vars
  <2>2. DOMAIN heap' = Addresses
    BY <2>1 DEF IInv, Typed
  <2> QED BY <2>1, <2>2, OthersIInv
<1> QED BY <1>1, <1>2, <1>3, <1>4, <1>5 DEF Next

-----------------------------------------------------------------------------
(* The theorems.                                                           *)

(* The invariant above holds in every reachable state.                     *)
THEOREM Invariance == Spec => []IInv
BY InitIInv, NextIInv, PTL DEF Spec

(* The variables of tcc_relocate_ex() and the heap keep their types.       *)
THEOREM TypeCorrect == Spec => []TypeOK
BY Invariance, IInvTypeOK, PTL

(* Whatever sections a compilation ends with, however they are aligned and *)
(* wherever malloc() puts the block, the size computed before the address  *)
(* was known is enough: sections lie in the block, aligned, and apart.     *)
THEOREM EverySectionFits == Spec => []SectionsFit
BY Invariance, IInvSectionsFit, PTL

(* A loaded program keeps its bytes and its pages' protection, whatever is *)
(* loaded, freed or allocated next to it.                                  *)
THEOREM LoadedStaysIntact == Spec => []LoadedIntact
BY Invariance, IInvLoadedIntact, PTL

(* mprotect() never reaches a byte that somebody may still write.          *)
THEOREM ProtectionStaysHome == Spec => []WritersDoNotFault
BY Invariance, IInvWritersDoNotFault, PTL
=============================================================================
