---------------------------- MODULE Linker_proofs ----------------------------
(***************************************************************************)
(* The symbol table of the linker for any names, hash function, files and  *)
(* declarations: entries keep their types; whenever the table is hashed    *)
(* the chains find the entry of each global or weak symbol, and a C name   *)
(* has no other; it has the definition that counts, what is missing and    *)
(* what the linker's own symbols clash with is reported, and the           *)
(* references of a linked program reach what its source meant.             *)
(***************************************************************************)
EXTENDS Linker, Recursion, FiniteSetTheorems

Bucket(nb, s) == Hash[s.name] % nb

(* Link x is what rebuild_hash() would put in front of the entries after   *)
(* k: the latest entry of bucket b among the first k, or 0.                *)
Link(syms, nb, b, k, x) ==
  /\ x \in 0 .. k
  /\ x # 0 => Nonlocal(syms[x]) /\ Bucket(nb, syms[x]) = b
  /\ \A j \in x + 1 .. k : Nonlocal(syms[j]) => Bucket(nb, syms[j]) # b

Tabs == [syms : Seq(Symbol), n : Nat, hash : Seq(Nat), hashed : Nat, err : BOOLEAN, ix : Nat]

(* The hash table describes the first n entries.                           *)
Chained(t) ==
  /\ NbBuckets(t.hash) \in Nat \ {0}
  /\ Len(t.hash) = 3 + NbBuckets(t.hash) + t.n
  /\ \A b \in 0 .. NbBuckets(t.hash) - 1 :
       Link(t.syms, NbBuckets(t.hash), b, t.n, t.hash[3 + b])
  /\ \A i \in 1 .. t.n :
       /\ t.hash[ChainPos(t.hash, i)] \in 0 .. t.n
       /\ Nonlocal(t.syms[i]) =>
            Link(t.syms, NbBuckets(t.hash), Bucket(NbBuckets(t.hash), t.syms[i]), i - 1,
                 t.hash[ChainPos(t.hash, i)])

(* A name has one entry among the global and weak symbols, unless it is    *)
(* that of PLT entries, and statics that are not defined have been offered *)
(* as globals.                                                             *)
Unique == Names \cup {GotName}
Once(t) ==
  \A i, j \in 1 .. t.n :
    Nonlocal(t.syms[i]) /\ Nonlocal(t.syms[j]) /\ t.syms[i].name \in Unique
    /\ t.syms[i].name = t.syms[j].name => i = j
StaticsDefined(t) == \A i \in 1 .. t.n : Nonlocal(t.syms[i]) \/ ~Undefined(t.syms[i])

Good(t) == t \in Tabs /\ t.n <= Len(t.syms) /\ Chained(t) /\ Once(t) /\ StaticsDefined(t)

-----------------------------------------------------------------------------
(* Buckets, positions and the greatest number of a set.                    *)

LEMMA BucketType ==
  ASSUME NEW nb \in Nat \ {0}, NEW s \in Symbol
  PROVE  Bucket(nb, s) \in 0 .. nb - 1
<1>1. s.name \in AllNames /\ Hash[s.name] \in Nat
  BY HashAssumption DEF Symbol
<1> DEFINE h == Hash[s.name]
<1>2. h \in Nat
  BY <1>1
<1> HIDE DEF h
<1>3. h % nb \in 0 .. nb - 1
  BY <1>2
<1> QED BY <1>3 DEF Bucket, h

LEMMA MaxFacts ==
  ASSUME NEW k \in Nat, NEW T \in SUBSET (0 .. k), T # {}
  PROVE  Max(T) \in T /\ \A y \in T : y <= Max(T)
<1> DEFINE below == {k - y : y \in T}
<1>1. below \in SUBSET Nat /\ below # {}
  <2>1. \A y \in T : y \in 0 .. k
    OBVIOUS
  <2>2. \A y \in T : k - y \in Nat
    BY <2>1
  <2> QED BY <2>2
<1>2. PICK x \in below : \A y \in below : x <= y
  <2> HIDE DEF below
  <2> QED BY <1>1, LeastNatural
<1>3. PICK m \in T : x = k - m
  OBVIOUS
<1>4. \A y \in T : m >= y
  <2> SUFFICES ASSUME NEW y \in T PROVE m >= y
    OBVIOUS
  <2>1. k - m <= k - y
    BY <1>2, <1>3
  <2> QED BY <2>1
<1>5. \E w \in T : \A y \in T : w >= y
  BY <1>4
<1>6. Max(T) \in T /\ \A y \in T : Max(T) >= y
  BY <1>5 DEF Max
<1> QED BY <1>6

(* Along a chain: no entry of the name is behind the place the search is   *)
(* at, and it stops at the name or goes down.                              *)
LEMMA FindFacts ==
  ASSUME NEW t, Good(t), NEW name \in AllNames
  PROVE  /\ Find(t, name) \in 0 .. t.n
         /\ Find(t, name) # 0 =>
              Nonlocal(t.syms[Find(t, name)]) /\ t.syms[Find(t, name)].name = name
         /\ \A j \in Find(t, name) + 1 .. t.n :
              Nonlocal(t.syms[j]) => t.syms[j].name # name
<1> DEFINE n == t.n
           h == t.hash
           nb == NbBuckets(h)
           b == Hash[name] % nb
           Behind(x) == \A j \in x + 1 .. n : Nonlocal(t.syms[j]) => t.syms[j].name # name
           Here(x) == x # 0 => Nonlocal(t.syms[x]) /\ Bucket(nb, t.syms[x]) = b
           There(x) == x = 0 \/ t.syms[x].name = name
           After(x) == IF There(x) THEN x ELSE h[ChainPos(h, x)]
           J == [k \in 0 .. n |-> {x \in 0 .. n : Behind(x) /\ Here(x) /\ (There(x) \/ x <= n - k)}]
           start == h[BucketPos(h, name)]
           step == [k \in 1 .. n |-> [x \in J[k - 1] |-> After(x)]]
<1>1. n \in Nat /\ nb \in Nat \ {0} /\ t.syms \in Seq(Symbol) /\ n <= Len(t.syms)
      /\ Chained(t)
  BY DEF Good, Tabs, Chained
<1>1a. \A j \in 1 .. n : t.syms[j] \in Symbol
  BY <1>1
<1>2. b \in 0 .. nb - 1 /\ BucketPos(h, name) = 3 + b
  <2>1. Hash[name] \in Nat
    BY HashAssumption
  <2> HIDE DEF nb
  <2>2. b \in 0 .. nb - 1
    BY <1>1, <2>1
  <2> QED BY <2>2 DEF BucketPos, nb
<1>3. \A j \in 1 .. n : t.syms[j].name = name => Bucket(nb, t.syms[j]) = b
  BY DEF Bucket
<1>4. Link(t.syms, nb, b, n, start)
  BY <1>1, <1>2 DEF Chained
<1> HIDE DEF nb, b, h
<1>5. start \in J[0]
  <2>1. start \in 0 .. n /\ Here(start)
    BY <1>4 DEF Link
  <2>2. Behind(start)
    BY <1>1, <1>3, <1>4, <2>1 DEF Link
  <2>3. start <= n - 0
    BY <1>1, <2>1
  <2> HIDE DEF Behind, Here, There, start
  <2> QED BY <1>1, <2>1, <2>2, <2>3, 0 \in 0 .. n
<1>6. ASSUME NEW k \in 1 .. n, NEW x \in J[k - 1] PROVE After(x) \in J[k]
  <2>1. k \in 0 .. n /\ k - 1 \in 0 .. n
    BY <1>1
  <2>2. x \in 0 .. n /\ Behind(x) /\ Here(x) /\ (There(x) \/ x <= n - (k - 1))
    BY <2>1
  <2>3. CASE There(x)
    <3> HIDE DEF Behind, Here, There
    <3> QED BY <2>1, <2>2, <2>3
  <2>4. CASE ~There(x)
    <3> DEFINE y == h[ChainPos(h, x)]
    <3>1. x \in 1 .. n /\ x <= n - (k - 1) /\ t.syms[x].name # name
      BY <1>1, <2>2, <2>4
    <3>2. Link(t.syms, nb, b, x - 1, y)
      BY <1>1, <2>2, <3>1 DEF Chained, nb, h
    <3> HIDE DEF y
    <3>3. y \in 0 .. n /\ y <= x - 1 /\ Here(y)
      BY <1>1, <3>1, <3>2 DEF Link
    <3>4. Behind(y)
      <4> SUFFICES ASSUME NEW j \in y + 1 .. n, Nonlocal(t.syms[j])
                   PROVE  t.syms[j].name # name
        OBVIOUS
      <4>1. j \in 1 .. n /\ (j \in y + 1 .. x - 1 \/ j = x \/ j \in x + 1 .. n)
        BY <1>1, <3>1, <3>3
      <4>2. j \in y + 1 .. x - 1 => Bucket(nb, t.syms[j]) # b
        BY <3>2 DEF Link
      <4> QED BY <1>3, <2>2, <3>1, <4>1, <4>2
    <3>5. y <= n - k
      BY <1>1, <3>1, <3>3
    <3>6. After(x) = y
      BY <2>4 DEF y
    <3> HIDE DEF Behind, Here, There, After
    <3> QED BY <2>1, <3>3, <3>4, <3>5, <3>6
  <2> QED BY <2>3, <2>4
<1>7. Leads(n, J, step)
  <2> SUFFICES \A k \in 1 .. n : \A x \in J[k - 1] : step[k][x] \in J[k]
    BY DEF Leads
  <2> TAKE k \in 1 .. n
  <2> TAKE x \in J[k - 1]
  <2> HIDE DEF J, After
  <2>1. step[k][x] = After(x)
    OBVIOUS
  <2> HIDE DEF step
  <2> QED BY <1>6, <2>1
<1> DEFINE Value(g, k) == IF k = 0 THEN start ELSE After(g[k - 1])
<1>8a. PICK f : FollowsWithin(f, n, J, start, step)
  <2> HIDE DEF J, start, step, n
  <2> QED BY <1>1, <1>5, <1>7, RecursionWithin
<1>8. /\ f = [k \in 0 .. n |-> f[k]] /\ f[0] = start
      /\ \A k \in 1 .. n : f[k] = step[k][f[k - 1]]
      /\ \A k \in 0 .. n : f[k] \in J[k]
  <2> HIDE DEF J, start, step, n
  <2> QED BY <1>8a DEF FollowsWithin
<1>9. f = [k \in 0 .. n |-> Value(f, k)]
  <2>1. \A k \in 0 .. n : f[k] = Value(f, k)
    <3> TAKE k \in 0 .. n
    <3>1. CASE k # 0
      <4>1. k \in 1 .. n /\ k - 1 \in 0 .. n
        BY <1>1, <3>1
      <4>2. f[k] = After(f[k - 1])
        <5> HIDE DEF J, After
        <5> QED BY <1>8, <4>1
      <4> HIDE DEF After
      <4> QED BY <3>1, <4>2
    <3> QED BY <1>8, <3>1
  <2> HIDE DEF Value, n, J, step
  <2> QED BY <1>8, <2>1
<1> DEFINE at == CHOOSE g : g = [k \in 0 .. n |-> Value(g, k)]
<1>10. at = [k \in 0 .. n |-> Value(at, k)]
  BY <1>9
<1>11. Find(t, name) = at[n]
  BY DEF Find, nb, h
<1> HIDE DEF at
<1> DEFINE S == {k \in 0 .. n : at[k] \in J[k]}
<1>12. 0 .. n \subseteq S
  <2>1. 0 \in S
    <3>1. at[0] = start
      BY <1>1, <1>10
    <3> HIDE DEF J, start
    <3> QED BY <1>1, <1>5, <3>1
  <2>2. ASSUME NEW k \in 1 .. n, k - 1 \in S PROVE k \in S
    <3>1. at[k] = After(at[k - 1]) /\ k \in 0 .. n
      <4> HIDE DEF After
      <4> QED BY <1>10, k \in 0 .. n, k # 0
    <3>2. at[k - 1] \in J[k - 1]
      BY <2>2
    <3> HIDE DEF J, After
    <3> QED BY <1>6, <3>1, <3>2
  <2> HIDE DEF S, n
  <2> QED BY <1>1, <2>1, <2>2, RangeInduction
<1>13. at[n] \in 0 .. n /\ Behind(at[n]) /\ Here(at[n]) /\ (There(at[n]) \/ at[n] <= n - n)
  <2>1. at[n] \in J[n] /\ n \in 0 .. n
    <3> HIDE DEF J
    <3> QED BY <1>1, <1>12
  <2> HIDE DEF Behind, Here, There
  <2> QED BY <2>1
<1> QED BY <1>1, <1>11, <1>13

-----------------------------------------------------------------------------
(* Adding entries.                                                         *)

Alike(r, s) == r.name = s.name /\ (Nonlocal(r) <=> Nonlocal(s))

(* A link depends on the names and bindings of the entries before it.      *)
LEMMA LinkKept ==
  ASSUME NEW r, NEW s, NEW nb, NEW b, NEW k \in Nat, NEW x, Link(r, nb, b, k, x),
         \A j \in 1 .. k : Alike(r[j], s[j])
  PROVE  Link(s, nb, b, k, x)
<1>1. x \in 0 .. k
  BY DEF Link
<1>2. \A j \in 1 .. k : Bucket(nb, r[j]) = Bucket(nb, s[j]) /\ (Nonlocal(r[j]) <=> Nonlocal(s[j]))
  BY DEF Alike, Bucket
<1>3. (x # 0 => x \in 1 .. k) /\ \A j \in x + 1 .. k : j \in 1 .. k
  BY <1>1
<1> QED BY <1>1, <1>2, <1>3 DEF Link

(* The latest entry of a bucket is its link.                               *)
Latest(syms, nb, b, k) ==
  Max({0} \cup {j \in 1 .. k : Nonlocal(syms[j]) /\ Bucket(nb, syms[j]) = b})

LEMMA LatestLinks ==
  ASSUME NEW syms, NEW nb, NEW b, NEW k \in Nat
  PROVE  Link(syms, nb, b, k, Latest(syms, nb, b, k))
<1> DEFINE T == {0} \cup {j \in 1 .. k : Nonlocal(syms[j]) /\ Bucket(nb, syms[j]) = b}
           x == Max(T)
<1>1. T \in SUBSET (0 .. k) /\ T # {}
  OBVIOUS
<1>2. x \in T /\ \A y \in T : y <= x
  <2> HIDE DEF T
  <2> QED BY <1>1, MaxFacts
<1> HIDE DEF x
<1>3. x \in 0 .. k
  BY <1>2
<1>4. x # 0 => Nonlocal(syms[x]) /\ Bucket(nb, syms[x]) = b
  BY <1>2
<1>5. ASSUME NEW j \in x + 1 .. k, Nonlocal(syms[j]) PROVE Bucket(nb, syms[j]) # b
  <2>1. j \in 1 .. k /\ ~(j <= x)
    BY <1>3
  <2> QED BY <1>2, <1>5, <2>1
<1> QED BY <1>3, <1>4, <1>5 DEF Link, Latest, x

(* Arrays of ints put behind one another.                                  *)
LEMMA Joined ==
  ASSUME NEW p \in Seq(Nat), NEW q \in Seq(Nat)
  PROVE  /\ p \o q \in Seq(Nat) /\ Len(p \o q) = Len(p) + Len(q)
         /\ \A k \in 1 .. Len(p) : (p \o q)[k] = p[k]
         /\ \A k \in 1 .. Len(q) : (p \o q)[Len(p) + k] = q[k]
<1>1. p \o q \in Seq(Nat) /\ Len(p \o q) = Len(p) + Len(q)
  OBVIOUS
<1>2. Len(p) \in Nat /\ Len(q) \in Nat
  OBVIOUS
<1>3. ASSUME NEW k \in 1 .. Len(p) PROVE (p \o q)[k] = p[k]
  BY <1>2, k \in 1 .. Len(p) + Len(q)
<1>4. ASSUME NEW k \in 1 .. Len(q) PROVE (p \o q)[Len(p) + k] = q[k]
  <2>1. Len(p) + k \in 1 .. Len(p) + Len(q) /\ ~(Len(p) + k <= Len(p)) /\ (Len(p) + k) - Len(p) = k
    BY <1>2
  <2> QED BY <2>1
<1> QED BY <1>1, <1>3, <1>4

(* rebuild_hash() describes the table whatever the hash table was.         *)
LEMMA RebuildFacts ==
  ASSUME NEW t \in Tabs, t.n <= Len(t.syms), NEW nb \in Nat \ {0}
  PROVE  /\ \E h \in Seq(Nat) : Rebuild(t, nb) = [t EXCEPT !.hash = h]
         /\ Chained(Rebuild(t, nb))
<1> DEFINE n == t.n
           front == <<nb, n + 1>>
           buckets == [b \in 1 .. nb |-> Latest(t.syms, nb, b - 1, n)]
           chain(i) == IF Nonlocal(t.syms[i])
                       THEN Latest(t.syms, nb, Bucket(nb, t.syms[i]), i - 1) ELSE 0
           chains == [i \in 1 .. n |-> chain(i)]
           h == front \o buckets \o <<0>> \o chains
           u == [t EXCEPT !.hash = h]
<1>1. n \in Nat /\ t.syms \in Seq(Symbol)
  BY DEF Tabs
<1>2. Rebuild(t, nb) = u
  BY DEF Rebuild, Latest, Bucket
<1>3. \A b, k \in Nat : Latest(t.syms, nb, b, k) \in 0 .. k
  BY LatestLinks DEF Link
<1>4. ASSUME NEW i \in 1 .. n PROVE Nonlocal(t.syms[i]) => Bucket(nb, t.syms[i]) \in 0 .. nb - 1
  <2>1. t.syms[i] \in Symbol
    BY <1>1
  <2> QED BY <2>1, BucketType
<1>5. ASSUME NEW i \in 1 .. n PROVE chain(i) \in 0 .. i - 1
  <2>1. i - 1 \in Nat /\ 0 \in 0 .. i - 1
    BY <1>1
  <2>2. Nonlocal(t.syms[i]) => Bucket(nb, t.syms[i]) \in Nat
    BY <1>4
  <2> QED BY <1>3, <2>1, <2>2
<1> HIDE DEF chain
<1>6. buckets \in Seq(Nat) /\ Len(buckets) = nb
  <2>1. \A b \in 1 .. nb : b - 1 \in Nat
    OBVIOUS
  <2>2. \A b \in 1 .. nb : Latest(t.syms, nb, b - 1, n) \in Nat
    <3> TAKE b \in 1 .. nb
    <3>1. Latest(t.syms, nb, b - 1, n) \in 0 .. n
      BY <1>1, <1>3, <2>1
    <3> QED BY <1>1, <3>1
  <2> QED BY <2>2
<1>7. chains \in Seq(Nat) /\ Len(chains) = n
  <2>1. \A i \in 1 .. n : chain(i) \in Nat
    BY <1>5
  <2> QED BY <1>1, <2>1
<1>8. front \in Seq(Nat) /\ Len(front) = 2 /\ front[1] = nb
  BY <1>1
<1> DEFINE half == front \o buckets
<1>9. half \in Seq(Nat) /\ Len(half) = 2 + nb /\ half[1] = nb
      /\ \A b \in 0 .. nb - 1 : half[3 + b] = buckets[b + 1]
  <2> HIDE DEF front, buckets
  <2>0. /\ \A k \in 1 .. Len(front) : half[k] = front[k]
        /\ \A k \in 1 .. Len(buckets) : half[Len(front) + k] = buckets[k]
    BY <1>6, <1>8, Joined, Zenon
  <2>1. half \in Seq(Nat) /\ Len(half) = 2 + nb /\ half[1] = nb
    <3>1. half \in Seq(Nat) /\ Len(half) = Len(front) + Len(buckets)
      BY <1>6, <1>8, Joined
    <3>2. half[1] = front[1]
      BY <1>8, <2>0, 1 \in 1 .. 2
    <3> QED BY <1>6, <1>8, <3>1, <3>2
  <2>2. \A b \in 0 .. nb - 1 : half[3 + b] = buckets[b + 1]
    <3> TAKE b \in 0 .. nb - 1
    <3>1. b + 1 \in 1 .. nb /\ 2 + (b + 1) = 3 + b
      OBVIOUS
    <3>2. half[2 + (b + 1)] = buckets[b + 1]
      BY <1>6, <1>8, <2>0, <3>1
    <3> QED BY <3>1, <3>2
  <2> QED BY <2>1, <2>2
<1> DEFINE most == half \o <<0>>
<1>10. most \in Seq(Nat) /\ Len(most) = 3 + nb /\ \A k \in 1 .. 2 + nb : most[k] = half[k]
  <2> HIDE DEF half
  <2> QED BY <1>9
<1>11. h \in Seq(Nat) /\ Len(h) = 3 + nb + n
       /\ (\A k \in 1 .. 3 + nb : h[k] = most[k]) /\ \A i \in 1 .. n : h[3 + nb + i] = chains[i]
  <2> HIDE DEF most, chains
  <2>1. h = most \o chains
    BY DEF most
  <2> HIDE DEF h
  <2>1a. /\ \A k \in 1 .. Len(most) : h[k] = most[k]
         /\ \A k \in 1 .. Len(chains) : h[Len(most) + k] = chains[k]
    BY <1>7, <1>10, <2>1, Joined, Zenon
  <2>1b. h \in Seq(Nat) /\ Len(h) = Len(most) + Len(chains)
    BY <1>7, <1>10, <2>1, Joined
  <2>2. h \in Seq(Nat) /\ Len(h) = 3 + nb + n /\ \A k \in 1 .. 3 + nb : h[k] = most[k]
    BY <1>7, <1>10, <2>1a, <2>1b
  <2>3. \A i \in 1 .. n : h[3 + nb + i] = chains[i]
    <3> TAKE i \in 1 .. n
    <3> QED BY <1>7, <1>10, <2>1a
  <2> QED BY <2>2, <2>3
<1> HIDE DEF h, most, half
<1>12. h[1] = nb /\ \A b \in 0 .. nb - 1 : h[3 + b] = Latest(t.syms, nb, b, n)
  <2>1. h[1] = nb
    BY <1>9, <1>10, <1>11
  <2>2. ASSUME NEW b \in 0 .. nb - 1 PROVE h[3 + b] = Latest(t.syms, nb, b, n)
    <3>1. 3 + b \in 1 .. 2 + nb /\ 3 + b \in 1 .. 3 + nb /\ b + 1 \in 1 .. nb /\ (b + 1) - 1 = b
      OBVIOUS
    <3>2. h[3 + b] = buckets[b + 1]
      <4> HIDE DEF buckets
      <4> QED BY <1>9, <1>10, <1>11, <3>1
    <3> QED BY <3>1, <3>2
  <2> QED BY <2>1, <2>2
<1>13. \A i \in 1 .. n : h[3 + nb + i] = chain(i)
  BY <1>11
<1> HIDE DEF chains, buckets
<1>14. u \in Tabs /\ u.hash = h /\ u.n = n /\ u.syms = t.syms
  BY <1>11 DEF Tabs
<1>15. Chained(u)
  <2>1. NbBuckets(u.hash) = nb /\ \A i : ChainPos(u.hash, i) = 3 + nb + i
    BY <1>12, <1>14 DEF NbBuckets, ChainPos
  <2>2. \A b \in 0 .. nb - 1 : Link(t.syms, nb, b, n, h[3 + b])
    BY <1>1, <1>12, LatestLinks
  <2>3. ASSUME NEW i \in 1 .. n
        PROVE  /\ h[3 + nb + i] \in 0 .. n
               /\ Nonlocal(t.syms[i]) =>
                    Link(t.syms, nb, Bucket(nb, t.syms[i]), i - 1, h[3 + nb + i])
    <3>1. h[3 + nb + i] \in 0 .. n
      BY <1>1, <1>5, <1>13
    <3>2. i - 1 \in Nat
      BY <1>1
    <3>3. Nonlocal(t.syms[i]) => h[3 + nb + i] = Latest(t.syms, nb, Bucket(nb, t.syms[i]), i - 1)
      BY <1>13 DEF chain
    <3> QED BY <3>1, <3>2, <3>3, LatestLinks
  <2> HIDE DEF u, n
  <2> QED BY <1>11, <1>14, <2>1, <2>2, <2>3 DEF Chained
<1> QED BY <1>2, <1>11, <1>15

(* What a call that may add an entry leaves of the table.                  *)
Grown(t, u) ==
  /\ u \in Tabs /\ u.n \in {t.n, t.n + 1} /\ u.n <= Len(u.syms)
  /\ Len(u.syms) = IF u.n <= Len(t.syms) THEN Len(t.syms) ELSE u.n
  /\ \A j \in 1 .. t.n : Alike(t.syms[j], u.syms[j])
  /\ \A j \in u.n + 1 .. Len(t.syms) : u.syms[j] = t.syms[j]

(* The entry is written behind those in use.                               *)
LEMMA WriteFacts ==
  ASSUME NEW t \in Tabs, t.n <= Len(t.syms), NEW s \in Symbol
  PROVE  LET w == Write(t, s)
         IN /\ Grown(t, w) /\ w.n = t.n + 1 /\ w.ix = t.n + 1
            /\ w.hash = t.hash /\ w.err = t.err /\ w.hashed = t.hashed
            /\ w.syms[w.n] = s
            /\ \A j \in 1 .. t.n : w.syms[j] = t.syms[j]
<1> DEFINE w == Write(t, s)
           n == t.n
           r == t.syms
           syms == IF n < Len(r) THEN [r EXCEPT ![n + 1] = s] ELSE Append(r, s)
<1>1. n \in Nat /\ r \in Seq(Symbol) /\ Len(r) \in Nat
  BY DEF Tabs
<1>2. w = [t EXCEPT !.n = n + 1, !.ix = n + 1, !.syms = syms]
  BY DEF Write, Tabs
<1>3. /\ syms \in Seq(Symbol) /\ syms[n + 1] = s
      /\ \A j \in 1 .. Len(r) : j # n + 1 => syms[j] = r[j]
      /\ Len(syms) = IF n + 1 <= Len(r) THEN Len(r) ELSE n + 1
  <2>1. CASE n < Len(r)
    BY <1>1, <2>1
  <2>2. CASE ~(n < Len(r))
    <3>1. n = Len(r)
      BY <1>1, <2>2
    <3> QED BY <1>1, <2>2, <3>1
  <2> QED BY <2>1, <2>2
<1> HIDE DEF syms
<1>4. /\ w \in Tabs /\ w.n = n + 1 /\ w.ix = n + 1 /\ w.syms = syms
      /\ w.hash = t.hash /\ w.err = t.err /\ w.hashed = t.hashed
  <2>1. n + 1 \in Nat
    BY <1>1
  <2> HIDE DEF w, n
  <2> QED BY <1>2, <1>3, <2>1 DEF Tabs
<1>5. \A j \in 1 .. n : syms[j] = r[j]
  BY <1>1, <1>3
<1>6. \A j \in n + 2 .. Len(r) : syms[j] = r[j]
  BY <1>1, <1>3
<1>7. n + 1 <= Len(syms)
  BY <1>1, <1>3
<1>8. Grown(t, w)
  <2>1. w.n + 1 = n + 2
    BY <1>1, <1>4
  <2> HIDE DEF w, n, r
  <2> QED BY <1>3, <1>4, <1>5, <1>6, <1>7, <2>1 DEF Grown, Alike, n, r
<1> HIDE DEF w
<1> QED BY <1>3, <1>4, <1>5, <1>8 DEF w

(* A link stays when entries behind those it is about change, and is       *)
(* passed on over an entry of another bucket.                              *)
LEMMA LinkOver ==
  ASSUME NEW r, NEW nb, NEW b, NEW k \in Nat, NEW x, Link(r, nb, b, k, x),
         Nonlocal(r[k + 1]) => Bucket(nb, r[k + 1]) # b
  PROVE  Link(r, nb, b, k + 1, x)
<1>1. x \in 0 .. k /\ x \in 0 .. k + 1
  BY DEF Link
<1>2. \A j \in x + 1 .. k + 1 : j = k + 1 \/ j \in x + 1 .. k
  BY <1>1
<1> QED BY <1>1, <1>2 DEF Link

LEMMA LinkNew ==
  ASSUME NEW r, NEW nb, NEW k \in Nat, Nonlocal(r[k + 1])
  PROVE  Link(r, nb, Bucket(nb, r[k + 1]), k + 1, k + 1)
<1>1. k + 1 \in 0 .. k + 1 /\ \A j \in (k + 1) + 1 .. k + 1 : FALSE
  OBVIOUS
<1> QED BY <1>1 DEF Link

(* The table u has entry s behind those of t, and its hash table one link  *)
(* more; buckets and the new link know of s.                               *)
NextChain(t, u, s, link) ==
  /\ u \in Tabs /\ u.n = t.n + 1 /\ u.syms[t.n + 1] = s /\ link \in 0 .. t.n
  /\ \A j \in 1 .. t.n : u.syms[j] = t.syms[j]
  /\ Len(u.hash) = Len(t.hash) + 1 /\ u.hash[1] = t.hash[1]
  /\ u.hash[Len(t.hash) + 1] = link
  /\ \A i \in 1 .. t.n : u.hash[ChainPos(t.hash, i)] = t.hash[ChainPos(t.hash, i)]
  /\ \A b \in 0 .. NbBuckets(t.hash) - 1 :
       Link(u.syms, NbBuckets(t.hash), b, t.n + 1, u.hash[3 + b])
  /\ Nonlocal(s) => Link(u.syms, NbBuckets(t.hash), Bucket(NbBuckets(t.hash), s), t.n, link)

LEMMA ChainedNext ==
  ASSUME NEW t, Good(t), NEW u, NEW s, NEW link, NextChain(t, u, s, link)
  PROVE  Chained(u)
<1> DEFINE nb == NbBuckets(t.hash)
           n == t.n
           h == u.hash
<1>1. n \in Nat /\ nb \in Nat \ {0} /\ Len(t.hash) = 3 + nb + n /\ Chained(t)
  BY DEF Good, Tabs, Chained
<1>2. NbBuckets(h) = nb /\ \A i : ChainPos(h, i) = 3 + nb + i /\ ChainPos(t.hash, i) = 3 + nb + i
  BY DEF NbBuckets, ChainPos, NextChain
<1>2a. /\ u.n = n + 1 /\ u.syms[n + 1] = s /\ link \in 0 .. n
       /\ \A j \in 1 .. n : u.syms[j] = t.syms[j]
       /\ Len(h) = Len(t.hash) + 1 /\ h[Len(t.hash) + 1] = link
       /\ \A i \in 1 .. n : h[ChainPos(t.hash, i)] = t.hash[ChainPos(t.hash, i)]
       /\ \A b \in 0 .. nb - 1 : Link(u.syms, nb, b, n + 1, h[3 + b])
       /\ Nonlocal(s) => Link(u.syms, nb, Bucket(nb, s), n, link)
  BY DEF NextChain
<1>2b. \A i \in 1 .. n :
         /\ t.hash[3 + nb + i] \in 0 .. n
         /\ Nonlocal(t.syms[i]) =>
              Link(t.syms, nb, Bucket(nb, t.syms[i]), i - 1, t.hash[3 + nb + i])
  BY <1>1, <1>2 DEF Chained
<1> HIDE DEF nb, n
<1>2c. h = u.hash
  OBVIOUS
<1> HIDE DEF h
<1>3. Len(h) = 3 + nb + (n + 1) /\ h[3 + nb + (n + 1)] = link
  <2>1. Len(t.hash) + 1 = 3 + nb + (n + 1)
    BY <1>1
  <2> QED BY <1>2a, <2>1
<1>4. ASSUME NEW i \in 1 .. n + 1
      PROVE  /\ h[3 + nb + i] \in 0 .. n + 1
             /\ Nonlocal(u.syms[i]) =>
                  Link(u.syms, nb, Bucket(nb, u.syms[i]), i - 1, h[3 + nb + i])
  <2>1. CASE i = n + 1
    <3>1. i - 1 = n /\ u.syms[i] = s /\ link \in 0 .. n + 1
      BY <1>1, <1>2a, <2>1
    <3>2. h[3 + nb + i] = link
      BY <1>3, <2>1
    <3> QED BY <1>2a, <3>1, <3>2
  <2>2. CASE i # n + 1
    <3>1. i \in 1 .. n /\ i - 1 \in Nat /\ \A j \in 1 .. i - 1 : j \in 1 .. n
      BY <1>1, <2>2
    <3>2. h[3 + nb + i] = t.hash[3 + nb + i] /\ u.syms[i] = t.syms[i]
      BY <1>2, <1>2a, <3>1
    <3>3. /\ t.hash[3 + nb + i] \in 0 .. n
          /\ Nonlocal(t.syms[i]) =>
               Link(t.syms, nb, Bucket(nb, t.syms[i]), i - 1, t.hash[3 + nb + i])
      BY <1>2b, <3>1
    <3>4. \A j \in 1 .. i - 1 : Alike(t.syms[j], u.syms[j])
      BY <1>2a, <3>1 DEF Alike
    <3>5. h[3 + nb + i] \in 0 .. n + 1
      BY <1>1, <3>2, <3>3
    <3> QED BY <3>1, <3>2, <3>3, <3>4, <3>5, LinkKept
  <2> QED BY <2>1, <2>2
<1>5. u.hash = h /\ u.n = n + 1
  BY <1>2a, <1>2c
<1>6. /\ NbBuckets(h) \in Nat \ {0} /\ Len(h) = 3 + NbBuckets(h) + (n + 1)
      /\ \A b \in 0 .. nb - 1 : Link(u.syms, nb, b, n + 1, h[3 + b])
  BY <1>1, <1>2, <1>2a, <1>3
<1>7. \A i \in 1 .. n + 1 : /\ h[ChainPos(h, i)] \in 0 .. n + 1
                            /\ Nonlocal(u.syms[i]) =>
                                 Link(u.syms, nb, Bucket(nb, u.syms[i]), i - 1, h[ChainPos(h, i)])
  BY <1>2, <1>4
<1> QED BY <1>2, <1>5, <1>6, <1>7, Zenon DEF Chained

LEMMA Written ==
  ASSUME NEW p \in Seq(Nat), NEW i \in 1 .. Len(p), NEW y \in Nat
  PROVE  LET q == [p EXCEPT ![i] = y]
         IN /\ q \in Seq(Nat) /\ Len(q) = Len(p) /\ q[i] = y
            /\ \A k \in 1 .. Len(p) : k # i => q[k] = p[k]
OBVIOUS

(* What put_elf_sym() does to the array of the hash table.                 *)
LEMMA UnlinkedFacts ==
  ASSUME NEW h \in Seq(Nat), Len(h) >= 3
  PROVE  LET g == Unlinked(h)
         IN /\ g \in Seq(Nat) /\ Len(g) = Len(h) + 1 /\ g[1] = h[1] /\ g[Len(h) + 1] = 0
            /\ \A k \in 3 .. Len(h) : g[k] = h[k]
<1> DEFINE a == Append(h, 0)
           z == h[2] + 1
           g == [a EXCEPT ![2] = z]
<1>1. a \in Seq(Nat) /\ Len(a) = Len(h) + 1 /\ a[Len(h) + 1] = 0
      /\ \A k \in 1 .. Len(h) : a[k] = h[k]
  OBVIOUS
<1>2. Len(h) \in Nat /\ 2 \in 1 .. Len(a) /\ z \in Nat
  BY <1>1
<1> HIDE DEF a, z
<1>3. g \in Seq(Nat) /\ Len(g) = Len(a) /\ \A k \in 1 .. Len(a) : k # 2 => g[k] = a[k]
  BY <1>1, <1>2, Written
<1> HIDE DEF g
<1>4. /\ 1 \in 1 .. Len(a) /\ Len(h) + 1 \in 1 .. Len(a) /\ Len(h) + 1 # 2
      /\ \A k \in 3 .. Len(h) : k \in 1 .. Len(h) /\ k \in 1 .. Len(a) /\ k # 2
      /\ 1 \in 1 .. Len(h)
  BY <1>1, <1>2
<1>5. /\ g \in Seq(Nat) /\ Len(g) = Len(h) + 1 /\ g[1] = h[1] /\ g[Len(h) + 1] = 0
      /\ \A k \in 3 .. Len(h) : g[k] = h[k]
  BY <1>1, <1>3, <1>4
<1> QED BY <1>5 DEF Unlinked, g, z, a

IsLinked(h, at, y, g) ==
  /\ g \in Seq(Nat) /\ Len(g) = Len(h) + 1 /\ g[1] = h[1]
  /\ g[Len(h) + 1] = h[at] /\ g[at] = y
  /\ \A k \in 3 .. Len(h) : k # at => g[k] = h[k]

LEMMA LinkedFacts ==
  ASSUME NEW h \in Seq(Nat), NEW at \in 3 .. Len(h), NEW y \in Nat
  PROVE  IsLinked(h, at, y, Linked(h, at, y))
<1> DEFINE a == Append(h, h[at])
           z == h[2] + 1
           e == [a EXCEPT ![at] = y]
           g == [e EXCEPT ![2] = z]
<1>1. a \in Seq(Nat) /\ Len(a) = Len(h) + 1 /\ a[Len(h) + 1] = h[at]
      /\ \A k \in 1 .. Len(h) : a[k] = h[k]
  BY h[at] \in Nat
<1>2. Len(h) \in Nat /\ 2 \in 1 .. Len(a) /\ at \in 1 .. Len(a) /\ z \in Nat /\ at # 2
  BY <1>1
<1>0. Linked(h, at, y) = g
  BY DEF Linked
<1> HIDE DEF a, z
<1>3. e \in Seq(Nat) /\ Len(e) = Len(a) /\ e[at] = y
      /\ \A k \in 1 .. Len(a) : k # at => e[k] = a[k]
  <2>1. a \in Seq(Nat) /\ at \in 1 .. Len(a) /\ y \in Nat
    BY <1>1, <1>2
  <2> QED BY <2>1, Written
<1> HIDE DEF e
<1>4. g \in Seq(Nat) /\ Len(g) = Len(e) /\ \A k \in 1 .. Len(e) : k # 2 => g[k] = e[k]
  <2>1. e \in Seq(Nat) /\ 2 \in 1 .. Len(e) /\ z \in Nat
    BY <1>2, <1>3
  <2> QED BY <2>1, Written
<1> HIDE DEF g
<1>5. /\ 1 \in 1 .. Len(a) /\ Len(h) + 1 \in 1 .. Len(a) /\ Len(h) + 1 # at /\ Len(h) + 1 # 2
      /\ \A k \in 3 .. Len(h) : k \in 1 .. Len(h) /\ k \in 1 .. Len(a) /\ k # 2
      /\ 1 \in 1 .. Len(h) /\ 1 # at
  <2>1. Len(a) = Len(h) + 1 /\ at >= 3 /\ at <= Len(h)
    BY <1>1
  <2> HIDE DEF a
  <2>2. /\ 1 \in 1 .. Len(a) /\ Len(h) + 1 \in 1 .. Len(a)
        /\ Len(h) + 1 # at /\ Len(h) + 1 # 2
        /\ 1 \in 1 .. Len(h) /\ 1 # at
    BY <1>2, <2>1
  <2>3. ASSUME NEW k \in 3 .. Len(h)
        PROVE  k \in 1 .. Len(h) /\ k \in 1 .. Len(a) /\ k # 2
    BY <1>2, <2>1
  <2> QED BY <2>2, <2>3
<1>6. /\ g \in Seq(Nat) /\ Len(g) = Len(h) + 1 /\ g[1] = h[1]
      /\ g[Len(h) + 1] = h[at] /\ g[at] = y
      /\ \A k \in 3 .. Len(h) : k # at => g[k] = h[k]
  BY <1>1, <1>2, <1>3, <1>4, <1>5
<1> QED BY <1>0, <1>6 DEF IsLinked

(* u is t but for the hash table and the number of symbols in it.          *)
Rehashed(t, u) == \E h \in Seq(Nat), k \in Nat : u = [t EXCEPT !.hash = h, !.hashed = k]

(* The entry of a local symbol; it is in no chain.                         *)
LEMMA PutLocal ==
  ASSUME NEW t, Good(t), NEW s \in Symbol, ~Nonlocal(s)
  PROVE  Chained(Put(t, s)) /\ Rehashed(Write(t, s), Put(t, s))
<1> DEFINE w == Write(t, s)
           n == t.n
           nb == NbBuckets(t.hash)
           g == Unlinked(t.hash)
           u == [w EXCEPT !.hash = g]
<1>1. /\ t \in Tabs /\ n \in Nat /\ t.hash \in Seq(Nat) /\ nb \in Nat \ {0}
      /\ Len(t.hash) = 3 + nb + n /\ n <= Len(t.syms) /\ Chained(t)
  BY DEF Good, Tabs, Chained
<1>2. /\ w \in Tabs /\ w.n = n + 1 /\ w.hash = t.hash /\ w.syms[n + 1] = s
      /\ \A j \in 1 .. n : w.syms[j] = t.syms[j]
  <2>1. /\ Grown(t, w) /\ w.n = n + 1 /\ w.hash = t.hash
        /\ w.syms[w.n] = s /\ \A j \in 1 .. n : w.syms[j] = t.syms[j]
    BY <1>1, WriteFacts
  <2> HIDE DEF w
  <2> QED BY <2>1 DEF Grown
<1> HIDE DEF w
<1>3. Put(t, s) = u
  BY <1>2 DEF Put, w
<1> HIDE DEF nb
<1>4. /\ g \in Seq(Nat) /\ Len(g) = Len(t.hash) + 1 /\ g[1] = t.hash[1]
      /\ g[Len(t.hash) + 1] = 0
      /\ \A k \in 3 .. Len(t.hash) : g[k] = t.hash[k]
  <2>1. Len(t.hash) >= 3
    BY <1>1
  <2> QED BY <1>1, <2>1, UnlinkedFacts DEF g
<1> HIDE DEF g
<1>5. u \in Tabs /\ u.n = n + 1 /\ u.hash = g /\ u.syms = w.syms
  BY <1>2, <1>4 DEF Tabs
<1> HIDE DEF u
<1>6. ASSUME NEW b \in 0 .. nb - 1 PROVE Link(w.syms, nb, b, n + 1, g[3 + b])
  <2>1. 3 + b \in 3 .. Len(t.hash)
    BY <1>1
  <2>2. Link(t.syms, nb, b, n, g[3 + b])
    BY <1>1, <1>4, <2>1 DEF Chained, nb
  <2>3. \A j \in 1 .. n : Alike(t.syms[j], w.syms[j])
    BY <1>2 DEF Alike
  <2> HIDE DEF n
  <2>4. Link(w.syms, nb, b, n, g[3 + b])
    BY <1>1, <2>2, <2>3, LinkKept
  <2> QED BY <1>1, <1>2, <2>4, LinkOver
<1>7. \A i \in 1 .. n : g[ChainPos(t.hash, i)] = t.hash[ChainPos(t.hash, i)]
  <2>1. \A i \in 1 .. n : 3 + nb + i \in 3 .. Len(t.hash)
    BY <1>1
  <2> QED BY <1>4, <2>1 DEF ChainPos, nb
<1>8. NextChain(t, u, s, 0)
  <2>1. 0 \in 0 .. n
    BY <1>1
  <2> QED BY <1>2, <1>4, <1>5, <1>6, <1>7, <2>1 DEF NextChain, nb
<1>9. Chained(u)
  BY <1>8, ChainedNext
<1>10. u = [w EXCEPT !.hash = g, !.hashed = w.hashed] /\ w.hashed \in Nat
  BY <1>2 DEF u, Tabs
<1>11. Rehashed(w, u)
  BY <1>4, <1>10 DEF Rehashed
<1> QED BY <1>3, <1>9, <1>11 DEF w

(* The entry of a global or weak symbol heads the list of its bucket.      *)
LEMMA PutLinked ==
  ASSUME NEW t, Good(t), NEW s \in Symbol, Nonlocal(s)
  PROVE  Chained(Put(t, s)) /\ Rehashed(Write(t, s), Put(t, s))
<1> DEFINE w == Write(t, s)
           n == t.n
           nb == NbBuckets(t.hash)
           b == Bucket(nb, s)
           at == BucketPos(t.hash, s.name)
           m == n + 1
           g == Linked(t.hash, at, m)
           k == t.hashed + 1
           u == [w EXCEPT !.hashed = k, !.hash = g]
<1>1. /\ t \in Tabs /\ n \in Nat /\ t.hash \in Seq(Nat) /\ nb \in Nat \ {0}
      /\ Len(t.hash) = 3 + nb + n /\ n <= Len(t.syms) /\ Chained(t) /\ k \in Nat
  BY DEF Good, Tabs, Chained
<1>2. /\ w \in Tabs /\ w.n = n + 1 /\ w.hash = t.hash /\ w.syms[n + 1] = s
      /\ \A j \in 1 .. n : w.syms[j] = t.syms[j]
      /\ w.n <= Len(w.syms) /\ w.hashed = t.hashed
  <2>1. /\ Grown(t, w) /\ w.n = n + 1 /\ w.hash = t.hash /\ w.hashed = t.hashed
        /\ w.syms[w.n] = s /\ \A j \in 1 .. n : w.syms[j] = t.syms[j]
    BY <1>1, WriteFacts
  <2> HIDE DEF w
  <2> QED BY <2>1 DEF Grown
<1>3. b \in 0 .. nb - 1 /\ at = 3 + b
  BY <1>1, BucketType DEF Bucket, BucketPos
<1>4. at \in 3 .. Len(t.hash)
  <2> HIDE DEF b, at, nb, n
  <2> QED BY <1>1, <1>3
<1> HIDE DEF w
<1>5. Put(t, s) = IF k > 2 * nb THEN Rebuild(u, 2 * nb) ELSE u
  <2>1. u.hashed = k
    BY <1>2 DEF Tabs
  <2> QED BY <1>2, <2>1 DEF Put, w
<1> HIDE DEF nb, b, at, k
<1>6. /\ g \in Seq(Nat) /\ Len(g) = Len(t.hash) + 1 /\ g[1] = t.hash[1]
      /\ g[Len(t.hash) + 1] = t.hash[at] /\ g[at] = m
      /\ \A i \in 3 .. Len(t.hash) : i # at => g[i] = t.hash[i]
  <2>1. m \in Nat
    BY <1>1
  <2> HIDE DEF m
  <2>2. IsLinked(t.hash, at, m, g)
    BY <1>1, <1>4, <2>1, LinkedFacts, Zenon
  <2> HIDE DEF g
  <2> QED BY <2>2 DEF IsLinked
<1> HIDE DEF g
<1>7. u \in Tabs /\ u.n = n + 1 /\ u.hash = g /\ u.syms = w.syms
  BY <1>1, <1>2, <1>6 DEF Tabs
<1>8. \A a \in 0 .. nb - 1 : Link(t.syms, nb, a, n, t.hash[3 + a])
  BY <1>1 DEF Chained, nb
<1>9. \A a \in 0 .. nb - 1 : Link(w.syms, nb, a, n, t.hash[3 + a])
  <2>1. \A j \in 1 .. n : Alike(t.syms[j], w.syms[j])
    BY <1>2 DEF Alike
  <2> TAKE a \in 0 .. nb - 1
  <2> HIDE DEF n
  <2> QED BY <1>1, <1>8, <2>1, LinkKept
<1>10. ASSUME NEW a \in 0 .. nb - 1 PROVE Link(w.syms, nb, a, n + 1, g[3 + a])
  <2>1. CASE a = b
    <3>1. Link(w.syms, nb, b, n + 1, n + 1)
      BY <1>1, <1>2, LinkNew DEF b
    <3> QED BY <1>3, <1>6, <2>1, <3>1
  <2>2. CASE a # b
    <3>1. 3 + a \in 3 .. Len(t.hash) /\ 3 + a # at
      BY <1>1, <1>3, <2>2
    <3>2. g[3 + a] = t.hash[3 + a]
      BY <1>6, <3>1
    <3>3. Bucket(nb, w.syms[n + 1]) # a
      BY <1>2, <2>2 DEF b
    <3> QED BY <1>1, <1>9, <3>2, <3>3, LinkOver
  <2> QED BY <2>1, <2>2
<1>11. \A i \in 1 .. n : g[ChainPos(t.hash, i)] = t.hash[ChainPos(t.hash, i)]
  <2>1. \A i \in 1 .. n : 3 + nb + i \in 3 .. Len(t.hash) /\ 3 + nb + i # at
    BY <1>1, <1>3
  <2> QED BY <1>6, <2>1 DEF ChainPos, nb
<1>12. Link(w.syms, nb, b, n, t.hash[at])
  BY <1>3, <1>9
<1> HIDE DEF u
<1>13. NextChain(t, u, s, t.hash[at])
  <2>1. t.hash[at] \in 0 .. n
    BY <1>12 DEF Link
  <2> QED BY <1>2, <1>6, <1>7, <1>10, <1>11, <1>12, <2>1 DEF NextChain, nb, b
<1>14. Chained(u)
  BY <1>13, ChainedNext
<1>15. PICK h \in Seq(Nat) : Rebuild(u, 2 * nb) = [u EXCEPT !.hash = h]
  <2>1. 2 * nb \in Nat \ {0} /\ u.n <= Len(u.syms)
    BY <1>1, <1>2, <1>7
  <2> QED BY <1>7, <2>1, RebuildFacts
<1>16. Chained(Rebuild(u, 2 * nb))
  <2>1. 2 * nb \in Nat \ {0} /\ u.n <= Len(u.syms)
    BY <1>1, <1>2, <1>7
  <2> QED BY <1>7, <2>1, RebuildFacts
<1>17. [u EXCEPT !.hash = h] = [w EXCEPT !.hash = h, !.hashed = k]
  BY <1>2 DEF u, Tabs
<1>18. u = [w EXCEPT !.hash = g, !.hashed = k]
  BY <1>2 DEF u, Tabs
<1>19. CASE k > 2 * nb
  <2>1. Put(t, s) = [w EXCEPT !.hash = h, !.hashed = k]
    BY <1>5, <1>15, <1>17, <1>19
  <2>2. Chained(Put(t, s))
    BY <1>5, <1>16, <1>19
  <2> QED BY <1>1, <2>1, <2>2 DEF w, Rehashed
<1>20. CASE ~(k > 2 * nb)
  <2>1. Put(t, s) = u
    BY <1>5, <1>20
  <2>2. Put(t, s) = [w EXCEPT !.hash = g, !.hashed = k]
    BY <1>18, <2>1
  <2> QED BY <1>1, <1>6, <1>14, <2>1, <2>2 DEF w, Rehashed
<1> QED BY <1>19, <1>20

(* u is t with one entry more, s.                                          *)
Enlarged(t, u, s) ==
  /\ Grown(t, u) /\ u.n = t.n + 1 /\ u.ix = t.n + 1 /\ u.err = t.err
  /\ u.syms[t.n + 1] = s
  /\ \A j \in 1 .. t.n : u.syms[j] = t.syms[j]

(* put_elf_sym() adds the entry, and the hash table knows of it.           *)
LEMMA PutFacts ==
  ASSUME NEW t, Good(t), NEW s \in Symbol
  PROVE  Enlarged(t, Put(t, s), s) /\ Chained(Put(t, s))
<1> DEFINE w == Write(t, s)
           n == t.n
<1>1. t \in Tabs /\ n \in Nat /\ n <= Len(t.syms)
  BY DEF Good, Tabs
<1>2. /\ Grown(t, w) /\ w.n = n + 1 /\ w.ix = n + 1 /\ w.err = t.err
      /\ w.syms[n + 1] = s
      /\ \A j \in 1 .. n : w.syms[j] = t.syms[j]
  BY <1>1, WriteFacts
<1>3. w \in Tabs
  BY <1>2 DEF Grown
<1>4. Chained(Put(t, s))
  BY PutLocal, PutLinked
<1>5. PICK h \in Seq(Nat), k \in Nat : Put(t, s) = [w EXCEPT !.hash = h, !.hashed = k]
  <2>1. Rehashed(w, Put(t, s))
    BY PutLocal, PutLinked
  <2> QED BY <2>1 DEF Rehashed
<1> DEFINE u == Put(t, s)
<1> HIDE DEF w
<1>6. u \in Tabs /\ u.n = w.n /\ u.ix = w.ix /\ u.err = w.err /\ u.syms = w.syms
  BY <1>3, <1>5 DEF Tabs
<1>7. Grown(t, u)
  BY <1>2, <1>6 DEF Grown
<1> HIDE DEF u
<1>8. Enlarged(t, u, s)
  BY <1>2, <1>6, <1>7 DEF Enlarged
<1> QED BY <1>4, <1>8 DEF u

(* A new name, a name of PLT entries, or a defined local symbol.           *)
Fresh(t, s) ==
  /\ Nonlocal(s) /\ s.name \in Unique =>
       \A j \in 1 .. t.n : Nonlocal(t.syms[j]) => t.syms[j].name # s.name
  /\ Nonlocal(s) \/ ~Undefined(s)

LEMMA PutKeeps ==
  ASSUME NEW t, Good(t), NEW s \in Symbol, Fresh(t, s)
  PROVE  Good(Put(t, s)) /\ Enlarged(t, Put(t, s), s)
<1> DEFINE u == Put(t, s)
           n == t.n
<1>1. Enlarged(t, u, s) /\ Chained(u)
  BY PutFacts
<1> HIDE DEF u
<1>2. /\ n \in Nat /\ u \in Tabs /\ u.n = n + 1 /\ u.n <= Len(u.syms) /\ u.syms[n + 1] = s
      /\ \A j \in 1 .. n : u.syms[j] = t.syms[j]
  BY <1>1 DEF Enlarged, Grown, Good, Tabs
<1>3. \A j \in 1 .. u.n : j = n + 1 \/ j \in 1 .. n
  BY <1>2
<1>4. Once(u)
  <2> SUFFICES ASSUME NEW i \in 1 .. u.n, NEW j \in 1 .. u.n,
                      Nonlocal(u.syms[i]), Nonlocal(u.syms[j]), u.syms[i].name \in Unique,
                      u.syms[i].name = u.syms[j].name
               PROVE  i = j
    BY DEF Once
  <2> QED BY <1>2, <1>3 DEF Good, Once, Fresh
<1>5. StaticsDefined(u)
  <2> SUFFICES ASSUME NEW j \in 1 .. u.n
               PROVE  Nonlocal(u.syms[j]) \/ ~Undefined(u.syms[j])
    BY DEF StaticsDefined
  <2> QED BY <1>2, <1>3 DEF Good, StaticsDefined, Fresh
<1> QED BY <1>1, <1>2, <1>4, <1>5 DEF Good, u

(* Entries that change and keep name and binding stay in their chains.     *)
LEMMA Retouched ==
  ASSUME NEW t, Good(t), NEW u \in Tabs, u.n = t.n, u.hash = t.hash, u.n <= Len(u.syms),
         \A j \in 1 .. t.n : Alike(t.syms[j], u.syms[j]), StaticsDefined(u)
  PROVE  Good(u)
<1> DEFINE n == t.n
           nb == NbBuckets(t.hash)
<1>1. t \in Tabs /\ n \in Nat /\ Chained(t) /\ Once(t)
  BY DEF Good, Tabs
<1>2. \A b \in 0 .. nb - 1 : Link(u.syms, nb, b, n, t.hash[3 + b])
  <2>1. \A b \in 0 .. nb - 1 : Link(t.syms, nb, b, n, t.hash[3 + b])
    BY <1>1 DEF Chained
  <2> HIDE DEF n, nb
  <2>2. \A j \in 1 .. n : Alike(t.syms[j], u.syms[j])
    BY DEF n
  <2> QED BY <1>1, <2>1, <2>2, LinkKept
<1>3. ASSUME NEW i \in 1 .. n
      PROVE  /\ t.hash[ChainPos(t.hash, i)] \in 0 .. n
             /\ Nonlocal(u.syms[i]) =>
                  Link(u.syms, nb, Bucket(nb, u.syms[i]), i - 1, t.hash[ChainPos(t.hash, i)])
  <2> DEFINE x == t.hash[ChainPos(t.hash, i)]
  <2>1. x \in 0 .. n /\ (Nonlocal(t.syms[i]) =>
                            Link(t.syms, nb, Bucket(nb, t.syms[i]), i - 1, x))
    BY <1>1 DEF Chained
  <2>2. Alike(t.syms[i], u.syms[i])
    OBVIOUS
  <2>3. Bucket(nb, t.syms[i]) = Bucket(nb, u.syms[i])
        /\ (Nonlocal(t.syms[i]) <=> Nonlocal(u.syms[i]))
    BY <2>2 DEF Alike, Bucket
  <2>4. i - 1 \in Nat /\ \A j \in 1 .. i - 1 : j \in 1 .. n
    BY <1>1
  <2>5. \A j \in 1 .. i - 1 : Alike(t.syms[j], u.syms[j])
    BY <2>4
  <2> HIDE DEF x, nb
  <2> QED BY <2>1, <2>3, <2>4, <2>5, LinkKept DEF x
<1>4. Chained(u)
  <2> HIDE DEF nb
  <2>1. /\ nb \in Nat \ {0} /\ Len(t.hash) = 3 + nb + n /\ NbBuckets(u.hash) = nb
    BY <1>1 DEF Chained, nb
  <2> QED BY <1>2, <1>3, <2>1 DEF Chained
<1>5. Once(u)
  <2> SUFFICES ASSUME NEW i \in 1 .. n, NEW j \in 1 .. n,
                      Nonlocal(u.syms[i]), Nonlocal(u.syms[j]), u.syms[i].name \in Unique,
                      u.syms[i].name = u.syms[j].name
               PROVE  i = j
    BY DEF Once
  <2> QED BY <1>1 DEF Once, Alike
<1> QED BY <1>4, <1>5 DEF Good

(* s is in the table u at u.ix.                                            *)
Offered(t, u, s) ==
  /\ Good(u) /\ Grown(t, u) /\ u.ix \in 1 .. u.n
  /\ u.n = t.n + 1 => Alike(u.syms[u.n], s)

(* set_elf_sym() keeps one entry of each name.                             *)
LEMMA SetFacts ==
  ASSUME NEW t, Good(t), NEW s \in Symbol, Nonlocal(s) \/ ~Undefined(s)
  PROVE  Offered(t, Set(t, s), s)
<1> DEFINE ix == IF Nonlocal(s) THEN Find(t, s.name) ELSE 0
           old == t.syms[ix]
           vis == IF Undefined(old) THEN s.vis ELSE Merged(old.vis, s.vis)
           n == t.n
<1>1. t \in Tabs /\ n \in Nat /\ n <= Len(t.syms) /\ t.syms \in Seq(Symbol) /\ s.name \in AllNames
      /\ StaticsDefined(t)
  BY DEF Good, Tabs, Symbol
<1>2. /\ ix \in 0 .. n
      /\ ix # 0 => Nonlocal(s) /\ Nonlocal(old) /\ old.name = s.name
      /\ ix = 0 => Fresh(t, s)
  <2>1. CASE Nonlocal(s)
    <3>1. ix = Find(t, s.name)
      BY <2>1
    <3>2. /\ ix \in 0 .. n
          /\ ix # 0 => Nonlocal(old) /\ old.name = s.name
          /\ \A j \in ix + 1 .. n : Nonlocal(t.syms[j]) => t.syms[j].name # s.name
      BY <1>1, <3>1, FindFacts
    <3> HIDE DEF ix, old
    <3>3. ix = 0 => \A j \in 1 .. n : Nonlocal(t.syms[j]) => t.syms[j].name # s.name
      BY <3>2
    <3> QED BY <2>1, <3>2, <3>3 DEF Fresh
  <2>2. CASE ~Nonlocal(s)
    BY <1>1, <2>2 DEF Fresh
  <2> QED BY <2>1, <2>2
<1>3. CASE ix = 0
  <2>1. Set(t, s) = Put(t, s)
    BY <1>3 DEF Set
  <2> DEFINE u == Put(t, s)
  <2>2. Good(u) /\ Enlarged(t, u, s)
    BY <1>2, <1>3, PutKeeps
  <2> HIDE DEF u, ix
  <2>3. u.ix \in 1 .. u.n
    BY <1>1, <2>2 DEF Enlarged
  <2> QED BY <2>1, <2>2, <2>3 DEF Offered, Enlarged, Alike, u
<1>4. CASE ix # 0 /\ old = s
  <2> DEFINE u == [t EXCEPT !.ix = ix]
  <2>1. Set(t, s) = u
    BY <1>4 DEF Set
  <2> HIDE DEF ix
  <2>2. ix \in Nat /\ ix \in 1 .. n
    BY <1>1, <1>2, <1>4
  <2>3. /\ u \in Tabs /\ u.n = n /\ u.hash = t.hash /\ u.syms = t.syms /\ u.ix = ix
    BY <1>1, <2>2 DEF Tabs
  <2> HIDE DEF u
  <2>4. StaticsDefined(u)
    BY <1>1, <2>3 DEF StaticsDefined
  <2>5. Good(u)
    BY <1>1, <2>3, <2>4, Retouched DEF Alike
  <2>6. Grown(t, u)
    BY <1>1, <2>3 DEF Grown, Alike
  <2>7. u.n # t.n + 1
    BY <1>1, <2>3
  <2> QED BY <2>1, <2>2, <2>3, <2>5, <2>6, <2>7 DEF Offered
<1>5. CASE ix # 0 /\ old # s
  <2> DEFINE r == IF Overrides(s, old) THEN [s EXCEPT !.vis = vis] ELSE [old EXCEPT !.vis = vis]
             err == t.err \/ DefinedTwice(s, old)
             syms == [t.syms EXCEPT ![ix] = r]
             u == [t EXCEPT !.ix = ix, !.err = err, !.syms = syms]
  <2>1. Set(t, s) = u
    BY <1>5 DEF Set
  <2> HIDE DEF ix
  <2>2. ix \in Nat /\ ix \in 1 .. n /\ ix \in 1 .. Len(t.syms)
    BY <1>1, <1>2, <1>5
  <2>3. old \in Symbol
    BY <1>1, <2>2
  <2> HIDE DEF old
  <2>4. vis \in Visibilities
    BY <2>3 DEF Merged, Visibilities, Symbol
  <2> HIDE DEF vis
  <2>5. r \in Symbol /\ Nonlocal(r) /\ r.name = old.name
    BY <1>2, <1>5, <2>3, <2>4 DEF Symbol, Nonlocal
  <2> HIDE DEF r
  <2>6. /\ syms \in Seq(Symbol) /\ Len(syms) = Len(t.syms) /\ syms[ix] = r
        /\ \A j \in 1 .. Len(t.syms) : j # ix => syms[j] = t.syms[j]
    BY <1>1, <2>2, <2>5
  <2> HIDE DEF syms
  <2>7. err \in BOOLEAN
    BY DEF err
  <2> HIDE DEF err
  <2>8. /\ u \in Tabs /\ u.n = n /\ u.hash = t.hash /\ u.syms = syms /\ u.ix = ix
    BY <1>1, <2>2, <2>6, <2>7 DEF Tabs
  <2> HIDE DEF u
  <2>9. \A j \in 1 .. n : Alike(t.syms[j], syms[j])
    <3> TAKE j \in 1 .. n
    <3>1. j \in 1 .. Len(t.syms)
      BY <1>1
    <3>2. CASE j = ix
      BY <1>2, <1>5, <2>5, <2>6, <3>2 DEF Alike, old
    <3>3. CASE j # ix
      BY <2>6, <3>1, <3>3 DEF Alike
    <3> QED BY <3>2, <3>3
  <2>10. StaticsDefined(u)
    <3> SUFFICES ASSUME NEW j \in 1 .. n PROVE Nonlocal(syms[j]) \/ ~Undefined(syms[j])
      BY <2>8 DEF StaticsDefined
    <3>1. j \in 1 .. Len(t.syms)
      BY <1>1
    <3> QED BY <1>1, <2>5, <2>6, <3>1 DEF StaticsDefined
  <2>11. Good(u)
    BY <1>1, <2>6, <2>8, <2>9, <2>10, Retouched
  <2>12. Grown(t, u)
    <3>1. u.n <= Len(u.syms) /\ (u.n <= Len(t.syms)) /\ Len(u.syms) = Len(t.syms)
      BY <1>1, <2>6, <2>8
    <3>2. \A j \in u.n + 1 .. Len(t.syms) : j \in 1 .. Len(t.syms) /\ j # ix
      BY <1>1, <2>2, <2>8
    <3>3. \A j \in u.n + 1 .. Len(t.syms) : u.syms[j] = t.syms[j]
      BY <2>6, <2>8, <3>2
    <3> QED BY <2>8, <2>9, <3>1, <3>3 DEF Grown
  <2>13. u.n # t.n + 1
    BY <1>1, <2>8
  <2> QED BY <2>1, <2>2, <2>8, <2>11, <2>12, <2>13 DEF Offered
<1> QED BY <1>3, <1>4, <1>5

-----------------------------------------------------------------------------
(* What was offered for a name.                                            *)

LEMMA MinFacts ==
  ASSUME NEW T \in SUBSET Nat, T # {}
  PROVE  Min(T) \in T /\ \A y \in T : Min(T) <= y
<1>1. \E x \in T : \A y \in T : x <= y
  BY LeastNatural
<1> QED BY <1>1 DEF Min

LEMMA OfferedAt ==
  ASSUME NEW o \in Seq(Symbol), NEW n
  PROVE  /\ WithContents(o, n) \subseteq Globals(o, n)
         /\ Globals(o, n) \subseteq Definitions(o, n)
         /\ Definitions(o, n) \subseteq Offers(o, n)
         /\ Offers(o, n) \subseteq 1 .. Len(o)
         /\ \A k \in Offers(o, n) : o[k] \in Symbol
<1>1. DOMAIN o = 1 .. Len(o) /\ \A k \in 1 .. Len(o) : o[k] \in Symbol
  <2> HIDE DEF Symbol
  <2> QED OBVIOUS
<1> QED BY <1>1 DEF WithContents, Globals, Definitions, Offers

(* The symbol that counts is one of the definitions, and a global one if   *)
(* there is any.                                                           *)
LEMMA WinningFacts ==
  ASSUME NEW o \in Seq(Symbol), NEW n, Definitions(o, n) # {}
  PROVE  /\ Winning(o, n) \in Definitions(o, n)
         /\ Winning(o, n) \in 1 .. Len(o)
         /\ Globals(o, n) # {} => Winning(o, n) \in Globals(o, n)
         /\ Globals(o, n) = {} => o[Winning(o, n)].bind = "weak"
<1> DEFINE D == Definitions(o, n)
           G == Globals(o, n)
           C == WithContents(o, n)
           w == Winning(o, n)
<1>1. /\ C \subseteq G /\ G \subseteq D /\ D \subseteq Offers(o, n) /\ Offers(o, n) \subseteq 1 .. Len(o)
      /\ D \in SUBSET Nat /\ G \in SUBSET Nat /\ C \in SUBSET Nat
  BY OfferedAt
<1>2. w = IF G = {} THEN Min(D) ELSE IF Tentative(o[Min(G)]) /\ C # {} THEN Min(C) ELSE Min(G)
  BY DEF Winning
<1> HIDE DEF D, G, C, w
<1>3. D # {} => Min(D) \in D
  BY <1>1, MinFacts
<1>4. G # {} => Min(G) \in G
  BY <1>1, MinFacts
<1>5. C # {} => Min(C) \in C
  BY <1>1, MinFacts
<1>6. D # {}
  BY DEF D
<1>7. w \in D /\ (G # {} => w \in G)
  BY <1>1, <1>2, <1>3, <1>4, <1>5, <1>6
<1>8. ASSUME G = {} PROVE o[w].bind = "weak"
  <2>1. w \in D /\ w \notin G
    BY <1>7, <1>8
  <2>2. o[w] \in Symbol /\ Nonlocal(o[w]) /\ o[w].bind # "global"
    BY <1>1, <2>1, OfferedAt DEF D, G, Globals, Definitions, Offers
  <2> QED BY <2>2 DEF Symbol, Bindings, Nonlocal
<1> QED BY <1>1, <1>7, <1>8 DEF D, G, w

(* One more symbol is offered: it comes last.                              *)
LEMMA OneMore ==
  ASSUME NEW o \in Seq(Symbol), NEW s \in Symbol
  PROVE  /\ Append(o, s) \in Seq(Symbol) /\ Len(Append(o, s)) = Len(o) + 1 /\ Len(o) \in Nat
         /\ Append(o, s)[Len(o) + 1] = s
         /\ \A k \in 1 .. Len(o) : Append(o, s)[k] = o[k]
<1> HIDE DEF Symbol
<1> QED OBVIOUS

Added(o, s, n, yes) == IF Nonlocal(s) /\ s.name = n /\ yes THEN {Len(o) + 1} ELSE {}
Defines(s) == ~Undefined(s)
DefinesGlobal(s) == ~Undefined(s) /\ s.bind = "global"

LEMMA OfferedMore ==
  ASSUME NEW o \in Seq(Symbol), NEW s \in Symbol, NEW n
  PROVE  LET p == Append(o, s)
         IN /\ Offers(p, n) = Offers(o, n) \cup Added(o, s, n, TRUE)
            /\ Definitions(p, n) = Definitions(o, n) \cup Added(o, s, n, Defines(s))
            /\ Globals(p, n) = Globals(o, n) \cup Added(o, s, n, DefinesGlobal(s))
            /\ WithContents(p, n) =
                 WithContents(o, n) \cup Added(o, s, n, DefinesGlobal(s) /\ Contents(s))
<1> DEFINE p == Append(o, s)
           k == Len(o) + 1
<1>1. /\ p \in Seq(Symbol) /\ Len(p) = k /\ Len(o) \in Nat /\ p[k] = s
      /\ \A j \in 1 .. Len(o) : p[j] = o[j]
  BY OneMore
<1> HIDE DEF p
<1>2. DOMAIN p = (1 .. Len(o)) \cup {k} /\ DOMAIN o = 1 .. Len(o)
  <2> HIDE DEF Symbol
  <2> QED BY <1>1
<1> HIDE DEF k
<1>3. Offers(p, n) = Offers(o, n) \cup Added(o, s, n, TRUE)
  BY <1>1, <1>2 DEF Offers, Added, k
<1>4. \A j \in Offers(o, n) : p[j] = o[j]
  BY <1>1, OfferedAt
<1>5. \A j \in Added(o, s, n, TRUE) : p[j] = s
  BY <1>1 DEF Added, k
<1>6. Definitions(p, n) = Definitions(o, n) \cup Added(o, s, n, Defines(s))
  BY <1>3, <1>4, <1>5 DEF Definitions, Added, Defines
<1>7. \A j \in Definitions(o, n) : p[j] = o[j]
  BY <1>4, OfferedAt
<1>8. Globals(p, n) = Globals(o, n) \cup Added(o, s, n, DefinesGlobal(s))
  BY <1>5, <1>6, <1>7 DEF Globals, Added, DefinesGlobal, Defines
<1>9. \A j \in Globals(o, n) : p[j] = o[j]
  BY <1>7, OfferedAt
<1>10. WithContents(p, n) = WithContents(o, n) \cup Added(o, s, n, DefinesGlobal(s) /\ Contents(s))
  BY <1>5, <1>8, <1>9 DEF WithContents, Added
<1> QED BY <1>3, <1>6, <1>8, <1>10 DEF p

(* A later place does not change the least one.                            *)
LEMMA LeastStays ==
  ASSUME NEW T \in SUBSET Nat, NEW k \in Nat, \A x \in T : x < k
  PROVE  /\ T # {} => Min(T \cup {k}) = Min(T)
         /\ Min({k}) = k
<1>1. Min({k}) = k
  BY MinFacts
<1>2. ASSUME T # {} PROVE Min(T \cup {k}) = Min(T)
  <2> DEFINE x == Min(T)
             U == T \cup {k}
             y == Min(U)
  <2>1. x \in T /\ \A z \in T : x <= z
    BY <1>2, MinFacts
  <2>2. y \in U /\ \A z \in U : y <= z
    <3>1. U \in SUBSET Nat /\ U # {}
      BY <1>2
    <3> HIDE DEF U
    <3> QED BY <3>1, MinFacts
  <2> HIDE DEF x, y
  <2>3. y <= x /\ x < k /\ x \in Nat /\ y \in Nat
    BY <2>1, <2>2
  <2>4. y \in T
    BY <2>2, <2>3
  <2>5. x <= y
    BY <2>1, <2>4
  <2> QED BY <2>3, <2>5 DEF x, y
<1> QED BY <1>1, <1>2

(* Which symbol counts after one more is what set_elf_sym() decides.       *)
LEMMA WinningMore ==
  ASSUME NEW o \in Seq(Symbol), NEW s \in Symbol, Nonlocal(s)
  PROVE  LET n == s.name
             p == Append(o, s)
             k == Len(o) + 1
             w == Winning(o, n)
         IN /\ Definitions(o, n) = {} /\ ~Undefined(s) => Winning(p, n) = k
            /\ Definitions(o, n) # {} =>
                 Winning(p, n) = IF Overrides(s, o[w]) THEN k ELSE w
<1> DEFINE n == s.name
           p == Append(o, s)
           k == Len(o) + 1
           w == Winning(o, n)
           D == Definitions(o, n)
           G == Globals(o, n)
           C == WithContents(o, n)
           D2 == Definitions(p, n)
           G2 == Globals(p, n)
           C2 == WithContents(p, n)
<1>1. /\ Len(o) \in Nat /\ k \in Nat /\ p[k] = s /\ \A j \in 1 .. Len(o) : p[j] = o[j]
  BY OneMore
<1>2. /\ C \subseteq G /\ G \subseteq D /\ D \subseteq 1 .. Len(o)
      /\ D \in SUBSET Nat /\ G \in SUBSET Nat /\ C \in SUBSET Nat
  BY OfferedAt
<1>3. /\ \A x \in D \cup G \cup C : x < k
      /\ \A x \in D : p[x] = o[x]
  BY <1>1, <1>2
<1>4. /\ D2 = IF Undefined(s) THEN D ELSE D \cup {k}
      /\ G2 = IF DefinesGlobal(s) THEN G \cup {k} ELSE G
      /\ C2 = IF DefinesGlobal(s) /\ Contents(s) THEN C \cup {k} ELSE C
  <2>1. /\ D2 = D \cup Added(o, s, n, Defines(s))
        /\ G2 = G \cup Added(o, s, n, DefinesGlobal(s))
        /\ C2 = C \cup Added(o, s, n, DefinesGlobal(s) /\ Contents(s))
    BY OfferedMore
  <2>2. \A yes : Added(o, s, n, yes) = IF yes THEN {k} ELSE {}
    BY DEF Added
  <2> HIDE DEF D, G, C, D2, G2, C2, n, k
  <2> QED BY <2>1, <2>2 DEF Defines
<1>5. w = IF G = {} THEN Min(D) ELSE IF Tentative(o[Min(G)]) /\ C # {} THEN Min(C) ELSE Min(G)
  BY DEF Winning
<1>6. Winning(p, n) =
        IF G2 = {} THEN Min(D2)
        ELSE IF Tentative(p[Min(G2)]) /\ C2 # {} THEN Min(C2) ELSE Min(G2)
  BY DEF Winning
<1>7. D # {} => /\ w \in D /\ (G # {} => w \in G)
                /\ (G = {} => o[w].bind = "weak")
  BY WinningFacts
<1>8. \A x \in G : o[x].bind = "global" /\ ~Undefined(o[x])
  BY DEF Globals, Definitions
<1>8a. \A x \in D : ~Undefined(o[x])
  BY DEF Definitions
<1>8b. \A x \in C : Contents(o[x])
  BY DEF WithContents
<1>8c. s.bind \in {"weak", "global"}
  BY DEF Symbol, Bindings, Nonlocal
<1> HIDE DEF n, p, k, w, D, G, C, D2, G2, C2
<1>9. /\ D # {} => Min(D) \in D /\ Min(D \cup {k}) = Min(D)
      /\ G # {} => Min(G) \in G /\ Min(G \cup {k}) = Min(G)
      /\ C # {} => Min(C) \in C /\ Min(C \cup {k}) = Min(C)
      /\ Min({k}) = k
  BY <1>1, <1>2, <1>3, LeastStays, MinFacts
<1>10. ASSUME D = {}, ~Undefined(s) PROVE Winning(p, n) = k
  <2>1. G = {} /\ C = {} /\ D2 = {k} /\ G2 \in {{}, {k}} /\ C2 \in {{}, {k}}
    BY <1>2, <1>4, <1>10
  <2> QED BY <1>6, <1>9, <2>1
<1>11. ASSUME D # {} PROVE Winning(p, n) = IF Overrides(s, o[w]) THEN k ELSE w
  <2>1. w \in D /\ ~Undefined(o[w])
    BY <1>7, <1>8a, <1>11
  <2>2. CASE Undefined(s)
    <3>1. D2 = D /\ G2 = G /\ C2 = C /\ ~Overrides(s, o[w])
      BY <1>4, <2>1, <2>2 DEF DefinesGlobal, Overrides
    <3>2. G # {} => p[Min(G)] = o[Min(G)]
      BY <1>2, <1>3, <1>9
    <3> QED BY <1>5, <1>6, <3>1, <3>2
  <2>3. CASE ~Undefined(s) /\ s.bind = "weak"
    <3>1. D2 = D \cup {k} /\ G2 = G /\ C2 = C /\ ~Overrides(s, o[w])
      BY <1>4, <2>1, <2>3 DEF DefinesGlobal, Overrides
    <3>2. G # {} => p[Min(G)] = o[Min(G)]
      BY <1>2, <1>3, <1>9
    <3> QED BY <1>5, <1>6, <1>9, <1>11, <3>1, <3>2
  <2>4. CASE ~Undefined(s) /\ s.bind = "global" /\ G = {}
    <3>1. G2 = {k} /\ C = {} /\ C2 \in {{}, {k}}
      BY <1>2, <1>4, <2>4 DEF DefinesGlobal
    <3>2. Overrides(s, o[w])
      BY <1>7, <1>11, <2>1, <2>4 DEF Overrides
    <3> QED BY <1>6, <1>9, <3>1, <3>2
  <2>5. CASE ~Undefined(s) /\ s.bind = "global" /\ G # {}
    <3>1. /\ G2 = G \cup {k} /\ G2 # {} /\ Min(G2) = Min(G) /\ p[Min(G)] = o[Min(G)]
          /\ C2 = IF Contents(s) THEN C \cup {k} ELSE C
      BY <1>2, <1>3, <1>4, <1>9, <2>5 DEF DefinesGlobal
    <3>2. o[w].bind = "global"
      BY <1>7, <1>8, <1>11, <2>5
    <3>3. Overrides(s, o[w]) <=> Tentative(o[w]) /\ Contents(s)
      BY <2>1, <2>5, <3>2 DEF Overrides, Contents
    <3>4. CASE ~Tentative(o[Min(G)])
      <4>1. w = Min(G) /\ Winning(p, n) = Min(G)
        BY <1>5, <1>6, <2>5, <3>1, <3>4
      <4> QED BY <3>3, <3>4, <4>1
    <3>5. CASE Tentative(o[Min(G)]) /\ C # {}
      <4>1. w = Min(C) /\ C2 # {} /\ Winning(p, n) = Min(C2) /\ Min(C2) = Min(C)
        BY <1>5, <1>6, <1>9, <2>5, <3>1, <3>5
      <4>2. ~Tentative(o[w])
        BY <1>8b, <1>9, <3>5, <4>1 DEF Contents
      <4> QED BY <3>3, <4>1, <4>2
    <3>6. CASE Tentative(o[Min(G)]) /\ C = {}
      <4>1. w = Min(G)
        BY <1>5, <2>5, <3>6
      <4>2. CASE Contents(s)
        <5>1. C2 = {k} /\ Winning(p, n) = k
          BY <1>6, <1>9, <3>1, <3>6, <4>2
        <5> QED BY <3>3, <3>6, <4>1, <4>2, <5>1
      <4>3. CASE ~Contents(s)
        <5>1. C2 = {} /\ Winning(p, n) = Min(G)
          BY <1>6, <3>1, <3>6, <4>3
        <5> QED BY <3>3, <4>1, <4>3, <5>1
      <4> QED BY <4>2, <4>3
    <3> QED BY <3>4, <3>5, <3>6
  <2> QED BY <1>8c, <2>2, <2>3, <2>4, <2>5
<1> QED BY <1>10, <1>11 DEF n, p, k, w, D

(* What was hidden stays so, and one more symbol may hide a defined name.  *)
LEMMA HiddenMore ==
  ASSUME NEW o \in Seq(Symbol), NEW s \in Symbol, NEW n
  PROVE  LET p == Append(o, s)
             k == Len(o) + 1
         IN /\ \A j \in 1 .. k : HiddenBefore(p, n, j) <=> HiddenBefore(o, n, j)
            /\ ~(Nonlocal(s) /\ s.name = n) =>
                 (HiddenBefore(p, n, k + 1) <=> HiddenBefore(o, n, k))
            /\ Nonlocal(s) /\ s.name = n =>
                 (HiddenBefore(p, n, k + 1) <=>
                    \/ HiddenBefore(o, n, k)
                    \/ s.vis = "hidden" /\ Definitions(p, n) # {})
<1> DEFINE p == Append(o, s)
           k == Len(o) + 1
           O == Offers(o, n)
           D == Definitions(o, n)
           O2 == Offers(p, n)
           D2 == Definitions(p, n)
           mine == Nonlocal(s) /\ s.name = n
<1>1. /\ Len(o) \in Nat /\ k \in Nat /\ p[k] = s /\ \A j \in 1 .. Len(o) : p[j] = o[j]
  BY OneMore
<1>2. D \subseteq O /\ O \subseteq 1 .. Len(o)
  BY OfferedAt
<1>3. /\ O2 = O \cup Added(o, s, n, TRUE) /\ D2 = D \cup Added(o, s, n, Defines(s))
  BY OfferedMore
<1>4. \A yes : Added(o, s, n, yes) = IF mine /\ yes THEN {k} ELSE {}
  BY DEF Added
<1>5. /\ O2 = (IF mine THEN O \cup {k} ELSE O) /\ D \subseteq D2 /\ D2 \subseteq D \cup {k}
      /\ mine \/ D2 = D
  <2> HIDE DEF O, D, O2, D2, k, mine
  <2> QED BY <1>3, <1>4
<1>6. \A j : HiddenBefore(o, n, j) <=> \E h \in O : h < j /\ o[h].vis = "hidden" /\ \E d \in D : d <= h
  BY DEF HiddenBefore
<1>7. \A j : HiddenBefore(p, n, j) <=>
               \E h \in O2 : h < j /\ p[h].vis = "hidden" /\ \E d \in D2 : d <= h
  BY DEF HiddenBefore
<1> HIDE DEF O, D, O2, D2, p, k, mine
<1>8. /\ \A h \in O : h \in Nat /\ h < k /\ p[h] = o[h]
      /\ \A d \in D : d \in Nat /\ d < k
      /\ k = Len(o) + 1
  BY <1>1, <1>2 DEF k
<1>9. \A h \in O : (\E d \in D2 : d <= h) <=> \E d \in D : d <= h
  BY <1>1, <1>5, <1>8
<1>10. ASSUME NEW j \in 1 .. k PROVE HiddenBefore(p, n, j) <=> HiddenBefore(o, n, j)
  <2>1. \A h \in O2 : h < j => h \in O
    BY <1>1, <1>5
  <2>2. O \subseteq O2
    BY <1>5
  <2> QED BY <1>6, <1>7, <1>8, <1>9, <2>1, <2>2
<1>11. ASSUME ~mine PROVE HiddenBefore(p, n, k + 1) <=> HiddenBefore(o, n, k)
  <2>1. O2 = O /\ \A h \in O : h < k + 1 /\ h < k
    BY <1>1, <1>5, <1>8, <1>11
  <2> QED BY <1>6, <1>7, <1>8, <1>9, <2>1
<1>12. ASSUME mine
       PROVE  HiddenBefore(p, n, k + 1) <=>
                HiddenBefore(o, n, k) \/ (s.vis = "hidden" /\ D2 # {})
  <2>1. /\ O2 = O \cup {k} /\ k < k + 1 /\ \A h \in O : h < k + 1 /\ h < k
    BY <1>1, <1>5, <1>8, <1>12
  <2>2. (\E d \in D2 : d <= k) <=> D2 # {}
    BY <1>1, <1>5, <1>8
  <2>3. HiddenBefore(p, n, k + 1) <=>
          \/ \E h \in O : p[h].vis = "hidden" /\ \E d \in D2 : d <= h
          \/ p[k].vis = "hidden" /\ \E d \in D2 : d <= k
    BY <1>7, <2>1
  <2>4. HiddenBefore(o, n, k) <=> \E h \in O : p[h].vis = "hidden" /\ \E d \in D2 : d <= h
    BY <1>6, <1>8, <1>9
  <2> QED BY <1>1, <2>2, <2>3, <2>4
<1> QED BY <1>10, <1>11, <1>12 DEF p, k, mine, D2

(* Whether an earlier symbol clashes with those before it does not change. *)
LEMMA ClashEarlier ==
  ASSUME NEW o \in Seq(Symbol), NEW s \in Symbol, NEW n, NEW j \in Globals(o, n)
  PROVE  Clash(Append(o, s), n, j) <=> Clash(o, n, j)
<1> DEFINE p == Append(o, s)
           k == Len(o) + 1
           G == Globals(o, n)
           G2 == Globals(p, n)
<1>1. /\ Len(o) \in Nat /\ k \in Nat /\ \A i \in 1 .. Len(o) : p[i] = o[i]
  BY OneMore
<1>2. G \subseteq 1 .. Len(o) /\ G \in SUBSET Nat
  BY OfferedAt
<1>3. G2 = G \cup Added(o, s, n, DefinesGlobal(s))
  BY OfferedMore
<1>4. G2 \in {G, G \cup {k}}
  BY <1>3 DEF Added
<1>5. HiddenBefore(p, n, j) <=> HiddenBefore(o, n, j)
  <2>1. j \in 1 .. k
    BY <1>1, <1>2
  <2> QED BY <2>1, HiddenMore
<1>6. Clash(p, n, j) <=>
        /\ p[j].vis = "default" /\ ~Tentative(p[j])
        /\ \E i \in G2 : /\ i < j /\ ~Repeats(p, n, i, j)
                         /\ i = Min(G2) \/ Contents(p[i])
                         /\ Tentative(p[i]) => p[j].shndx = "abs"
  BY DEF Clash
<1>7. Clash(o, n, j) <=>
        /\ o[j].vis = "default" /\ ~Tentative(o[j])
        /\ \E i \in G : /\ i < j /\ ~Repeats(o, n, i, j)
                        /\ i = Min(G) \/ Contents(o[i])
                        /\ Tentative(o[i]) => o[j].shndx = "abs"
  BY DEF Clash
<1>8. \A i \in G : Repeats(p, n, i, j) <=> Repeats(o, n, i, j)
  BY <1>1, <1>2, <1>5 DEF Repeats
<1> HIDE DEF G, G2, p, k
<1>9. j \in G
  BY DEF G
<1>10. k = Len(o) + 1 /\ (\A x \in G : x < k /\ p[x] = o[x])
  BY <1>1, <1>2 DEF k
<1>11. Min(G2) = Min(G)
  <2>1. G # {} /\ \A x \in G : x < k
    BY <1>9, <1>10
  <2>2. Min(G \cup {k}) = Min(G)
    BY <1>1, <1>2, <2>1, LeastStays
  <2> QED BY <1>4, <2>2
<1>12. \A i \in G2 : i < j => i \in G
  <2>1. j < k /\ j \in Nat
    BY <1>2, <1>9, <1>10
  <2>2. ~(k < j)
    BY <1>1, <2>1
  <2> QED BY <1>4, <2>2
<1>13. G \subseteq G2
  BY <1>4
<1> QED BY <1>6, <1>7, <1>8, <1>9, <1>10, <1>11, <1>12, <1>13 DEF p

(* One more global definition clashes with those before it when it is not  *)
(* the one that counts; when it repeats that one, others after it clash.   *)
LEMMA ClashLast ==
  ASSUME NEW o \in Seq(Symbol), NEW s \in Symbol, Nonlocal(s), DefinesGlobal(s)
  PROVE  LET n == s.name
             k == Len(o) + 1
             w == Winning(o, n)
             new == /\ Definitions(o, n) # {} /\ DefinedTwice(s, o[w])
                    /\ ~(s = o[w] /\ ~HiddenBefore(o, n, k))
         IN /\ new => Clash(Append(o, s), n, k)
            /\ Clash(Append(o, s), n, k) =>
                 new \/ (s = o[w] /\ \E i \in Globals(o, n) : w < i /\ Clash(o, n, i))
<1> DEFINE n == s.name
           p == Append(o, s)
           k == Len(o) + 1
           w == Winning(o, n)
           D == Definitions(o, n)
           G == Globals(o, n)
           C == WithContents(o, n)
           G2 == Globals(p, n)
           hid == HiddenBefore(o, n, k)
<1>1. /\ Len(o) \in Nat /\ k \in Nat /\ p[k] = s /\ \A i \in 1 .. Len(o) : p[i] = o[i]
  BY OneMore
<1>2. /\ C \subseteq G /\ G \subseteq D /\ D \subseteq 1 .. Len(o)
      /\ G \in SUBSET Nat /\ C \in SUBSET Nat
  BY OfferedAt
<1>3. G2 = G \cup {k}
  <2>1. G2 = G \cup Added(o, s, n, DefinesGlobal(s))
    BY OfferedMore
  <2> QED BY <2>1 DEF Added
<1>4. HiddenBefore(p, n, k) <=> hid
  <2>1. k \in 1 .. k
    BY <1>1
  <2> QED BY <2>1, HiddenMore
<1>5. Clash(p, n, k) <=>
        /\ p[k].vis = "default" /\ ~Tentative(p[k])
        /\ \E i \in G2 : /\ i < k /\ ~Repeats(p, n, i, k)
                         /\ i = Min(G2) \/ Contents(p[i])
                         /\ Tentative(p[i]) => p[k].shndx = "abs"
  BY DEF Clash
<1>6. \A i : Repeats(p, n, i, k) <=> p[i] = p[k] /\ ~hid
  BY <1>4 DEF Repeats
<1>7. \A j \in G : Clash(o, n, j) <=>
        /\ o[j].vis = "default" /\ ~Tentative(o[j])
        /\ \E i \in G : /\ i < j /\ ~Repeats(o, n, i, j)
                        /\ i = Min(G) \/ Contents(o[i])
                        /\ Tentative(o[i]) => o[j].shndx = "abs"
  BY DEF Clash
<1>8. \A i, j : o[i] # o[j] => ~Repeats(o, n, i, j)
  BY DEF Repeats
<1>9. D # {} /\ G # {} => w \in G
  BY WinningFacts
<1>10. G # {} => w = IF Tentative(o[Min(G)]) /\ C # {} THEN Min(C) ELSE Min(G)
  BY DEF Winning
<1>11. /\ \A i \in G : o[i].bind = "global" /\ ~Undefined(o[i])
       /\ \A i \in D : ~Undefined(o[i])
  BY DEF Globals, Definitions
<1>12. \A i \in G : i \in C <=> Contents(o[i])
  BY DEF WithContents
<1>13. \A i \in G : Contents(o[i]) => o[i].vis = "default" /\ ~Tentative(o[i]) /\ o[i].shndx # "abs"
  BY DEF Contents, Placed
<1>14. o[w].bind = "global" /\ D # {} => w \in G
  <2>1. D # {} => w \in D
    BY WinningFacts
  <2> QED BY <2>1 DEF Globals
<1>15. DefinesGlobal(s) <=> ~Undefined(s) /\ s.bind = "global"
  BY DEF DefinesGlobal
<1> HIDE DEF n, p, w, D, G, C, G2, hid
<1>16. \A i \in G : i < k /\ i \in Nat /\ p[i] = o[i]
  BY <1>1, <1>2
<1> HIDE DEF k
<1>17. G # {} => Min(G) \in G /\ (\A i \in G : Min(G) <= i) /\ Min(G \cup {k}) = Min(G)
  BY <1>1, <1>2, <1>16, LeastStays, MinFacts
<1>18. C # {} => Min(C) \in C /\ \A i \in C : Min(C) <= i
  BY <1>2, MinFacts
<1> DEFINE new == D # {} /\ DefinedTwice(s, o[w]) /\ ~(s = o[w] /\ ~hid)
<1>19. ASSUME new PROVE Clash(p, n, k)
  <2>1. /\ o[w].bind = "global" /\ s.vis = "default" /\ ~Tentative(s)
        /\ ~(Tentative(o[w]) /\ Placed(s)) /\ ~Undefined(s)
    BY <1>19 DEF DefinedTwice
  <2>2. w \in G
    BY <1>14, <1>19, <2>1
  <2>3. w = Min(G) \/ Contents(o[w])
    BY <1>10, <1>12, <1>18, <1>2, <2>2
  <2>4. Tentative(o[w]) => s.shndx = "abs"
    BY <2>1 DEF Placed, Tentative, Undefined
  <2>5. w \in G2 /\ Min(G2) = Min(G) /\ w < k /\ p[w] = o[w]
    BY <1>3, <1>16, <1>17, <2>2
  <2>6. ~Repeats(p, n, w, k)
    BY <1>1, <1>6, <1>19, <2>5
  <2> QED BY <1>1, <1>5, <2>1, <2>3, <2>4, <2>5, <2>6
<1>20. ASSUME Clash(p, n, k)
       PROVE  new \/ (s = o[w] /\ \E x \in G : w < x /\ Clash(o, n, x))
  <2>1. s.vis = "default" /\ ~Tentative(s)
    BY <1>1, <1>5, <1>20
  <2>2. PICK i \in G2 : /\ i < k /\ ~Repeats(p, n, i, k)
                        /\ i = Min(G2) \/ Contents(p[i])
                        /\ Tentative(p[i]) => p[k].shndx = "abs"
    BY <1>5, <1>20
  <2>3. i \in G /\ G # {} /\ D # {}
    <3>1. i < k /\ k \in Nat /\ i \in G2
      BY <1>1, <2>2
    <3>2. i # k
      BY <3>1
    <3>3. i \in G
      BY <1>3, <3>1, <3>2
    <3> QED BY <1>2, <3>3
  <2>4. /\ i = Min(G) \/ i \in C
        /\ Tentative(o[i]) => s.shndx = "abs"
        /\ o[i] = s => hid
    <3>1. Min(G2) = Min(G) /\ p[i] = o[i]
      BY <1>3, <1>16, <1>17, <2>3
    <3> QED BY <1>1, <1>6, <1>12, <2>2, <2>3, <3>1
  <2>5. w \in G /\ o[w].bind = "global" /\ ~Undefined(o[w])
    BY <1>9, <1>11, <2>3
  <2>6. ~(Tentative(o[w]) /\ Placed(s))
    <3> SUFFICES ASSUME Tentative(o[w]), Placed(s) PROVE FALSE
      OBVIOUS
    <3>1. C = {} /\ w = Min(G)
      BY <1>2, <1>10, <1>12, <1>13, <1>18, <2>3
    <3>2. i = w
      BY <2>4, <3>1
    <3> QED BY <2>4, <3>2 DEF Placed
  <2>7. DefinedTwice(s, o[w])
    BY <1>15, <2>1, <2>5, <2>6 DEF DefinedTwice
  <2>8. ASSUME s = o[w], ~hid PROVE \E x \in G : w < x /\ Clash(o, n, x)
    <3>1. o[i] # o[w] /\ i # w
      BY <2>4, <2>8
    <3>2. w = Min(G) \/ (w = Min(C) /\ w \in C /\ Tentative(o[Min(G)]))
      BY <1>10, <1>18, <2>3
    <3>3. i \in C
      <4>1. CASE w = Min(G)
        BY <2>4, <3>1, <4>1
      <4>2. CASE w \in C /\ Tentative(o[Min(G)])
        <5>1. s.shndx # "abs"
          BY <1>12, <1>13, <2>5, <2>8, <4>2
        <5> QED BY <2>4, <4>2, <5>1
      <4> QED BY <3>2, <4>1, <4>2
    <3>4. w < i
      <4>1. w <= i
        BY <1>17, <1>18, <2>3, <3>2, <3>3
      <4>2. w \in Nat /\ i \in Nat
        BY <1>16, <2>3, <2>5
      <4> QED BY <3>1, <4>1, <4>2
    <3>5. w = Min(G) \/ Contents(o[w])
      BY <1>12, <2>5, <3>2
    <3>6. /\ o[i].vis = "default" /\ ~Tentative(o[i])
      BY <1>12, <1>13, <2>3, <3>3
    <3>7. ~Repeats(o, n, w, i)
      BY <1>8, <3>1
    <3>8. ~Tentative(o[w])
      BY <2>1, <2>8
    <3>9. Clash(o, n, i)
      BY <1>7, <2>3, <2>5, <3>4, <3>5, <3>6, <3>7, <3>8
    <3> QED BY <2>3, <3>4, <3>9
  <2> QED BY <2>3, <2>7, <2>8
<1> QED BY <1>19, <1>20 DEF n, p, k, w, D, G, hid

(* One more definition conflicts when it is not the one that counts.       *)
LEMMA ConflictMore ==
  ASSUME NEW o \in Seq(Symbol), NEW s \in Symbol, Nonlocal(s)
  PROVE  LET n == s.name
             w == Winning(o, n)
         IN Conflict(Append(o, s), n) <=>
              \/ Conflict(o, n)
              \/ /\ Definitions(o, n) # {} /\ DefinedTwice(s, o[w])
                 /\ ~(s = o[w] /\ ~HiddenBefore(o, n, Len(o) + 1))
<1> DEFINE n == s.name
           p == Append(o, s)
           k == Len(o) + 1
           G == Globals(o, n)
           w == Winning(o, n)
           new == /\ Definitions(o, n) # {} /\ DefinedTwice(s, o[w])
                  /\ ~(s = o[w] /\ ~HiddenBefore(o, n, k))
<1>1. Globals(p, n) = IF DefinesGlobal(s) THEN G \cup {k} ELSE G
  <2>1. Globals(p, n) = G \cup Added(o, s, n, DefinesGlobal(s))
    BY OfferedMore
  <2> QED BY <2>1 DEF Added
<1>2. Conflict(p, n) <=> \E j \in Globals(p, n) : Clash(p, n, j)
  BY DEF Conflict
<1>3. Conflict(o, n) <=> \E j \in G : Clash(o, n, j)
  BY DEF Conflict
<1>4. \A j \in G : Clash(p, n, j) <=> Clash(o, n, j)
  BY ClashEarlier
<1>5. DefinesGlobal(s) =>
        /\ new => Clash(p, n, k)
        /\ Clash(p, n, k) => new \/ \E i \in G : Clash(o, n, i)
  BY ClashLast
<1>6. new => DefinesGlobal(s)
  BY DEF DefinedTwice, DefinesGlobal
<1> HIDE DEF G, k, new, p
<1>7. Conflict(p, n) <=> Conflict(o, n) \/ new
  BY <1>1, <1>2, <1>3, <1>4, <1>5, <1>6
<1> QED BY <1>7 DEF new, p, k

(* A symbol of another name, or a local one, changes nothing for n.        *)
LEMMA OtherName ==
  ASSUME NEW o \in Seq(Symbol), NEW s \in Symbol, NEW n, ~(Nonlocal(s) /\ s.name = n)
  PROVE  LET p == Append(o, s)
         IN /\ Offers(p, n) = Offers(o, n) /\ Definitions(p, n) = Definitions(o, n)
            /\ Offers(o, n) # {} => p[Max(Offers(o, n))] = o[Max(Offers(o, n))]
            /\ Definitions(o, n) # {} => p[Winning(p, n)] = o[Winning(o, n)]
            /\ HiddenBefore(p, n, Len(p) + 1) <=> HiddenBefore(o, n, Len(o) + 1)
            /\ Conflict(p, n) <=> Conflict(o, n)
<1> DEFINE p == Append(o, s)
           k == Len(o) + 1
           O == Offers(o, n)
           D == Definitions(o, n)
           G == Globals(o, n)
           C == WithContents(o, n)
<1>1. /\ Len(o) \in Nat /\ k \in Nat /\ Len(p) = k /\ \A i \in 1 .. Len(o) : p[i] = o[i]
  BY OneMore
<1>2. /\ C \subseteq G /\ G \subseteq D /\ D \subseteq O /\ O \subseteq 1 .. Len(o)
      /\ D \in SUBSET Nat /\ G \in SUBSET Nat /\ C \in SUBSET Nat
  BY OfferedAt
<1>3. /\ Offers(p, n) = O /\ Definitions(p, n) = D /\ Globals(p, n) = G
      /\ WithContents(p, n) = C
  <2>1. /\ Offers(p, n) = O \cup Added(o, s, n, TRUE)
        /\ Definitions(p, n) = D \cup Added(o, s, n, Defines(s))
        /\ Globals(p, n) = G \cup Added(o, s, n, DefinesGlobal(s))
        /\ WithContents(p, n) = C \cup Added(o, s, n, DefinesGlobal(s) /\ Contents(s))
    BY OfferedMore
  <2>2. \A yes : Added(o, s, n, yes) = {}
    BY DEF Added
  <2> HIDE DEF O, D, G, C, p
  <2> QED BY <2>1, <2>2
<1>4. Winning(o, n) =
        IF G = {} THEN Min(D) ELSE IF Tentative(o[Min(G)]) /\ C # {} THEN Min(C) ELSE Min(G)
  BY DEF Winning
<1>5. Winning(p, n) =
        IF G = {} THEN Min(D) ELSE IF Tentative(p[Min(G)]) /\ C # {} THEN Min(C) ELSE Min(G)
  BY <1>3 DEF Winning
<1>6. HiddenBefore(p, n, k + 1) <=> HiddenBefore(o, n, k)
  BY HiddenMore
<1>7. \A j \in G : Clash(p, n, j) <=> Clash(o, n, j)
  BY ClashEarlier
<1>8. Conflict(p, n) <=> Conflict(o, n)
  BY <1>3, <1>7 DEF Conflict
<1>9. D # {} => Winning(o, n) \in 1 .. Len(o)
  BY WinningFacts
<1> HIDE DEF O, D, G, C, p
<1>10. G # {} => Min(G) \in 1 .. Len(o)
  BY <1>2, MinFacts
<1>11. D # {} => p[Winning(p, n)] = o[Winning(o, n)]
  <2>1. G # {} => p[Min(G)] = o[Min(G)]
    BY <1>1, <1>10
  <2>2. Winning(p, n) = Winning(o, n)
    BY <1>4, <1>5, <2>1
  <2> QED BY <1>1, <1>9, <2>2
<1>12. O # {} => p[Max(O)] = o[Max(O)]
  <2>1. O \in SUBSET (0 .. Len(o))
    BY <1>1, <1>2
  <2>2. O # {} => Max(O) \in O
    BY <1>1, <2>1, MaxFacts
  <2> QED BY <1>1, <1>2, <2>2
<1> HIDE DEF k
<1> QED BY <1>1, <1>3, <1>6, <1>8, <1>11, <1>12 DEF p, k, O, D

-----------------------------------------------------------------------------
(* What the table holds of what was offered.                               *)

(* Entry e of name n is defined if the name is; if not, the last offer     *)
(* decides whether it may stay so.                                         *)
KnownAs(o, n, e) ==
  /\ Offers(o, n) # {}
  /\ Undefined(e) <=> Definitions(o, n) = {}
  /\ Undefined(e) => e.bind = o[Max(Offers(o, n))].bind

(* It has type, section, value and binding of the definition that counts,  *)
(* and is hidden when one of the symbols since was.                        *)
CountsAs(o, n, e) ==
  Definitions(o, n) # {} =>
    LET w == o[Winning(o, n)]
    IN /\ e.type = w.type /\ e.shndx = w.shndx /\ e.value = w.value /\ e.bind = w.bind
       /\ e.vis = "hidden" <=> HiddenBefore(o, n, Len(o) + 1)

LEMMA EntryStays ==
  ASSUME NEW o \in Seq(Symbol), NEW s \in Symbol, NEW n, ~(Nonlocal(s) /\ s.name = n), NEW e
  PROVE  /\ KnownAs(Append(o, s), n, e) <=> KnownAs(o, n, e)
         /\ CountsAs(Append(o, s), n, e) <=> CountsAs(o, n, e)
<1> DEFINE p == Append(o, s)
<1>1. /\ Offers(p, n) = Offers(o, n) /\ Definitions(p, n) = Definitions(o, n)
      /\ Offers(o, n) # {} => p[Max(Offers(o, n))] = o[Max(Offers(o, n))]
      /\ Definitions(o, n) # {} => p[Winning(p, n)] = o[Winning(o, n)]
      /\ HiddenBefore(p, n, Len(p) + 1) <=> HiddenBefore(o, n, Len(o) + 1)
  BY OtherName
<1> HIDE DEF p
<1>2. KnownAs(p, n, e) <=> KnownAs(o, n, e)
  BY <1>1 DEF KnownAs
<1>3. CountsAs(p, n, e) <=> CountsAs(o, n, e)
  BY <1>1 DEF CountsAs
<1> QED BY <1>2, <1>3 DEF p

(* The entry set_elf_sym() leaves for s where old was.                     *)
Result(s, old) ==
  LET vis == IF Undefined(old) THEN s.vis ELSE Merged(old.vis, s.vis)
  IN IF Overrides(s, old) THEN [s EXCEPT !.vis = vis] ELSE [old EXCEPT !.vis = vis]

LEMMA ResultFacts ==
  ASSUME NEW s \in Symbol, NEW old \in Symbol
  PROVE  LET r == Result(s, old)
             kept == IF Overrides(s, old) THEN s ELSE old
         IN /\ r.type = kept.type /\ r.shndx = kept.shndx /\ r.value = kept.value
            /\ r.bind = kept.bind
            /\ Undefined(r) <=> Undefined(s) /\ Undefined(old)
            /\ Undefined(old) => Overrides(s, old)
            /\ r.vis = "hidden" <=> s.vis = "hidden" \/ (~Undefined(old) /\ old.vis = "hidden")
            /\ Result(s, s) = s
<1>1. ASSUME NEW vis
      PROVE  /\ [s EXCEPT !.vis = vis].shndx = s.shndx /\ [s EXCEPT !.vis = vis].value = s.value
             /\ [s EXCEPT !.vis = vis].bind = s.bind /\ [s EXCEPT !.vis = vis].vis = vis
             /\ [s EXCEPT !.vis = vis].type = s.type
             /\ [old EXCEPT !.vis = vis].type = old.type
             /\ [old EXCEPT !.vis = vis].shndx = old.shndx
             /\ [old EXCEPT !.vis = vis].value = old.value
             /\ [old EXCEPT !.vis = vis].bind = old.bind /\ [old EXCEPT !.vis = vis].vis = vis
  BY DEF Symbol
<1>2. [s EXCEPT !.vis = s.vis] = s
  BY DEF Symbol
<1>3. s.vis \in {"default", "hidden"} /\ old.vis \in {"default", "hidden"}
  BY DEF Symbol, Visibilities
<1>4. Result(s, s) = s
  <2>1. Merged(s.vis, s.vis) = s.vis
    BY <1>3 DEF Merged
  <2> QED BY <1>2, <2>1 DEF Result
<1> DEFINE vis == IF Undefined(old) THEN s.vis ELSE Merged(old.vis, s.vis)
           r == Result(s, old)
           kept == IF Overrides(s, old) THEN s ELSE old
<1>5. /\ r.type = kept.type /\ r.shndx = kept.shndx /\ r.value = kept.value
      /\ r.bind = kept.bind /\ r.vis = vis
  <2>1. r = IF Overrides(s, old) THEN [s EXCEPT !.vis = vis] ELSE [old EXCEPT !.vis = vis]
    BY DEF Result
  <2> HIDE DEF r, vis
  <2> QED BY <1>1, <2>1
<1>6. vis = "hidden" <=> s.vis = "hidden" \/ (~Undefined(old) /\ old.vis = "hidden")
  BY <1>3 DEF Merged
<1>7. /\ Undefined(old) => Overrides(s, old)
      /\ Overrides(s, old) => Undefined(old) \/ ~Undefined(s)
  BY DEF Overrides
<1> HIDE DEF r, vis
<1>8. Undefined(r) <=> Undefined(s) /\ Undefined(old)
  BY <1>5, <1>7 DEF Undefined
<1> HIDE DEF kept
<1> QED BY <1>4, <1>5, <1>6, <1>7, <1>8 DEF r, kept

(* A later offer is the last one.                                          *)
LEMMA LastMore ==
  ASSUME NEW k \in Nat, NEW T \in SUBSET (0 .. k), k \in T
  PROVE  Max(T) = k
<1>1. Max(T) \in T /\ k <= Max(T)
  BY MaxFacts
<1>2. Max(T) \in 0 .. k
  BY <1>1
<1> DEFINE m == Max(T)
<1> HIDE DEF m
<1>3. m \in 0 .. k /\ k <= m
  BY <1>1, <1>2 DEF m
<1> QED BY <1>3 DEF m

LEMMA OwnName ==
  ASSUME NEW o \in Seq(Symbol), NEW s \in Symbol, Nonlocal(s)
  PROVE  LET n == s.name
             p == Append(o, s)
             w == Winning(o, n)
         IN /\ Offers(p, n) # {} /\ p[Max(Offers(p, n))] = s
            /\ Definitions(p, n) = {} <=> Undefined(s) /\ Definitions(o, n) = {}
            /\ Definitions(o, n) = {} /\ ~Undefined(s) => p[Winning(p, n)] = s
            /\ Definitions(o, n) # {} =>
                 p[Winning(p, n)] = IF Overrides(s, o[w]) THEN s ELSE o[w]
            /\ HiddenBefore(p, n, Len(p) + 1) <=>
                 \/ HiddenBefore(o, n, Len(o) + 1)
                 \/ s.vis = "hidden" /\ Definitions(p, n) # {}
<1> DEFINE n == s.name
           p == Append(o, s)
           k == Len(o) + 1
           w == Winning(o, n)
           D == Definitions(o, n)
           O2 == Offers(p, n)
           D2 == Definitions(p, n)
<1>1. /\ Len(o) \in Nat /\ k \in Nat /\ Len(p) = k /\ p[k] = s
      /\ \A i \in 1 .. Len(o) : p[i] = o[i]
  BY OneMore
<1>2. Offers(o, n) \subseteq 1 .. Len(o)
  BY OfferedAt
<1>3. O2 = Offers(o, n) \cup {k} /\ D2 = IF Undefined(s) THEN D ELSE D \cup {k}
  <2>1. /\ O2 = Offers(o, n) \cup Added(o, s, n, TRUE)
        /\ D2 = D \cup Added(o, s, n, Defines(s))
    BY OfferedMore
  <2>2. \A yes : Added(o, s, n, yes) = IF yes THEN {k} ELSE {}
    BY DEF Added
  <2> HIDE DEF O2, D, D2, n, k
  <2> QED BY <2>1, <2>2 DEF Defines
<1>4. /\ D = {} /\ ~Undefined(s) => Winning(p, n) = k
      /\ D # {} => Winning(p, n) = IF Overrides(s, o[w]) THEN k ELSE w
  BY WinningMore
<1>5. D # {} => w \in 1 .. Len(o)
  BY WinningFacts
<1>6. HiddenBefore(p, n, k + 1) <=> HiddenBefore(o, n, k) \/ (s.vis = "hidden" /\ D2 # {})
  BY HiddenMore
<1>7. Max(O2) = k
  <2>1. O2 \in SUBSET (0 .. k) /\ k \in O2
    BY <1>1, <1>2, <1>3
  <2> HIDE DEF O2, k
  <2> QED BY <1>1, <2>1, LastMore
<1> HIDE DEF n, p, w, D, O2, D2
<1>8. O2 # {} /\ p[Max(O2)] = s
  BY <1>1, <1>3, <1>7
<1>9. D2 = {} <=> Undefined(s) /\ D = {}
  BY <1>3
<1>10. /\ D = {} /\ ~Undefined(s) => p[Winning(p, n)] = s
       /\ D # {} => p[Winning(p, n)] = IF Overrides(s, o[w]) THEN s ELSE o[w]
  BY <1>1, <1>4, <1>5
<1> HIDE DEF k
<1> QED BY <1>1, <1>6, <1>8, <1>9, <1>10 DEF n, p, k, w, D, O2, D2

(* The first offer of a name.                                              *)
LEMMA FirstOffer ==
  ASSUME NEW o \in Seq(Symbol), NEW s \in Symbol, Nonlocal(s), Offers(o, s.name) = {}
  PROVE  /\ KnownAs(Append(o, s), s.name, s) /\ CountsAs(Append(o, s), s.name, s)
         /\ Conflict(Append(o, s), s.name) <=> Conflict(o, s.name)
<1> DEFINE n == s.name
           p == Append(o, s)
<1>1. /\ Offers(p, n) # {} /\ p[Max(Offers(p, n))] = s
      /\ Definitions(p, n) = {} <=> Undefined(s) /\ Definitions(o, n) = {}
      /\ Definitions(o, n) = {} /\ ~Undefined(s) => p[Winning(p, n)] = s
      /\ HiddenBefore(p, n, Len(p) + 1) <=>
            \/ HiddenBefore(o, n, Len(o) + 1)
            \/ s.vis = "hidden" /\ Definitions(p, n) # {}
  BY OwnName
<1>2. Definitions(o, n) = {} /\ ~HiddenBefore(o, n, Len(o) + 1)
  BY DEF Definitions, HiddenBefore
<1>3. Conflict(p, n) <=> Conflict(o, n)
  BY <1>2, ConflictMore
<1> HIDE DEF n, p
<1>4. KnownAs(p, n, s)
  BY <1>1, <1>2 DEF KnownAs
<1>5. CountsAs(p, n, s)
  BY <1>1, <1>2 DEF CountsAs
<1> QED BY <1>3, <1>4, <1>5 DEF n, p

(* A further offer: the entry becomes what set_elf_sym() makes of it.      *)
LEMMA FurtherKnown ==
  ASSUME NEW o \in Seq(Symbol), NEW s \in Symbol, Nonlocal(s), NEW old \in Symbol,
         KnownAs(o, s.name, old)
  PROVE  KnownAs(Append(o, s), s.name, Result(s, old))
<1> DEFINE n == s.name
           p == Append(o, s)
           r == Result(s, old)
<1>1. /\ Offers(p, n) # {} /\ p[Max(Offers(p, n))] = s
      /\ Definitions(p, n) = {} <=> Undefined(s) /\ Definitions(o, n) = {}
  BY OwnName
<1>2. /\ r.bind = (IF Overrides(s, old) THEN s ELSE old).bind
      /\ Undefined(r) <=> Undefined(s) /\ Undefined(old)
      /\ Undefined(old) => Overrides(s, old)
  BY ResultFacts
<1>3. Undefined(old) <=> Definitions(o, n) = {}
  BY DEF KnownAs
<1> HIDE DEF n, p, r
<1>4. KnownAs(p, n, r)
  BY <1>1, <1>2, <1>3 DEF KnownAs
<1> QED BY <1>4 DEF n, p, r

LEMMA FurtherCounts ==
  ASSUME NEW o \in Seq(Symbol), NEW s \in Symbol, Nonlocal(s), NEW old \in Symbol,
         old.name = s.name, KnownAs(o, s.name, old), CountsAs(o, s.name, old)
  PROVE  /\ CountsAs(Append(o, s), s.name, Result(s, old))
         /\ Conflict(Append(o, s), s.name) <=>
              Conflict(o, s.name) \/ (old # s /\ DefinedTwice(s, old))
<1> DEFINE n == s.name
           p == Append(o, s)
           r == Result(s, old)
           w == o[Winning(o, n)]
           D == Definitions(o, n)
           hid == HiddenBefore(o, n, Len(o) + 1)
<1>1. /\ Definitions(p, n) = {} <=> Undefined(s) /\ D = {}
      /\ D = {} /\ ~Undefined(s) => p[Winning(p, n)] = s
      /\ D # {} => p[Winning(p, n)] = IF Overrides(s, w) THEN s ELSE w
      /\ HiddenBefore(p, n, Len(p) + 1) <=> hid \/ (s.vis = "hidden" /\ Definitions(p, n) # {})
  BY OwnName
<1>2. LET kept == IF Overrides(s, old) THEN s ELSE old
      IN /\ r.type = kept.type /\ r.shndx = kept.shndx /\ r.value = kept.value
         /\ r.bind = kept.bind
         /\ Undefined(old) => Overrides(s, old)
         /\ r.vis = "hidden" <=> s.vis = "hidden" \/ (~Undefined(old) /\ old.vis = "hidden")
  BY ResultFacts
<1>3. Undefined(old) <=> D = {}
  BY DEF KnownAs
<1>4. D # {} => /\ old.type = w.type /\ old.shndx = w.shndx /\ old.value = w.value
                /\ old.bind = w.bind
                /\ old.vis = "hidden" <=> hid
  BY DEF CountsAs
<1>5. D = {} => ~hid
  BY DEF HiddenBefore
<1>6. Conflict(p, n) <=>
        Conflict(o, n) \/ (D # {} /\ DefinedTwice(s, w) /\ ~(s = w /\ ~hid))
  BY ConflictMore
<1>7. D # {} => w \in Symbol /\ w.name = n
  <2>1. D # {} => Winning(o, n) \in Offers(o, n)
    BY WinningFacts, OfferedAt
  <2> QED BY <2>1, OfferedAt DEF Offers
<1>7a. s.name = n /\ old.name = n
  OBVIOUS
<1>7b. D # {} /\ hid /\ ~Undefined(w) => old.vis = "hidden"
  BY <1>4
<1>7c. D # {} /\ w.vis = "hidden" => hid
  <2> SUFFICES ASSUME D # {}, w.vis = "hidden" PROVE hid
    OBVIOUS
  <2> DEFINE x == Winning(o, n)
  <2>1. x \in D /\ x \in Offers(o, n) /\ x \in 1 .. Len(o) /\ Len(o) \in Nat
    BY WinningFacts, OfferedAt, OneMore
  <2>2. x < Len(o) + 1 /\ x <= x
    BY <2>1
  <2> QED BY <2>1, <2>2 DEF HiddenBefore
<1> HIDE DEF n, p, r, w, D, hid
<1>8. D # {} => /\ Overrides(s, old) <=> Overrides(s, w)
                /\ DefinedTwice(s, old) <=> DefinedTwice(s, w)
  BY <1>4 DEF Overrides, DefinedTwice, Undefined, Tentative
<1>9. CountsAs(p, n, r)
  BY <1>1, <1>2, <1>3, <1>4, <1>5, <1>8 DEF CountsAs
<1>10. D # {} /\ DefinedTwice(s, w) => (old = s <=> s = w /\ ~hid)
  <2> SUFFICES ASSUME D # {}, DefinedTwice(s, w) PROVE old = s <=> s = w /\ ~hid
    OBVIOUS
  <2>1. s.vis = "default"
    BY DEF DefinedTwice
  <2>2. /\ old.type = w.type /\ old.shndx = w.shndx /\ old.value = w.value
        /\ old.bind = w.bind /\ old.name = w.name
        /\ old.vis = "hidden" <=> hid
    BY <1>4, <1>7, <1>7a
  <2>3. w \in Symbol
    BY <1>7
  <2>4. /\ w.vis \in {"default", "hidden"} /\ old.vis \in {"default", "hidden"}
    BY <2>3 DEF Symbol, Visibilities
  <2>5. old.vis = w.vis => old = w
    BY <2>2, <2>3 DEF Symbol
  <2> QED BY <1>7c, <2>1, <2>2, <2>4, <2>5
<1>11. D = {} => ~DefinedTwice(s, old)
  BY <1>3 DEF DefinedTwice
<1>12. Conflict(p, n) <=> Conflict(o, n) \/ (old # s /\ DefinedTwice(s, old))
  BY <1>6, <1>8, <1>10, <1>11
<1> QED BY <1>9, <1>12 DEF n, p, r

Holds(t, j, n) == Nonlocal(t.syms[j]) /\ t.syms[j].name = n

(* What set_elf_sym() does to the entries: s is added, or the entry ix of  *)
(* its name becomes what the two of them give.                             *)
Adds(t, u, s) ==
  /\ Fresh(t, s) /\ u.n = t.n + 1 /\ (u.err <=> t.err) /\ u.syms[t.n + 1] = s /\ u.ix = t.n + 1
  /\ \A j \in 1 .. t.n : u.syms[j] = t.syms[j]
Resolves(t, u, s, ix) ==
  /\ ix \in 1 .. t.n /\ Nonlocal(s) /\ Holds(t, ix, s.name) /\ u.n = t.n /\ u.ix = ix
  /\ u.err <=> t.err \/ (t.syms[ix] # s /\ DefinedTwice(s, t.syms[ix]))
  /\ u.syms[ix] = Result(s, t.syms[ix])
  /\ \A j \in 1 .. t.n : j # ix => u.syms[j] = t.syms[j]

LEMMA SetEntries ==
  ASSUME NEW t, Good(t), NEW s \in Symbol, Nonlocal(s) \/ ~Undefined(s)
  PROVE  Adds(t, Set(t, s), s) \/ \E ix : Resolves(t, Set(t, s), s, ix)
<1> DEFINE ix == IF Nonlocal(s) THEN Find(t, s.name) ELSE 0
           old == t.syms[ix]
           vis == IF Undefined(old) THEN s.vis ELSE Merged(old.vis, s.vis)
           n == t.n
<1>1. t \in Tabs /\ n \in Nat /\ n <= Len(t.syms) /\ t.syms \in Seq(Symbol) /\ s.name \in AllNames
  BY DEF Good, Tabs, Symbol
<1>2. /\ ix \in 0 .. n
      /\ ix # 0 => Nonlocal(s) /\ Holds(t, ix, s.name)
      /\ ix = 0 => Fresh(t, s)
  <2>1. CASE Nonlocal(s)
    <3>1. ix = Find(t, s.name)
      BY <2>1
    <3>2. /\ ix \in 0 .. n
          /\ ix # 0 => Nonlocal(old) /\ old.name = s.name
          /\ \A j \in ix + 1 .. n : Nonlocal(t.syms[j]) => t.syms[j].name # s.name
      BY <1>1, <3>1, FindFacts
    <3> HIDE DEF ix
    <3>3. ix = 0 => \A j \in 1 .. n : Nonlocal(t.syms[j]) => t.syms[j].name # s.name
      BY <3>2
    <3> QED BY <2>1, <3>2, <3>3 DEF Fresh, Holds
  <2>2. CASE ~Nonlocal(s)
    BY <1>1, <2>2 DEF Fresh
  <2> QED BY <2>1, <2>2
<1>3. CASE ix = 0
  <2>1. Set(t, s) = Put(t, s)
    BY <1>3 DEF Set
  <2> DEFINE u == Put(t, s)
  <2>2. Fresh(t, s)
    BY <1>2, <1>3
  <2>3. Enlarged(t, u, s)
    BY <2>2, PutKeeps
  <2> HIDE DEF u, ix
  <2>4. Adds(t, u, s)
    BY <2>2, <2>3 DEF Adds, Enlarged
  <2> QED BY <2>1, <2>4 DEF u
<1>4. CASE ix # 0 /\ old = s
  <2> DEFINE u == [t EXCEPT !.ix = ix]
  <2>1. Set(t, s) = u
    BY <1>4 DEF Set
  <2> HIDE DEF ix
  <2>2. ix \in 1 .. n
    BY <1>1, <1>2, <1>4
  <2>3. u.n = n /\ u.syms = t.syms /\ u.err = t.err /\ u.ix = ix
    BY <1>1 DEF Tabs
  <2>4. Result(s, s) = s
    BY ResultFacts
  <2> HIDE DEF u
  <2>5. Resolves(t, u, s, ix)
    BY <1>2, <1>4, <2>2, <2>3, <2>4 DEF Resolves
  <2> QED BY <2>1, <2>5
<1>5. CASE ix # 0 /\ old # s
  <2> DEFINE r == IF Overrides(s, old) THEN [s EXCEPT !.vis = vis] ELSE [old EXCEPT !.vis = vis]
             err == t.err \/ DefinedTwice(s, old)
             syms == [t.syms EXCEPT ![ix] = r]
             u == [t EXCEPT !.ix = ix, !.err = err, !.syms = syms]
  <2>1. Set(t, s) = u
    BY <1>5 DEF Set
  <2>2. r = Result(s, old)
    BY DEF Result
  <2> HIDE DEF ix
  <2>3. ix \in 1 .. n /\ ix \in 1 .. Len(t.syms)
    BY <1>1, <1>2, <1>5
  <2> HIDE DEF old, r
  <2>4. /\ syms[ix] = r /\ \A j \in 1 .. Len(t.syms) : j # ix => syms[j] = t.syms[j]
    <3> HIDE DEF Symbol
    <3> QED BY <1>1, <2>3
  <2> HIDE DEF syms, err
  <2>5. u.n = n /\ u.syms = syms /\ u.err = err /\ u.ix = ix
    BY <1>1 DEF Tabs
  <2> HIDE DEF u
  <2>6. \A j \in 1 .. n : j # ix => u.syms[j] = t.syms[j]
    <3> TAKE j \in 1 .. n
    <3>1. j \in 1 .. Len(t.syms)
      BY <1>1
    <3> QED BY <2>4, <2>5, <3>1
  <2>7. Resolves(t, u, s, ix)
    BY <1>2, <1>5, <2>2, <2>3, <2>4, <2>5, <2>6 DEF Resolves, old, err
  <2> QED BY <2>1, <2>7
<1> QED BY <1>3, <1>4, <1>5

(* What no call changes of entry r: the name, and of a static everything.  *)
Keeps(r, s) == IF Nonlocal(r) THEN Alike(r, s) ELSE s = r

(* An undefined symbol of the program has no value, and no symbol of it is *)
(* in the PLT.                                                             *)
Clean(s) == s.shndx # "plt" /\ (Undefined(s) => s.value = 0)

(* set_elf_sym() leaves every entry what it was for, and tells where s is. *)
LEMMA SetPlaces ==
  ASSUME NEW t, Good(t), NEW s \in Symbol, Nonlocal(s) \/ ~Undefined(s)
  PROVE  LET u == Set(t, s)
         IN /\ u.n \in Nat /\ t.n <= u.n /\ u.ix \in 1 .. u.n
            /\ \A j \in 1 .. t.n : Keeps(t.syms[j], u.syms[j])
            /\ Keeps(s, u.syms[u.ix])
            /\ Clean(s) /\ (\A j \in 1 .. t.n : Clean(t.syms[j])) =>
                 \A j \in 1 .. u.n : Clean(u.syms[j])
<1> DEFINE u == Set(t, s)
<1>1. t \in Tabs /\ t.n \in Nat /\ t.n <= Len(t.syms) /\ t.syms \in Seq(Symbol)
  BY DEF Good, Tabs
<1>2. Offered(t, u, s)
  BY SetFacts
<1>3. Adds(t, u, s) \/ \E ix : Resolves(t, u, s, ix)
  BY SetEntries
<1> HIDE DEF u
<1>4. \A j \in 1 .. t.n : Alike(t.syms[j], u.syms[j])
  BY <1>2 DEF Offered, Grown
<1>5. CASE Adds(t, u, s)
  <2>1. /\ u.n = t.n + 1 /\ u.syms[t.n + 1] = s /\ u.ix = t.n + 1
        /\ \A j \in 1 .. t.n : u.syms[j] = t.syms[j]
    BY <1>5 DEF Adds
  <2>2. \A j \in 1 .. u.n : j = t.n + 1 \/ j \in 1 .. t.n
    BY <1>1, <2>1
  <2>3. u.n \in Nat /\ t.n <= u.n /\ u.ix \in 1 .. u.n
    BY <1>1, <2>1
  <2> QED BY <2>1, <2>2, <2>3 DEF Keeps, Alike, u
<1>6. CASE \E ix : Resolves(t, u, s, ix)
  <2>1. PICK ix : Resolves(t, u, s, ix)
    BY <1>6
  <2> DEFINE old == t.syms[ix]
             r == Result(s, old)
  <2>2. /\ ix \in 1 .. t.n /\ Nonlocal(s) /\ Nonlocal(old) /\ old.name = s.name
        /\ u.n = t.n /\ u.ix = ix /\ u.syms[ix] = r
        /\ \A j \in 1 .. t.n : j # ix => u.syms[j] = t.syms[j]
    BY <2>1 DEF Resolves, Holds
  <2>3. old \in Symbol
    <3> HIDE DEF Symbol
    <3> QED BY <1>1, <2>2
  <2>4. LET kept == IF Overrides(s, old) THEN s ELSE old
        IN /\ r.shndx = kept.shndx /\ r.value = kept.value
           /\ Undefined(r) <=> Undefined(s) /\ Undefined(old)
           /\ Undefined(old) => Overrides(s, old)
    BY <2>3, ResultFacts
  <2> HIDE DEF r, old
  <2>5. Clean(s) /\ Clean(old) => Clean(r)
    BY <2>4 DEF Clean
  <2>6. Alike(old, r)
    BY <1>4, <2>2 DEF old
  <2>7. Keeps(s, r)
    BY <2>2, <2>6 DEF Keeps, Alike
  <2>8. \A j \in 1 .. t.n : Keeps(t.syms[j], u.syms[j])
    <3> TAKE j \in 1 .. t.n
    <3>1. CASE j = ix
      BY <1>4, <2>2, <3>1 DEF Keeps, old
    <3>2. CASE j # ix
      BY <2>2, <3>2 DEF Keeps, Alike
    <3> QED BY <3>1, <3>2
  <2>9. Clean(s) /\ (\A j \in 1 .. t.n : Clean(t.syms[j])) => \A j \in 1 .. t.n : Clean(u.syms[j])
    BY <2>2, <2>5 DEF old
  <2> QED BY <1>1, <2>2, <2>7, <2>8, <2>9 DEF u
<1> QED BY <1>3, <1>5, <1>6

(* The entries of table t stand for what was offered.                      *)
Knows(t, o) ==
  /\ o \in Seq(Symbol)
  /\ \A n \in Names : Offers(o, n) # {} => \E j \in 1 .. t.n : Holds(t, j, n)
  /\ \A n \in Names : \A j \in 1 .. t.n : Holds(t, j, n) => KnownAs(o, n, t.syms[j])
Counts(t, o) ==
  \A n \in Names : \A j \in 1 .. t.n : Holds(t, j, n) => CountsAs(o, n, t.syms[j])
Counted(t, o) == t.err <=> \E n \in Names : Conflict(o, n)
Agrees(t, o) == Knows(t, o) /\ Counts(t, o) /\ Counted(t, o)

(* Entries of other names than that of s, and names without an entry.      *)
LEMMA ElsewhereKnown ==
  ASSUME NEW t, t.n \in Nat, NEW o, Knows(t, o), NEW s \in Symbol, NEW e, NEW n \in Names,
         NEW j \in 1 .. t.n, Holds(t, j, n), e = t.syms[j], ~(Nonlocal(s) /\ s.name = n)
  PROVE  /\ KnownAs(Append(o, s), n, e)
         /\ CountsAs(o, n, e) => CountsAs(Append(o, s), n, e)
<1>1. o \in Seq(Symbol) /\ KnownAs(o, n, e)
  BY DEF Knows
<1> QED BY <1>1, EntryStays

(* set_elf_sym() keeps the entries in step with what is offered.           *)
LEMMA SetKnows ==
  ASSUME NEW t, Good(t), NEW o, Knows(t, o), NEW s \in Symbol, s.name \in Names,
         Nonlocal(s) \/ ~Undefined(s)
  PROVE  Knows(Set(t, s), Append(o, s))
<1> DEFINE u == Set(t, s)
           p == Append(o, s)
<1>1. /\ t.n \in Nat /\ t.syms \in Seq(Symbol) /\ t.n <= Len(t.syms) /\ Once(t)
      /\ o \in Seq(Symbol)
  BY DEF Good, Tabs, Knows
<1>2. p \in Seq(Symbol)
  BY <1>1, OneMore
<1>3. \A j \in 1 .. t.n : t.syms[j] \in Symbol
  <2>1. \A j \in 1 .. t.n : j \in 1 .. Len(t.syms)
    BY <1>1
  <2> HIDE DEF Symbol
  <2> QED BY <1>1, <2>1
<1>4. Adds(t, u, s) \/ \E ix : Resolves(t, u, s, ix)
  BY SetEntries
<1>5. \A n \in Names : ~(Nonlocal(s) /\ s.name = n) => Offers(p, n) = Offers(o, n)
  BY <1>1, OtherName
<1>6. ASSUME NEW n \in Names, NEW j \in 1 .. t.n, Holds(t, j, n), ~(Nonlocal(s) /\ s.name = n)
      PROVE  KnownAs(p, n, t.syms[j])
  BY <1>1, <1>6, ElsewhereKnown
<1>7. CASE Adds(t, u, s)
  <2> HIDE DEF u
  <2>1. /\ u.n = t.n + 1 /\ u.syms[t.n + 1] = s /\ \A j \in 1 .. t.n : u.syms[j] = t.syms[j]
        /\ Nonlocal(s) => \A j \in 1 .. t.n : ~Holds(t, j, s.name)
    BY <1>7 DEF Adds, Fresh, Holds, Unique
  <2>2. \A j \in 1 .. u.n : j \in 1 .. t.n \/ j = t.n + 1
    BY <1>1, <2>1
  <2>2a. t.n + 1 \in 1 .. u.n /\ \A j \in 1 .. t.n : j \in 1 .. u.n
    BY <1>1, <2>1
  <2>3. ASSUME NEW n \in Names, Offers(p, n) # {} PROVE \E j \in 1 .. u.n : Holds(u, j, n)
    <3>1. CASE Nonlocal(s) /\ s.name = n
      BY <2>1, <2>2a, <3>1 DEF Holds
    <3>2. CASE ~(Nonlocal(s) /\ s.name = n)
      <4>1. PICK j \in 1 .. t.n : Holds(t, j, n)
        BY <1>5, <2>3, <3>2 DEF Knows
      <4> QED BY <2>1, <2>2a, <4>1 DEF Holds
    <3> QED BY <3>1, <3>2
  <2>4. ASSUME NEW n \in Names, NEW j \in 1 .. u.n, Holds(u, j, n) PROVE KnownAs(p, n, u.syms[j])
    <3>1. CASE j = t.n + 1
      <4>1. u.syms[j] = s /\ Nonlocal(s) /\ s.name = n
        BY <2>1, <2>4, <3>1 DEF Holds
      <4>2. Offers(o, n) = {}
        BY <2>1, <4>1 DEF Knows
      <4> QED BY <1>1, <4>1, <4>2, FirstOffer
    <3>2. CASE j \in 1 .. t.n
      <4>1. Holds(t, j, n) /\ u.syms[j] = t.syms[j]
        BY <2>1, <2>4, <3>2 DEF Holds
      <4>2. ~(Nonlocal(s) /\ s.name = n)
        BY <2>1, <3>2, <4>1
      <4> QED BY <1>6, <3>2, <4>1, <4>2
    <3> QED BY <2>2, <3>1, <3>2
  <2> HIDE DEF p
  <2>5. Knows(u, p)
    BY <1>2, <2>3, <2>4 DEF Knows
  <2> QED BY <2>5 DEF u, p
<1>8. ASSUME NEW ix, Resolves(t, u, s, ix) PROVE Knows(u, p)
  <2> HIDE DEF u
  <2> DEFINE old == t.syms[ix]
             m == s.name
  <2>1. /\ ix \in 1 .. t.n /\ Nonlocal(s) /\ Holds(t, ix, m) /\ u.n = t.n
        /\ u.syms[ix] = Result(s, old)
        /\ \A j \in 1 .. t.n : j # ix => u.syms[j] = t.syms[j]
    BY <1>8 DEF Resolves
  <2>2. old \in Symbol /\ KnownAs(o, m, old)
    BY <1>3, <2>1 DEF Knows
  <2>3. KnownAs(p, m, Result(s, old))
    BY <1>1, <2>1, <2>2, FurtherKnown
  <2>4. Result(s, old).name = m /\ Nonlocal(Result(s, old))
    BY <2>1, <2>2 DEF Result, Symbol, Holds, Nonlocal
  <2> HIDE DEF old
  <2>5. Holds(u, ix, m)
    BY <2>1, <2>4 DEF Holds
  <2>6. \A j \in 1 .. t.n : \A n : Holds(u, j, n) <=> Holds(t, j, n)
    BY <2>1, <2>5 DEF Holds
  <2>7. ASSUME NEW n \in Names, Offers(p, n) # {} PROVE \E j \in 1 .. u.n : Holds(u, j, n)
    <3>1. CASE n = m
      BY <2>1, <2>5, <3>1
    <3>2. CASE n # m
      <4>1. PICK j \in 1 .. t.n : Holds(t, j, n)
        BY <1>5, <2>7, <3>2 DEF Knows
      <4> QED BY <2>1, <2>6, <4>1
    <3> QED BY <3>1, <3>2
  <2>8. ASSUME NEW n \in Names, NEW j \in 1 .. u.n, Holds(u, j, n) PROVE KnownAs(p, n, u.syms[j])
    <3>1. Holds(t, j, n) /\ j \in 1 .. t.n
      BY <2>1, <2>6, <2>8
    <3>2. CASE j = ix
      BY <2>1, <2>3, <3>1, <3>2 DEF Holds
    <3>3. CASE j # ix
      <4>1. n # m
        BY <1>1, <2>1, <3>1, <3>3 DEF Once, Holds, Unique
      <4> QED BY <1>6, <2>1, <3>1, <3>3, <4>1
    <3> QED BY <3>2, <3>3
  <2> HIDE DEF p, m
  <2> QED BY <1>2, <2>7, <2>8 DEF Knows
<1> QED BY <1>4, <1>7, <1>8

LEMMA SetAgrees ==
  ASSUME NEW t, Good(t), NEW o, Agrees(t, o), NEW s \in Symbol, s.name \in Names,
         Nonlocal(s) \/ ~Undefined(s)
  PROVE  Agrees(Set(t, s), Append(o, s))
<1> DEFINE u == Set(t, s)
           p == Append(o, s)
           m == s.name
<1>1. /\ t.n \in Nat /\ t.syms \in Seq(Symbol) /\ t.n <= Len(t.syms) /\ Once(t)
      /\ Knows(t, o) /\ Counts(t, o) /\ Counted(t, o) /\ o \in Seq(Symbol)
  BY DEF Good, Tabs, Knows, Agrees
<1>2. Knows(u, p)
  BY <1>1, SetKnows
<1>3. \A j \in 1 .. t.n : t.syms[j] \in Symbol
  <2>1. \A j \in 1 .. t.n : j \in 1 .. Len(t.syms)
    BY <1>1
  <2> HIDE DEF Symbol
  <2> QED BY <1>1, <2>1
<1>4. Adds(t, u, s) \/ \E ix : Resolves(t, u, s, ix)
  BY SetEntries
<1>5. ASSUME NEW n \in Names, NEW j \in 1 .. t.n, Holds(t, j, n), ~(Nonlocal(s) /\ s.name = n)
      PROVE  CountsAs(p, n, t.syms[j])
  <2>1. CountsAs(o, n, t.syms[j])
    BY <1>1, <1>5 DEF Counts
  <2> QED BY <1>1, <1>5, <2>1, ElsewhereKnown
<1>6. \A n \in Names : ~(Nonlocal(s) /\ m = n) => (Conflict(p, n) <=> Conflict(o, n))
  BY <1>1, OtherName
<1>7. CASE Adds(t, u, s)
  <2> HIDE DEF u
  <2>1. /\ u.n = t.n + 1 /\ u.syms[t.n + 1] = s /\ \A j \in 1 .. t.n : u.syms[j] = t.syms[j]
        /\ Nonlocal(s) => \A j \in 1 .. t.n : ~Holds(t, j, m)
        /\ u.err <=> t.err
    BY <1>7 DEF Adds, Fresh, Holds, Unique
  <2>2. \A j \in 1 .. u.n : j \in 1 .. t.n \/ j = t.n + 1
    BY <1>1, <2>1
  <2>3. Nonlocal(s) => Offers(o, m) = {}
    BY <1>1, <2>1 DEF Knows
  <2>4. Nonlocal(s) => CountsAs(p, m, s) /\ (Conflict(p, m) <=> Conflict(o, m))
    BY <1>1, <2>3, FirstOffer
  <2>5. Counts(u, p)
    <3> SUFFICES ASSUME NEW n \in Names, NEW j \in 1 .. u.n, Holds(u, j, n)
                 PROVE  CountsAs(p, n, u.syms[j])
      BY DEF Counts
    <3>1. CASE j = t.n + 1
      BY <2>1, <2>4, <3>1 DEF Holds
    <3>2. CASE j \in 1 .. t.n
      <4>1. Holds(t, j, n) /\ u.syms[j] = t.syms[j]
        BY <2>1, <3>2 DEF Holds
      <4>2. ~(Nonlocal(s) /\ s.name = n)
        BY <2>1, <3>2, <4>1
      <4> QED BY <1>5, <3>2, <4>1, <4>2
    <3> QED BY <2>2, <3>1, <3>2
  <2>6. \A n \in Names : Conflict(p, n) <=> Conflict(o, n)
    BY <1>6, <2>4
  <2>7. Counted(u, p)
    BY <1>1, <2>1, <2>6 DEF Counted
  <2> HIDE DEF p
  <2>8. Agrees(u, p)
    BY <1>2, <2>5, <2>7 DEF Agrees
  <2> QED BY <2>8 DEF u, p
<1>8. ASSUME NEW ix, Resolves(t, u, s, ix) PROVE Agrees(u, p)
  <2> HIDE DEF u
  <2> DEFINE old == t.syms[ix]
  <2>1. /\ ix \in 1 .. t.n /\ Nonlocal(s) /\ Holds(t, ix, m) /\ u.n = t.n
        /\ u.err <=> t.err \/ (old # s /\ DefinedTwice(s, old))
        /\ u.syms[ix] = Result(s, old)
        /\ \A j \in 1 .. t.n : j # ix => u.syms[j] = t.syms[j]
    BY <1>8 DEF Resolves
  <2>2. old \in Symbol /\ KnownAs(o, m, old) /\ CountsAs(o, m, old) /\ old.name = m
    BY <1>1, <1>3, <2>1 DEF Knows, Counts, Holds
  <2>3. /\ CountsAs(p, m, Result(s, old))
        /\ Conflict(p, m) <=> Conflict(o, m) \/ (old # s /\ DefinedTwice(s, old))
    BY <1>1, <2>1, <2>2, FurtherCounts
  <2>4. Result(s, old).name = m /\ Nonlocal(Result(s, old))
    BY <2>1, <2>2 DEF Result, Symbol, Holds, Nonlocal
  <2>5. Counts(u, p)
    <3> SUFFICES ASSUME NEW n \in Names, NEW j \in 1 .. u.n, Holds(u, j, n)
                 PROVE  CountsAs(p, n, u.syms[j])
      BY DEF Counts
    <3>1. CASE j = ix
      <4>1. n = m
        BY <2>1, <2>4, <3>1 DEF Holds
      <4> QED BY <2>1, <2>3, <3>1, <4>1
    <3>2. CASE j # ix
      <4>1. Holds(t, j, n) /\ j \in 1 .. t.n /\ u.syms[j] = t.syms[j]
        BY <2>1, <3>2 DEF Holds
      <4>2. n # m
        BY <1>1, <2>1, <3>2, <4>1 DEF Once, Holds, Unique
      <4> QED BY <1>5, <4>1, <4>2
    <3> QED BY <3>1, <3>2
  <2> HIDE DEF old, p
  <2>6. Counted(u, p)
    <3>1. m \in Names
      OBVIOUS
    <3> HIDE DEF m
    <3> QED BY <1>1, <1>6, <2>1, <2>3, <3>1 DEF Counted
  <2> QED BY <1>2, <2>5, <2>6 DEF Agrees
<1> QED BY <1>4, <1>7, <1>8

-----------------------------------------------------------------------------
(* Merging a file.                                                         *)

(* The table while a file is parsed: hashing knows the entries before it.  *)
Earlier == [Tab EXCEPT !.n = first]
Named(syms, n) == \A j \in 1 .. n : syms[j].name \in Names
Parsed ==
  /\ symtab \in Seq(Symbol) /\ first \in 0 .. Len(symtab)
  /\ Named(symtab, Len(symtab)) /\ Good(Earlier)

MergeStates == [t : Tabs, tr : Seq(Nat)]

(* What was offered when i entries of the file were.                       *)
Given(i) == offered \o [k \in 1 .. i |-> Offer(symtab[first + k])]

(* After i entries of the file: the entries of earlier files are where     *)
(* they were, and tr tells where those of the file have gone.              *)
Traced(i, t, tr) ==
  /\ \A j \in 1 .. first : Keeps(symtab[j], t.syms[j])
  /\ \A j \in 1 .. i : Keeps(Offer(symtab[first + j]), t.syms[tr[j]])
  /\ (\A j \in 1 .. Len(symtab) : Clean(symtab[j])) => \A j \in 1 .. t.n : Clean(t.syms[j])

(* What was merged lies before what was read, and what is still to be read *)
(* is as it was parsed.                                                    *)
MergeOK(i, x) ==
  /\ x \in MergeStates /\ Good(x.t)
  /\ first <= x.t.n /\ x.t.n <= first + i /\ Len(x.t.syms) = Len(symtab)
  /\ \A j \in first + i + 1 .. Len(symtab) : x.t.syms[j] = symtab[j]
  /\ Named(x.t.syms, x.t.n)
  /\ Len(x.tr) = i /\ \A j \in 1 .. i : x.tr[j] \in 1 .. x.t.n
  /\ Agrees(Earlier, offered) => Agrees(x.t, Given(i))
  /\ Traced(i, x.t, x.tr)

MergeStep(i, x) ==
  LET t == Set(x.t, Offer(x.t.syms[first + i])) IN [t |-> t, tr |-> Append(x.tr, t.ix)]

LEMMA OfferFacts ==
  ASSUME NEW s \in Symbol
  PROVE  /\ Offer(s) \in Symbol /\ Offer(s).name = s.name
         /\ Nonlocal(Offer(s)) \/ ~Undefined(Offer(s))
BY DEF Offer, Symbol, Nonlocal, Undefined, Bindings

LEMMA KeepsStill ==
  ASSUME NEW r, NEW s, NEW q, Keeps(r, s), Keeps(s, q)
  PROVE  Keeps(r, q)
BY DEF Keeps, Alike

(* One more entry of the file goes where set_elf_sym() puts it.            *)
LEMMA TracedMore ==
  ASSUME Parsed, NEW i \in 1 .. Len(symtab) - first, NEW t, Good(t), first <= t.n,
         NEW p \in Seq(Nat), Len(p) = i - 1, \A j \in 1 .. i - 1 : p[j] \in 1 .. t.n,
         Traced(i - 1, t, p), NEW s, s = Offer(symtab[first + i])
  PROVE  Traced(i, Set(t, s), Append(p, Set(t, s).ix))
<1> DEFINE u == Set(t, s)
           ix == u.ix
           tr == Append(p, ix)
           L == Len(symtab)
<1>1. /\ L \in Nat /\ first \in Nat /\ first + i \in 1 .. L /\ i \in Nat /\ t.n \in Nat
      /\ \A j \in 1 .. L : symtab[j] \in Symbol
  <2>1. symtab \in Seq(Symbol) /\ first \in 0 .. Len(symtab) /\ t.n \in Nat
    BY DEF Parsed, Good, Tabs
  <2>2. \A j \in 1 .. L : symtab[j] \in Symbol
    <3> HIDE DEF Symbol
    <3> QED BY <2>1
  <2> QED BY <2>1, <2>2
<1> DEFINE r == symtab[first + i]
<1>2. r \in Symbol
  BY <1>1
<1> HIDE DEF L
<1>3. s \in Symbol /\ (Nonlocal(s) \/ ~Undefined(s)) /\ (Clean(r) => Clean(s))
  <2>1. s = Offer(r)
    OBVIOUS
  <2> HIDE DEF r
  <2>2. s \in Symbol /\ (Nonlocal(s) \/ ~Undefined(s))
    BY <1>2, <2>1, OfferFacts
  <2>3. s.shndx = r.shndx /\ s.value = r.value
    BY <1>2, <2>1 DEF Offer, Symbol
  <2> QED BY <2>2, <2>3 DEF Clean, Undefined
<1>4. /\ u.n \in Nat /\ t.n <= u.n /\ ix \in 1 .. u.n
      /\ \A j \in 1 .. t.n : Keeps(t.syms[j], u.syms[j])
      /\ Keeps(s, u.syms[ix])
      /\ Clean(s) /\ (\A j \in 1 .. t.n : Clean(t.syms[j])) =>
           \A j \in 1 .. u.n : Clean(u.syms[j])
  BY <1>3, SetPlaces
<1> HIDE DEF u, ix
<1>5. tr[i] = ix /\ \A j \in 1 .. i - 1 : tr[j] = p[j]
  <2>1. ix \in Nat
    BY <1>4
  <2> QED BY <1>1, <2>1
<1> HIDE DEF tr
<1>6. \A j \in 1 .. first : Keeps(symtab[j], u.syms[j])
  <2> TAKE j \in 1 .. first
  <2>1. j \in 1 .. t.n
    BY <1>1
  <2> QED BY <1>4, <2>1, KeepsStill DEF Traced
<1>7. \A j \in 1 .. i : Keeps(Offer(symtab[first + j]), u.syms[tr[j]])
  <2> TAKE j \in 1 .. i
  <2>1. j = i \/ j \in 1 .. i - 1
    BY <1>1
  <2>2. CASE j = i
    BY <1>4, <1>5, <2>2
  <2>3. CASE j \in 1 .. i - 1
    <3>1. Keeps(Offer(symtab[first + j]), t.syms[p[j]]) /\ p[j] \in 1 .. t.n
      BY <2>3 DEF Traced
    <3> QED BY <1>4, <1>5, <2>3, <3>1, KeepsStill
  <2> QED BY <2>1, <2>2, <2>3
<1>8. (\A j \in 1 .. L : Clean(symtab[j])) => \A j \in 1 .. u.n : Clean(u.syms[j])
  BY <1>1, <1>3, <1>4 DEF Traced, L
<1>9. Traced(i, u, tr)
  BY <1>6, <1>7, <1>8 DEF Traced, L
<1> QED BY <1>9 DEF tr, ix, u

LEMMA MoreAtEnd ==
  ASSUME NEW p \in Seq(Symbol), NEW q \in Seq(Symbol), NEW s \in Symbol
  PROVE  /\ p \o q \in Seq(Symbol)
         /\ p \o Append(q, s) = Append(p \o q, s)
         /\ p \o <<>> = p
<1> HIDE DEF Symbol
<1>1. p \o q \in Seq(Symbol) /\ p \o <<>> = p
  OBVIOUS
<1>2. p \o Append(q, s) = Append(p \o q, s)
  OBVIOUS
<1> QED BY <1>1, <1>2

LEMMA GivenFacts ==
  ASSUME Parsed, offered \in Seq(Symbol)
  PROVE  /\ Given(0) = offered
         /\ \A i \in 1 .. Len(symtab) - first :
              /\ Given(i - 1) \in Seq(Symbol)
              /\ Given(i) = Append(Given(i - 1), Offer(symtab[first + i]))
<1> DEFINE L == Len(symtab)
           F(k) == Offer(symtab[first + k])
           q(i) == [k \in 1 .. i |-> F(k)]
<1>1. L \in Nat /\ first \in Nat /\ first <= L /\ symtab \in Seq(Symbol)
  BY DEF Parsed
<1>2. \A k \in 1 .. L - first : F(k) \in Symbol
  <2> TAKE k \in 1 .. L - first
  <2>1. first + k \in 1 .. L
    BY <1>1
  <2>2. symtab[first + k] \in Symbol
    <3> HIDE DEF Symbol
    <3> QED BY <1>1, <2>1
  <2> QED BY <2>2, OfferFacts
<1>3. \A i : Given(i) = offered \o q(i)
  BY DEF Given
<1> HIDE DEF F, L
<1>4. Given(0) = offered
  <2>1. q(0) = <<>>
    OBVIOUS
  <2>2. offered \o <<>> = offered
    <3>1. <<>> \in Seq(Symbol)
      OBVIOUS
    <3> HIDE DEF Symbol
    <3> QED OBVIOUS
  <2> HIDE DEF q
  <2> QED BY <1>3, <2>1, <2>2
<1>5. ASSUME NEW i \in 1 .. L - first
      PROVE  Given(i - 1) \in Seq(Symbol) /\ Given(i) = Append(Given(i - 1), F(i))
  <2>1. \A k \in 1 .. i : F(k) \in Symbol
    BY <1>1, <1>2
  <2>2. q(i - 1) \in Seq(Symbol) /\ q(i) = Append(q(i - 1), F(i))
    <3>1. i - 1 \in Nat /\ i \in Nat
      BY <1>1
    <3> HIDE DEF Symbol
    <3>2. q(i - 1) \in Seq(Symbol) /\ Len(q(i - 1)) = i - 1
      BY <2>1, <3>1
    <3>3. \A k \in 1 .. i : q(i)[k] = Append(q(i - 1), F(i))[k]
      BY <2>1, <3>1, <3>2
    <3>4. q(i) \in Seq(Symbol) /\ Len(q(i)) = i
      BY <2>1, <3>1
    <3>5. Append(q(i - 1), F(i)) \in Seq(Symbol) /\ Len(Append(q(i - 1), F(i))) = i
      BY <2>1, <3>1, <3>2
    <3> DEFINE a == q(i)
               b == Append(q(i - 1), F(i))
    <3> HIDE DEF a, b
    <3>6. a \in Seq(Symbol) /\ b \in Seq(Symbol) /\ Len(a) = i /\ Len(b) = i
          /\ \A k \in 1 .. i : a[k] = b[k]
      BY <3>3, <3>4, <3>5 DEF a, b
    <3>7. a = b
      BY <3>1, <3>6
    <3> QED BY <3>2, <3>7 DEF a, b
  <2>3. F(i) \in Symbol
    BY <1>2
  <2> HIDE DEF q
  <2>4. offered \o q(i - 1) \in Seq(Symbol)
        /\ offered \o Append(q(i - 1), F(i)) = Append(offered \o q(i - 1), F(i))
    BY <2>2, <2>3, MoreAtEnd
  <2> QED BY <1>3, <2>2, <2>4
<1> QED BY <1>4, <1>5 DEF F, L

LEMMA MergeStart ==
  ASSUME Parsed
  PROVE  MergeOK(0, [t |-> Earlier, tr |-> <<>>])
<1> DEFINE x == [t |-> Earlier, tr |-> <<>>]
<1>1. /\ Earlier \in Tabs /\ Earlier.n = first /\ Earlier.syms = symtab /\ Good(Earlier)
  BY DEF Parsed, Good, Earlier, Tab
<1>2. x \in MergeStates /\ x.t = Earlier /\ x.tr = <<>> /\ Len(x.tr) = 0
  BY <1>1 DEF MergeStates
<1> HIDE DEF x
<1>3. first \in Nat /\ first <= first + 0 /\ first <= first
      /\ \A j \in 1 .. first : j \in 1 .. Len(symtab)
  BY DEF Parsed
<1>4. Named(symtab, first)
  BY <1>3 DEF Parsed, Named
<1>5. Agrees(Earlier, offered) => Agrees(Earlier, Given(0))
  BY GivenFacts DEF Agrees, Knows
<1> HIDE DEF Earlier
<1>5a. Traced(0, Earlier, <<>>)
  BY <1>1, <1>3 DEF Traced, Keeps, Alike
<1>6. MergeOK(0, x)
  BY <1>1, <1>2, <1>3, <1>4, <1>5, <1>5a DEF MergeOK
<1> QED BY <1>6 DEF x

LEMMA MergeStepFacts ==
  ASSUME Parsed, NEW i \in 1 .. Len(symtab) - first, NEW x, MergeOK(i - 1, x)
  PROVE  MergeOK(i, MergeStep(i, x))
<1> DEFINE L == Len(symtab)
           t == x.t
           s == Offer(t.syms[first + i])
           u == Set(t, s)
           tr == Append(x.tr, u.ix)
           y == [t |-> u, tr |-> tr]
<1>1. L \in Nat /\ first \in Nat /\ first <= L /\ i \in Nat /\ first + i \in 1 .. L
      /\ symtab \in Seq(Symbol)
  BY DEF Parsed
<1>2. /\ t \in Tabs /\ Good(t) /\ first <= t.n /\ t.n <= first + (i - 1) /\ Len(t.syms) = L
      /\ \A j \in first + (i - 1) + 1 .. L : t.syms[j] = symtab[j]
      /\ Named(t.syms, t.n) /\ x.tr \in Seq(Nat)
      /\ Len(x.tr) = i - 1 /\ \A j \in 1 .. i - 1 : x.tr[j] \in 1 .. t.n
      /\ Traced(i - 1, t, x.tr)
  BY DEF MergeOK, MergeStates
<1>2a. t.n \in Nat
  BY <1>2 DEF Tabs
<1> HIDE DEF t, L
<1>3. t.syms[first + i] = symtab[first + i]
  BY <1>1, <1>2
<1>4. symtab[first + i] \in Symbol /\ symtab[first + i].name \in Names
  BY <1>1 DEF Parsed, Named, L
<1>5. s \in Symbol /\ s.name \in Names /\ (Nonlocal(s) \/ ~Undefined(s))
  BY <1>3, <1>4, OfferFacts
<1> HIDE DEF s
<1>6. Offered(t, u, s)
  BY <1>2, <1>5, SetFacts
<1>6a. Agrees(Earlier, offered) => Agrees(u, Given(i))
  <2> SUFFICES ASSUME Agrees(Earlier, offered) PROVE Agrees(u, Given(i))
    OBVIOUS
  <2> HIDE DEF u
  <2>1. Agrees(t, Given(i - 1))
    BY DEF MergeOK, t
  <2>2. Given(i) = Append(Given(i - 1), s)
    <3>1. offered \in Seq(Symbol)
      BY DEF Agrees, Knows
    <3> QED BY <1>3, <3>1, GivenFacts DEF s
  <2>3. Agrees(Set(t, s), Append(Given(i - 1), s))
    BY <1>2, <1>5, <2>1, SetAgrees
  <2> QED BY <2>2, <2>3 DEF u
<1>6b. Traced(i, u, tr)
  <2>1. s = Offer(symtab[first + i])
    BY <1>3 DEF s
  <2> QED BY <1>2, <2>1, TracedMore
<1> HIDE DEF u
<1>7. /\ u \in Tabs /\ Good(u) /\ u.n \in {t.n, t.n + 1} /\ u.n <= Len(u.syms)
      /\ Len(u.syms) = IF u.n <= L THEN L ELSE u.n
      /\ \A j \in 1 .. t.n : Alike(t.syms[j], u.syms[j])
      /\ \A j \in u.n + 1 .. L : u.syms[j] = t.syms[j]
      /\ u.ix \in 1 .. u.n
      /\ u.n = t.n + 1 => Alike(u.syms[u.n], s)
  BY <1>2, <1>6 DEF Offered, Grown
<1>8. u.n \in Nat /\ first <= u.n /\ u.n <= first + i /\ u.n <= L /\ Len(u.syms) = L
      /\ u.ix \in Nat
  <2>1. u.n \in Nat /\ first <= u.n /\ u.n <= first + i
    <3>1. first <= t.n /\ t.n <= first + (i - 1) /\ u.n \in {t.n, t.n + 1}
      BY <1>2, <1>7
    <3> QED BY <1>1, <1>2a, <3>1
  <2>2. first + i <= L
    BY <1>1
  <2>3. u.n <= L
    BY <1>1, <2>1, <2>2
  <2>4. Len(u.syms) = L
    BY <1>7, <2>3
  <2>5. u.ix \in Nat
    <3>1. u.ix \in 1 .. u.n
      BY <1>7
    <3> QED BY <2>1, <3>1
  <2> QED BY <2>1, <2>3, <2>4, <2>5
<1>9. \A j \in first + i + 1 .. L : u.syms[j] = symtab[j]
  <2> TAKE j \in first + i + 1 .. L
  <2>1. j \in u.n + 1 .. L /\ j \in first + (i - 1) + 1 .. L
    BY <1>1, <1>8
  <2> QED BY <1>2, <1>7, <2>1
<1>10. Named(u.syms, u.n)
  <2> SUFFICES ASSUME NEW j \in 1 .. u.n PROVE u.syms[j].name \in Names
    BY DEF Named
  <2>1. j \in 1 .. t.n \/ (j = u.n /\ u.n = t.n + 1)
    BY <1>2a, <1>7
  <2> QED BY <1>2, <1>5, <1>7, <2>1 DEF Named, Alike
<1>11. tr \in Seq(Nat) /\ Len(tr) = i /\ \A j \in 1 .. i : tr[j] \in 1 .. u.n
  <2> DEFINE p == x.tr
             ix == u.ix
  <2>0. p \in Seq(Nat) /\ ix \in Nat /\ Len(p) = i - 1
    BY <1>2, <1>8
  <2> HIDE DEF p, ix
  <2>1. /\ Append(p, ix) \in Seq(Nat) /\ Len(Append(p, ix)) = i /\ Append(p, ix)[i] = ix
        /\ \A j \in 1 .. i - 1 : Append(p, ix)[j] = p[j]
    BY <1>1, <2>0
  <2>1a. tr = Append(p, ix)
    BY DEF p, ix
  <2> HIDE DEF tr
  <2>2. ASSUME NEW j \in 1 .. i PROVE tr[j] \in 1 .. u.n
    <3>1. j = i \/ j \in 1 .. i - 1
      BY <1>1
    <3>2. \A k \in 1 .. t.n : k \in 1 .. u.n
      BY <1>2a, <1>7
    <3> QED BY <1>2, <1>7, <2>1, <2>1a, <3>1, <3>2 DEF p, ix
  <2> QED BY <2>1, <2>1a, <2>2
<1> HIDE DEF tr
<1>12. y \in MergeStates /\ y.t = u /\ y.tr = tr
  BY <1>7, <1>11 DEF MergeStates
<1> HIDE DEF y
<1>13. MergeOK(i, y)
  BY <1>6a, <1>6b, <1>7, <1>8, <1>9, <1>10, <1>11, <1>12 DEF MergeOK, L
<1> QED BY <1>13 DEF MergeStep, y, tr, u, s, t

LEMMA MergeFacts ==
  ASSUME Parsed
  PROVE  MergeOK(Len(symtab) - first, Merge)
<1> DEFINE n == Len(symtab) - first
           J == [i \in 0 .. n |-> {x \in MergeStates : MergeOK(i, x)}]
           start == [t |-> Earlier, tr |-> <<>>]
           step == [i \in 1 .. n |-> [x \in J[i - 1] |-> MergeStep(i, x)]]
           Value(g, i) == IF i = 0 THEN start ELSE MergeStep(i, g[i - 1])
           at == CHOOSE g : g = [i \in 0 .. n |-> Value(g, i)]
<1>1. n \in Nat
  BY DEF Parsed
<1>2. Merge = at[n]
  BY DEF Merge, MergeStep, Earlier
<1>3. start \in MergeStates /\ MergeOK(0, start)
  BY MergeStart DEF MergeOK
<1>4. \A i \in 1 .. n : \A x : MergeOK(i - 1, x) => MergeOK(i, MergeStep(i, x))
  BY MergeStepFacts
<1> HIDE DEF n, start
<1>5. start \in J[0]
  BY <1>1, <1>3, 0 \in 0 .. n
<1>6. \A i \in 0 .. n : \A x : x \in J[i] <=> MergeOK(i, x)
  BY DEF MergeOK
<1> HIDE DEF J
<1>7. ASSUME NEW i \in 1 .. n, NEW x \in J[i - 1] PROVE MergeStep(i, x) \in J[i]
  BY <1>1, <1>4, <1>6, i \in 0 .. n, i - 1 \in 0 .. n
<1>8. Leads(n, J, step)
  <2> SUFFICES \A i \in 1 .. n : \A x \in J[i - 1] : step[i][x] \in J[i]
    BY DEF Leads
  <2> TAKE i \in 1 .. n
  <2> TAKE x \in J[i - 1]
  <2>1. step[i][x] = MergeStep(i, x)
    OBVIOUS
  <2> HIDE DEF step
  <2> QED BY <1>7, <2>1
<1>9. PICK f : FollowsWithin(f, n, J, start, step)
  <2> HIDE DEF step
  <2> QED BY <1>1, <1>5, <1>8, RecursionWithin
<1>10. /\ f = [i \in 0 .. n |-> f[i]] /\ f[0] = start
       /\ \A i \in 1 .. n : f[i] = step[i][f[i - 1]]
       /\ \A i \in 0 .. n : f[i] \in J[i]
  <2> HIDE DEF step
  <2> QED BY <1>9 DEF FollowsWithin
<1>11. f = [i \in 0 .. n |-> Value(f, i)]
  <2>1. \A i \in 0 .. n : f[i] = Value(f, i)
    <3> TAKE i \in 0 .. n
    <3>1. CASE i # 0
      <4>1. i \in 1 .. n /\ i - 1 \in 0 .. n
        BY <1>1, <3>1
      <4>2. f[i] = MergeStep(i, f[i - 1])
        BY <1>10, <4>1
      <4> QED BY <3>1, <4>2
    <3> QED BY <1>10, <3>1
  <2> HIDE DEF Value, step
  <2> QED BY <1>10, <2>1
<1>12. at = [i \in 0 .. n |-> Value(at, i)]
  BY <1>11
<1> HIDE DEF at
<1> DEFINE S == {i \in 0 .. n : at[i] \in J[i]}
<1>13. 0 .. n \subseteq S
  <2>1. 0 \in S
    <3>1. at[0] = start
      BY <1>1, <1>12
    <3> QED BY <1>1, <1>5, <3>1
  <2>2. ASSUME NEW i \in 1 .. n, i - 1 \in S PROVE i \in S
    <3>1. at[i] = MergeStep(i, at[i - 1]) /\ i \in 0 .. n
      BY <1>12, i \in 0 .. n, i # 0
    <3>2. at[i - 1] \in J[i - 1]
      BY <2>2
    <3> QED BY <1>7, <3>1, <3>2
  <2> HIDE DEF S
  <2> QED BY <1>1, <2>1, <2>2, RangeInduction
<1>14. MergeOK(n, at[n])
  BY <1>1, <1>6, <1>13, n \in 0 .. n
<1> QED BY <1>2, <1>14 DEF n

-----------------------------------------------------------------------------
(* The global offset table.                                                *)

Entry == [plt : Nat, got : Nat]
EntryMaps == UNION {[D -> Entry] : D \in SUBSET Nat}
Rel == [ix : Nat, type : Types, for : AllNames \X BOOLEAN \X Nat]
GotStates == [t : Tabs, rels : Seq(Rel), got : Seq(Nat), attrs : EntryMaps, built : BOOLEAN]

(* The linker's own symbols are defined, and were added behind those of    *)
(* the program.                                                            *)
Own(t, g) ==
  /\ g.t.err <=> t.err
  /\ \A j \in 1 .. t.n : g.t.syms[j] = t.syms[j]
  /\ \A j \in t.n + 1 .. g.t.n : ~Undefined(g.t.syms[j])
  /\ g.built \/ \A j \in 1 .. g.t.n : g.t.syms[j].name # GotName

(* The slots entry a stands for lead to symbol ix: the one of the GOT, and *)
(* the one its symbol of the PLT names.                                    *)
Slot(g, ix, a) ==
  /\ a.got # 0 => a.got \in DOMAIN g.got /\ g.got[a.got] = ix
  /\ a.plt # 0 => /\ a.plt \in 1 .. g.t.n /\ g.t.syms[a.plt].shndx = "plt"
                  /\ g.t.syms[a.plt].value \in DOMAIN g.got /\ g.got[g.t.syms[a.plt].value] = ix
Slots(g) == \A ix \in DOMAIN g.attrs : Slot(g, ix, g.attrs[ix])

(* Relocation r leads to symbol ix: directly, with a slot of the GOT if it *)
(* is needed by now, or through the PLT.                                   *)
Goes(g, r, ix, needed) ==
  \/ r.ix = ix /\ (needed /\ r.type = "gotpcrel" => ix \in DOMAIN g.attrs /\ g.attrs[ix].got # 0)
  \/ /\ r.ix \in 1 .. g.t.n /\ g.t.syms[r.ix].shndx = "plt"
     /\ g.t.syms[r.ix].value \in DOMAIN g.got /\ g.got[g.t.syms[r.ix].value] = ix

(* After k steps, each relocation leads where it did before.               *)
Routed(k, g) ==
  /\ Slots(g)
  /\ \A i \in 1 .. Len(rels) :
       /\ g.rels[i].for = rels[i].for
       /\ Goes(g, g.rels[i], rels[i].ix, i + Len(rels) <= k)

(* The table was t before, and the first k relocations of the two passes   *)
(* are done.                                                               *)
GotOK(t, k, g) ==
  /\ g \in GotStates /\ Good(g.t) /\ t.n <= g.t.n
  /\ \A j \in 1 .. t.n : Alike(t.syms[j], g.t.syms[j])
  /\ \A ix \in DOMAIN g.attrs : g.attrs[ix].plt <= g.t.n
  /\ Len(g.rels) = Len(rels)
  /\ \A i \in 1 .. Len(rels) : g.rels[i].ix \in 1 .. g.t.n /\ (i > k => g.rels[i] = rels[i])
  /\ \A i \in DOMAIN g.got : g.got[i] \in 1 .. g.t.n
  /\ GotName \notin Names => Own(t, g) /\ Routed(k, g)

(* Symbols, slots and entries have come behind those of g.                 *)
Extends(g, d) ==
  /\ g.t.n \in Nat /\ d.t.n \in Nat /\ g.t.n <= d.t.n
  /\ \A j \in 1 .. g.t.n : d.t.syms[j] = g.t.syms[j]
  /\ \A i \in DOMAIN g.got : i \in DOMAIN d.got /\ d.got[i] = g.got[i]

LEMMA SlotStays ==
  ASSUME NEW g, NEW d, Extends(g, d), NEW ix, NEW a, Slot(g, ix, a)
  PROVE  Slot(d, ix, a)
<1>1. \A j \in 1 .. g.t.n : j \in 1 .. d.t.n /\ d.t.syms[j] = g.t.syms[j]
  BY DEF Extends
<1>2. \A i \in DOMAIN g.got : i \in DOMAIN d.got /\ d.got[i] = g.got[i]
  BY DEF Extends
<1> QED BY <1>1, <1>2 DEF Slot

LEMMA RoutesStay ==
  ASSUME NEW k, NEW g, Routed(k, g), NEW d, Extends(g, d), d.rels = g.rels,
         \A ix \in DOMAIN g.attrs :
           ix \in DOMAIN d.attrs /\ (g.attrs[ix].got # 0 => d.attrs[ix].got # 0),
         \A ix \in DOMAIN d.attrs :
           \/ ix \in DOMAIN g.attrs /\ d.attrs[ix] = g.attrs[ix]
           \/ Slot(d, ix, d.attrs[ix])
  PROVE  Routed(k, d)
<1>1. \A j \in 1 .. g.t.n : j \in 1 .. d.t.n /\ d.t.syms[j] = g.t.syms[j]
  BY DEF Extends
<1>2. \A i \in DOMAIN g.got : i \in DOMAIN d.got /\ d.got[i] = g.got[i]
  BY DEF Extends
<1>3. Slots(d)
  BY SlotStays DEF Slots, Routed
<1>4. ASSUME NEW r, NEW ix, NEW needed \in BOOLEAN, Goes(g, r, ix, needed)
      PROVE  Goes(d, r, ix, needed)
  BY <1>1, <1>2, <1>4 DEF Goes
<1>5. ASSUME NEW i \in 1 .. Len(rels)
      PROVE  d.rels[i].for = rels[i].for /\ Goes(d, d.rels[i], rels[i].ix, i + Len(rels) <= k)
  <2> DEFINE needed == i + Len(rels) <= k
  <2>1. needed \in BOOLEAN
    OBVIOUS
  <2>2. g.rels[i].for = rels[i].for /\ Goes(g, g.rels[i], rels[i].ix, needed)
    BY DEF Routed
  <2> HIDE DEF needed
  <2>3. Goes(d, g.rels[i], rels[i].ix, needed)
    BY <1>4, <2>1, <2>2
  <2> QED BY <2>2, <2>3 DEF needed
<1> QED BY <1>3, <1>5 DEF Routed

LEMMA OwnAdded ==
  ASSUME NEW t, t.n \in Nat, NEW g, Own(t, g), g.t.n \in Nat, t.n <= g.t.n,
         NEW s, ~Undefined(s), NEW d, Adds(g.t, d.t, s), g.built => d.built,
         d.built \/ s.name # GotName
  PROVE  Own(t, d)
<1>1. /\ d.t.n = g.t.n + 1 /\ (d.t.err <=> g.t.err) /\ d.t.syms[g.t.n + 1] = s
      /\ \A j \in 1 .. g.t.n : d.t.syms[j] = g.t.syms[j]
  BY DEF Adds
<1>2. \A j \in 1 .. d.t.n : j = g.t.n + 1 \/ j \in 1 .. g.t.n
  BY <1>1
<1>3. \A j \in 1 .. t.n : j \in 1 .. g.t.n
  OBVIOUS
<1>4. \A j \in t.n + 1 .. d.t.n : j = g.t.n + 1 \/ (j \in 1 .. g.t.n /\ j \in t.n + 1 .. g.t.n)
  BY <1>1
<1> QED BY <1>1, <1>2, <1>3, <1>4 DEF Own

(* What may be done to the table while its entries stay where they are.    *)
LEMMA GotGrows ==
  ASSUME NEW t, t.n \in Nat, NEW k, NEW g, GotOK(t, k, g), NEW u, Good(u), Grown(g.t, u)
  PROVE  /\ t.n <= u.n /\ \A j \in 1 .. t.n : Alike(t.syms[j], u.syms[j])
         /\ \A ix \in DOMAIN g.attrs : g.attrs[ix].plt <= u.n
         /\ \A i \in 1 .. Len(rels) :
              g.rels[i].ix \in 1 .. u.n /\ (i > k => g.rels[i] = rels[i])
         /\ \A i \in DOMAIN g.got : g.got[i] \in 1 .. u.n
<1>1. /\ g.t.n \in Nat /\ u.n \in Nat /\ g.t.n <= u.n /\ t.n <= g.t.n
      /\ \A j \in 1 .. g.t.n : Alike(g.t.syms[j], u.syms[j])
  BY DEF GotOK, Good, Tabs, Grown
<1>2. /\ \A j \in 1 .. g.t.n : j \in 1 .. u.n
      /\ \A j \in 1 .. t.n : j \in 1 .. g.t.n
  BY <1>1
<1>3. t.n <= u.n /\ \A j \in 1 .. t.n : Alike(t.syms[j], u.syms[j])
  BY <1>1, <1>2 DEF GotOK, Alike
<1>4. \A ix \in DOMAIN g.attrs : g.attrs[ix].plt <= u.n
  <2>1. \A ix \in DOMAIN g.attrs : g.attrs[ix].plt <= g.t.n /\ g.attrs[ix].plt \in Nat
    <3>1. PICK D \in SUBSET Nat : g.attrs \in [D -> Entry]
      BY DEF GotOK, GotStates, EntryMaps
    <3> QED BY <3>1 DEF GotOK, Entry
  <2> QED BY <1>1, <2>1
<1>5. \A i \in 1 .. Len(rels) : g.rels[i].ix \in 1 .. u.n /\ (i > k => g.rels[i] = rels[i])
  BY <1>2 DEF GotOK
<1>6. \A i \in DOMAIN g.got : g.got[i] \in 1 .. u.n
  BY <1>2 DEF GotOK
<1> QED BY <1>3, <1>4, <1>5, <1>6

LEMMA GlobalSymFacts ==
  ASSUME NEW name \in AllNames, NEW shndx \in Shndx, NEW value \in Nat
  PROVE  LET s == GlobalSym(name, shndx, value)
         IN /\ s \in Symbol /\ Nonlocal(s) /\ s.name = name /\ s.type = "notype"
            /\ s.bind = "global" /\ s.vis = "default" /\ s.shndx = shndx
BY DEF GlobalSym, Symbol, Bindings, Visibilities, Nonlocal

LEMMA BuildGotFacts ==
  ASSUME NEW t, t.n \in Nat, NEW k, NEW g, GotOK(t, k, g)
  PROVE  GotOK(t, k, BuildGot(g)) /\ BuildGot(g).rels = g.rels
<1>1. CASE g.built
  BY <1>1 DEF BuildGot
<1>2. CASE ~g.built
  <2> DEFINE s == GlobalSym(GotName, "got", 0)
             u == Set(g.t, s)
             e == [g EXCEPT !.built = TRUE, !.t = u]
  <2>1. BuildGot(g) = e
    BY <1>2 DEF BuildGot
  <2>2. s \in Symbol /\ Nonlocal(s) /\ s.name = GotName
    <3>1. GotName \in AllNames /\ "got" \in Shndx /\ 0 \in Nat
      BY DEF AllNames, Shndx, Sections
    <3> HIDE DEF s
    <3> QED BY <3>1, GlobalSymFacts DEF s
  <2> HIDE DEF s
  <2>3. Good(g.t) /\ g \in GotStates /\ Len(g.rels) = Len(rels)
    BY DEF GotOK
  <2>4. Offered(g.t, u, s)
    BY <2>2, <2>3, SetFacts
  <2> HIDE DEF u
  <2>5. Good(u) /\ Grown(g.t, u) /\ u \in Tabs /\ (u.n = g.t.n + 1 => u.syms[u.n].name = GotName)
    BY <2>2, <2>4 DEF Offered, Grown, Alike
  <2>8. e \in GotStates /\ e.t = u /\ e.rels = g.rels /\ e.got = g.got /\ e.attrs = g.attrs
        /\ e.built
    BY <2>3, <2>5 DEF GotStates
  <2> HIDE DEF e
  <2>8a. GotName \notin Names => Own(t, e) /\ Routed(k, e)
    <3> SUFFICES ASSUME GotName \notin Names PROVE Own(t, e) /\ Routed(k, e)
      OBVIOUS
    <3>1. /\ Own(t, g) /\ Routed(k, g) /\ t.n <= g.t.n /\ g.t.n \in Nat
          /\ \A j \in 1 .. g.t.n : g.t.syms[j].name # GotName
      BY <1>2 DEF GotOK, Own, Good, Tabs
    <3>2. Adds(g.t, u, s)
      <4>1. ~\E ix : Resolves(g.t, u, s, ix)
        BY <2>2, <3>1 DEF Resolves, Holds
      <4>2. Adds(g.t, Set(g.t, s), s) \/ \E ix : Resolves(g.t, Set(g.t, s), s, ix)
        BY <2>2, <2>3, SetEntries
      <4> QED BY <4>1, <4>2 DEF u
    <3>3. ~Undefined(s)
      BY DEF s, GlobalSym, Undefined
    <3>4. Own(t, e)
      BY <2>8, <3>1, <3>2, <3>3, OwnAdded
    <3>5. Extends(g, e)
      <4>1. u.n = g.t.n + 1 /\ \A j \in 1 .. g.t.n : u.syms[j] = g.t.syms[j]
        BY <3>2 DEF Adds
      <4> QED BY <2>8, <3>1, <4>1 DEF Extends
    <3>6. Routed(k, e)
      BY <2>8, <3>1, <3>5, RoutesStay
    <3> QED BY <3>4, <3>6
  <2>9. GotOK(t, k, e)
    <3>1. /\ t.n <= u.n /\ \A j \in 1 .. t.n : Alike(t.syms[j], u.syms[j])
          /\ \A ix \in DOMAIN g.attrs : g.attrs[ix].plt <= u.n
          /\ \A i \in 1 .. Len(rels) :
               g.rels[i].ix \in 1 .. u.n /\ (i > k => g.rels[i] = rels[i])
          /\ \A i \in DOMAIN g.got : g.got[i] \in 1 .. u.n
      BY <2>5, GotGrows, Zenon
    <3> QED BY <2>3, <2>5, <2>8, <2>8a, <3>1 DEF GotOK
  <2> QED BY <2>1, <2>8, <2>9
<1> QED BY <1>1, <1>2

LEMMA EntryFacts ==
  ASSUME NEW g \in GotStates, NEW ix \in Nat
  PROVE  /\ EntryFor(g, ix) \in Entry
         /\ ix \in DOMAIN g.attrs => EntryFor(g, ix) = g.attrs[ix]
         /\ ix \notin DOMAIN g.attrs => EntryFor(g, ix).plt = 0 /\ EntryFor(g, ix).got = 0
<1>1. PICK D \in SUBSET Nat : g.attrs \in [D -> Entry]
  BY DEF GotStates, EntryMaps
<1> QED BY <1>1 DEF EntryFor, Entry

IsWith(f, ix, a, e) ==
  /\ e \in EntryMaps /\ DOMAIN e = {ix} \cup DOMAIN f /\ e[ix] = a
  /\ \A z \in DOMAIN f : z # ix => e[z] = f[z]

LEMMA WithEntry ==
  ASSUME NEW f \in EntryMaps, NEW ix \in Nat, NEW a \in Entry
  PROVE  IsWith(f, ix, a, With(f, ix, a))
<1> DEFINE e == With(f, ix, a)
<1>1. PICK D \in SUBSET Nat : f \in [D -> Entry]
  BY DEF EntryMaps
<1>2. /\ e \in [{ix} \cup D -> Entry] /\ e[ix] = a
      /\ \A z \in D : z # ix => e[z] = f[z]
  BY <1>1 DEF With
<1>3. {ix} \cup D \in SUBSET Nat
  OBVIOUS
<1>4. e \in EntryMaps
  BY <1>2, <1>3, Zenon DEF EntryMaps
<1>5. IsWith(f, ix, a, e)
  <2> HIDE DEF e
  <2> QED BY <1>1, <1>2, <1>4 DEF IsWith
<1> QED BY <1>5

(* A call's entry: "n@plt" is no C name.                                   *)
LEMMA PutCallFacts ==
  ASSUME NEW t, t.n \in Nat, NEW k, NEW g, GotOK(t, k, g), NEW ix \in 1 .. t.n,
         Nonlocal(t.syms[ix]), t.syms[ix].name \in Names
  PROVE  LET e == PutGotEntry(g, TRUE, ix)
         IN /\ GotOK(t, k, e) /\ e.rels = g.rels
            /\ ix \in DOMAIN e.attrs /\ e.attrs[ix].plt \in 1 .. e.t.n
<1> DEFINE e == PutGotEntry(g, TRUE, ix)
           attr == EntryFor(g, ix)
           slot == Len(g.got) + 1
           m == g.t.syms[ix].name
           s == GlobalSym(Plt[m], "plt", slot)
           u == Put(g.t, s)
<1>1. /\ g \in GotStates /\ Good(g.t) /\ g.t \in Tabs /\ t.n <= g.t.n /\ g.t.n \in Nat
      /\ Len(g.rels) = Len(rels)
  BY DEF GotOK, Good, Tabs
<1>2. ix \in Nat /\ ix \in 1 .. g.t.n
  BY <1>1
<1>3. Nonlocal(g.t.syms[ix]) /\ m \in Names
  BY DEF GotOK, Alike
<1>4. /\ attr \in Entry
      /\ ix \in DOMAIN g.attrs => attr = g.attrs[ix]
      /\ ix \notin DOMAIN g.attrs => attr.plt = 0 /\ attr.got = 0
  BY <1>1, <1>2, EntryFacts
<1> HIDE DEF attr, m
<1>5. CASE attr.plt # 0
  <2>1. e = g
    BY <1>5 DEF PutGotEntry, attr
  <2>2. ix \in DOMAIN g.attrs /\ attr = g.attrs[ix]
    BY <1>4, <1>5
  <2>3. g.attrs[ix].plt <= g.t.n
    BY <2>2 DEF GotOK
  <2>4. attr.plt \in 1 .. g.t.n
    BY <1>1, <1>4, <1>5, <2>2, <2>3 DEF Entry
  <2> HIDE DEF e
  <2> QED BY <2>1, <2>2, <2>4 DEF e
<1>6. CASE attr.plt = 0
  <2>1. slot \in Nat
    BY <1>1 DEF GotStates
  <2> HIDE DEF slot
  <2>2. s \in Symbol /\ Nonlocal(s) /\ s.name = Plt[m]
    <3>1. Plt[m] \in AllNames /\ "plt" \in Shndx
      BY <1>3 DEF AllNames, Shndx, Sections
    <3> HIDE DEF s
    <3> QED BY <2>1, <3>1, GlobalSymFacts DEF s
  <2> HIDE DEF s
  <2>3. Fresh(g.t, s)
    <3>1. s.name \notin Unique
      BY <1>3, <2>2, PltAssumption DEF Unique
    <3> QED BY <2>2, <3>1 DEF Fresh
  <2>4. Good(u) /\ Enlarged(g.t, u, s)
    BY <1>1, <2>2, <2>3, PutKeeps
  <2> HIDE DEF u
  <2>5. /\ u \in Tabs /\ Grown(g.t, u) /\ u.n = g.t.n + 1 /\ u.ix = g.t.n + 1 /\ u.syms[u.n] = s
        /\ \A j \in 1 .. g.t.n : u.syms[j] = g.t.syms[j]
    BY <2>4 DEF Enlarged, Grown
  <2> DEFINE a == [attr EXCEPT !.plt = u.ix]
             bs == With(g.attrs, ix, a)
             d == [g EXCEPT !.got = Append(g.got, ix), !.t = u, !.attrs = bs]
  <2>6. a \in Entry /\ a.plt = u.n /\ a.plt # 0 /\ a.got = attr.got
    BY <1>1, <1>4, <2>5 DEF Entry
  <2>7. e = d
    BY <1>6 DEF PutGotEntry, attr, u, s, slot, m
  <2> HIDE DEF a
  <2>8. /\ bs \in EntryMaps /\ DOMAIN bs = {ix} \cup DOMAIN g.attrs /\ bs[ix] = a
        /\ \A z \in DOMAIN g.attrs : z # ix => bs[z] = g.attrs[z]
    <3>1. g.attrs \in EntryMaps
      BY <1>1 DEF GotStates
    <3>2. IsWith(g.attrs, ix, a, bs)
      BY <1>2, <2>6, <3>1, WithEntry
    <3> HIDE DEF bs
    <3> QED BY <3>2 DEF IsWith
  <2> HIDE DEF bs
  <2>13. Append(g.got, ix) \in Seq(Nat)
         /\ \A i \in DOMAIN Append(g.got, ix) : Append(g.got, ix)[i] \in 1 .. u.n
    <3>1. g.got \in Seq(Nat) /\ \A i \in DOMAIN g.got : g.got[i] \in 1 .. g.t.n
      BY DEF GotOK, GotStates
    <3> DEFINE p == g.got
    <3>2. p \in Seq(Nat) /\ \A i \in 1 .. Len(p) : p[i] \in 1 .. u.n
      BY <1>1, <2>5, <3>1
    <3>3. ix \in 1 .. u.n
      BY <1>1, <1>2, <2>5
    <3> HIDE DEF p
    <3>4. Append(p, ix) \in Seq(Nat)
          /\ \A i \in DOMAIN Append(p, ix) : Append(p, ix)[i] \in 1 .. u.n
      BY <1>2, <3>2, <3>3
    <3> QED BY <3>4 DEF p
  <2>14. d \in GotStates /\ d.t = u /\ d.rels = g.rels /\ d.got = Append(g.got, ix) /\ d.attrs = bs
         /\ d.built = g.built
    <3> DEFINE q == Append(g.got, ix)
    <3>1. q \in Seq(Nat)
      BY <2>13
    <3> HIDE DEF q
    <3>2. d = [g EXCEPT !.got = q, !.t = u, !.attrs = bs]
      BY DEF q
    <3> HIDE DEF d
    <3> QED BY <1>1, <2>5, <2>8, <3>1, <3>2 DEF GotStates, q
  <2> HIDE DEF d
  <2>15. \A x \in DOMAIN bs : bs[x].plt <= u.n
    <3> TAKE x \in DOMAIN bs
    <3>1. CASE x = ix
      BY <2>5, <2>6, <2>8, <3>1 DEF Tabs
    <3>2. CASE x # ix
      <4>1. \A z \in DOMAIN g.attrs : g.attrs[z].plt <= u.n
        BY <2>4, <2>5, GotGrows, Zenon
      <4> QED BY <2>8, <3>2, <4>1
    <3> QED BY <3>1, <3>2
  <2>15a. GotName \notin Names => Own(t, d) /\ Routed(k, d)
    <3> SUFFICES ASSUME GotName \notin Names PROVE Own(t, d) /\ Routed(k, d)
      OBVIOUS
    <3>1. Own(t, g) /\ Routed(k, g)
      BY DEF GotOK
    <3>2. Adds(g.t, d.t, s)
      BY <2>3, <2>4, <2>14 DEF Adds, Enlarged
    <3>3. ~Undefined(s)
      BY DEF s, GlobalSym, Undefined
    <3>4. s.name # GotName
      BY <1>3, <2>2, PltAssumption
    <3>5. Own(t, d)
      BY <1>1, <2>14, <3>1, <3>2, <3>3, <3>4, OwnAdded
    <3> DEFINE p == g.got
               q == Append(p, ix)
    <3>6. /\ Len(q) = slot /\ q[slot] = ix /\ slot \in DOMAIN q
          /\ \A i \in DOMAIN p : i \in DOMAIN q /\ q[i] = p[i]
      <4>1. p \in Seq(Nat) /\ slot = Len(p) + 1
        BY <1>1 DEF GotStates, slot
      <4> HIDE DEF p
      <4> QED BY <1>2, <4>1
    <3>7. d.got = q
      BY <2>14
    <3> HIDE DEF q
    <3>8. Extends(g, d)
      <4>1. g.t.n \in Nat /\ d.t.n \in Nat /\ g.t.n <= d.t.n
        BY <1>1, <2>5, <2>14
      <4>2. \A j \in 1 .. g.t.n : d.t.syms[j] = g.t.syms[j]
        BY <2>5, <2>14
      <4> QED BY <3>6, <3>7, <4>1, <4>2 DEF Extends
    <3>9. Slot(d, ix, a)
      <4>1. s.shndx = "plt" /\ s.value = slot
        BY DEF s, GlobalSym
      <4>2. a.got # 0 => a.got \in DOMAIN d.got /\ d.got[a.got] = ix
        <5> SUFFICES ASSUME a.got # 0 PROVE a.got \in DOMAIN d.got /\ d.got[a.got] = ix
          OBVIOUS
        <5>1. ix \in DOMAIN g.attrs /\ g.attrs[ix].got = a.got
          BY <1>4, <2>6
        <5>2. a.got \in DOMAIN p /\ p[a.got] = ix
          BY <3>1, <5>1 DEF Routed, Slots, Slot
        <5> QED BY <3>6, <3>7, <5>2
      <4>3. a.plt \in 1 .. d.t.n /\ d.t.syms[a.plt] = s
        BY <1>1, <2>5, <2>6, <2>14
      <4> QED BY <3>6, <3>7, <4>1, <4>2, <4>3 DEF Slot
    <3>10. Routed(k, d)
      <4>1. \A x \in DOMAIN g.attrs :
              x \in DOMAIN d.attrs /\ (g.attrs[x].got # 0 => d.attrs[x].got # 0)
        BY <1>4, <2>6, <2>8, <2>14
      <4>2. \A x \in DOMAIN d.attrs : \/ x \in DOMAIN g.attrs /\ d.attrs[x] = g.attrs[x]
                                     \/ Slot(d, x, d.attrs[x])
        BY <2>8, <2>14, <3>9
      <4> QED BY <2>14, <3>1, <3>8, <4>1, <4>2, RoutesStay
    <3> QED BY <3>5, <3>10
  <2>16. GotOK(t, k, d)
    <3>1. /\ t.n <= u.n /\ \A j \in 1 .. t.n : Alike(t.syms[j], u.syms[j])
          /\ \A i \in 1 .. Len(rels) :
               g.rels[i].ix \in 1 .. u.n /\ (i > k => g.rels[i] = rels[i])
      BY <2>4, <2>5, GotGrows
    <3> QED BY <1>1, <2>4, <2>13, <2>14, <2>15, <2>15a, <3>1 DEF GotOK
  <2>17. ix \in DOMAIN d.attrs /\ d.attrs[ix].plt \in 1 .. d.t.n
    <3>1. ix \in DOMAIN d.attrs /\ d.attrs[ix] = a /\ d.t.n = u.n
      BY <2>8, <2>14
    <3> QED BY <1>1, <2>5, <2>6, <3>1
  <2> QED BY <2>7, <2>14, <2>16, <2>17
<1> QED BY <1>4, <1>5, <1>6 DEF Entry

(* A slot of its own for a symbol whose address is taken.                  *)
LEMMA PutSlotFacts ==
  ASSUME NEW t, t.n \in Nat, NEW k, NEW g, GotOK(t, k, g), NEW ix \in 1 .. g.t.n
  PROVE  LET e == PutGotEntry(g, FALSE, ix)
         IN /\ GotOK(t, k, e) /\ e.rels = g.rels
            /\ ix \in DOMAIN e.attrs /\ e.attrs[ix].got # 0
<1> DEFINE e == PutGotEntry(g, FALSE, ix)
           attr == EntryFor(g, ix)
           slot == Len(g.got) + 1
           a == [attr EXCEPT !.got = slot]
           bs == With(g.attrs, ix, a)
           q == Append(g.got, ix)
           d == [g EXCEPT !.got = q, !.attrs = bs]
<1>1. /\ g \in GotStates /\ Good(g.t) /\ g.t \in Tabs /\ g.t.n \in Nat
      /\ g.got \in Seq(Nat)
      /\ \A i \in DOMAIN g.got : g.got[i] \in 1 .. g.t.n
  BY DEF GotOK, Good, Tabs, GotStates
<1>2. ix \in Nat
  BY <1>1
<1>3. /\ attr \in Entry
      /\ ix \in DOMAIN g.attrs => attr = g.attrs[ix]
      /\ ix \notin DOMAIN g.attrs => attr.plt = 0 /\ attr.got = 0
  BY <1>1, <1>2, EntryFacts
<1>4. (e = g /\ attr.got # 0) \/ e = d
  BY DEF PutGotEntry
<1> HIDE DEF attr, e
<1>5. slot \in Nat /\ slot # 0
  BY <1>1
<1>5a. slot \in DOMAIN q /\ q[slot] = ix /\ \A i \in DOMAIN g.got : i \in DOMAIN q /\ q[i] = g.got[i]
  <2> DEFINE p == g.got
  <2>1. p \in Seq(Nat) /\ slot = Len(p) + 1 /\ q = Append(p, ix)
    BY <1>1
  <2> HIDE DEF p, slot, q
  <2>2. slot \in DOMAIN q /\ q[slot] = ix /\ \A i \in DOMAIN p : i \in DOMAIN q /\ q[i] = p[i]
    BY <1>2, <2>1
  <2> QED BY <2>2 DEF p
<1> HIDE DEF slot
<1>6. a \in Entry /\ a.plt = attr.plt /\ a.got = slot
  BY <1>3, <1>5 DEF Entry
<1> HIDE DEF a
<1>7. /\ bs \in EntryMaps /\ DOMAIN bs = {ix} \cup DOMAIN g.attrs /\ bs[ix] = a
      /\ \A z \in DOMAIN g.attrs : z # ix => bs[z] = g.attrs[z]
  <2>1. g.attrs \in EntryMaps
    BY <1>1 DEF GotStates
  <2>2. IsWith(g.attrs, ix, a, bs)
    BY <1>2, <1>6, <2>1, WithEntry
  <2> HIDE DEF bs
  <2> QED BY <2>2 DEF IsWith
<1> HIDE DEF bs
<1>8. \A x \in DOMAIN g.attrs : x \in DOMAIN bs /\ bs[x].plt = g.attrs[x].plt
  BY <1>3, <1>6, <1>7
<1>11. \A x \in DOMAIN bs : bs[x].plt <= g.t.n
  <2> TAKE x \in DOMAIN bs
  <2>1. CASE x \in DOMAIN g.attrs
    BY <1>8, <2>1 DEF GotOK
  <2>2. CASE x \notin DOMAIN g.attrs
    <3>1. x = ix /\ attr.plt = 0
      BY <1>3, <1>7, <2>2
    <3> QED BY <1>1, <1>6, <1>7, <3>1
  <2> QED BY <2>1, <2>2
<1>12. q \in Seq(Nat) /\ \A i \in DOMAIN q : q[i] \in 1 .. g.t.n
  <2> DEFINE p == g.got
             n == g.t.n
  <2>1. /\ p \in Seq(Nat) /\ \A i \in DOMAIN p : p[i] \in 1 .. n
        /\ ix \in 1 .. n /\ q = Append(p, ix)
    BY <1>1
  <2> HIDE DEF p, n, q
  <2>2. q \in Seq(Nat) /\ \A i \in DOMAIN q : q[i] \in 1 .. n
    BY <1>2, <2>1
  <2> QED BY <2>2 DEF n
<1> HIDE DEF q
<1>13. d \in GotStates /\ d.t = g.t /\ d.rels = g.rels /\ d.got = q /\ d.attrs = bs
       /\ d.built = g.built
  BY <1>1, <1>7, <1>12 DEF GotStates
<1> HIDE DEF d
<1>13a. GotName \notin Names => Routed(k, d)
  <2> SUFFICES ASSUME GotName \notin Names PROVE Routed(k, d)
    OBVIOUS
  <2>1. Routed(k, g)
    BY DEF GotOK
  <2>2. Extends(g, d)
    BY <1>1, <1>5a, <1>13 DEF Extends
  <2>3. Slot(d, ix, a)
    <3>1. a.plt # 0 => Slot(g, ix, attr)
      BY <1>3, <1>6, <2>1 DEF Routed, Slots
    <3>2. a.plt # 0 => Slot(d, ix, attr)
      BY <2>2, <3>1, SlotStays
    <3> QED BY <1>5a, <1>6, <1>13, <3>2 DEF Slot
  <2>4. \A x \in DOMAIN g.attrs :
          x \in DOMAIN d.attrs /\ (g.attrs[x].got # 0 => d.attrs[x].got # 0)
    BY <1>5, <1>6, <1>7, <1>13
  <2>5. \A x \in DOMAIN d.attrs :
          (x \in DOMAIN g.attrs /\ d.attrs[x] = g.attrs[x]) \/ Slot(d, x, d.attrs[x])
    BY <1>7, <1>13, <2>3
  <2> QED BY <1>13, <2>1, <2>2, <2>4, <2>5, RoutesStay
<1>14. GotOK(t, k, d)
  BY <1>11, <1>12, <1>13, <1>13a DEF GotOK, Own
<1>14a. ix \in DOMAIN e.attrs /\ e.attrs[ix].got # 0
  BY <1>3, <1>4, <1>5, <1>6, <1>7, <1>13
<1>15. GotOK(t, k, e) /\ e.rels = g.rels /\ ix \in DOMAIN e.attrs /\ e.attrs[ix].got # 0
  BY <1>4, <1>13, <1>14, <1>14a
<1> QED BY <1>15 DEF e

(* A relocation may be changed once it is done, when it stays in the table. *)
LEMMA RelocationDone ==
  ASSUME NEW t, NEW k \in Nat, NEW g, GotOK(t, k, g), NEW i \in 1 .. Len(rels), i <= k + 1,
         NEW r \in Rel, r.ix \in 1 .. g.t.n,
         \A j \in 1 .. Len(rels) : j # i => j + Len(rels) # k + 1,
         GotName \notin Names =>
           r.for = rels[i].for /\ \A needed \in BOOLEAN : Goes(g, r, rels[i].ix, needed)
  PROVE  GotOK(t, k + 1, [g EXCEPT !.rels = [g.rels EXCEPT ![i] = r]])
<1> DEFINE rs == g.rels
           ss == [rs EXCEPT ![i] = r]
           d == [g EXCEPT !.rels = ss]
           n == Len(rels)
<1>1. /\ g \in GotStates /\ rs \in Seq(Rel) /\ Len(rs) = n
      /\ \A j \in 1 .. n : rs[j].ix \in 1 .. g.t.n /\ (j > k => rs[j] = rels[j])
  BY DEF GotOK, GotStates
<1> HIDE DEF rs, n
<1>2. i \in 1 .. Len(rs) /\ i \in 1 .. n
  BY <1>1 DEF n
<1>3. ss \in Seq(Rel) /\ Len(ss) = n /\ ss[i] = r /\ \A j \in 1 .. Len(rs) : j # i => ss[j] = rs[j]
  <2> HIDE DEF Rel
  <2> QED BY <1>1, <1>2
<1> HIDE DEF ss
<1>4. d \in GotStates /\ d.t = g.t /\ d.got = g.got /\ d.attrs = g.attrs /\ d.rels = ss
      /\ d.built = g.built
  BY <1>1, <1>3 DEF GotStates
<1> HIDE DEF d
<1>5. ASSUME NEW j \in 1 .. n
      PROVE  ss[j].ix \in 1 .. g.t.n /\ (j > k + 1 => ss[j] = rels[j])
  <2>1. CASE j = i
    BY <1>1, <1>3, <2>1
  <2>2. CASE j # i
    <3>1. j \in 1 .. Len(rs) /\ (j > k + 1 => j > k)
      BY <1>1
    <3> QED BY <1>1, <1>3, <2>2, <3>1
  <2> QED BY <2>1, <2>2
<1>5a. GotName \notin Names => Routed(k + 1, d)
  <2> SUFFICES ASSUME GotName \notin Names PROVE Routed(k + 1, d)
    OBVIOUS
  <2>1. Routed(k, g)
    BY DEF GotOK
  <2>2. Slots(d)
    <3>1. Slots(g)
      BY <2>1 DEF Routed
    <3>2. \A x, a : Slot(d, x, a) <=> Slot(g, x, a)
      BY <1>4 DEF Slot
    <3> QED BY <1>4, <3>1, <3>2 DEF Slots
  <2>2a. \A q, x, b : Goes(d, q, x, b) <=> Goes(g, q, x, b)
    BY <1>4 DEF Goes
  <2>3. ASSUME NEW j \in 1 .. n
        PROVE  ss[j].for = rels[j].for /\ Goes(d, ss[j], rels[j].ix, j + n <= k + 1)
    <3>1. CASE j = i
      <4>1. r.for = rels[i].for /\ \A needed \in BOOLEAN : Goes(g, r, rels[i].ix, needed)
        OBVIOUS
      <4>2. (j + n <= k + 1) \in BOOLEAN
        OBVIOUS
      <4>3. Goes(g, r, rels[i].ix, j + n <= k + 1)
        BY <4>1, <4>2, Zenon
      <4> QED BY <1>3, <2>2a, <3>1, <4>1, <4>3, Zenon
    <3>2. CASE j # i
      <4>1. ss[j] = rs[j]
        BY <1>1, <1>3, <3>2
      <4>2. rs[j].for = rels[j].for /\ Goes(g, rs[j], rels[j].ix, j + n <= k)
        BY <2>1 DEF Routed, n, rs
      <4>3. j + n <= k + 1 => j + n <= k
        <5>1. j + n # k + 1
          BY <3>2 DEF n
        <5>2. n \in Nat
          BY <1>1
        <5> QED BY <5>1, <5>2
      <4>4. Goes(g, rs[j], rels[j].ix, j + n <= k + 1)
        BY <4>2, <4>3 DEF Goes
      <4> QED BY <2>2a, <4>1, <4>2, <4>4, Zenon
    <3> QED BY <3>1, <3>2
  <2> QED BY <1>4, <2>2, <2>3 DEF Routed, n
<1>6. GotOK(t, k + 1, d)
  BY <1>3, <1>4, <1>5, <1>5a DEF GotOK, Own, n
<1> QED BY <1>6 DEF d, ss, rs

LEMMA RelocationLeft ==
  ASSUME NEW t, NEW k \in Nat, NEW g, GotOK(t, k, g), Len(rels) \in Nat,
         GotName \notin Names =>
           \A j \in 1 .. Len(rels) : j + Len(rels) = k + 1 => Goes(g, g.rels[j], rels[j].ix, TRUE)
  PROVE  GotOK(t, k + 1, g)
<1>1. \A j \in 1 .. Len(rels) : j > k + 1 => j > k
  OBVIOUS
<1>2. GotName \notin Names => Routed(k + 1, g)
  <2> SUFFICES ASSUME GotName \notin Names, NEW j \in 1 .. Len(rels)
               PROVE  Goes(g, g.rels[j], rels[j].ix, j + Len(rels) <= k + 1)
    BY DEF GotOK, Routed
  <2>1. CASE j + Len(rels) = k + 1
    BY <2>1 DEF Goes
  <2>2. CASE j + Len(rels) # k + 1
    <3>1. j + Len(rels) <= k + 1 => j + Len(rels) <= k
      BY <2>2
    <3>2. Goes(g, g.rels[j], rels[j].ix, j + Len(rels) <= k)
      BY DEF GotOK, Routed
    <3> QED BY <3>1, <3>2 DEF Goes
  <2> QED BY <2>1, <2>2
<1> QED BY <1>1, <1>2 DEF GotOK

(* What build_got_entries() starts from.                                   *)
GotInput(t) ==
  /\ Good(t) /\ Named(t.syms, t.n)
  /\ rels \in Seq(Rel) /\ \A i \in 1 .. Len(rels) : rels[i].ix \in 1 .. t.n

LEMMA RelationFacts ==
  ASSUME NEW t, NEW k, NEW g, GotOK(t, k, g), NEW i \in 1 .. Len(rels)
  PROVE  /\ g.rels[i] \in Rel /\ g.rels[i].ix \in 1 .. g.t.n /\ (i > k => g.rels[i] = rels[i])
         /\ GotName \notin Names =>
              g.rels[i].for = rels[i].for /\ Goes(g, g.rels[i], rels[i].ix, i + Len(rels) <= k)
<1>1. g.rels \in Seq(Rel) /\ Len(g.rels) = Len(rels)
  BY DEF GotOK, GotStates
<1>2. g.rels[i] \in Rel
  <2> DEFINE rs == g.rels
  <2> HIDE DEF Rel
  <2>1. rs \in Seq(Rel) /\ i \in 1 .. Len(rs)
    BY <1>1
  <2> HIDE DEF rs
  <2>2. rs[i] \in Rel
    BY <2>1
  <2> QED BY <2>2 DEF rs
<1> QED BY <1>2 DEF GotOK, Routed

(* The cases of a relocation: left, made direct, or given an entry.        *)
LEMMA GotStepCases ==
  ASSUME NEW g, NEW pass \in {0, 1}, NEW i
  PROVE  LET r == g.rels[i]
             s == g.t.syms[r.ix]
             b == BuildGot(g)
             e == PutGotEntry(b, TRUE, r.ix)
         IN \/ GotStep(g, pass, i) = g /\ (pass = 1 => r.type # "gotpcrel")
            \/ GotStep(g, pass, i) = [g EXCEPT !.rels[i].type = "pc32"]
            \/ /\ pass = 0 /\ (Undefined(s) \/ Nonlocal(s))
               /\ GotStep(g, pass, i) = [e EXCEPT !.rels[i].ix = e.attrs[r.ix].plt]
            \/ GotStep(g, pass, i) = PutGotEntry(b, FALSE, r.ix)
<1> DEFINE r == g.rels[i]
           s == g.t.syms[r.ix]
           code == CodeReloc(r.type)
           outside == Undefined(s) \/ (s.shndx = "abs" /\ s.value # 0)
           direct == code /\ ~Undefined(s) /\ (s.vis # "default" \/ s.bind = "local")
           e == PutGotEntry(BuildGot(g), code, r.ix)
<1>1. GotStep(g, pass, i) =
        IF AutoEntry(r.type) /\ ~outside THEN g
        ELSE IF direct THEN [g EXCEPT !.rels[i].type = "pc32"]
        ELSE IF code # (pass = 0) THEN g
        ELSE IF code THEN [e EXCEPT !.rels[i].ix = e.attrs[r.ix].plt] ELSE e
  BY DEF GotStep
<1>2. code \in BOOLEAN /\ (~direct /\ code => Undefined(s) \/ Nonlocal(s))
  BY DEF CodeReloc, Nonlocal
<1>3. CASE code
  <2>1. code = TRUE /\ r.type # "gotpcrel"
    BY <1>3 DEF CodeReloc
  <2> HIDE DEF code, r, s, outside
  <2> QED BY <1>1, <1>2, <1>3, <2>1 DEF code, r, s
<1>4. CASE ~code
  <2>1. code = FALSE /\ direct = FALSE /\ (AutoEntry(r.type) => r.type # "gotpcrel")
    BY <1>2, <1>4 DEF AutoEntry
  <2>2. e = PutGotEntry(BuildGot(g), FALSE, r.ix)
    BY <2>1
  <2> HIDE DEF code, s, outside, direct, e
  <2>3. \/ GotStep(g, pass, i) = g /\ (pass = 1 => r.type # "gotpcrel")
        \/ GotStep(g, pass, i) = e
    <3>1. CASE pass = 0
      <4>1. (pass = 0) = TRUE
        BY <3>1
      <4>2. GotStep(g, pass, i) = g
        BY <1>1, <2>1, <4>1, Zenon
      <4> QED BY <3>1, <4>2
    <3>2. CASE pass = 1
      <4>1. (pass = 0) = FALSE
        BY <3>2
      <4>2. \/ GotStep(g, pass, i) = g /\ AutoEntry(r.type)
            \/ GotStep(g, pass, i) = e
        BY <1>1, <2>1, <4>1, Zenon
      <4> QED BY <2>1, <4>2, Zenon
    <3> QED BY <3>1, <3>2
  <2> QED BY <2>2, <2>3, Zenon
<1> QED BY <1>3, <1>4

LEMMA GotStepFacts ==
  ASSUME NEW t, GotInput(t), NEW k \in Nat, NEW g, GotOK(t, k, g), NEW pass \in {0, 1},
         NEW i \in 1 .. Len(rels), i <= k + 1, pass = 0 => i > k, pass = 1 => i + Len(rels) = k + 1
  PROVE  GotOK(t, k + 1, GotStep(g, pass, i))
<1> DEFINE r == g.rels[i]
           s == g.t.syms[r.ix]
           b == BuildGot(g)
           e == PutGotEntry(b, TRUE, r.ix)
           Goal(x) == GotOK(t, k + 1, x)
<1>1. /\ t.n \in Nat /\ Good(g.t) /\ Named(t.syms, t.n) /\ t.n <= g.t.n /\ g.t.n \in Nat
      /\ \A j \in 1 .. t.n : Alike(t.syms[j], g.t.syms[j])
  BY DEF GotInput, GotOK, Good, Tabs
<1>2. /\ r \in Rel /\ r.ix \in 1 .. g.t.n /\ (i > k => r = rels[i]) /\ r.ix \in Nat
  BY RelationFacts DEF Rel
<1>3. GotOK(t, k, b) /\ b.rels = g.rels
  BY <1>1, BuildGotFacts
<1>4. "pc32" \in Types
  BY DEF Types
<1>4a. Len(rels) \in Nat
  BY DEF GotInput
<1>4b. \A j \in 1 .. Len(rels) : j + Len(rels) = k + 1 => pass = 1 /\ j = i
  BY <1>4a
<1>4c. GotName \notin Names => r.for = rels[i].for /\ Goes(g, r, rels[i].ix, FALSE)
  <2>1. GotName \notin Names =>
          r.for = rels[i].for /\ Goes(g, r, rels[i].ix, i + Len(rels) <= k)
    BY RelationFacts
  <2> HIDE DEF r
  <2> QED BY <2>1 DEF Goes
<1>5. CASE GotStep(g, pass, i) = g /\ (pass = 1 => r.type # "gotpcrel")
  <2>1. GotName \notin Names =>
          \A j \in 1 .. Len(rels) : j + Len(rels) = k + 1 => Goes(g, g.rels[j], rels[j].ix, TRUE)
    BY <1>4b, <1>4c, <1>5 DEF Goes
  <2> QED BY <1>4a, <1>5, <2>1, RelocationLeft
<1>6. CASE GotStep(g, pass, i) = [g EXCEPT !.rels[i].type = "pc32"]
  <2> DEFINE x == [r EXCEPT !.type = "pc32"]
  <2>1. x \in Rel /\ x.ix = r.ix /\ x.type = "pc32" /\ x.for = r.for
    BY <1>2, <1>4 DEF Rel
  <2>1a. GotName \notin Names => x.for = rels[i].for
           /\ \A needed \in BOOLEAN : Goes(g, x, rels[i].ix, needed)
    BY <1>4c, <2>1 DEF Goes
  <2>2. GotStep(g, pass, i) = [g EXCEPT !.rels = [g.rels EXCEPT ![i] = x]]
    BY <1>6
  <2> HIDE DEF x, r
  <2> QED BY <1>2, <1>4b, <2>1, <2>1a, <2>2, RelocationDone
<1>7. CASE /\ pass = 0 /\ (Undefined(s) \/ Nonlocal(s))
           /\ GotStep(g, pass, i) = [e EXCEPT !.rels[i].ix = e.attrs[r.ix].plt]
  <2>1. r.ix \in 1 .. t.n
    BY <1>2, <1>7 DEF GotInput
  <2>2. Nonlocal(s)
    BY <1>1, <1>2, <1>7 DEF Good, StaticsDefined
  <2>3. Nonlocal(t.syms[r.ix]) /\ t.syms[r.ix].name \in Names
    BY <1>1, <2>1, <2>2 DEF Alike, Named
  <2> DEFINE ix == e.attrs[r.ix].plt
             x == [r EXCEPT !.ix = ix]
  <2>4. GotOK(t, k, e) /\ e.rels = b.rels /\ ix \in 1 .. e.t.n /\ r.ix \in DOMAIN e.attrs
    <3> HIDE DEF r, b
    <3> QED BY <1>1, <1>3, <2>1, <2>3, PutCallFacts
  <2>4a. GotName \notin Names => Slot(e, r.ix, e.attrs[r.ix])
    BY <2>4 DEF GotOK, Routed, Slots
  <2>5. GotStep(g, pass, i) = [e EXCEPT !.rels = [e.rels EXCEPT ![i] = x]]
    <3>1. e.rels[i] = r
      BY <1>3, <2>4
    <3> HIDE DEF ix, e, r
    <3> QED BY <1>7, <3>1 DEF ix
  <2> HIDE DEF ix, e, r
  <2>6. ix \in Nat
    BY <2>4
  <2>7. x \in Rel /\ x.ix = ix /\ x.for = r.for
    BY <1>2, <2>6 DEF Rel
  <2>8. GotName \notin Names =>
          x.for = rels[i].for /\ \A needed \in BOOLEAN : Goes(e, x, rels[i].ix, needed)
    <3>1. r = rels[i] /\ ix # 0
      BY <1>2, <1>7, <2>4
    <3> QED BY <2>4, <2>4a, <2>7, <3>1 DEF Slot, Goes, ix
  <2> HIDE DEF x
  <2> QED BY <1>4b, <2>4, <2>5, <2>7, <2>8, RelocationDone
<1>8. CASE GotStep(g, pass, i) = PutGotEntry(b, FALSE, r.ix)
  <2>1. r.ix \in 1 .. b.t.n
    <3>1. b.rels[i].ix \in 1 .. b.t.n
      BY <1>3, RelationFacts
    <3> QED BY <1>3, <3>1
  <2> DEFINE a == PutGotEntry(b, FALSE, r.ix)
  <2>2. /\ GotOK(t, k, a) /\ a.rels = g.rels
        /\ r.ix \in DOMAIN a.attrs /\ a.attrs[r.ix].got # 0
    <3> HIDE DEF r, b
    <3> QED BY <1>1, <1>3, <2>1, PutSlotFacts
  <2>3. a.rels[i] = r
    BY <2>2
  <2> HIDE DEF a, r, b
  <2>4. GotName \notin Names => Goes(a, a.rels[i], rels[i].ix, TRUE)
    <3> SUFFICES ASSUME GotName \notin Names PROVE Goes(a, a.rels[i], rels[i].ix, TRUE)
      OBVIOUS
    <3>1. Goes(a, a.rels[i], rels[i].ix, i + Len(rels) <= k)
      BY <2>2, RelationFacts
    <3> QED BY <2>2, <2>3, <3>1 DEF Goes
  <2> QED BY <1>4a, <1>4b, <1>8, <2>2, <2>4, RelocationLeft DEF a
<1> QED BY <1>5, <1>6, <1>7, <1>8, GotStepCases

LEMMA GotStart ==
  ASSUME NEW t, GotInput(t), got = <<>>, attrs = <<>>
  PROVE  GotOK(t, 0, [t |-> t, rels |-> rels, got |-> got, attrs |-> attrs, built |-> FALSE])
<1> DEFINE g == [t |-> t, rels |-> rels, got |-> got, attrs |-> attrs, built |-> FALSE]
<1>1. /\ t \in Tabs /\ t.n \in Nat /\ Good(t) /\ Named(t.syms, t.n) /\ rels \in Seq(Rel)
      /\ \A i \in 1 .. Len(rels) : rels[i].ix \in 1 .. t.n
  BY DEF GotInput, Good, Tabs
<1>2. attrs \in EntryMaps /\ DOMAIN attrs = {}
  <2>1. attrs \in [{} -> Entry]
    BY DEF Entry
  <2> QED BY <2>1 DEF EntryMaps
<1>3. got \in Seq(Nat) /\ DOMAIN got = {}
  OBVIOUS
<1>4. g \in GotStates /\ g.t = t /\ g.rels = rels /\ g.got = got /\ g.attrs = attrs
  <2> HIDE DEF Rel
  <2> QED BY <1>1, <1>2, <1>3 DEF GotStates
<1> HIDE DEF g
<1>5a. GotName \notin Names => Own(t, g)
  BY <1>1, <1>4 DEF Own, Named
<1>5b. Routed(0, g)
  <2>1. \A i \in 1 .. Len(rels) : ~(i + Len(rels) <= 0)
    OBVIOUS
  <2> QED BY <1>2, <1>4, <2>1 DEF Routed, Slots, Goes
<1>6. GotOK(t, 0, g)
  BY <1>1, <1>2, <1>3, <1>4, <1>5a, <1>5b DEF GotOK, Alike
<1> QED BY <1>6 DEF g

LEMMA BuildGotEntriesFacts ==
  ASSUME NEW t, GotInput(t), got = <<>>, attrs = <<>>
  PROVE  GotOK(t, 2 * Len(rels), BuildGotEntries(t))
<1> DEFINE len == Len(rels)
           n == 2 * len
           J == [k \in 0 .. n |-> {x \in GotStates : GotOK(t, k, x)}]
           start == [t |-> t, rels |-> rels, got |-> got, attrs |-> attrs, built |-> FALSE]
           StepAt(k, x) == IF k <= len THEN GotStep(x, 0, k) ELSE GotStep(x, 1, k - len)
           step == [k \in 1 .. n |-> [x \in J[k - 1] |-> StepAt(k, x)]]
           Value(g, k) == IF k = 0 THEN start ELSE StepAt(k, g[k - 1])
           at == CHOOSE g : g = [k \in 0 .. n |-> Value(g, k)]
<1>1. len \in Nat /\ n \in Nat
  BY DEF GotInput
<1>2. BuildGotEntries(t) = at[n]
  BY DEF BuildGotEntries
<1>3. GotOK(t, 0, start)
  BY GotStart
<1> HIDE DEF start
<1>4. ASSUME NEW k \in 1 .. n, NEW x, GotOK(t, k - 1, x) PROVE GotOK(t, k, StepAt(k, x))
  <2>1. k - 1 \in Nat /\ (k - 1) + 1 = k
    OBVIOUS
  <2>2. CASE k <= len
    <3>1. k \in 1 .. Len(rels) /\ k <= (k - 1) + 1 /\ k > k - 1
      BY <1>1, <2>2
    <3>2. GotOK(t, (k - 1) + 1, GotStep(x, 0, k))
      BY <1>4, <2>1, <3>1, GotStepFacts
    <3> QED BY <2>1, <2>2, <3>2
  <2>3. CASE ~(k <= len)
    <3>1. k - len \in 1 .. Len(rels) /\ k - len <= (k - 1) + 1
          /\ (k - len) + Len(rels) = (k - 1) + 1
      BY <1>1, <2>3
    <3>2. GotOK(t, (k - 1) + 1, GotStep(x, 1, k - len))
      BY <1>4, <2>1, <3>1, GotStepFacts
    <3> QED BY <2>1, <2>3, <3>2
  <2> QED BY <2>2, <2>3
<1> HIDE DEF n, StepAt
<1>5. start \in J[0]
  BY <1>1, <1>3, 0 \in 0 .. n DEF GotOK
<1>6. \A k \in 0 .. n : \A x : x \in J[k] <=> GotOK(t, k, x)
  BY DEF GotOK
<1> HIDE DEF J
<1>7. ASSUME NEW k \in 1 .. n, NEW x \in J[k - 1] PROVE StepAt(k, x) \in J[k]
  BY <1>1, <1>4, <1>6, k \in 0 .. n, k - 1 \in 0 .. n
<1>8. Leads(n, J, step)
  <2> SUFFICES \A k \in 1 .. n : \A x \in J[k - 1] : step[k][x] \in J[k]
    BY DEF Leads
  <2> TAKE k \in 1 .. n
  <2> TAKE x \in J[k - 1]
  <2>1. step[k][x] = StepAt(k, x)
    OBVIOUS
  <2> HIDE DEF step
  <2> QED BY <1>7, <2>1
<1>9. PICK f : FollowsWithin(f, n, J, start, step)
  <2> HIDE DEF step
  <2> QED BY <1>1, <1>5, <1>8, RecursionWithin
<1>10. /\ f = [k \in 0 .. n |-> f[k]] /\ f[0] = start
       /\ \A k \in 1 .. n : f[k] = step[k][f[k - 1]]
       /\ \A k \in 0 .. n : f[k] \in J[k]
  <2> HIDE DEF step
  <2> QED BY <1>9 DEF FollowsWithin
<1>11. f = [k \in 0 .. n |-> Value(f, k)]
  <2>1. \A k \in 0 .. n : f[k] = Value(f, k)
    <3> TAKE k \in 0 .. n
    <3>1. CASE k # 0
      <4>1. k \in 1 .. n /\ k - 1 \in 0 .. n
        BY <1>1, <3>1
      <4>2. f[k] = StepAt(k, f[k - 1])
        BY <1>10, <4>1
      <4> QED BY <3>1, <4>2
    <3> QED BY <1>10, <3>1
  <2> HIDE DEF Value, step
  <2> QED BY <1>10, <2>1
<1>12. at = [k \in 0 .. n |-> Value(at, k)]
  BY <1>11
<1> HIDE DEF at
<1> DEFINE S == {k \in 0 .. n : at[k] \in J[k]}
<1>13. 0 .. n \subseteq S
  <2>1. 0 \in S
    <3>1. at[0] = start
      BY <1>1, <1>12
    <3> QED BY <1>1, <1>5, <3>1
  <2>2. ASSUME NEW k \in 1 .. n, k - 1 \in S PROVE k \in S
    <3>1. at[k] = StepAt(k, at[k - 1]) /\ k \in 0 .. n
      BY <1>12, k \in 0 .. n, k # 0
    <3>2. at[k - 1] \in J[k - 1]
      BY <2>2
    <3> QED BY <1>7, <3>1, <3>2
  <2> HIDE DEF S
  <2> QED BY <1>1, <2>1, <2>2, RangeInduction
<1>14. GotOK(t, n, at[n])
  BY <1>1, <1>6, <1>13, n \in 0 .. n
<1> QED BY <1>2, <1>14 DEF n

-----------------------------------------------------------------------------
(* The inductive invariant.                                                *)
Stages == {"link", "parse", "resolved", "sized", "linked", "failed"}
TypesOK ==
  /\ stage \in Stages /\ symtab \in Seq(Symbol) /\ nb_errors \in BOOLEAN
  /\ fill \in [Sections -> Nat] /\ files \in Nat /\ first \in Nat /\ first_rel \in Nat
TableOK == IF stage = "parse" THEN Parsed ELSE Good(Tab) /\ c = <<>>
HandlesOK == \A k \in DOMAIN c : c[k] \in first + 1 .. Len(symtab)
RelocsOK == rels \in Seq(Rel) /\ \A i \in 1 .. Len(rels) : rels[i].ix \in 1 .. Len(symtab)
RelocsOfFile ==
  stage = "parse" =>
    /\ first_rel <= Len(rels)
    /\ \A i \in 1 .. Len(rels) :
         IF i > first_rel THEN rels[i].ix > first ELSE rels[i].ix <= first
GotsOK == \A i \in DOMAIN got : got[i] \in 1 .. Len(symtab)
BeforeGot ==
  stage \in {"link", "parse", "resolved"} =>
    got = <<>> /\ attrs = <<>> /\ Named(symtab, Len(symtab))

TablesOK ==
  TypesOK /\ TableOK /\ HandlesOK /\ RelocsOK /\ RelocsOfFile /\ GotsOK /\ BeforeGot

(* Neither the program nor niffler offers what the linker provides.        *)
NotProvided(o) == \A k \in 1 .. Len(o) : ~Provided(o[k])
OffersOK ==
  /\ offered \in Seq(Symbol)
  /\ stage \in {"link", "parse", "resolved"} => NotProvided(offered)
  /\ stage = "parse" => \A j \in first + 1 .. Len(symtab) : symtab[j].type = "c"

IInv == TablesOK /\ OffersOK

LEMMA InitIInv == Init => IInv
<1> SUFFICES ASSUME Init PROVE IInv
  OBVIOUS
<1>0. /\ symtab = <<>> /\ symtab \in Seq(Symbol) /\ hashtab \in Seq(Nat) /\ nb_hashed \in Nat
      /\ nb_errors \in BOOLEAN
  <2>1. symtab = <<>> /\ symtab \in Seq(Symbol)
    BY DEF Init
  <2>2. hashtab \in Seq(Nat)
    BY DEF Init
  <2>3. nb_hashed \in Nat
    BY DEF Init
  <2>4. nb_errors \in BOOLEAN
    BY DEF Init
  <2> QED BY <2>1, <2>2, <2>3, <2>4
<1>1. TypesOK
  <2>1. fill \in [Sections -> Nat]
    BY DEF Init
  <2>2. stage \in Stages /\ files \in Nat /\ first \in Nat /\ first_rel \in Nat
    BY DEF Init, Stages
  <2> QED BY <1>0, <2>1, <2>2 DEF TypesOK
<1>2. TableOK
  <2>1. Tab \in Tabs /\ Tab.n = 0 /\ Tab.syms = <<>> /\ Tab.hash = <<1, 1, 0, 0>>
    <3>1. Len(symtab) = 0 /\ hashtab = <<1, 1, 0, 0>>
      BY <1>0 DEF Init
    <3> QED BY <1>0, <3>1 DEF Tab, Tabs
  <2>2. NbBuckets(Tab.hash) = 1 /\ Len(Tab.hash) = 4 /\ Tab.hash[3] = 0
    BY <2>1 DEF NbBuckets
  <2>3. \A b \in 0 .. 0 : Link(Tab.syms, 1, b, 0, Tab.hash[3 + b])
    BY <2>1, <2>2 DEF Link
  <2>4. Chained(Tab)
    BY <2>1, <2>2, <2>3 DEF Chained
  <2>5. Good(Tab)
    BY <2>1, <2>4 DEF Good, Once, StaticsDefined
  <2> QED BY <2>5 DEF TableOK, Init
<1>3. HandlesOK /\ RelocsOK /\ RelocsOfFile /\ GotsOK /\ BeforeGot
  BY DEF Init, HandlesOK, RelocsOK, RelocsOfFile, GotsOK, BeforeGot, Named
<1>4. OffersOK
  <2>1. offered = <<>> /\ stage = "link"
    BY DEF Init
  <2>2. offered \in Seq(Symbol) /\ Len(offered) = 0
    BY <2>1
  <2> QED BY <2>1, <2>2 DEF OffersOK, NotProvided
<1> QED BY <1>1, <1>2, <1>3, <1>4 DEF IInv, TablesOK

(* Writing the table back.                                                 *)
LEMMA SetTabFacts ==
  ASSUME NEW t, Good(t), SetTab(t)
  PROVE  /\ Good(Tab') /\ symtab' \in Seq(Symbol) /\ Len(symtab') = t.n
         /\ \A j \in 1 .. t.n : symtab'[j] = t.syms[j]
         /\ nb_errors' \in BOOLEAN
<1> DEFINE r == t.syms
           n == t.n
           u == Tab'
<1>1. /\ t \in Tabs /\ r \in Seq(Symbol) /\ n \in Nat /\ n <= Len(r) /\ t.hash \in Seq(Nat)
      /\ t.hashed \in Nat /\ t.err \in BOOLEAN /\ StaticsDefined(t)
  BY DEF Good, Tabs
<1>2. /\ SubSeq(r, 1, n) \in Seq(Symbol) /\ Len(SubSeq(r, 1, n)) = n
      /\ \A j \in 1 .. n : SubSeq(r, 1, n)[j] = r[j]
  <2> HIDE DEF r, n
  <2> QED BY <1>1
<1>3. /\ symtab' \in Seq(Symbol) /\ Len(symtab') = n /\ \A j \in 1 .. n : symtab'[j] = r[j]
      /\ hashtab' = t.hash /\ nb_hashed' = t.hashed /\ nb_errors' = t.err
  BY <1>2 DEF SetTab
<1>4. /\ u \in Tabs /\ u.n = n /\ u.hash = t.hash /\ u.syms = symtab'
  <2> HIDE DEF n, r
  <2> QED BY <1>1, <1>3 DEF Tab, Tabs
<1> HIDE DEF u
<1>5. StaticsDefined(u)
  BY <1>1, <1>3, <1>4 DEF StaticsDefined
<1>6. Good(u)
  <2>1. \A j \in 1 .. t.n : Alike(t.syms[j], u.syms[j])
    BY <1>3, <1>4 DEF Alike
  <2> QED BY <1>1, <1>3, <1>4, <1>5, <2>1, Retouched
<1> QED BY <1>1, <1>3, <1>6 DEF u

(* Entries of the file change; what hashing knows does not.                *)
LEMMA ParsedKept ==
  ASSUME Parsed, symtab' \in Seq(Symbol), Len(symtab) <= Len(symtab'),
         Named(symtab', Len(symtab')), \A j \in 1 .. first : symtab'[j] = symtab[j],
         UNCHANGED <<hashtab, nb_hashed, first, nb_errors>>
  PROVE  Parsed'
<1> DEFINE t == Earlier
           u == Earlier'
<1>1. /\ symtab \in Seq(Symbol) /\ first \in 0 .. Len(symtab) /\ first \in Nat
      /\ Len(symtab) \in Nat /\ Len(symtab') \in Nat
      /\ hashtab \in Seq(Nat) /\ nb_hashed \in Nat /\ nb_errors \in BOOLEAN /\ Good(t)
  <2>1. t \in Tabs /\ Good(t)
    BY DEF Parsed, Good
  <2>2. t.hash = hashtab /\ t.hashed = nb_hashed /\ t.err = nb_errors
    BY DEF Earlier, Tab
  <2> HIDE DEF t
  <2>3. hashtab \in Seq(Nat) /\ nb_hashed \in Nat /\ nb_errors \in BOOLEAN
    BY <2>1, <2>2 DEF Tabs
  <2>4. /\ symtab \in Seq(Symbol) /\ first \in 0 .. Len(symtab) /\ first \in Nat
        /\ Len(symtab) \in Nat /\ Len(symtab') \in Nat
    BY DEF Parsed
  <2> QED BY <2>1, <2>3, <2>4
<1>2. first \in 0 .. Len(symtab')
  BY <1>1
<1>3. /\ t.n = first /\ t.hash = hashtab /\ t.syms = symtab
  BY DEF Earlier, Tab
<1>4. /\ u \in Tabs /\ u.n = first /\ u.hash = hashtab /\ u.syms = symtab'
  BY <1>1 DEF Earlier, Tab, Tabs
<1> HIDE DEF t, u
<1>5. StaticsDefined(u)
  BY <1>1, <1>3, <1>4 DEF Good, StaticsDefined
<1>6. Good(u)
  <2>1. \A j \in 1 .. t.n : Alike(t.syms[j], u.syms[j])
    BY <1>1, <1>3, <1>4 DEF Alike
  <2>2. u.n = t.n /\ u.hash = t.hash /\ u.n <= Len(u.syms) /\ Good(t)
    BY <1>1, <1>2, <1>3, <1>4
  <2> QED BY <1>4, <1>5, <2>1, <2>2, Retouched
<1> QED BY <1>2, <1>6 DEF Parsed, u

LEMMA TabRetouched ==
  ASSUME Good(Tab), symtab' \in Seq(Symbol), Len(symtab') = Len(symtab),
         \A j \in 1 .. Len(symtab) :
           Alike(symtab[j], symtab'[j]) /\ (Undefined(symtab'[j]) => Undefined(symtab[j])),
         UNCHANGED <<hashtab, nb_hashed>>, nb_errors' \in BOOLEAN
  PROVE  Good(Tab')
<1> DEFINE t == Tab
           u == Tab'
<1>1. /\ hashtab \in Seq(Nat) /\ nb_hashed \in Nat /\ Len(symtab) \in Nat
  BY DEF Good, Tabs, Tab
<1>2. /\ t.n = Len(symtab) /\ t.hash = hashtab /\ t.syms = symtab
  BY DEF Tab
<1>3. /\ u \in Tabs /\ u.n = Len(symtab) /\ u.hash = hashtab /\ u.syms = symtab'
  BY <1>1 DEF Tab, Tabs
<1> HIDE DEF t, u
<1>4. StaticsDefined(u)
  BY <1>2, <1>3 DEF Good, StaticsDefined, t, Alike
<1>5. Good(u)
  BY <1>2, <1>3, <1>4, Retouched DEF t
<1> QED BY <1>5 DEF u

LEMMA BeginFileKeeps == IInv /\ BeginFile => TablesOK'
<1> SUFFICES ASSUME IInv, BeginFile PROVE TablesOK'
  OBVIOUS
<1>1. /\ stage = "link" /\ stage' = "parse" /\ files' = files + 1 /\ first' = Len(symtab)
      /\ first_rel' = Len(rels)
      /\ UNCHANGED <<symtab, hashtab, nb_hashed, c, rels, fill, got, attrs, nb_errors>>
  BY DEF BeginFile
<1>2. /\ TypesOK /\ Good(Tab) /\ c = <<>> /\ RelocsOK /\ GotsOK /\ Named(symtab, Len(symtab))
      /\ got = <<>> /\ attrs = <<>>
  BY <1>1 DEF IInv, TablesOK, TableOK, BeforeGot
<1>3. Len(symtab) \in Nat /\ Len(rels) \in Nat
  BY <1>2 DEF TypesOK, RelocsOK
<1>4. TypesOK'
  BY <1>1, <1>2, <1>3 DEF TypesOK, Stages
<1>5. Earlier' = Tab
  BY <1>1 DEF Earlier, Tab
<1>6. TableOK'
  BY <1>1, <1>2, <1>3, <1>5 DEF TableOK, Parsed, TypesOK
<1>7. RelocsOfFile'
  <2>1. ASSUME NEW i \in 1 .. Len(rels)
        PROVE  ~(i > Len(rels)) /\ rels[i].ix <= Len(symtab)
    BY <1>2, <1>3 DEF RelocsOK
  <2> QED BY <1>1, <1>3, <2>1 DEF RelocsOfFile
<1>8. HandlesOK' /\ RelocsOK' /\ GotsOK' /\ BeforeGot'
  BY <1>1, <1>2 DEF HandlesOK, RelocsOK, GotsOK, BeforeGot
<1> QED BY <1>4, <1>6, <1>7, <1>8 DEF TablesOK

-----------------------------------------------------------------------------
(* Parsing a file.                                                         *)
LEMMA ParseFacts ==
  ASSUME IInv, stage = "parse"
  PROVE  /\ TypesOK /\ Parsed /\ HandlesOK /\ RelocsOK /\ RelocsOfFile
         /\ got = <<>> /\ attrs = <<>> /\ Named(symtab, Len(symtab))
         /\ Len(symtab) \in Nat /\ first <= Len(symtab)
BY DEF IInv, TablesOK, TableOK, BeforeGot, TypesOK, Parsed

(* What a declaration does to the table.                                   *)
Declared ==
  /\ symtab' \in Seq(Symbol) /\ Len(symtab') \in {Len(symtab), Len(symtab) + 1}
  /\ Named(symtab', Len(symtab')) /\ \A j \in 1 .. first : symtab'[j] = symtab[j]
  /\ \A j \in first + 1 .. Len(symtab') : symtab'[j].type = "c"
  /\ \A k \in DOMAIN c' : c'[k] \in first + 1 .. Len(symtab')

LEMMA Rewritten ==
  ASSUME IInv, stage = "parse", NEW k \in DOMAIN c, NEW s \in Symbol, s.name \in Names,
         s.type = "c", symtab' = [symtab EXCEPT ![c[k]] = s], c' = c
  PROVE  Declared
<1> DEFINE ix == c[k]
           L == Len(symtab)
<1>1. /\ symtab \in Seq(Symbol) /\ L \in Nat /\ first \in Nat /\ Named(symtab, L)
      /\ \A h \in DOMAIN c : c[h] \in first + 1 .. L
  BY ParseFacts DEF TypesOK, HandlesOK
<1>2. ix \in first + 1 .. L
  BY <1>1
<1> HIDE DEF ix, L
<1>3. ix \in 1 .. L /\ \A j \in 1 .. first : j \in 1 .. L /\ j # ix
  BY <1>1, <1>2
<1>4. /\ symtab' \in Seq(Symbol) /\ Len(symtab') = L /\ symtab'[ix] = s
      /\ \A j \in 1 .. L : j # ix => symtab'[j] = symtab[j]
  <2> DEFINE r == [symtab EXCEPT ![ix] = s]
  <2>1. /\ r \in Seq(Symbol) /\ Len(r) = L /\ r[ix] = s
        /\ \A j \in 1 .. L : j # ix => r[j] = symtab[j]
    <3> HIDE DEF Symbol
    <3> QED BY <1>1, <1>3 DEF L
  <2> QED BY <2>1 DEF ix
<1>5. Named(symtab', L)
  BY <1>1, <1>4 DEF Named
<1>6. \A j \in first + 1 .. L : symtab'[j].type = "c"
  <2>1. \A j \in first + 1 .. L : j \in 1 .. L /\ symtab[j].type = "c"
    BY <1>1 DEF IInv, OffersOK, L
  <2> QED BY <1>4, <2>1
<1> QED BY <1>1, <1>3, <1>4, <1>5, <1>6 DEF Declared, L

LEMMA PutExternSymFacts ==
  ASSUME IInv, stage = "parse", NEW d \in Decls, PutExternSym(d)
  PROVE  Declared /\ Handle(d) \in DOMAIN c'
<1> DEFINE value == IF d.shndx \in Sections THEN fill[d.shndx]
                    ELSE IF d.shndx = "common" THEN 1 ELSE 0
           s == [name |-> d.name, type |-> "c", bind |-> d.bind, vis |-> d.vis,
                 shndx |-> d.shndx, value |-> value]
           L == Len(symtab)
<1>1. /\ symtab \in Seq(Symbol) /\ L \in Nat /\ first \in Nat /\ first <= L /\ Named(symtab, L)
      /\ fill \in [Sections -> Nat] /\ \A k \in DOMAIN c : c[k] \in first + 1 .. L
  BY ParseFacts DEF TypesOK, HandlesOK
<1>1a. \A j \in first + 1 .. L : symtab[j].type = "c"
  BY DEF IInv, OffersOK
<1>2. /\ d.name \in Names /\ d.name \in AllNames /\ d.bind \in Bindings /\ d.vis \in Visibilities
      /\ d.shndx \in Shndx
  BY DeclsAssumption DEF Decl, AllNames, Shndx, Sections
<1>3. value \in Nat
  BY <1>1
<1> HIDE DEF value
<1>4. s \in Symbol /\ s.name = d.name /\ s.type = "c"
  BY <1>2, <1>3 DEF Symbol
<1>5. CASE Known(d)
  <2> DEFINE old == symtab[c[Handle(d)]]
             new == [s EXCEPT !.vis = Merged(old.vis, s.vis),
                              !.bind = IF old.bind = "weak" THEN "weak" ELSE s.bind]
  <2>1. symtab' = [symtab EXCEPT ![c[Handle(d)]] = new] /\ c' = c
    BY <1>5 DEF PutExternSym, value
  <2>2. Handle(d) \in DOMAIN c
    BY <1>5 DEF Known
  <2> HIDE DEF old, s
  <2>3. new \in Symbol /\ new.name = d.name /\ new.type = "c"
    BY <1>4 DEF Symbol, Merged, Visibilities, Bindings
  <2> HIDE DEF new
  <2> QED BY <1>2, <2>1, <2>2, <2>3, Rewritten
<1>6. CASE ~Known(d)
  <2>1. symtab' = Append(symtab, s) /\ c' = With(c, Handle(d), L + 1)
    BY <1>6 DEF PutExternSym, NextSym, value
  <2> HIDE DEF s
  <2>2. /\ symtab' \in Seq(Symbol) /\ Len(symtab') = L + 1 /\ symtab'[L + 1] = s
        /\ \A j \in 1 .. L : symtab'[j] = symtab[j]
    BY <1>1, <1>4, <2>1
  <2> HIDE DEF L
  <2>3. Named(symtab', L + 1)
    <3>1. \A j \in 1 .. L + 1 : j = L + 1 \/ j \in 1 .. L
      BY <1>1
    <3> QED BY <1>1, <1>2, <1>4, <2>2, <3>1 DEF Named
  <2>4. \A j \in 1 .. first : j \in 1 .. L
    BY <1>1
  <2>5. DOMAIN c' = {Handle(d)} \cup DOMAIN c
    BY <2>1 DEF With
  <2>6. ASSUME NEW k \in DOMAIN c' PROVE c'[k] \in first + 1 .. L + 1
    <3>1. c'[k] = IF k = Handle(d) THEN L + 1 ELSE c[k]
      BY <2>1 DEF With
    <3>2. L + 1 \in first + 1 .. L + 1 /\ \A j \in first + 1 .. L : j \in first + 1 .. L + 1
      BY <1>1
    <3> QED BY <1>1, <2>5, <3>1, <3>2
  <2>7. \A j \in first + 1 .. L + 1 : symtab'[j].type = "c"
    <3>1. \A j \in first + 1 .. L + 1 : j = L + 1 \/ (j \in first + 1 .. L /\ j \in 1 .. L)
      BY <1>1
    <3> QED BY <1>1a, <1>4, <2>2, <3>1 DEF L
  <2> QED BY <2>2, <2>3, <2>4, <2>5, <2>6, <2>7 DEF Declared, L
<1> QED BY <1>5, <1>6

(* The table has grown behind first, and everything else that the          *)
(* invariant is about is as it was, but for the file's relocations.        *)
LEMMA DeclaredKeeps ==
  ASSUME IInv, stage = "parse", Declared, fill' \in [Sections -> Nat],
         UNCHANGED <<stage, hashtab, nb_hashed, first, first_rel, got, attrs, nb_errors, files>>
  PROVE  /\ TypesOK' /\ TableOK' /\ HandlesOK' /\ GotsOK' /\ BeforeGot'
         /\ Len(symtab) <= Len(symtab') /\ Len(symtab') \in Nat
<1>1. /\ TypesOK /\ Parsed /\ got = <<>> /\ attrs = <<>> /\ Len(symtab) \in Nat
  BY ParseFacts
<1>2. /\ symtab' \in Seq(Symbol) /\ Len(symtab') \in {Len(symtab), Len(symtab) + 1}
      /\ Named(symtab', Len(symtab')) /\ \A j \in 1 .. first : symtab'[j] = symtab[j]
      /\ \A k \in DOMAIN c' : c'[k] \in first + 1 .. Len(symtab')
  BY DEF Declared
<1>3. Len(symtab) <= Len(symtab') /\ Len(symtab') \in Nat
  BY <1>1, <1>2
<1>4. Parsed'
  BY <1>1, <1>2, <1>3, ParsedKept
<1>5. TypesOK' /\ TableOK'
  BY <1>1, <1>2, <1>4 DEF TypesOK, TableOK
<1>6. HandlesOK' /\ GotsOK' /\ BeforeGot'
  BY <1>1, <1>2 DEF HandlesOK, GotsOK, BeforeGot
<1> QED BY <1>3, <1>5, <1>6

LEMMA RelocsKept ==
  ASSUME IInv, stage = "parse", Len(symtab) <= Len(symtab'), Len(symtab') \in Nat,
         UNCHANGED <<stage, first, first_rel, rels>>
  PROVE  RelocsOK' /\ RelocsOfFile'
<1>1. RelocsOK /\ RelocsOfFile /\ Len(symtab) \in Nat
  BY ParseFacts
<1>2. RelocsOK'
  <2>1. \A x \in 1 .. Len(symtab) : x \in 1 .. Len(symtab')
    BY <1>1
  <2> QED BY <1>1, <2>1 DEF RelocsOK
<1> QED BY <1>1, <1>2 DEF RelocsOfFile

LEMMA DefineKeeps == \A d \in Decls : IInv /\ Define(d) => TablesOK'
<1> SUFFICES ASSUME NEW d \in Decls, IInv, Define(d) PROVE TablesOK'
  OBVIOUS
<1>1. /\ stage = "parse" /\ PutExternSym(d)
      /\ fill' = [s \in Sections |-> IF s = d.shndx THEN fill[s] + 1 ELSE fill[s]]
      /\ UNCHANGED <<stage, hashtab, nb_hashed, first, first_rel>>
      /\ UNCHANGED <<rels, got, attrs, nb_errors, files>>
  BY DEF Define
<1>2. fill' \in [Sections -> Nat]
  BY <1>1, ParseFacts DEF TypesOK
<1>3. Declared
  BY <1>1, PutExternSymFacts
<1>4. /\ TypesOK' /\ TableOK' /\ HandlesOK' /\ GotsOK' /\ BeforeGot'
      /\ Len(symtab) <= Len(symtab') /\ Len(symtab') \in Nat
  BY <1>1, <1>2, <1>3, DeclaredKeeps
<1>5. RelocsOK' /\ RelocsOfFile'
  BY <1>1, <1>4, RelocsKept
<1> QED BY <1>4, <1>5 DEF TablesOK

LEMMA GrelocaKeeps ==
  \A d \in Decls : \A type \in Emitted(d) \cap RelocTypes : IInv /\ Greloca(d, type) => TablesOK'
<1> SUFFICES ASSUME NEW d \in Decls, NEW type \in Emitted(d) \cap RelocTypes,
                    IInv, Greloca(d, type)
             PROVE  TablesOK'
  OBVIOUS
<1> DEFINE r == [ix |-> c'[Handle(d)], type |-> type, for |-> <<d.name, d.bind = "local", files>>]
           n == Len(rels)
<1>1. /\ stage = "parse" /\ rels' = Append(rels, r)
      /\ IF Known(d) THEN UNCHANGED <<symtab, c>> ELSE PutExternSym(d)
      /\ UNCHANGED <<stage, hashtab, nb_hashed, first, first_rel>>
      /\ UNCHANGED <<fill, got, attrs, nb_errors, files>>
  BY DEF Greloca
<1>2. /\ TypesOK /\ Parsed /\ HandlesOK /\ RelocsOK /\ RelocsOfFile
      /\ Named(symtab, Len(symtab)) /\ Len(symtab) \in Nat
  BY <1>1, ParseFacts
<1>3. Declared /\ Handle(d) \in DOMAIN c'
  <2>1. CASE Known(d)
    <3>1. symtab' = symtab /\ c' = c
      BY <1>1, <2>1
    <3>2. \A j \in first + 1 .. Len(symtab) : symtab[j].type = "c"
      BY <1>1 DEF IInv, OffersOK
    <3> QED BY <1>2, <2>1, <3>1, <3>2 DEF Known, Declared, TypesOK, HandlesOK
  <2>2. CASE ~Known(d)
    BY <1>1, <2>2, PutExternSymFacts
  <2> QED BY <2>1, <2>2
<1>4. fill' \in [Sections -> Nat]
  BY <1>1, <1>2 DEF TypesOK
<1>5. /\ TypesOK' /\ TableOK' /\ HandlesOK' /\ GotsOK' /\ BeforeGot'
      /\ Len(symtab) <= Len(symtab') /\ Len(symtab') \in Nat
  BY <1>1, <1>3, <1>4, DeclaredKeeps
<1>6. /\ r.ix \in first + 1 .. Len(symtab') /\ r.ix \in 1 .. Len(symtab')
      /\ r.ix \in Nat /\ r.ix > first
  <2>1. r.ix \in first + 1 .. Len(symtab')
    BY <1>3 DEF Declared
  <2>2. first \in Nat
    BY <1>2 DEF TypesOK
  <2> HIDE DEF r
  <2> QED BY <1>5, <2>1, <2>2
<1>7. r \in Rel
  <2>1. type \in Types
    BY RelocTypesAssumption
  <2>2. <<d.name, d.bind = "local", files>> \in AllNames \X BOOLEAN \X Nat
    BY <1>2, DeclsAssumption DEF Decl, AllNames, TypesOK
  <2> QED BY <1>6, <2>1, <2>2 DEF Rel
<1> HIDE DEF r
<1>8. /\ rels' \in Seq(Rel) /\ Len(rels') = n + 1 /\ rels'[n + 1] = r /\ n \in Nat
      /\ \A i \in 1 .. n : rels'[i] = rels[i]
  <2> HIDE DEF Rel
  <2> QED BY <1>1, <1>2, <1>7 DEF RelocsOK
<1>9. \A i \in 1 .. n : rels[i].ix \in 1 .. Len(symtab)
  BY <1>2 DEF RelocsOK
<1>10. first_rel \in Nat /\ first_rel <= n
       /\ \A i \in 1 .. n : IF i > first_rel THEN rels[i].ix > first ELSE rels[i].ix <= first
  BY <1>1, <1>2 DEF RelocsOfFile, TypesOK
<1> HIDE DEF n
<1>11. ASSUME NEW i \in 1 .. n + 1
       PROVE  /\ rels'[i].ix \in 1 .. Len(symtab')
              /\ IF i > first_rel THEN rels'[i].ix > first ELSE rels'[i].ix <= first
  <2>1. CASE i = n + 1
    <3>1. i > first_rel
      BY <1>8, <1>10, <2>1
    <3> QED BY <1>6, <1>8, <2>1, <3>1
  <2>2. CASE i # n + 1
    <3>1. i \in 1 .. n
      BY <1>8, <2>2
    <3>2. \A x \in 1 .. Len(symtab) : x \in 1 .. Len(symtab')
      BY <1>2, <1>5
    <3> QED BY <1>8, <1>9, <1>10, <3>1, <3>2
  <2> QED BY <2>1, <2>2
<1>12. RelocsOK'
  BY <1>8, <1>11 DEF RelocsOK
<1>13. RelocsOfFile'
  <2>1. first_rel <= n + 1
    BY <1>8, <1>10
  <2> QED BY <1>1, <1>8, <1>11, <2>1 DEF RelocsOfFile
<1> QED BY <1>5, <1>12, <1>13 DEF TablesOK

LEMMA WeakenKeeps == \A k \in DOMAIN c : IInv /\ Weaken(k) => TablesOK'
<1> SUFFICES ASSUME NEW k \in DOMAIN c, IInv, Weaken(k) PROVE TablesOK'
  OBVIOUS
<1> DEFINE s == [symtab[c[k]] EXCEPT !.bind = "weak"]
<1>1. /\ stage = "parse" /\ symtab' = [symtab EXCEPT ![c[k]] = s]
      /\ UNCHANGED <<stage, hashtab, nb_hashed, first, first_rel, c, rels, fill, got, attrs,
                     nb_errors, files>>
  BY DEF Weaken
<1>2. /\ TypesOK /\ HandlesOK /\ Named(symtab, Len(symtab)) /\ Len(symtab) \in Nat
  BY <1>1, ParseFacts
<1>3. c[k] \in 1 .. Len(symtab)
  BY <1>2 DEF HandlesOK, TypesOK
<1>4. s \in Symbol /\ s.name \in Names /\ s.type = "c"
  <2> DEFINE old == symtab[c[k]]
  <2>0. c[k] \in first + 1 .. Len(symtab)
    BY <1>2 DEF HandlesOK
  <2>1. old \in Symbol /\ old.name \in Names /\ old.type = "c"
    BY <1>1, <1>2, <1>3, <2>0 DEF TypesOK, Named, IInv, OffersOK
  <2> HIDE DEF old
  <2>2. /\ [old EXCEPT !.bind = "weak"] \in Symbol /\ [old EXCEPT !.bind = "weak"].name = old.name
        /\ [old EXCEPT !.bind = "weak"].type = old.type
    BY <2>1 DEF Symbol, Bindings
  <2> QED BY <2>1, <2>2 DEF old
<1> HIDE DEF s
<1>5. Declared
  BY <1>1, <1>4, Rewritten
<1>6. fill' \in [Sections -> Nat]
  BY <1>1, <1>2 DEF TypesOK
<1>7. /\ TypesOK' /\ TableOK' /\ HandlesOK' /\ GotsOK' /\ BeforeGot'
      /\ Len(symtab) <= Len(symtab') /\ Len(symtab') \in Nat
  BY <1>1, <1>5, <1>6, DeclaredKeeps
<1>8. RelocsOK' /\ RelocsOfFile'
  BY <1>1, <1>7, RelocsKept
<1> QED BY <1>7, <1>8 DEF TablesOK

-----------------------------------------------------------------------------
(* Linking.                                                                *)

LEMMA EndFileKeeps == IInv /\ EndFile => TablesOK'
<1> SUFFICES ASSUME IInv, EndFile PROVE TablesOK'
  OBVIOUS
<1> DEFINE m == Merge
           t == m.t
           n == Len(symtab) - first
           moved(r) == [r EXCEPT !.ix = m.tr[r.ix - first]]
<1>1. /\ stage = "parse" /\ stage' = "link" /\ SetTab(t) /\ c' = <<>>
      /\ rels' = [i \in DOMAIN rels |-> IF i > first_rel THEN moved(rels[i]) ELSE rels[i]]
      /\ UNCHANGED <<first, first_rel, fill, got, attrs, files>>
  BY DEF EndFile
<1>2. /\ TypesOK /\ Parsed /\ RelocsOK /\ RelocsOfFile /\ got = <<>> /\ attrs = <<>>
      /\ Len(symtab) \in Nat /\ first <= Len(symtab) /\ first \in Nat
  BY <1>1, ParseFacts DEF TypesOK
<1>3. MergeOK(n, m)
  BY <1>2, MergeFacts
<1> HIDE DEF m
<1>4. /\ Good(t) /\ t.n \in Nat /\ first <= t.n /\ Named(t.syms, t.n)
      /\ \A j \in 1 .. n : m.tr[j] \in 1 .. t.n
  BY <1>3 DEF MergeOK, Good, Tabs
<1> HIDE DEF t
<1>5. /\ Good(Tab') /\ symtab' \in Seq(Symbol) /\ Len(symtab') = t.n
      /\ \A j \in 1 .. t.n : symtab'[j] = t.syms[j]
      /\ nb_errors' \in BOOLEAN
  BY <1>1, <1>4, SetTabFacts
<1>6. Named(symtab', Len(symtab'))
  BY <1>4, <1>5 DEF Named
<1>7. TypesOK' /\ TableOK' /\ HandlesOK' /\ RelocsOfFile' /\ GotsOK' /\ BeforeGot'
  <2>1. TypesOK'
    BY <1>1, <1>2, <1>5 DEF TypesOK, Stages
  <2>2. TableOK' /\ HandlesOK'
    BY <1>1, <1>5 DEF TableOK, HandlesOK
  <2>3. RelocsOfFile' /\ GotsOK' /\ BeforeGot'
    BY <1>1, <1>2, <1>6 DEF RelocsOfFile, GotsOK, BeforeGot
  <2> QED BY <2>1, <2>2, <2>3
<1>8. RelocsOK'
  <2> DEFINE q == rels'
             len == Len(rels)
  <2>1. rels \in Seq(Rel) /\ len \in Nat /\ DOMAIN rels = 1 .. len
    <3> HIDE DEF Rel
    <3> QED BY <1>2 DEF RelocsOK
  <2>2. ASSUME NEW i \in 1 .. len PROVE q[i] \in Rel /\ q[i].ix \in 1 .. t.n
    <3>1. rels[i] \in Rel /\ rels[i].ix \in 1 .. Len(symtab)
      <4>1. rels[i] \in Rel
        <5> HIDE DEF Rel
        <5> QED BY <2>1
      <4> QED BY <1>2, <4>1 DEF RelocsOK
    <3> DEFINE r == rels[i]
    <3>2. q[i] = IF i > first_rel THEN moved(r) ELSE r
      BY <1>1, <2>1
    <3>3. IF i > first_rel THEN r.ix > first ELSE r.ix <= first
      BY <1>1, <1>2 DEF RelocsOfFile
    <3> HIDE DEF r, q
    <3>4. CASE i > first_rel
      <4>1. r.ix - first \in 1 .. n
        BY <1>2, <3>1, <3>3, <3>4 DEF r
      <4> DEFINE ix == m.tr[r.ix - first]
      <4>2. ix \in 1 .. t.n /\ ix \in Nat
        BY <1>4, <4>1
      <4>3. q[i] = [r EXCEPT !.ix = ix]
        BY <3>2, <3>4
      <4> HIDE DEF ix
      <4>4. [r EXCEPT !.ix = ix] \in Rel /\ [r EXCEPT !.ix = ix].ix = ix
        BY <3>1, <4>2 DEF Rel, r
      <4> QED BY <4>2, <4>3, <4>4
    <3>5. CASE ~(i > first_rel)
      <4>1. r.ix \in 1 .. t.n
        BY <1>2, <1>4, <3>1, <3>3, <3>5 DEF r
      <4> QED BY <3>1, <3>2, <3>5, <4>1 DEF r
    <3> QED BY <3>4, <3>5
  <2>3. q = [i \in 1 .. len |-> q[i]]
    BY <1>1, <2>1
  <2> HIDE DEF q, len, Rel
  <2>4. q \in Seq(Rel) /\ Len(q) = len
    BY <2>1, <2>2, <2>3
  <2> QED BY <1>5, <2>2, <2>4 DEF RelocsOK, q
<1> QED BY <1>7, <1>8 DEF TablesOK

(* What holds while the table is hashed and no GOT was built.              *)
LEMMA LinkFacts ==
  ASSUME IInv, stage \in {"link", "resolved"}
  PROVE  /\ TypesOK /\ Good(Tab) /\ c = <<>> /\ RelocsOK /\ got = <<>> /\ attrs = <<>>
         /\ Named(symtab, Len(symtab)) /\ Len(symtab) \in Nat
         /\ Tab.n = Len(symtab) /\ Tab.syms = symtab
BY DEF IInv, TablesOK, TableOK, BeforeGot, TypesOK, Tab

(* One more symbol with a name of the program.                             *)
LEMMA EntryOffered ==
  ASSUME NEW t, Good(t), Named(t.syms, t.n), NEW s \in Symbol, s.name \in Names, Nonlocal(s)
  PROVE  LET u == Set(t, s)
         IN Good(u) /\ u.n \in Nat /\ t.n <= u.n /\ Named(u.syms, u.n)
<1> DEFINE u == Set(t, s)
           L == t.n
<1>1. L \in Nat
  BY DEF Good, Tabs
<1>2. Offered(t, u, s)
  BY SetFacts
<1> HIDE DEF u
<1>3. /\ Good(u) /\ u.n \in {L, L + 1} /\ (u.n = L + 1 => Alike(u.syms[u.n], s))
      /\ \A j \in 1 .. L : Alike(t.syms[j], u.syms[j])
  BY <1>1, <1>2 DEF Offered, Grown
<1>4. \A j \in 1 .. L : t.syms[j].name \in Names
  BY DEF Named
<1> HIDE DEF L
<1>5. u.n \in Nat /\ L <= u.n
  BY <1>1, <1>3
<1>6. Named(u.syms, u.n)
  <2>1. \A j \in 1 .. u.n : j \in 1 .. L \/ (j = u.n /\ u.n = L + 1)
    BY <1>1, <1>3
  <2> QED BY <1>3, <1>4, <2>1 DEF Named, Alike
<1> QED BY <1>3, <1>5, <1>6 DEF u, L

LEMMA AddSymbolKeeps == \A name \in AddedNames : IInv /\ AddSymbol(name) => TablesOK'
<1> SUFFICES ASSUME NEW name \in AddedNames, IInv, AddSymbol(name) PROVE TablesOK'
  OBVIOUS
<1> DEFINE s == GlobalSym(name, "abs", AddedValue)
           u == Set(Tab, s)
<1>1. /\ stage = "link" /\ SetTab(u)
      /\ UNCHANGED <<stage, first, first_rel, c, rels, fill, got, attrs, files>>
  BY DEF AddSymbol
<1>2. s \in Symbol /\ Nonlocal(s) /\ s.name \in Names
  <2>1. name \in Names /\ name \in AllNames /\ "abs" \in Shndx /\ AddedValue \in Nat
    BY AddedAssumption DEF AllNames, Shndx
  <2> HIDE DEF s
  <2> QED BY <2>1, GlobalSymFacts DEF s
<1> HIDE DEF s
<1>3. /\ TypesOK /\ c = <<>> /\ RelocsOK /\ got = <<>> /\ attrs = <<>>
      /\ Good(Tab) /\ Named(Tab.syms, Tab.n) /\ Tab.n = Len(symtab) /\ Len(symtab) \in Nat
  BY <1>1, LinkFacts
<1>4. /\ Good(u) /\ u.n \in Nat /\ Named(u.syms, u.n)
      /\ \A i \in 1 .. Len(rels) : rels[i].ix \in 1 .. u.n
  <2>1. Good(u) /\ u.n \in Nat /\ Tab.n <= u.n /\ Named(u.syms, u.n)
    BY <1>2, <1>3, EntryOffered
  <2> HIDE DEF u
  <2>2. \A x \in 1 .. Len(symtab) : x \in 1 .. u.n
    BY <1>3, <2>1
  <2> QED BY <1>3, <2>1, <2>2 DEF RelocsOK
<1> HIDE DEF u
<1>5. /\ Good(Tab') /\ symtab' \in Seq(Symbol) /\ Len(symtab') = u.n
      /\ \A j \in 1 .. u.n : symtab'[j] = u.syms[j]
      /\ nb_errors' \in BOOLEAN
  BY <1>1, <1>4, SetTabFacts
<1>6. Named(symtab', Len(symtab'))
  BY <1>4, <1>5 DEF Named
<1>7. TypesOK' /\ TableOK' /\ HandlesOK'
  BY <1>1, <1>3, <1>5 DEF TypesOK, TableOK, HandlesOK
<1>8. RelocsOK'
  BY <1>1, <1>3, <1>4, <1>5 DEF RelocsOK
<1>9. RelocsOfFile' /\ GotsOK' /\ BeforeGot'
  BY <1>1, <1>3, <1>6 DEF RelocsOfFile, GotsOK, BeforeGot
<1> QED BY <1>7, <1>8, <1>9 DEF TablesOK

(* A step that moves symbols and changes nothing else of them.             *)
LEMMA Moved ==
  ASSUME IInv, stage # "parse", stage' \in Stages \ {"parse"}, symtab' \in Seq(Symbol),
         Len(symtab') = Len(symtab),
         \A j \in 1 .. Len(symtab) :
           Alike(symtab[j], symtab'[j]) /\ (Undefined(symtab'[j]) => Undefined(symtab[j])),
         nb_errors' \in BOOLEAN, fill' \in [Sections -> Nat],
         stage' \in {"link", "resolved"} => stage \in {"link", "resolved"},
         UNCHANGED <<hashtab, nb_hashed, first, first_rel, c, rels, got, attrs, files>>
  PROVE  TablesOK'
<1>1. TypesOK /\ Good(Tab) /\ c = <<>> /\ RelocsOK /\ GotsOK
  BY DEF IInv, TablesOK, TableOK
<1>2. Good(Tab')
  BY <1>1, TabRetouched
<1>3. TypesOK'
  BY <1>1 DEF TypesOK
<1>4. TableOK' /\ HandlesOK' /\ RelocsOK' /\ RelocsOfFile' /\ GotsOK'
  BY <1>1, <1>2 DEF TableOK, HandlesOK, RelocsOK, RelocsOfFile, GotsOK
<1>5. BeforeGot'
  BY DEF IInv, TablesOK, BeforeGot, Named, Alike
<1> QED BY <1>3, <1>4, <1>5 DEF TablesOK

LEMMA ResolveCommonSymsKeeps == IInv /\ ResolveCommonSyms => TablesOK'
<1> SUFFICES ASSUME IInv, ResolveCommonSyms PROVE TablesOK'
  OBVIOUS
<1> DEFINE L == Len(symtab)
           common == {i \in DOMAIN symtab : symtab[i].shndx = "common"}
           before(i) == Cardinality({j \in common : j < i})
           value(i) == fill["bss"] + before(i)
           placed(i) == [symtab[i] EXCEPT !.shndx = "bss", !.value = value(i)]
<1>1. /\ stage = "link" /\ stage' = "resolved" /\ nb_errors' = FALSE
      /\ symtab' = [i \in DOMAIN symtab |-> IF i \in common THEN placed(i) ELSE symtab[i]]
      /\ fill' = [fill EXCEPT !["bss"] = fill["bss"] + Cardinality(common)]
      /\ UNCHANGED <<hashtab, nb_hashed, first, first_rel, c, rels, got, attrs, files>>
  BY DEF ResolveCommonSyms
<1>2. /\ symtab \in Seq(Symbol) /\ L \in Nat /\ DOMAIN symtab = 1 .. L
      /\ fill \in [Sections -> Nat] /\ fill["bss"] \in Nat
  <2>1. symtab \in Seq(Symbol) /\ fill \in [Sections -> Nat]
    BY DEF IInv, TablesOK, TypesOK
  <2>2. "bss" \in Sections
    BY DEF Sections, FileSections
  <2> QED BY <2>1, <2>2
<1>3. IsFiniteSet(common)
  <2>1. IsFiniteSet(1 .. L)
    BY <1>2, FS_Interval
  <2>2. common \subseteq 1 .. L
    BY <1>2
  <2> HIDE DEF common
  <2> QED BY <2>1, <2>2, FS_Subset
<1> HIDE DEF common
<1>4. Cardinality(common) \in Nat
  BY <1>3, FS_CardinalityType
<1>5. \A i : value(i) \in Nat
  <2> TAKE i
  <2>1. IsFiniteSet({j \in common : j < i})
    BY <1>3, FS_Subset
  <2>2. before(i) \in Nat
    BY <2>1, FS_CardinalityType
  <2> HIDE DEF before
  <2> QED BY <1>2, <2>2
<1> HIDE DEF value
<1>6. fill' \in [Sections -> Nat]
  <2> DEFINE x == fill["bss"] + Cardinality(common)
  <2>1. x \in Nat
    BY <1>2, <1>4
  <2>2. fill' = [fill EXCEPT !["bss"] = x]
    BY <1>1
  <2> HIDE DEF x
  <2> QED BY <1>2, <2>1, <2>2
<1>7. ASSUME NEW i \in 1 .. L
      PROVE  /\ symtab'[i] \in Symbol /\ Alike(symtab[i], symtab'[i])
             /\ Undefined(symtab'[i]) => Undefined(symtab[i])
  <2> DEFINE s == symtab[i]
  <2>1. s \in Symbol
    BY <1>2
  <2>2. symtab'[i] = IF i \in common THEN placed(i) ELSE s
    BY <1>1, <1>2
  <2>3. placed(i) = [s EXCEPT !.shndx = "bss", !.value = value(i)]
    OBVIOUS
  <2> HIDE DEF s, placed
  <2>4. value(i) \in Nat
    BY <1>5
  <2>5. placed(i) \in Symbol /\ Alike(s, placed(i)) /\ ~Undefined(placed(i))
    <3>1. "bss" \in Shndx
      BY DEF Shndx, Sections, FileSections
    <3> QED BY <2>1, <2>3, <2>4, <3>1 DEF Symbol, Alike, Nonlocal, Undefined
  <2> QED BY <2>1, <2>2, <2>5 DEF Alike, s
<1>8. symtab' \in Seq(Symbol) /\ Len(symtab') = L
  <2> DEFINE q == symtab'
  <2>1. q = [i \in 1 .. L |-> q[i]] /\ \A i \in 1 .. L : q[i] \in Symbol
    BY <1>1, <1>2, <1>7
  <2> HIDE DEF q, Symbol, L
  <2>2. q \in Seq(Symbol) /\ Len(q) = L
    BY <1>2, <2>1
  <2> QED BY <2>2 DEF q
<1> QED BY <1>1, <1>6, <1>7, <1>8, Moved DEF Stages

LEMMA RelocateSymsKeeps == IInv /\ RelocateSyms => TablesOK'
<1> SUFFICES ASSUME IInv, RelocateSyms PROVE TablesOK'
  OBVIOUS
<1> DEFINE L == Len(symtab)
           moved(s) == [s EXCEPT !.value = s.value + Base[s.shndx]]
<1>1. /\ stage = "sized" /\ stage' = "linked"
      /\ symtab' = [i \in DOMAIN symtab |->
                     IF Placed(symtab[i]) THEN moved(symtab[i]) ELSE symtab[i]]
      /\ UNCHANGED <<hashtab, nb_hashed, first, first_rel, c>>
      /\ UNCHANGED <<rels, fill, got, attrs, nb_errors, files>>
  BY DEF RelocateSyms
<1>2. /\ symtab \in Seq(Symbol) /\ L \in Nat /\ DOMAIN symtab = 1 .. L
      /\ fill \in [Sections -> Nat] /\ nb_errors \in BOOLEAN
  BY DEF IInv, TablesOK, TypesOK
<1>3. ASSUME NEW i \in 1 .. L
      PROVE  /\ symtab'[i] \in Symbol /\ Alike(symtab[i], symtab'[i])
             /\ Undefined(symtab'[i]) => Undefined(symtab[i])
  <2> DEFINE s == symtab[i]
  <2>1. s \in Symbol
    BY <1>2
  <2>2. symtab'[i] = IF Placed(s) THEN moved(s) ELSE s
    BY <1>1, <1>2
  <2> HIDE DEF s
  <2>3. CASE Placed(s)
    <3>1. s.shndx \in Sections /\ s.value \in Nat
      BY <2>1, <2>3 DEF Symbol, Shndx, Placed
    <3>2. s.value + Base[s.shndx] \in Nat
      BY <3>1, BaseAssumption
    <3>3. moved(s) \in Symbol /\ Alike(s, moved(s)) /\ (Undefined(moved(s)) => Undefined(s))
      BY <2>1, <3>2 DEF Symbol, Alike, Nonlocal, Undefined
    <3> QED BY <2>2, <2>3, <3>3 DEF s
  <2>4. CASE ~Placed(s)
    BY <2>1, <2>2, <2>4 DEF Alike, s
  <2> QED BY <2>3, <2>4
<1>4. symtab' \in Seq(Symbol) /\ Len(symtab') = L
  <2> DEFINE q == symtab'
  <2>1. q = [i \in 1 .. L |-> q[i]] /\ \A i \in 1 .. L : q[i] \in Symbol
    BY <1>1, <1>2, <1>3
  <2> HIDE DEF q, Symbol, L
  <2>2. q \in Seq(Symbol) /\ Len(q) = L
    BY <1>2, <2>1
  <2> QED BY <2>2 DEF q
<1> QED BY <1>1, <1>2, <1>3, <1>4, Moved DEF Stages

-----------------------------------------------------------------------------
(* The symbols the linker provides.                                        *)

(* Entry e of name n is the definition that counts, or has the place in    *)
(* .bss that a common one was given.                                       *)
SettledAs(o, n, e) ==
  /\ Undefined(e) <=> Definitions(o, n) = {}
  /\ Definitions(o, n) # {} =>
       LET w == o[Winning(o, n)]
       IN /\ e.type = w.type /\ e.bind = w.bind
          /\ e.shndx = IF w.shndx = "common" THEN "bss" ELSE w.shndx
          /\ w.shndx # "common" => e.value = w.value
          /\ e.vis = "hidden" <=> HiddenBefore(o, n, Len(o) + 1)
Settled(t, len, o) ==
  \A j \in 1 .. len : \A n \in Names : Holds(t, j, n) => SettledAs(o, n, t.syms[j])

AllClean == \A j \in 1 .. Len(symtab) : Clean(symtab[j])

Linkers(s) ==
  /\ s \in Symbol /\ s.name \in Names /\ s.type = "notype" /\ s.bind = "global"
  /\ s.vis = "default" /\ s.shndx \in FileSections

(* Symbol s is one more definition than o allows of its name.              *)
Twice(o, s) ==
  LET n == s.name
      w == o[Winning(o, n)]
  IN /\ Definitions(o, n) # {} /\ DefinedTwice(s, w)
     /\ ~(s = w /\ ~HiddenBefore(o, n, Len(o) + 1))

LEMMA LinkersFacts ==
  ASSUME NEW s, Linkers(s)
  PROVE  /\ Nonlocal(s) /\ ~Undefined(s) /\ Placed(s) /\ Provided(s) /\ DefinesGlobal(s)
         /\ Clean(s) /\ s.shndx # "common"
<1>1. s.shndx \notin {"plt", "undef", "abs", "common"}
  BY UserSectionsAssumption DEF Linkers, FileSections, ArraySections
<1> QED BY <1>1 DEF Linkers, Nonlocal, Undefined, Placed, Provided, DefinesGlobal, Clean

LEMMA LinkerSymFacts ==
  ASSUME NEW name \in Names, NEW shndx \in FileSections, NEW value \in Nat
  PROVE  Linkers(GlobalSym(name, shndx, value))
<1> DEFINE s == GlobalSym(name, shndx, value)
<1>1. name \in AllNames /\ shndx \in Shndx
  BY DEF AllNames, Shndx, Sections
<1>2. /\ s \in Symbol /\ s.name = name /\ s.type = "notype" /\ s.bind = "global"
      /\ s.vis = "default" /\ s.shndx = shndx
  BY <1>1, GlobalSymFacts
<1> HIDE DEF s
<1> QED BY <1>2 DEF Linkers, s

LEMMA LinkerSymsFacts ==
  ASSUME fill \in [Sections -> Nat]
  PROVE  Len(LinkerSyms) \in Nat /\ \A k \in 1 .. Len(LinkerSyms) : Linkers(LinkerSyms[k])
<1> DEFINE S == {s \in Symbol : Linkers(s)}
           I(name) == GlobalSym(name, "data", 0)
<1>1. ASSUME NEW name \in Names, NEW shndx \in FileSections, NEW value \in Nat
      PROVE  GlobalSym(name, shndx, value) \in S
  BY LinkerSymFacts DEF Linkers
<1> HIDE DEF S
<1>2. /\ {"text", "data", "bss"} \subseteq FileSections /\ ArraySections \subseteq FileSections
      /\ NamedSections \subseteq FileSections /\ FileSections \subseteq Sections
  BY DEF FileSections, Sections
<1>3. \A s \in FileSections : fill[s] \in Nat
  BY <1>2
<1>4. \A name \in LinkerNames : name \in Names
  BY NamesAssumption
<1> DEFINE ends == <<GlobalSym("_etext", "text", fill["text"]),
                     GlobalSym("_edata", "data", fill["data"]),
                     GlobalSym("_end", "bss", fill["bss"])>>
           pre == ArrayBounds("__preinit_array_start", "__preinit_array_end", ".preinit_array")
           init == ArrayBounds("__init_array_start", "__init_array_end", ".init_array")
           fini == ArrayBounds("__fini_array_start", "__fini_array_end", ".fini_array")
           num == 2 * Len(UserSections)
           At(i) == LET s == UserSections[(i + 1) \div 2]
                    IN IF i % 2 = 1 THEN GlobalSym(Start[s], s, 0)
                       ELSE GlobalSym(Stop[s], s, fill[s])
           user == [i \in 1 .. num |-> At(i)]
<1>5. ends \in Seq(S)
  <2>1. /\ GlobalSym("_etext", "text", fill["text"]) \in S
        /\ GlobalSym("_edata", "data", fill["data"]) \in S
        /\ GlobalSym("_end", "bss", fill["bss"]) \in S
    BY <1>1, <1>2, <1>3, <1>4 DEF LinkerNames
  <2> QED BY <2>1
<1>6. ASSUME NEW start \in Names, NEW end \in Names, NEW s \in FileSections
      PROVE  ArrayBounds(start, end, s) \in Seq(S)
  <2> DEFINE shndx == IF fill[s] = 0 THEN "data" ELSE s
  <2>1. shndx \in FileSections /\ fill[s] \in Nat /\ 0 \in Nat
    BY <1>2, <1>3
  <2> HIDE DEF shndx
  <2>2. GlobalSym(start, shndx, 0) \in S /\ GlobalSym(end, shndx, fill[s]) \in S
    BY <1>1, <2>1
  <2>3. Bounds(start, end, shndx, fill[s]) \in Seq(S)
    BY <2>2 DEF Bounds
  <2> QED BY <2>3 DEF ArrayBounds, shndx
<1>7. pre \in Seq(S) /\ init \in Seq(S) /\ fini \in Seq(S)
  <2>1. /\ ".preinit_array" \in FileSections /\ ".init_array" \in FileSections
        /\ ".fini_array" \in FileSections
    BY <1>2 DEF ArraySections
  <2>2. /\ "__preinit_array_start" \in Names /\ "__preinit_array_end" \in Names
        /\ "__init_array_start" \in Names /\ "__init_array_end" \in Names
        /\ "__fini_array_start" \in Names /\ "__fini_array_end" \in Names
    BY <1>4 DEF LinkerNames
  <2> QED BY <1>6, <2>1, <2>2
<1>8. user \in Seq(S)
  <2>1. num \in Nat /\ Len(UserSections) \in Nat
    BY UserSectionsAssumption
  <2>2. ASSUME NEW i \in 1 .. num PROVE At(i) \in S
    <3> DEFINE j == (i + 1) \div 2
               s == UserSections[j]
    <3>1. j \in 1 .. Len(UserSections)
      BY <2>1
    <3> HIDE DEF j
    <3>2. s \in NamedSections /\ s \in FileSections
      BY <1>2, <3>1, UserSectionsAssumption
    <3>3. Start[s] \in Names /\ Stop[s] \in Names /\ fill[s] \in Nat /\ 0 \in Nat
      BY <1>3, <3>2, UserSectionsAssumption
    <3> HIDE DEF s
    <3>4. GlobalSym(Start[s], s, 0) \in S /\ GlobalSym(Stop[s], s, fill[s]) \in S
      BY <1>1, <3>2, <3>3
    <3> QED BY <3>4 DEF s, j
  <2> HIDE DEF num, At
  <2> QED BY <2>1, <2>2
<1>9. LinkerSyms = ends \o pre \o init \o fini \o user
  BY DEF LinkerSyms
<1> HIDE DEF ends, pre, init, fini, user
<1>10. LinkerSyms \in Seq(S)
  BY <1>5, <1>7, <1>8, <1>9
<1>11. Len(LinkerSyms) \in Nat /\ \A k \in 1 .. Len(LinkerSyms) : LinkerSyms[k] \in S
  BY <1>10
<1> QED BY <1>11 DEF S

(* The first offer of a name.                                              *)
LEMMA FirstSettled ==
  ASSUME NEW o \in Seq(Symbol), NEW s, Linkers(s), Offers(o, s.name) = {}
  PROVE  SettledAs(Append(o, s), s.name, s) /\ ~Twice(o, s)
<1> DEFINE n == s.name
           p == Append(o, s)
<1>1. s \in Symbol /\ Nonlocal(s) /\ ~Undefined(s) /\ s.shndx # "common"
  BY LinkersFacts DEF Linkers
<1>2. Definitions(o, n) = {} /\ ~HiddenBefore(o, n, Len(o) + 1)
  BY DEF Definitions, HiddenBefore
<1>3. /\ Definitions(p, n) # {} /\ p[Winning(p, n)] = s
      /\ HiddenBefore(p, n, Len(p) + 1) <=> s.vis = "hidden"
  BY <1>1, <1>2, OwnName
<1>4. ~Twice(o, s)
  BY <1>2 DEF Twice
<1> HIDE DEF n, p
<1>5. SettledAs(p, n, s)
  BY <1>1, <1>3 DEF SettledAs
<1> QED BY <1>4, <1>5 DEF n, p

(* A further offer: the entry becomes what set_elf_sym() makes of it, and  *)
(* a common symbol that was given its place gives way like any other.      *)
LEMMA FurtherSettled ==
  ASSUME NEW o \in Seq(Symbol), NEW s, Linkers(s), NEW old \in Symbol,
         old.name = s.name, SettledAs(o, s.name, old)
  PROVE  /\ SettledAs(Append(o, s), s.name, Result(s, old))
         /\ Twice(o, s) <=> old # s /\ DefinedTwice(s, old)
<1> DEFINE n == s.name
           p == Append(o, s)
           r == Result(s, old)
           w == o[Winning(o, n)]
           D == Definitions(o, n)
           hid == HiddenBefore(o, n, Len(o) + 1)
<1>0. /\ s \in Symbol /\ Nonlocal(s) /\ ~Undefined(s) /\ Placed(s) /\ s.shndx # "common"
      /\ s.vis = "default"
  BY LinkersFacts DEF Linkers
<1>1. /\ Definitions(p, n) # {}
      /\ D = {} => p[Winning(p, n)] = s
      /\ D # {} => p[Winning(p, n)] = IF Overrides(s, w) THEN s ELSE w
      /\ HiddenBefore(p, n, Len(p) + 1) <=> hid
  BY <1>0, OwnName
<1>2. LET kept == IF Overrides(s, old) THEN s ELSE old
      IN /\ r.type = kept.type /\ r.shndx = kept.shndx /\ r.value = kept.value
         /\ r.bind = kept.bind
         /\ Undefined(r) <=> Undefined(s) /\ Undefined(old)
         /\ Undefined(old) => Overrides(s, old)
         /\ r.vis = "hidden" <=> s.vis = "hidden" \/ (~Undefined(old) /\ old.vis = "hidden")
  BY <1>0, ResultFacts
<1>3. Undefined(old) <=> D = {}
  BY DEF SettledAs
<1>4. D # {} => /\ old.type = w.type /\ old.bind = w.bind
                /\ old.shndx = IF w.shndx = "common" THEN "bss" ELSE w.shndx
                /\ w.shndx # "common" => old.value = w.value
                /\ old.vis = "hidden" <=> hid
  BY DEF SettledAs
<1>5. D = {} => ~hid
  BY DEF HiddenBefore
<1>6. D # {} => w \in Symbol /\ w.name = n /\ ~Undefined(w)
  <2>1. D # {} => Winning(o, n) \in Offers(o, n) /\ Winning(o, n) \in D
    BY WinningFacts, OfferedAt
  <2> QED BY <2>1, OfferedAt DEF Offers, Definitions
<1>7. D # {} /\ w.vis = "hidden" => hid
  <2> SUFFICES ASSUME D # {}, w.vis = "hidden" PROVE hid
    OBVIOUS
  <2> DEFINE x == Winning(o, n)
  <2>1. x \in D /\ x \in Offers(o, n) /\ x \in 1 .. Len(o) /\ Len(o) \in Nat
    BY <1>0, WinningFacts, OfferedAt, OneMore
  <2>2. x < Len(o) + 1 /\ x <= x
    BY <2>1
  <2> QED BY <2>1, <2>2 DEF HiddenBefore
<1>8. Twice(o, s) <=> D # {} /\ DefinedTwice(s, w) /\ ~(s = w /\ ~hid)
  BY DEF Twice
<1>9. s.name = n /\ old.name = n
  OBVIOUS
<1> HIDE DEF n, p, r, w, D, hid
<1>10. D # {} => /\ Overrides(s, old) <=> Overrides(s, w)
                 /\ DefinedTwice(s, old) <=> DefinedTwice(s, w)
  BY <1>4, <1>6 DEF Overrides, DefinedTwice, Undefined, Tentative
<1>11. SettledAs(p, n, r)
  <2>1. CASE D = {}
    <3>1. Overrides(s, old)
      BY <1>2, <1>3, <2>1
    <3> QED BY <1>0, <1>1, <1>2, <1>3, <1>5, <2>1, <3>1 DEF SettledAs
  <2>2. CASE D # {} /\ Overrides(s, w)
    BY <1>0, <1>1, <1>2, <1>3, <1>4, <1>10, <2>2 DEF SettledAs
  <2>3. CASE D # {} /\ ~Overrides(s, w)
    BY <1>0, <1>1, <1>2, <1>3, <1>4, <1>10, <2>3 DEF SettledAs
  <2> QED BY <2>1, <2>2, <2>3
<1>12. D # {} /\ DefinedTwice(s, w) => (old = s <=> s = w /\ ~hid)
  <2> SUFFICES ASSUME D # {}, DefinedTwice(s, w) PROVE old = s <=> s = w /\ ~hid
    OBVIOUS
  <2>1. w.shndx # "common"
    BY <1>0 DEF DefinedTwice, Tentative
  <2>2. /\ old.type = w.type /\ old.shndx = w.shndx /\ old.value = w.value
        /\ old.bind = w.bind /\ old.name = w.name
        /\ old.vis = "hidden" <=> hid
    BY <1>4, <1>6, <1>9, <2>1
  <2>3. w \in Symbol
    BY <1>6
  <2>4. /\ w.vis \in {"default", "hidden"} /\ old.vis \in {"default", "hidden"}
    BY <2>3 DEF Symbol, Visibilities
  <2>5. old.vis = w.vis => old = w
    BY <2>2, <2>3 DEF Symbol
  <2> QED BY <1>0, <1>7, <2>2, <2>4, <2>5
<1>13. D = {} => ~DefinedTwice(s, old)
  BY <1>3 DEF DefinedTwice
<1>14. Twice(o, s) <=> old # s /\ DefinedTwice(s, old)
  BY <1>8, <1>10, <1>12, <1>13
<1> QED BY <1>11, <1>14 DEF n, p, r

LEMMA ProvidedSettles ==
  ASSUME NEW t, Good(t), NEW o, Knows(t, o), Settled(t, t.n, o), NEW s, Linkers(s)
  PROVE  LET u == Set(t, s)
         IN /\ Settled(u, u.n, Append(o, s))
            /\ u.err <=> t.err \/ Twice(o, s)
<1> DEFINE u == Set(t, s)
           p == Append(o, s)
<1>1. s \in Symbol /\ s.name \in Names /\ Nonlocal(s) /\ ~Undefined(s)
  BY LinkersFacts DEF Linkers
<1>2. Adds(t, u, s) \/ \E ix : Resolves(t, u, s, ix)
  BY <1>1, SetEntries
<1>3. t.n \in Nat /\ o \in Seq(Symbol)
  BY DEF Good, Tabs, Knows
<1>4. \A j \in 1 .. t.n : t.syms[j] \in Symbol
  <2>1. t.syms \in Seq(Symbol) /\ t.n <= Len(t.syms)
    BY DEF Good, Tabs
  <2>2. \A j \in 1 .. t.n : j \in 1 .. Len(t.syms)
    BY <1>3, <2>1
  <2> HIDE DEF Symbol
  <2> QED BY <2>1, <2>2
<1> HIDE DEF u
<1>5. ASSUME NEW n \in Names, n # s.name, NEW e, SettledAs(o, n, e)
      PROVE  SettledAs(p, n, e)
  <2>1. /\ Definitions(p, n) = Definitions(o, n)
        /\ Definitions(o, n) # {} => p[Winning(p, n)] = o[Winning(o, n)]
        /\ HiddenBefore(p, n, Len(p) + 1) <=> HiddenBefore(o, n, Len(o) + 1)
    BY <1>1, <1>3, <1>5, OtherName
  <2> HIDE DEF p
  <2> QED BY <1>5, <2>1 DEF SettledAs
<1>6. CASE Adds(t, u, s)
  <2>1. /\ Fresh(t, s) /\ u.n = t.n + 1 /\ u.syms[t.n + 1] = s /\ (u.err <=> t.err)
        /\ \A j \in 1 .. t.n : u.syms[j] = t.syms[j]
    BY <1>6 DEF Adds
  <2>2. \A i \in 1 .. t.n : ~Holds(t, i, s.name)
    BY <1>1, <2>1 DEF Fresh, Holds, Unique
  <2>3. Offers(o, s.name) = {}
    BY <1>1, <2>2 DEF Knows
  <2>4. SettledAs(p, s.name, s) /\ ~Twice(o, s)
    BY <1>3, <2>3, FirstSettled
  <2>5. ASSUME NEW j \in 1 .. t.n + 1, NEW n \in Names, Holds(u, j, n)
        PROVE  SettledAs(p, n, u.syms[j])
    <3>1. CASE j = t.n + 1
      BY <2>1, <2>4, <2>5, <3>1 DEF Holds
    <3>2. CASE j # t.n + 1
      <4>1. j \in 1 .. t.n
        BY <1>3, <3>2
      <4>2. u.syms[j] = t.syms[j] /\ Holds(t, j, n)
        BY <2>1, <2>5, <4>1 DEF Holds
      <4>3. n # s.name
        BY <2>2, <4>1, <4>2
      <4>4. SettledAs(o, n, t.syms[j])
        BY <4>1, <4>2 DEF Settled
      <4> QED BY <1>5, <4>2, <4>3, <4>4
    <3> QED BY <3>1, <3>2
  <2> QED BY <2>1, <2>4, <2>5 DEF Settled, u, p
<1>7. CASE \E ix : Resolves(t, u, s, ix)
  <2>1. PICK ix : Resolves(t, u, s, ix)
    BY <1>7
  <2> DEFINE old == t.syms[ix]
  <2>2. /\ ix \in 1 .. t.n /\ Holds(t, ix, s.name) /\ u.n = t.n
        /\ u.err <=> t.err \/ (old # s /\ DefinedTwice(s, old))
        /\ u.syms[ix] = Result(s, old)
        /\ \A j \in 1 .. t.n : j # ix => u.syms[j] = t.syms[j]
    BY <2>1 DEF Resolves
  <2>3. old \in Symbol /\ SettledAs(o, s.name, old) /\ old.name = s.name
    BY <1>1, <1>4, <2>2 DEF Settled, Holds
  <2>4. /\ SettledAs(p, s.name, Result(s, old))
        /\ Twice(o, s) <=> old # s /\ DefinedTwice(s, old)
    BY <1>3, <2>3, FurtherSettled
  <2> HIDE DEF old
  <2>5. ASSUME NEW j \in 1 .. t.n, NEW n \in Names, Holds(u, j, n)
        PROVE  SettledAs(p, n, u.syms[j])
    <3>1. CASE j = ix
      <4>1. n = s.name
        <5>1. u.syms[j].name = n
          BY <2>5 DEF Holds
        <5>2. Alike(t.syms[j], u.syms[j])
          BY <1>1, SetFacts DEF Offered, Grown, u
        <5>3. t.syms[j].name = s.name
          BY <2>2, <3>1 DEF Holds
        <5> QED BY <5>1, <5>2, <5>3 DEF Alike
      <4> QED BY <2>2, <2>4, <3>1, <4>1
    <3>2. CASE j # ix
      <4>1. u.syms[j] = t.syms[j] /\ Holds(t, j, n)
        BY <2>2, <2>5, <3>2 DEF Holds
      <4>2. n # s.name
        BY <2>2, <3>2, <4>1 DEF Good, Once, Holds, Unique
      <4>3. SettledAs(o, n, t.syms[j])
        BY <4>1 DEF Settled
      <4> QED BY <1>5, <4>1, <4>2, <4>3
    <3> QED BY <3>1, <3>2
  <2> QED BY <2>2, <2>4, <2>5 DEF Settled, u, p
<1> QED BY <1>2, <1>6, <1>7 DEF u, p

(* The first m symbols offered are not the linker's, those after them are. *)
ProvidedFrom(o, m) == m <= Len(o) /\ \A k \in 1 .. Len(o) : Provided(o[k]) <=> k > m

(* A symbol the linker provides clashes with one that counts, or the one   *)
(* that counts is itself, and others it provides clash already.            *)
LEMMA TakenMore ==
  ASSUME NEW o \in Seq(Symbol), NEW m \in Nat, ProvidedFrom(o, m), NEW s, Linkers(s)
  PROVE  (\E n \in Names : Taken(Append(o, s), n)) <=> (\E n \in Names : Taken(o, n)) \/ Twice(o, s)
<1> DEFINE p == Append(o, s)
           k == Len(o) + 1
<1>1. s \in Symbol /\ s.name \in Names /\ Nonlocal(s) /\ DefinesGlobal(s) /\ Provided(s)
  BY LinkersFacts DEF Linkers
<1>2. /\ Len(o) \in Nat /\ k \in Nat /\ p[k] = s /\ \A i \in 1 .. Len(o) : p[i] = o[i]
  BY <1>1, OneMore
<1>3. ASSUME NEW n
      PROVE  /\ Globals(o, n) \subseteq 1 .. Len(o)
             /\ Globals(p, n) = Globals(o, n) \cup (IF s.name = n THEN {k} ELSE {})
             /\ \A j \in Globals(o, n) : Clash(p, n, j) <=> Clash(o, n, j)
  <2>1. Globals(o, n) \subseteq 1 .. Len(o)
    BY OfferedAt
  <2>2. Globals(p, n) = Globals(o, n) \cup Added(o, s, n, DefinesGlobal(s))
    BY <1>1, OfferedMore
  <2>3. \A j \in Globals(o, n) : Clash(p, n, j) <=> Clash(o, n, j)
    BY <1>1, ClashEarlier
  <2> QED BY <1>1, <2>1, <2>2, <2>3 DEF Added
<1>4. ASSUME NEW n
      PROVE  Taken(p, n) <=> Taken(o, n) \/ (s.name = n /\ Clash(p, n, k))
  <2>1. \A j \in Globals(o, n) : p[j] = o[j]
    BY <1>2, <1>3
  <2> HIDE DEF p, k
  <2> QED BY <1>1, <1>2, <1>3, <2>1 DEF Taken
<1>5. Twice(o, s) => Clash(p, s.name, k)
  BY <1>1, ClashLast DEF Twice
<1>6. Clash(p, s.name, k) => Twice(o, s) \/ Taken(o, s.name)
  <2> DEFINE n == s.name
             w == Winning(o, n)
  <2>1. Clash(p, n, k) =>
          Twice(o, s) \/ (s = o[w] /\ \E i \in Globals(o, n) : w < i /\ Clash(o, n, i))
    BY <1>1, ClashLast DEF Twice
  <2>2. ASSUME s = o[w], NEW i \in Globals(o, n), w < i, Clash(o, n, i) PROVE Taken(o, n)
    <3>1. i \in 1 .. Len(o) /\ Definitions(o, n) # {}
      BY <1>3, OfferedAt
    <3>2. w \in 1 .. Len(o)
      BY <3>1, WinningFacts
    <3> HIDE DEF w, n
    <3>3. w > m
      BY <1>1, <2>2, <3>2 DEF ProvidedFrom
    <3>4. i > m
      BY <1>2, <2>2, <3>1, <3>2, <3>3
    <3> QED BY <2>2, <3>1, <3>4 DEF ProvidedFrom, Taken
  <2> HIDE DEF w
  <2> QED BY <2>1, <2>2
<1> HIDE DEF p, k
<1> QED BY <1>1, <1>4, <1>5, <1>6 DEF p

LinkerStates == [t : Tabs, o : Seq(Symbol)]

(* What tcc_add_linker_symbols() keeps true of the table and of what was   *)
(* offered to it.                                                          *)
LinkerOK(x) ==
  /\ x \in LinkerStates /\ Good(x.t) /\ Named(x.t.syms, x.t.n) /\ Len(symtab) <= x.t.n
  /\ ProvidedFrom(x.o, Len(offered))
  /\ \A j \in 1 .. Len(symtab) : Keeps(symtab[j], x.t.syms[j])
  /\ AllClean => \A j \in 1 .. x.t.n : Clean(x.t.syms[j])
  /\ Knows(Tab, offered) => Knows(x.t, x.o)
  /\ Knows(Tab, offered) /\ Settled(Tab, Len(symtab), offered) =>
       /\ Settled(x.t, x.t.n, x.o)
       /\ x.t.err <=> nb_errors \/ \E n \in Names : Taken(x.o, n)

ProvideStep(x, s) == IF Absent(s) THEN x ELSE [t |-> Set(x.t, s), o |-> Append(x.o, s)]

LEMMA ProvideStart ==
  ASSUME IInv, stage = "resolved"
  PROVE  LinkerOK([t |-> Tab, o |-> offered])
<1> DEFINE t == Tab
           x == [t |-> t, o |-> offered]
<1>1. /\ Good(t) /\ Named(t.syms, t.n) /\ t.n = Len(symtab) /\ t.syms = symtab
      /\ Len(symtab) \in Nat
  BY LinkFacts
<1>2. t.err = nb_errors
  BY DEF Tab
<1> HIDE DEF t
<1>3. offered \in Seq(Symbol) /\ NotProvided(offered) /\ Len(offered) \in Nat
  <2>1. offered \in Seq(Symbol) /\ NotProvided(offered)
    BY DEF IInv, OffersOK
  <2> HIDE DEF Symbol
  <2> QED BY <2>1
<1>4. x \in LinkerStates /\ x.t = t /\ x.o = offered
  <2>1. t \in Tabs
    BY <1>1 DEF Good
  <2> HIDE DEF Symbol, Tabs
  <2> QED BY <1>3, <2>1 DEF LinkerStates
<1> HIDE DEF x
<1>5. ProvidedFrom(offered, Len(offered))
  <2>1. \A k \in 1 .. Len(offered) : ~(k > Len(offered))
    BY <1>3
  <2> QED BY <1>3, <2>1 DEF ProvidedFrom, NotProvided
<1>6. \A n : ~Taken(offered, n)
  <2>1. \A n : Globals(offered, n) \subseteq 1 .. Len(offered)
    BY <1>3, OfferedAt
  <2> QED BY <1>3, <2>1 DEF Taken, NotProvided
<1>7. \A j \in 1 .. Len(symtab) : Keeps(symtab[j], t.syms[j])
  BY <1>1 DEF Keeps, Alike
<1> QED BY <1>1, <1>2, <1>4, <1>5, <1>6, <1>7 DEF LinkerOK, AllClean, t, x

LEMMA ProvideStepFacts ==
  ASSUME NEW x, LinkerOK(x), NEW s, Linkers(s), Len(symtab) \in Nat, Len(offered) \in Nat
  PROVE  LinkerOK(ProvideStep(x, s))
<1>1. CASE Absent(s)
  BY <1>1 DEF ProvideStep
<1>2. CASE ~Absent(s)
  <2> DEFINE t == x.t
             o == x.o
             u == Set(t, s)
             p == Append(o, s)
             y == [t |-> u, o |-> p]
  <2>1. /\ s \in Symbol /\ s.name \in Names /\ Nonlocal(s) /\ ~Undefined(s) /\ Clean(s)
        /\ Provided(s)
    BY LinkersFacts DEF Linkers
  <2>2. /\ Good(t) /\ Named(t.syms, t.n) /\ Len(symtab) <= t.n /\ t.n \in Nat
        /\ o \in Seq(Symbol) /\ ProvidedFrom(o, Len(offered))
        /\ \A j \in 1 .. Len(symtab) : Keeps(symtab[j], t.syms[j])
        /\ AllClean => \A j \in 1 .. t.n : Clean(t.syms[j])
        /\ Knows(Tab, offered) => Knows(t, o)
        /\ Knows(Tab, offered) /\ Settled(Tab, Len(symtab), offered) =>
             /\ Settled(t, t.n, o)
             /\ t.err <=> nb_errors \/ \E n \in Names : Taken(o, n)
    BY DEF LinkerOK, LinkerStates, Good, Tabs
  <2> HIDE DEF t, o
  <2>3. Good(u) /\ u.n \in Nat /\ t.n <= u.n /\ Named(u.syms, u.n)
    BY <2>1, <2>2, EntryOffered
  <2>4. /\ \A j \in 1 .. t.n : Keeps(t.syms[j], u.syms[j])
        /\ (\A j \in 1 .. t.n : Clean(t.syms[j])) => \A j \in 1 .. u.n : Clean(u.syms[j])
    BY <2>1, <2>2, SetPlaces
  <2>5. Knows(t, o) => Knows(u, p)
    BY <2>1, <2>2, SetKnows
  <2>6. Knows(t, o) /\ Settled(t, t.n, o) =>
          Settled(u, u.n, p) /\ (u.err <=> t.err \/ Twice(o, s))
    BY <2>2, ProvidedSettles
  <2>7. (\E n \in Names : Taken(p, n)) <=> (\E n \in Names : Taken(o, n)) \/ Twice(o, s)
    BY <2>2, TakenMore
  <2>8. /\ p \in Seq(Symbol) /\ Len(p) = Len(o) + 1 /\ Len(o) \in Nat
        /\ p[Len(o) + 1] = s /\ \A k \in 1 .. Len(o) : p[k] = o[k]
    BY <2>1, <2>2, OneMore
  <2> HIDE DEF u, p
  <2>9. ProvidedFrom(p, Len(offered))
    <3>1. Len(offered) <= Len(o) /\ \A k \in 1 .. Len(o) : Provided(o[k]) <=> k > Len(offered)
      BY <2>2 DEF ProvidedFrom
    <3>2. ASSUME NEW k \in 1 .. Len(p) PROVE Provided(p[k]) <=> k > Len(offered)
      <4>1. CASE k = Len(o) + 1
        BY <2>1, <2>8, <3>1, <4>1
      <4>2. CASE k # Len(o) + 1
        <5>1. k \in 1 .. Len(o)
          BY <2>8, <4>2
        <5> QED BY <2>8, <3>1, <5>1
      <4> QED BY <4>1, <4>2
    <3> QED BY <2>8, <3>1, <3>2 DEF ProvidedFrom
  <2>10. y \in LinkerStates /\ y.t = u /\ y.o = p
    <3>1. u \in Tabs
      BY <2>3 DEF Good
    <3> HIDE DEF Symbol, Tabs
    <3> QED BY <2>8, <3>1 DEF LinkerStates
  <2> HIDE DEF y
  <2>11. \A j \in 1 .. Len(symtab) : Keeps(symtab[j], u.syms[j])
    <3> TAKE j \in 1 .. Len(symtab)
    <3>1. j \in 1 .. t.n
      BY <2>2
    <3>2. Keeps(symtab[j], t.syms[j]) /\ Keeps(t.syms[j], u.syms[j])
      BY <2>2, <2>4, <3>1
    <3> QED BY <3>2, KeepsStill
  <2>12. Len(symtab) <= u.n
    BY <2>2, <2>3
  <2>13. Knows(Tab, offered) /\ Settled(Tab, Len(symtab), offered) =>
           /\ Settled(u, u.n, p)
           /\ u.err <=> nb_errors \/ \E n \in Names : Taken(p, n)
    BY <2>2, <2>6, <2>7
  <2>14. LinkerOK(y)
    BY <2>2, <2>3, <2>4, <2>5, <2>9, <2>10, <2>11, <2>12, <2>13 DEF LinkerOK
  <2> QED BY <1>2, <2>14 DEF ProvideStep, y, u, p, t, o
<1> QED BY <1>1, <1>2

LEMMA LinkerFacts ==
  ASSUME IInv, stage = "resolved"
  PROVE  LinkerOK(AddLinkerSymbols)
<1> DEFINE n == Len(LinkerSyms)
           J == [k \in 0 .. n |-> {x \in LinkerStates : LinkerOK(x)}]
           start == [t |-> Tab, o |-> offered]
           step == [k \in 1 .. n |-> [x \in J[k - 1] |-> ProvideStep(x, LinkerSyms[k])]]
           Value(f, k) == IF k = 0 THEN start ELSE ProvideStep(f[k - 1], LinkerSyms[k])
           at == CHOOSE f : f = [k \in 0 .. n |-> Value(f, k)]
<1>1. n \in Nat /\ \A k \in 1 .. n : Linkers(LinkerSyms[k])
  <2>1. fill \in [Sections -> Nat]
    BY DEF IInv, TablesOK, TypesOK
  <2> QED BY <2>1, LinkerSymsFacts
<1>2. AddLinkerSymbols = at[n]
  BY DEF AddLinkerSymbols, ProvideStep
<1>3. LinkerOK(start)
  BY ProvideStart
<1>4. Len(symtab) \in Nat /\ Len(offered) \in Nat
  <2>1. offered \in Seq(Symbol)
    BY DEF IInv, OffersOK
  <2> HIDE DEF Symbol
  <2> QED BY <2>1, LinkFacts
<1> HIDE DEF n, start
<1>5. \A k \in 0 .. n : \A x : x \in J[k] <=> LinkerOK(x)
  BY DEF LinkerOK
<1> HIDE DEF J
<1>6. start \in J[0]
  BY <1>1, <1>3, <1>5, 0 \in 0 .. n
<1>7. ASSUME NEW k \in 1 .. n, NEW x \in J[k - 1] PROVE ProvideStep(x, LinkerSyms[k]) \in J[k]
  <2>1. LinkerOK(x)
    BY <1>1, <1>5, k - 1 \in 0 .. n
  <2>2. LinkerOK(ProvideStep(x, LinkerSyms[k]))
    BY <1>1, <1>4, <2>1, ProvideStepFacts
  <2> QED BY <1>1, <1>5, <2>2, k \in 0 .. n
<1>8. Leads(n, J, step)
  <2> SUFFICES \A k \in 1 .. n : \A x \in J[k - 1] : step[k][x] \in J[k]
    BY DEF Leads
  <2> TAKE k \in 1 .. n
  <2> TAKE x \in J[k - 1]
  <2>1. step[k][x] = ProvideStep(x, LinkerSyms[k])
    OBVIOUS
  <2> HIDE DEF step
  <2> QED BY <1>7, <2>1
<1>9. PICK f : FollowsWithin(f, n, J, start, step)
  <2> HIDE DEF step
  <2> QED BY <1>1, <1>6, <1>8, RecursionWithin
<1>10. /\ f = [k \in 0 .. n |-> f[k]] /\ f[0] = start
       /\ \A k \in 1 .. n : f[k] = step[k][f[k - 1]]
       /\ \A k \in 0 .. n : f[k] \in J[k]
  <2> HIDE DEF step
  <2> QED BY <1>9 DEF FollowsWithin
<1>11. f = [k \in 0 .. n |-> Value(f, k)]
  <2>1. \A k \in 0 .. n : f[k] = Value(f, k)
    <3> TAKE k \in 0 .. n
    <3>1. CASE k # 0
      <4>1. k \in 1 .. n /\ k - 1 \in 0 .. n
        BY <1>1, <3>1
      <4>2. f[k] = ProvideStep(f[k - 1], LinkerSyms[k])
        BY <1>10, <4>1
      <4> QED BY <3>1, <4>2
    <3> QED BY <1>10, <3>1
  <2> HIDE DEF Value, step
  <2> QED BY <1>10, <2>1
<1>12. at = [k \in 0 .. n |-> Value(at, k)]
  BY <1>11
<1> HIDE DEF at
<1> DEFINE S == {k \in 0 .. n : at[k] \in J[k]}
<1>13. 0 .. n \subseteq S
  <2>1. 0 \in S
    <3>1. at[0] = start
      BY <1>1, <1>12
    <3> QED BY <1>1, <1>6, <3>1
  <2>2. ASSUME NEW k \in 1 .. n, k - 1 \in S PROVE k \in S
    <3>1. at[k] = ProvideStep(at[k - 1], LinkerSyms[k]) /\ k \in 0 .. n
      BY <1>12, k \in 0 .. n, k # 0
    <3>2. at[k - 1] \in J[k - 1]
      BY <2>2
    <3> QED BY <1>7, <3>1, <3>2
  <2> HIDE DEF S
  <2> QED BY <1>1, <2>1, <2>2, RangeInduction
<1>14. LinkerOK(at[n])
  BY <1>1, <1>5, <1>13, n \in 0 .. n
<1> QED BY <1>2, <1>14 DEF n

LEMMA RelocateKeeps == IInv /\ Relocate => TablesOK'
<1> SUFFICES ASSUME IInv, Relocate PROVE TablesOK'
  OBVIOUS
<1> DEFINE x == AddLinkerSymbols
           u == x.t
           g == BuildGotEntries(u)
           err == g.t.err \/ Unresolved(g.t)
           t == [g.t EXCEPT !.err = err]
<1>1. /\ stage = "resolved" /\ SetTab(t) /\ rels' = g.rels /\ got' = g.got
      /\ stage' \in {"failed", "sized"}
      /\ UNCHANGED <<first, first_rel, c, fill, files>>
  BY DEF Relocate
<1>2. /\ TypesOK /\ c = <<>> /\ RelocsOK /\ got = <<>> /\ attrs = <<>> /\ Len(symtab) \in Nat
  BY <1>1, LinkFacts
<1> HIDE DEF x
<1>3. Good(u) /\ Named(u.syms, u.n) /\ Len(symtab) <= u.n /\ u.n \in Nat
  BY <1>1, LinkerFacts DEF x, LinkerOK, Good, Tabs
<1> HIDE DEF u
<1>4. \A i \in 1 .. Len(rels) : rels[i].ix \in 1 .. u.n
  <2>1. \A j \in 1 .. Len(symtab) : j \in 1 .. u.n
    BY <1>2, <1>3
  <2> QED BY <1>2, <2>1 DEF RelocsOK
<1>5. GotOK(u, 2 * Len(rels), g)
  BY <1>2, <1>3, <1>4, BuildGotEntriesFacts DEF GotInput, RelocsOK
<1> HIDE DEF g
<1>6. /\ g \in GotStates /\ Good(g.t) /\ g.t \in Tabs /\ Len(g.rels) = Len(rels)
      /\ \A i \in 1 .. Len(rels) : g.rels[i].ix \in 1 .. g.t.n
      /\ \A i \in DOMAIN g.got : g.got[i] \in 1 .. g.t.n
  BY <1>5 DEF GotOK, Good
<1>7. err \in BOOLEAN
  BY DEF err
<1> HIDE DEF err
<1>8. /\ t \in Tabs /\ t.n = g.t.n /\ t.hash = g.t.hash /\ t.syms = g.t.syms
  BY <1>6, <1>7 DEF Tabs
<1> HIDE DEF t
<1>9. Good(t)
  <2>1. StaticsDefined(t) /\ t.n <= Len(t.syms)
    BY <1>6, <1>8 DEF Good, StaticsDefined
  <2> QED BY <1>6, <1>8, <2>1, Retouched DEF Alike
<1>10. /\ Good(Tab') /\ symtab' \in Seq(Symbol) /\ Len(symtab') = g.t.n
       /\ nb_errors' \in BOOLEAN
  BY <1>1, <1>8, <1>9, SetTabFacts
<1>11. TypesOK'
  BY <1>1, <1>2, <1>10 DEF TypesOK, Stages
<1>12. TableOK' /\ HandlesOK' /\ RelocsOfFile' /\ BeforeGot'
  BY <1>1, <1>2, <1>10 DEF TableOK, HandlesOK, RelocsOfFile, BeforeGot
<1>13. RelocsOK'
  <2>1. g.rels \in Seq(Rel)
    BY <1>6 DEF GotStates
  <2> QED BY <1>1, <1>6, <1>10, <2>1 DEF RelocsOK
<1>14. GotsOK'
  BY <1>1, <1>6, <1>10 DEF GotsOK
<1> QED BY <1>11, <1>12, <1>13, <1>14 DEF TablesOK

(* What is offered, while files are parsed ...                             *)
LEMMA ParsingOffers ==
  ASSUME IInv, stage = "parse", Declared, UNCHANGED <<stage, first, offered>>
  PROVE  OffersOK'
BY DEF IInv, OffersOK, Declared

LEMMA DefineOffers == \A d \in Decls : IInv /\ Define(d) => OffersOK'
<1> SUFFICES ASSUME NEW d \in Decls, IInv, Define(d) PROVE OffersOK'
  OBVIOUS
<1>1. stage = "parse" /\ PutExternSym(d) /\ UNCHANGED <<stage, first, offered>>
  BY DEF Define
<1>2. Declared
  BY <1>1, PutExternSymFacts
<1> QED BY <1>1, <1>2, ParsingOffers

LEMMA GrelocaOffers ==
  \A d \in Decls : \A type \in Emitted(d) \cap RelocTypes : IInv /\ Greloca(d, type) => OffersOK'
<1> SUFFICES ASSUME NEW d \in Decls, NEW type \in Emitted(d) \cap RelocTypes,
                    IInv, Greloca(d, type)
             PROVE  OffersOK'
  OBVIOUS
<1>1. /\ stage = "parse" /\ UNCHANGED <<stage, first, offered>>
      /\ IF Known(d) THEN UNCHANGED <<symtab, c>> ELSE PutExternSym(d)
  BY DEF Greloca
<1>2. CASE Known(d)
  BY <1>1, <1>2 DEF IInv, OffersOK
<1>3. CASE ~Known(d)
  <2>1. Declared
    BY <1>1, <1>3, PutExternSymFacts
  <2> QED BY <1>1, <2>1, ParsingOffers
<1> QED BY <1>2, <1>3

LEMMA WeakenOffers == \A k \in DOMAIN c : IInv /\ Weaken(k) => OffersOK'
<1> SUFFICES ASSUME NEW k \in DOMAIN c, IInv, Weaken(k) PROVE OffersOK'
  OBVIOUS
<1>1. /\ stage = "parse" /\ UNCHANGED <<stage, first, offered>>
      /\ symtab' = [symtab EXCEPT ![c[k]].bind = "weak"]
  BY DEF Weaken
<1>2. /\ symtab \in Seq(Symbol) /\ c[k] \in first + 1 .. Len(symtab)
      /\ c[k] \in 1 .. Len(symtab) /\ Len(symtab) \in Nat /\ first \in Nat
  <2>1. /\ symtab \in Seq(Symbol) /\ c[k] \in first + 1 .. Len(symtab)
        /\ Len(symtab) \in Nat /\ first \in Nat
    BY <1>1, ParseFacts DEF TypesOK, HandlesOK
  <2> QED BY <2>1
<1>3. \A j \in first + 1 .. Len(symtab) : j \in 1 .. Len(symtab) /\ symtab[j].type = "c"
  BY <1>1, <1>2 DEF IInv, OffersOK
<1>4. /\ Len(symtab') = Len(symtab)
      /\ \A j \in 1 .. Len(symtab) : symtab'[j].type = symtab[j].type
  <2> DEFINE s == [symtab[c[k]] EXCEPT !.bind = "weak"]
  <2>1. symtab[c[k]] \in Symbol
    <3> HIDE DEF Symbol
    <3> QED BY <1>2
  <2>2. s \in Symbol /\ s.type = symtab[c[k]].type
    BY <2>1 DEF Symbol, Bindings
  <2>3. symtab' = [symtab EXCEPT ![c[k]] = s]
    BY <1>1
  <2> HIDE DEF Symbol, s
  <2>4. /\ Len(symtab') = Len(symtab) /\ symtab'[c[k]] = s
        /\ \A j \in 1 .. Len(symtab) : j # c[k] => symtab'[j] = symtab[j]
    BY <1>2, <2>2, <2>3
  <2> QED BY <2>2, <2>4
<1> QED BY <1>1, <1>3, <1>4 DEF IInv, OffersOK

(* ... merged, added to and relocated.                                     *)
LEMMA EndFileOffers == IInv /\ EndFile => OffersOK'
<1> SUFFICES ASSUME IInv, EndFile PROVE OffersOK'
  OBVIOUS
<1> DEFINE n == Len(symtab) - first
           q == [i \in 1 .. n |-> Offer(symtab[first + i])]
<1>1. stage = "parse" /\ stage' = "link" /\ offered' = offered \o q
  BY DEF EndFile
<1>2. symtab \in Seq(Symbol) /\ first \in Nat /\ n \in Nat /\ Len(symtab) \in Nat
  BY <1>1, ParseFacts DEF TypesOK
<1>3. ASSUME NEW i \in 1 .. n PROVE Offer(symtab[first + i]) \in Symbol /\ ~Provided(Offer(symtab[first + i]))
  <2> DEFINE s == symtab[first + i]
  <2>1. first + i \in first + 1 .. Len(symtab) /\ first + i \in 1 .. Len(symtab)
    BY <1>2
  <2>2. s \in Symbol
    <3> HIDE DEF Symbol
    <3> QED BY <1>2, <2>1
  <2>3. s.type = "c"
    BY <1>1, <2>1 DEF IInv, OffersOK
  <2> HIDE DEF s
  <2>4. Offer(s) \in Symbol /\ Offer(s).type = "c"
    BY <2>2, <2>3 DEF Offer, Symbol, Bindings
  <2> QED BY <2>4 DEF Provided, s
<1>4. offered \in Seq(Symbol) /\ NotProvided(offered)
  BY <1>1 DEF IInv, OffersOK
<1> HIDE DEF n
<1>5. q \in Seq(Symbol) /\ Len(q) = n /\ \A i \in 1 .. n : ~Provided(q[i])
  <2> DEFINE F(i) == Offer(symtab[first + i])
  <2>1. \A i \in 1 .. n : F(i) \in Symbol /\ ~Provided(F(i))
    BY <1>3
  <2> HIDE DEF F, Symbol
  <2>2. [i \in 1 .. n |-> F(i)] \in Seq(Symbol) /\ Len([i \in 1 .. n |-> F(i)]) = n
    BY <1>2, <2>1
  <2> QED BY <2>1, <2>2 DEF F
<1> HIDE DEF q
<1>6. offered' \in Seq(Symbol) /\ NotProvided(offered')
  <2> HIDE DEF Symbol
  <2>1. /\ offered \o q \in Seq(Symbol) /\ Len(offered \o q) = Len(offered) + n
        /\ Len(offered) \in Nat
    BY <1>4, <1>5
  <2>2. ASSUME NEW k \in 1 .. Len(offered) + n PROVE ~Provided((offered \o q)[k])
    <3>1. CASE k \in 1 .. Len(offered)
      <4>1. (offered \o q)[k] = offered[k]
        BY <1>4, <1>5, <3>1
      <4> QED BY <1>4, <3>1, <4>1 DEF NotProvided
    <3>2. CASE k \notin 1 .. Len(offered)
      <4>1. k - Len(offered) \in 1 .. n
        BY <1>2, <2>1, <3>2
      <4>2. (offered \o q)[k] = q[k - Len(offered)]
        BY <1>4, <1>5, <2>1, <3>2
      <4> QED BY <1>5, <4>1, <4>2
    <3> QED BY <3>1, <3>2
  <2> QED BY <1>1, <2>1, <2>2 DEF NotProvided
<1> QED BY <1>1, <1>6 DEF OffersOK

LEMMA AddSymbolOffers == \A name \in AddedNames : IInv /\ AddSymbol(name) => OffersOK'
<1> SUFFICES ASSUME NEW name \in AddedNames, IInv, AddSymbol(name) PROVE OffersOK'
  OBVIOUS
<1> DEFINE s == GlobalSym(name, "abs", AddedValue)
<1>1. stage = "link" /\ stage' = stage /\ offered' = Append(offered, s)
  BY DEF AddSymbol
<1>2. s \in Symbol /\ ~Provided(s)
  <2>1. name \in AllNames /\ "abs" \in Shndx /\ AddedValue \in Nat
    BY AddedAssumption DEF AllNames, Shndx
  <2> HIDE DEF s
  <2>2. s \in Symbol /\ s.shndx = "abs"
    BY <2>1, GlobalSymFacts DEF s
  <2> QED BY <2>2 DEF Provided, Placed
<1> HIDE DEF s
<1>3. offered \in Seq(Symbol) /\ NotProvided(offered)
  BY <1>1 DEF IInv, OffersOK
<1>4. /\ offered' \in Seq(Symbol) /\ Len(offered') = Len(offered) + 1 /\ Len(offered) \in Nat
      /\ offered'[Len(offered) + 1] = s
      /\ \A k \in 1 .. Len(offered) : offered'[k] = offered[k]
  BY <1>1, <1>2, <1>3, OneMore
<1>5. \A k \in 1 .. Len(offered') : k = Len(offered) + 1 \/ k \in 1 .. Len(offered)
  BY <1>4
<1> QED BY <1>1, <1>2, <1>3, <1>4, <1>5 DEF OffersOK, NotProvided

LEMMA RelocateOffers == IInv /\ Relocate => OffersOK'
<1> SUFFICES ASSUME IInv, Relocate PROVE OffersOK'
  OBVIOUS
<1>1. stage = "resolved" /\ offered' = AddLinkerSymbols.o /\ stage' \in {"failed", "sized"}
  BY DEF Relocate
<1>2. AddLinkerSymbols.o \in Seq(Symbol)
  BY <1>1, LinkerFacts DEF LinkerOK, LinkerStates
<1> QED BY <1>1, <1>2 DEF OffersOK

LEMMA NextIInv == IInv /\ [Next]_vars => IInv'
<1> SUFFICES ASSUME IInv, [Next]_vars PROVE TablesOK' /\ OffersOK'
  BY DEF IInv
<1>1. CASE UNCHANGED vars
  BY <1>1 DEF vars, IInv, TablesOK, TypesOK, TableOK, Parsed, Earlier, Tab, HandlesOK, RelocsOK,
              RelocsOfFile, GotsOK, BeforeGot, OffersOK
<1>2. CASE BeginFile
  <2>1. OffersOK'
    <3>1. stage = "link" /\ first' = Len(symtab) /\ UNCHANGED <<symtab, offered>>
      BY <1>2 DEF BeginFile
    <3>2. Len(symtab) \in Nat
      BY <3>1, LinkFacts
    <3> QED BY <3>1, <3>2 DEF IInv, OffersOK
  <2> QED BY <1>2, <2>1, BeginFileKeeps
<1>3. CASE EndFile
  BY <1>3, EndFileKeeps, EndFileOffers
<1>4. CASE ResolveCommonSyms
  <2>1. OffersOK'
    BY <1>4 DEF ResolveCommonSyms, IInv, OffersOK
  <2> QED BY <1>4, <2>1, ResolveCommonSymsKeeps
<1>5. CASE Relocate
  BY <1>5, RelocateKeeps, RelocateOffers
<1>6. CASE RelocateSyms
  <2>1. OffersOK'
    BY <1>6 DEF RelocateSyms, IInv, OffersOK
  <2> QED BY <1>6, <2>1, RelocateSymsKeeps
<1>7. CASE \E d \in Decls : Define(d)
  BY <1>7, DefineKeeps, DefineOffers
<1>8. CASE \E d \in Decls : \E type \in Emitted(d) \cap RelocTypes : Greloca(d, type)
  BY <1>8, GrelocaKeeps, GrelocaOffers
<1>9. CASE \E k \in DOMAIN c : Weaken(k)
  BY <1>9, WeakenKeeps, WeakenOffers
<1>10. CASE \E name \in AddedNames : AddSymbol(name)
  BY <1>10, AddSymbolKeeps, AddSymbolOffers
<1> QED BY <1>1, <1>2, <1>3, <1>4, <1>5, <1>6, <1>7, <1>8, <1>9, <1>10 DEF Next

LEMMA Invariant == Spec => []IInv
<1> QED BY InitIInv, NextIInv, PTL DEF Spec

-----------------------------------------------------------------------------
(* Entries, symbol numbers of the parser, relocations and GOT slots are    *)
(* what tccelf.c takes them for.                                           *)
THEOREM TypeCorrect == Spec => []TypeOK
<1>1. IInv => TypeOK
  <2> SUFFICES ASSUME IInv PROVE TypeOK
    OBVIOUS
  <2>1. /\ stage \in Stages /\ symtab \in Seq(Symbol) /\ nb_errors \in BOOLEAN
        /\ rels \in Seq(Rel)
    BY DEF IInv, TablesOK, TypesOK, RelocsOK
  <2>2. DOMAIN symtab = 1 .. Len(symtab) /\ \A i \in DOMAIN symtab : symtab[i] \in Symbol
    <3> HIDE DEF Symbol
    <3> QED BY <2>1
  <2>3. \A i \in DOMAIN rels : rels[i].ix \in DOMAIN symtab /\ rels[i].type \in Types
    <3> TAKE i \in DOMAIN rels
    <3>1. i \in 1 .. Len(rels) /\ rels[i] \in Rel
      <4> HIDE DEF Rel
      <4> QED BY <2>1
    <3> QED BY <2>2, <3>1 DEF IInv, TablesOK, RelocsOK, Rel
  <2> QED BY <2>1, <2>2, <2>3 DEF IInv, TablesOK, TypeOK, Stages, HandlesOK, GotsOK
<1> QED BY <1>1, Invariant, PTL

(* Whatever was merged, added, provided or put into the PLT, in any order, *)
(* the chains of the hash table lead to the latest entry of each name, and *)
(* a name that is not of PLT entries has no other.                         *)
THEOREM SymbolsFound == Spec => []HashFinds
<1>1. IInv => HashFinds
  <2> SUFFICES ASSUME IInv, Hashing PROVE HashFinds
    BY DEF HashFinds
  <2> DEFINE t == Tab
             L == Len(symtab)
  <2>1. Good(t) /\ symtab \in Seq(Symbol)
    BY DEF Hashing, IInv, TablesOK, TableOK, TypesOK
  <2>2. t.n = L /\ t.syms = symtab /\ t.hash = hashtab
    BY DEF Tab
  <2>3. L \in Nat /\ DOMAIN symtab = 1 .. L
    BY <2>1
  <2> HIDE DEF t, L
  <2>4. Len(hashtab) = 3 + NbBuckets(hashtab) + L
    BY <2>1, <2>2 DEF Good, Chained
  <2>5. ASSUME NEW n \in AllNames
        PROVE  LET entries == {i \in DOMAIN symtab : Nonlocal(symtab[i]) /\ symtab[i].name = n}
               IN /\ Find(t, n) = Max({0} \cup entries)
                  /\ n \in Names \cup {GotName} => entries \subseteq {Find(t, n)}
    <3> DEFINE entries == {i \in DOMAIN symtab : Nonlocal(symtab[i]) /\ symtab[i].name = n}
               x == Find(t, n)
    <3>1. /\ x \in 0 .. L /\ (x # 0 => Nonlocal(symtab[x]) /\ symtab[x].name = n)
          /\ \A j \in x + 1 .. L : Nonlocal(symtab[j]) => symtab[j].name # n
      BY <2>1, <2>2, FindFacts
    <3> HIDE DEF x
    <3>2. x = 0 \/ x \in entries
      BY <2>3, <3>1
    <3>3. \A i \in entries : i <= x
      BY <2>3, <3>1
    <3>4. x = Max({0} \cup entries)
      <4> DEFINE T == {0} \cup entries
      <4>1. T \in SUBSET (0 .. L) /\ T # {}
        BY <2>3
      <4>2. x \in T /\ \A y \in T : y \in Nat /\ y <= x
        BY <2>3, <3>1, <3>2, <3>3
      <4> HIDE DEF T
      <4>3. Max(T) \in T /\ \A y \in T : y <= Max(T)
        BY <2>3, <4>1, MaxFacts
      <4>4. x <= Max(T) /\ Max(T) <= x /\ Max(T) \in Nat /\ x \in Nat
        BY <4>2, <4>3
      <4> QED BY <4>4 DEF T
    <3>5. ASSUME n \in Unique PROVE entries \subseteq {x}
      <4>1. \A i \in entries : i \in 1 .. L
        BY <2>3
      <4>2. \A i \in entries : x \in entries
        BY <3>1, <3>2, <3>3, <4>1
      <4> QED BY <2>1, <2>2, <2>3, <3>5, <4>1, <4>2 DEF Good, Once
    <3> QED BY <3>4, <3>5 DEF x, Unique
  <2> QED BY <2>4, <2>5 DEF HashFinds, t, L
<1> QED BY <1>1, Invariant, PTL

-----------------------------------------------------------------------------
(* The second inductive invariant: the table stands for what was offered   *)
(* until common symbols are given their place and errors are forgotten;    *)
(* then it still tells which names are defined.                            *)
AsOffered ==
  /\ stage = "link" => Agrees(Tab, offered)
  /\ stage = "parse" => Agrees(Earlier, offered)
  /\ stage = "resolved" => Knows(Tab, offered) /\ ~nb_errors

LEMMA SameEntries ==
  ASSUME NEW t, NEW u, u.n = t.n, \A j \in 1 .. t.n : u.syms[j] = t.syms[j], u.err <=> t.err,
         NEW o, Agrees(t, o)
  PROVE  Agrees(u, o)
<1>1. Knows(t, o) /\ Counts(t, o) /\ Counted(t, o)
  BY DEF Agrees
<1>2. \A j \in 1 .. u.n : \A n : j \in 1 .. t.n /\ u.syms[j] = t.syms[j]
                              /\ (Holds(u, j, n) <=> Holds(t, j, n))
  BY DEF Holds
<1>3. Knows(u, o)
  BY <1>1, <1>2 DEF Knows
<1>4. Counts(u, o)
  BY <1>1, <1>2 DEF Counts
<1>5. Counted(u, o)
  BY <1>1 DEF Counted
<1> QED BY <1>3, <1>4, <1>5 DEF Agrees

LEMMA TabWritten ==
  ASSUME NEW t, Good(t), SetTab(t), NEW o, Agrees(t, o)
  PROVE  Agrees(Tab', o)
<1> DEFINE u == Tab'
<1>1. /\ Len(symtab') = t.n /\ \A j \in 1 .. t.n : symtab'[j] = t.syms[j]
  BY SetTabFacts
<1>2. u.n = Len(symtab') /\ u.syms = symtab' /\ u.err = nb_errors'
  BY DEF Tab
<1>3. nb_errors' = t.err
  BY DEF SetTab
<1> HIDE DEF u
<1>4. Agrees(u, o)
  BY <1>1, <1>2, <1>3, SameEntries
<1> QED BY <1>4 DEF u

LEMMA InitOffered == Init => AsOffered
<1> SUFFICES ASSUME Init PROVE AsOffered
  OBVIOUS
<1>1. /\ stage = "link" /\ symtab = <<>> /\ offered = <<>> /\ nb_errors = FALSE
  BY DEF Init
<1>2. Tab.n = 0 /\ Tab.err = FALSE /\ offered \in Seq(Symbol) /\ DOMAIN offered = {}
  <2>1. Tab.n = 0 /\ Tab.err = FALSE
    BY <1>1 DEF Tab
  <2> HIDE DEF Symbol
  <2> QED BY <1>1, <2>1
<1>3. \A n : Offers(offered, n) = {}
  BY <1>2 DEF Offers
<1>4. \A n : ~Conflict(offered, n)
  BY <1>3 DEF Conflict, Globals, Definitions
<1>5. Knows(Tab, offered) /\ Counts(Tab, offered)
  BY <1>2, <1>3 DEF Knows, Counts
<1>6. Counted(Tab, offered)
  BY <1>2, <1>4 DEF Counted
<1> QED BY <1>1, <1>5, <1>6 DEF AsOffered, Agrees

(* While a file is parsed the entries before it stay.                      *)
LEMMA ParsingOffered ==
  ASSUME IInv, AsOffered, stage = "parse", \A j \in 1 .. first : symtab'[j] = symtab[j],
         UNCHANGED <<stage, first, nb_errors, offered>>
  PROVE  AsOffered'
<1> DEFINE t == Earlier
           u == Earlier'
<1>1. t.n = first /\ t.syms = symtab /\ t.err = nb_errors
  BY DEF Earlier, Tab
<1>2. u.n = first' /\ u.syms = symtab' /\ u.err = nb_errors'
  BY DEF Earlier, Tab
<1>3. Agrees(t, offered)
  BY DEF AsOffered
<1> HIDE DEF t, u
<1>4. Agrees(u, offered)
  BY <1>1, <1>2, <1>3, SameEntries
<1> QED BY <1>4 DEF AsOffered, u

LEMMA DefineOffered == \A d \in Decls : IInv /\ AsOffered /\ Define(d) => AsOffered'
<1> SUFFICES ASSUME NEW d \in Decls, IInv, AsOffered, Define(d) PROVE AsOffered'
  OBVIOUS
<1>1. /\ stage = "parse" /\ PutExternSym(d)
      /\ UNCHANGED <<stage, first, nb_errors, offered>>
  BY DEF Define
<1>2. Declared
  BY <1>1, PutExternSymFacts
<1> QED BY <1>1, <1>2, ParsingOffered DEF Declared

LEMMA GrelocaOffered ==
  \A d \in Decls : \A type \in Emitted(d) \cap RelocTypes :
    IInv /\ AsOffered /\ Greloca(d, type) => AsOffered'
<1> SUFFICES ASSUME NEW d \in Decls, NEW type \in Emitted(d) \cap RelocTypes,
                    IInv, AsOffered, Greloca(d, type)
             PROVE  AsOffered'
  OBVIOUS
<1>1. /\ stage = "parse"
      /\ IF Known(d) THEN UNCHANGED <<symtab, c>> ELSE PutExternSym(d)
      /\ UNCHANGED <<stage, first, nb_errors, offered>>
  BY DEF Greloca
<1>2. \A j \in 1 .. first : symtab'[j] = symtab[j]
  BY <1>1, PutExternSymFacts DEF Declared
<1> QED BY <1>1, <1>2, ParsingOffered

LEMMA WeakenOffered == \A k \in DOMAIN c : IInv /\ AsOffered /\ Weaken(k) => AsOffered'
<1> SUFFICES ASSUME NEW k \in DOMAIN c, IInv, AsOffered, Weaken(k) PROVE AsOffered'
  OBVIOUS
<1> DEFINE s == [symtab[c[k]] EXCEPT !.bind = "weak"]
           ix == c[k]
<1>1. /\ stage = "parse" /\ symtab' = [symtab EXCEPT ![ix] = s]
      /\ UNCHANGED <<stage, first, nb_errors, offered>>
  BY DEF Weaken
<1>2. symtab \in Seq(Symbol) /\ ix \in first + 1 .. Len(symtab) /\ first \in Nat
      /\ Len(symtab) \in Nat
  BY <1>1, ParseFacts DEF TypesOK, HandlesOK
<1> HIDE DEF s, ix
<1>3. \A j \in 1 .. first : symtab'[j] = symtab[j]
  <2>1. \A j \in 1 .. first : j \in DOMAIN symtab /\ j # ix
    <3> HIDE DEF Symbol
    <3> QED BY <1>2
  <2> QED BY <1>1, <2>1
<1> QED BY <1>1, <1>3, ParsingOffered

LEMMA BeginFileOffered == IInv /\ AsOffered /\ BeginFile => AsOffered'
<1> SUFFICES ASSUME IInv, AsOffered, BeginFile PROVE AsOffered'
  OBVIOUS
<1>1. /\ stage = "link" /\ stage' = "parse" /\ first' = Len(symtab)
      /\ UNCHANGED <<symtab, hashtab, nb_hashed, nb_errors, offered>>
  BY DEF BeginFile
<1>2. Earlier' = Tab
  BY <1>1 DEF Earlier, Tab
<1>3. Agrees(Tab, offered)
  BY <1>1 DEF AsOffered
<1>4. Agrees(Earlier', offered')
  BY <1>1, <1>2, <1>3
<1> QED BY <1>1, <1>4 DEF AsOffered

LEMMA EndFileOffered == IInv /\ AsOffered /\ EndFile => AsOffered'
<1> SUFFICES ASSUME IInv, AsOffered, EndFile PROVE AsOffered'
  OBVIOUS
<1> DEFINE t == Merge.t
           n == Len(symtab) - first
<1>1. /\ stage = "parse" /\ stage' = "link" /\ SetTab(t) /\ offered' = Given(n)
  BY DEF EndFile, Given
<1>2. MergeOK(n, Merge)
  BY <1>1, ParseFacts, MergeFacts
<1>3. Agrees(Earlier, offered)
  BY <1>1 DEF AsOffered
<1>4. Good(t) /\ Agrees(t, Given(n))
  BY <1>2, <1>3 DEF MergeOK
<1> HIDE DEF t, n
<1>5. Agrees(Tab', Given(n))
  BY <1>1, <1>4, TabWritten
<1>6. Agrees(Tab', offered')
  BY <1>1, <1>5
<1> QED BY <1>1, <1>6 DEF AsOffered

LEMMA AddSymbolOffered ==
  \A name \in AddedNames : IInv /\ AsOffered /\ AddSymbol(name) => AsOffered'
<1> SUFFICES ASSUME NEW name \in AddedNames, IInv, AsOffered, AddSymbol(name) PROVE AsOffered'
  OBVIOUS
<1> DEFINE s == GlobalSym(name, "abs", AddedValue)
           t == Tab
           u == Set(t, s)
           o == Append(offered, s)
<1>1. stage = "link" /\ stage' = "link" /\ SetTab(u) /\ offered' = o
  BY DEF AddSymbol
<1>2. s \in Symbol /\ Nonlocal(s) /\ s.name \in Names
  <2>1. name \in Names /\ name \in AllNames /\ "abs" \in Shndx /\ AddedValue \in Nat
    BY AddedAssumption DEF AllNames, Shndx
  <2> HIDE DEF s
  <2> QED BY <2>1, GlobalSymFacts DEF s
<1>3. Good(t) /\ Named(t.syms, t.n) /\ Agrees(t, offered)
  BY <1>1, LinkFacts DEF AsOffered
<1>4. Good(u)
  <2> HIDE DEF s, t
  <2> QED BY <1>2, <1>3, EntryOffered
<1> HIDE DEF s, t
<1>5. Agrees(u, o)
  BY <1>2, <1>3, SetAgrees
<1> HIDE DEF u, o
<1>6. Agrees(Tab', o)
  BY <1>1, <1>4, <1>5, TabWritten
<1>7. Agrees(Tab', offered')
  BY <1>1, <1>6
<1> QED BY <1>1, <1>7 DEF AsOffered

LEMMA ResolveCommonSymsOffered == IInv /\ AsOffered /\ ResolveCommonSyms => AsOffered'
<1> SUFFICES ASSUME IInv, AsOffered, ResolveCommonSyms PROVE AsOffered'
  OBVIOUS
<1> DEFINE L == Len(symtab)
           common == {i \in DOMAIN symtab : symtab[i].shndx = "common"}
           value(i) == fill["bss"] + Cardinality({j \in common : j < i})
           t == Tab
           u == Tab'
<1>1. /\ stage = "link" /\ stage' = "resolved" /\ nb_errors' = FALSE
      /\ symtab' = [i \in DOMAIN symtab |->
                      IF i \in common
                      THEN [symtab[i] EXCEPT !.shndx = "bss", !.value = value(i)]
                      ELSE symtab[i]]
      /\ offered' = offered
  BY DEF ResolveCommonSyms
<1>2. /\ symtab \in Seq(Symbol) /\ L \in Nat /\ DOMAIN symtab = 1 .. L
      /\ \A i \in 1 .. L : symtab[i] \in Symbol
  <2>1. symtab \in Seq(Symbol)
    BY DEF IInv, TablesOK, TypesOK
  <2> HIDE DEF Symbol
  <2> QED BY <2>1
<1> HIDE DEF value
<1>3. ASSUME NEW i \in 1 .. L
      PROVE  /\ symtab'[i].name = symtab[i].name /\ symtab'[i].bind = symtab[i].bind
             /\ Undefined(symtab'[i]) <=> Undefined(symtab[i])
  <2> DEFINE s == symtab[i]
             r == [s EXCEPT !.shndx = "bss", !.value = value(i)]
  <2>1. s \in Symbol /\ (i \in common <=> s.shndx = "common")
    BY <1>2
  <2>2. symtab'[i] = IF i \in common THEN r ELSE s
    BY <1>1, <1>2
  <2> HIDE DEF s
  <2>3. r.name = s.name /\ r.bind = s.bind /\ r.shndx = "bss"
    BY <2>1 DEF Symbol
  <2> HIDE DEF r
  <2> QED BY <2>1, <2>2, <2>3 DEF Undefined, s
<1>4. t.n = L /\ t.syms = symtab /\ u.n = Len(symtab') /\ u.syms = symtab'
  BY DEF Tab
<1>5. Len(symtab') = L
  <2> DEFINE q == symtab'
  <2>1. q = [i \in 1 .. L |-> q[i]]
    BY <1>1, <1>2
  <2> HIDE DEF q, L
  <2>2. Len(q) = L
    BY <1>2, <2>1
  <2> QED BY <2>2 DEF q
<1>6. Knows(t, offered)
  BY <1>1 DEF AsOffered, Agrees
<1> HIDE DEF t, u, L
<1>7. Knows(u, offered)
  <2>1. \A j \in 1 .. L : \A n : Holds(u, j, n) <=> Holds(t, j, n)
    BY <1>3, <1>4 DEF Holds, Nonlocal
  <2>2. \A j \in 1 .. L : \A n : KnownAs(offered, n, t.syms[j]) => KnownAs(offered, n, u.syms[j])
    BY <1>3, <1>4 DEF KnownAs
  <2> QED BY <1>4, <1>5, <1>6, <2>1, <2>2 DEF Knows
<1>8. Knows(Tab', offered')
  BY <1>1, <1>7 DEF u
<1> QED BY <1>1, <1>8 DEF AsOffered

LEMMA RelocateOffered == IInv /\ AsOffered /\ (Relocate \/ RelocateSyms) => AsOffered'
<1> SUFFICES ASSUME IInv, AsOffered, Relocate \/ RelocateSyms PROVE AsOffered'
  OBVIOUS
<1>1. stage' \in {"failed", "sized", "linked"}
  BY DEF Relocate, RelocateSyms
<1> QED BY <1>1 DEF AsOffered

LEMMA NextOffered == IInv /\ AsOffered /\ [Next]_vars => AsOffered'
<1> SUFFICES ASSUME IInv, AsOffered, [Next]_vars PROVE AsOffered'
  OBVIOUS
<1>1. CASE UNCHANGED vars
  BY <1>1 DEF vars, AsOffered, Tab, Earlier
<1>2. CASE BeginFile
  BY <1>2, BeginFileOffered
<1>3. CASE EndFile
  BY <1>3, EndFileOffered
<1>4. CASE ResolveCommonSyms
  BY <1>4, ResolveCommonSymsOffered
<1>5. CASE Relocate \/ RelocateSyms
  BY <1>5, RelocateOffered
<1>6. CASE \E d \in Decls : Define(d)
  BY <1>6, DefineOffered
<1>7. CASE \E d \in Decls : \E type \in Emitted(d) \cap RelocTypes : Greloca(d, type)
  BY <1>7, GrelocaOffered
<1>8. CASE \E k \in DOMAIN c : Weaken(k)
  BY <1>8, WeakenOffered
<1>9. CASE \E name \in AddedNames : AddSymbol(name)
  BY <1>9, AddSymbolOffered
<1> QED BY <1>1, <1>2, <1>3, <1>4, <1>5, <1>6, <1>7, <1>8, <1>9 DEF Next

LEMMA OfferedInvariant == Spec => [](IInv /\ AsOffered)
<1>1. Init => IInv /\ AsOffered
  BY InitIInv, InitOffered
<1>2. (IInv /\ AsOffered) /\ [Next]_vars => (IInv /\ AsOffered)'
  BY NextIInv, NextOffered
<1> QED BY <1>1, <1>2, PTL DEF Spec

(* Whatever was merged and added, in any order: the entry of each name has *)
(* the definition that counts, and the errors counted are its conflicts.   *)
THEOREM DefinitionsKept == Spec => []WinnerKept
<1>1. IInv /\ AsOffered => WinnerKept
  <2> SUFFICES ASSUME IInv, AsOffered, stage = "link" PROVE WinnerKept
    BY DEF WinnerKept
  <2> DEFINE t == Tab
             L == Len(symtab)
  <2>1. Good(t) /\ Agrees(t, offered)
    BY LinkFacts DEF AsOffered
  <2>2. t.n = L /\ t.syms = symtab /\ t.err = nb_errors
    BY DEF Tab
  <2>3. t.n \in Nat
    BY <2>1 DEF Good, Tabs
  <2> HIDE DEF t, L
  <2>4. ASSUME NEW n \in Names
        PROVE  LET i == Find(t, n)
               IN IF Definitions(offered, n) = {} THEN i = 0 \/ Undefined(symtab[i])
                  ELSE /\ i # 0 /\ symtab[i].shndx = Winner(n).shndx
                       /\ symtab[i].value = Winner(n).value
    <3> DEFINE i == Find(t, n)
    <3>1. n \in AllNames
      BY DEF AllNames
    <3>2. /\ i \in 0 .. t.n
          /\ i # 0 => Nonlocal(t.syms[i]) /\ t.syms[i].name = n
          /\ \A j \in i + 1 .. t.n : Nonlocal(t.syms[j]) => t.syms[j].name # n
      BY <2>1, <3>1, FindFacts
    <3> HIDE DEF i
    <3>3. CASE i = 0
      <4>1. ~\E j \in 1 .. t.n : Holds(t, j, n)
        BY <3>2, <3>3 DEF Holds
      <4>2. Offers(offered, n) = {}
        BY <2>1, <4>1 DEF Agrees, Knows
      <4>3. Definitions(offered, n) = {}
        BY <4>2 DEF Definitions
      <4> QED BY <3>3, <4>3 DEF i
    <3>4. CASE i # 0
      <4>1. i \in 1 .. t.n /\ Holds(t, i, n)
        BY <2>3, <3>2, <3>4 DEF Holds
      <4>2. KnownAs(offered, n, symtab[i]) /\ CountsAs(offered, n, symtab[i])
        BY <2>1, <2>2, <4>1 DEF Agrees, Knows, Counts
      <4> QED BY <3>4, <4>2 DEF i, KnownAs, CountsAs, Winner
    <3> QED BY <3>3, <3>4
  <2>5. nb_errors <=> \E n \in Names : Conflict(offered, n)
    BY <2>1, <2>2 DEF Agrees, Counted
  <2> QED BY <2>4, <2>5 DEF WinnerKept, t
<1> QED BY <1>1, OfferedInvariant, PTL

(* An entry is unresolved when its name is missing.                        *)
LEMMA UnresolvedMissing ==
  ASSUME NEW t, Good(t), Named(t.syms, t.n), NEW o, Knows(t, o)
  PROVE  Unresolved(t) <=> \E n \in Names : Missing(o, n)
<1>1. ASSUME NEW n \in Names, NEW j \in 1 .. t.n, Holds(t, j, n)
      PROVE  Missing(o, n) <=>
               Undefined(t.syms[j]) /\ t.syms[j].name # "_fp_hw" /\ t.syms[j].bind # "weak"
  <2>1. KnownAs(o, n, t.syms[j])
    BY <1>1 DEF Knows
  <2> QED BY <1>1, <2>1 DEF KnownAs, Missing, Holds
<1>2. ASSUME Unresolved(t) PROVE \E n \in Names : Missing(o, n)
  <2>1. PICK j \in 1 .. t.n :
          Undefined(t.syms[j]) /\ t.syms[j].name # "_fp_hw" /\ t.syms[j].bind # "weak"
    BY <1>2 DEF Unresolved
  <2>2. Nonlocal(t.syms[j])
    BY <2>1 DEF Good, StaticsDefined
  <2>3. t.syms[j].name \in Names /\ Holds(t, j, t.syms[j].name)
    BY <2>2 DEF Named, Holds
  <2> QED BY <1>1, <2>1, <2>3
<1>3. ASSUME NEW n \in Names, Missing(o, n) PROVE Unresolved(t)
  <2>1. PICK j \in 1 .. t.n : Holds(t, j, n)
    BY <1>3 DEF Missing, Knows
  <2> QED BY <1>1, <1>3, <2>1 DEF Unresolved
<1> QED BY <1>2, <1>3

-----------------------------------------------------------------------------
(* The third inductive invariant: each relocation stands for the static of *)
(* its file or for the entry of its name, from the parser through every    *)
(* merge to the GOT and the PLT.                                           *)

(* Symbol s is what a reference of the source is for: among the statics S  *)
(* of the files, the one the reference's file defined, if it did.          *)
Stands(S, s, for) ==
  /\ s.name = for[1] /\ for[1] \in Names
  /\ IF Nonlocal(s) THEN ~\E d \in S : for[2] /\ d[1] = for[1] /\ d[2] = for[3]
     ELSE for[2] /\ <<for[1], for[3], s.shndx, s.value>> \in S

StaticsOK ==
  /\ statics \subseteq Names \X Nat \X FileSections \X Nat
  /\ \A d, e \in statics : d[1] = e[1] /\ d[2] = e[2] => d = e
  /\ \A d \in statics : d[2] <= files /\ (stage = "parse" => d[2] # files)

(* Sym.c of the file leads to an entry of that name and linkage.           *)
HandleKept(k, s) ==
  /\ k \in Names \X BOOLEAN /\ s.name = k[1] /\ (Nonlocal(s) <=> ~k[2])
  /\ k[2] => s.shndx \in FileSections \cup {"undef"}
HandlesKept == \A k \in DOMAIN c : HandleKept(k, symtab[c[k]])

(* A relocation of file f, with the handles cs, and one of earlier files.  *)
OfFile(cs, f, r) ==
  LET k == <<r.for[1], r.for[2]>> IN r.for[3] = f /\ k \in DOMAIN cs /\ r.ix = cs[k]
OfEarlier(S, f, syms, r) == r.for[3] < f /\ Stands(S, syms[r.ix], r.for)
ParsedRefs ==
  stage = "parse" =>
    /\ HandlesKept
    /\ \A i \in 1 .. Len(rels) :
         IF i > first_rel THEN OfFile(c, files, rels[i])
         ELSE OfEarlier(statics, files, symtab, rels[i])
MergedRefs ==
  stage \in {"link", "resolved"} =>
    \A i \in 1 .. Len(rels) :
      rels[i].for[3] <= files /\ Stands(statics, symtab[rels[i].ix], rels[i].for)
CleanOK == stage \in {"link", "parse", "resolved"} => AllClean
SettledOK == stage = "resolved" => Settled(Tab, Len(symtab), offered)

(* With the GOT built, each relocation leads to such a symbol.             *)
Laid == [t |-> Tab, got |-> got, attrs |-> attrs]
Meets(S, o, s, for) ==
  Stands(S, s, for) /\ Clean(s) /\ (Nonlocal(s) => SettledAs(o, for[1], s))
Led(g, S, o, r) ==
  \E j \in 1 .. g.t.n : Meets(S, o, g.t.syms[j], r.for) /\ Goes(g, r, j, TRUE)
SizedOK ==
  stage = "sized" =>
    Slots(Laid) /\ \A i \in 1 .. Len(rels) : Led(Laid, statics, offered, rels[i])

Referring == StaticsOK /\ ParsedRefs /\ MergedRefs /\ CleanOK /\ SettledOK /\ SizedOK

LEMMA FileSectionsFacts ==
  /\ {"text", "data", "bss"} \subseteq FileSections /\ FileSections \subseteq Sections
  /\ \A s \in FileSections : s \notin {"got", "plt", "undef", "common", "abs"}
BY UserSectionsAssumption DEF FileSections, ArraySections, Sections

LEMMA InitReferring == Init => Referring
<1> SUFFICES ASSUME Init PROVE Referring
  OBVIOUS
<1>1. stage = "link" /\ symtab = <<>> /\ rels = <<>> /\ statics = {} /\ Len(symtab) = 0
      /\ Len(rels) = 0
  BY DEF Init
<1> QED BY <1>1 DEF Referring, StaticsOK, ParsedRefs, MergedRefs, CleanOK, AllClean, SettledOK,
                    SizedOK

(* What a reference is for stays when its symbol does, and later files     *)
(* define statics of their own.                                            *)
LEMMA StandsStill ==
  ASSUME NEW S, NEW s, NEW for, Stands(S, s, for), NEW q, Keeps(s, q), NEW S2, S \subseteq S2,
         \A d \in S2 : d \in S \/ d[2] # for[3]
  PROVE  Stands(S2, q, for)
BY DEF Stands, Keeps, Alike

(* A relocation's fields.                                                  *)
LEMMA RelocFacts ==
  ASSUME IInv, NEW i \in 1 .. Len(rels)
  PROVE  /\ rels[i] \in Rel /\ rels[i].ix \in 1 .. Len(symtab)
         /\ rels[i].for \in AllNames \X BOOLEAN \X Nat /\ rels[i].for[3] \in Nat
<1>1. rels \in Seq(Rel) /\ rels[i].ix \in 1 .. Len(symtab)
  BY DEF IInv, TablesOK, RelocsOK
<1>2. rels[i] \in Rel
  <2> HIDE DEF Rel
  <2> QED BY <1>1
<1> QED BY <1>1, <1>2 DEF Rel

LEMMA BeginFileRefers == IInv /\ Referring /\ BeginFile => Referring'
<1> SUFFICES ASSUME IInv, Referring, BeginFile PROVE Referring'
  OBVIOUS
<1>1. /\ stage = "link" /\ stage' = "parse" /\ files' = files + 1 /\ first_rel' = Len(rels)
      /\ UNCHANGED <<symtab, c, rels, statics>>
  BY DEF BeginFile
<1>2. c = <<>> /\ files \in Nat /\ Len(rels) \in Nat
  BY <1>1, LinkFacts DEF TypesOK, RelocsOK
<1>3. StaticsOK'
  <2>1. \A d \in statics : d[2] \in Nat /\ d[2] <= files
    BY DEF Referring, StaticsOK
  <2>2. \A d \in statics : d[2] <= files' /\ d[2] # files'
    BY <1>1, <1>2, <2>1
  <2> QED BY <1>1, <2>2 DEF Referring, StaticsOK
<1>4. ParsedRefs'
  <2>1. HandlesKept'
    BY <1>1, <1>2 DEF HandlesKept
  <2>2. ASSUME NEW i \in 1 .. Len(rels)
        PROVE  ~(i > Len(rels)) /\ rels[i].for[3] < files + 1
               /\ Stands(statics, symtab[rels[i].ix], rels[i].for)
    <3>1. rels[i].for[3] \in Nat
      BY RelocFacts
    <3>2. rels[i].for[3] <= files /\ Stands(statics, symtab[rels[i].ix], rels[i].for)
      BY <1>1 DEF Referring, MergedRefs
    <3> QED BY <1>2, <3>1, <3>2
  <2> QED BY <1>1, <2>1, <2>2 DEF ParsedRefs, OfEarlier
<1>5. MergedRefs' /\ SettledOK' /\ SizedOK'
  BY <1>1 DEF MergedRefs, SettledOK, SizedOK
<1>6. CleanOK'
  BY <1>1 DEF Referring, CleanOK, AllClean
<1> QED BY <1>3, <1>4, <1>5, <1>6 DEF Referring

(* While a file is parsed, a handle stays what it was.                     *)
HandlesStay ==
  /\ \A k \in DOMAIN c : k \in DOMAIN c' /\ c'[k] = c[k]
  /\ HandlesKept' /\ AllClean'

LEMMA ParsingRefers ==
  ASSUME IInv, Referring, stage = "parse", HandlesStay,
         \A j \in 1 .. first : symtab'[j] = symtab[j],
         UNCHANGED <<stage, first_rel, files, statics>>,
         \A i \in 1 .. Len(rels) : rels'[i] = rels[i], Len(rels) <= Len(rels'), Len(rels') \in Nat,
         \A i \in 1 .. Len(rels') : i > Len(rels) => OfFile(c', files, rels'[i])
  PROVE  Referring'
<1>1. RelocsOfFile /\ Len(rels) \in Nat /\ first_rel \in Nat /\ first_rel <= Len(rels)
  BY ParseFacts DEF RelocsOK, RelocsOfFile, TypesOK
<1>2. ASSUME NEW i \in 1 .. Len(rels')
      PROVE  IF i > first_rel THEN OfFile(c', files, rels'[i])
             ELSE OfEarlier(statics, files, symtab', rels'[i])
  <2>1. CASE i > Len(rels)
    <3>1. i > first_rel
      BY <1>1, <2>1
    <3> QED BY <2>1, <3>1
  <2>2. CASE i > first_rel /\ ~(i > Len(rels))
    <3>1. i \in 1 .. Len(rels) /\ rels'[i] = rels[i]
      BY <1>1, <2>2
    <3>2. OfFile(c, files, rels[i])
      BY <2>2, <3>1 DEF Referring, ParsedRefs
    <3>3. OfFile(c', files, rels[i])
      <4> DEFINE h == <<rels[i].for[1], rels[i].for[2]>>
      <4>1. rels[i].for[3] = files /\ h \in DOMAIN c /\ rels[i].ix = c[h]
        BY <3>2 DEF OfFile
      <4> HIDE DEF h
      <4>2. h \in DOMAIN c' /\ rels[i].ix = c'[h]
        BY <4>1 DEF HandlesStay
      <4> QED BY <4>1, <4>2 DEF OfFile, h
    <3> QED BY <2>2, <3>1, <3>3
  <2>3. CASE ~(i > first_rel)
    <3>1. i \in 1 .. Len(rels) /\ rels'[i] = rels[i]
      BY <1>1, <2>3
    <3>2. OfEarlier(statics, files, symtab, rels[i])
      BY <2>3, <3>1 DEF Referring, ParsedRefs
    <3>3. rels[i].ix \in 1 .. first
      <4>1. rels[i].ix \in 1 .. Len(symtab) /\ Len(symtab) \in Nat /\ first \in Nat
        BY <3>1, RelocFacts, ParseFacts DEF TypesOK
      <4>2. rels[i].ix <= first
        BY <1>1, <2>3, <3>1 DEF RelocsOfFile
      <4> QED BY <4>1, <4>2
    <3>4. OfEarlier(statics, files, symtab', rels'[i])
      BY <3>1, <3>2, <3>3 DEF OfEarlier
    <3> QED BY <2>3, <3>4
  <2> QED BY <2>1, <2>2, <2>3
<1>3. ParsedRefs'
  BY <1>2 DEF ParsedRefs, HandlesStay
<1>4. StaticsOK' /\ CleanOK'
  BY DEF Referring, StaticsOK, CleanOK, HandlesStay
<1>5. MergedRefs' /\ SettledOK' /\ SizedOK'
  BY DEF MergedRefs, SettledOK, SizedOK
<1> QED BY <1>3, <1>4, <1>5 DEF Referring

(* The entry a declaration makes or changes is that of its handle.         *)
LEMMA PutExternSymRefers ==
  ASSUME IInv, Referring, stage = "parse", NEW d \in Decls, PutExternSym(d)
  PROVE  HandlesStay
<1> DEFINE value == IF d.shndx \in Sections THEN fill[d.shndx]
                    ELSE IF d.shndx = "common" THEN 1 ELSE 0
           s == [name |-> d.name, type |-> "c", bind |-> d.bind, vis |-> d.vis,
                 shndx |-> d.shndx, value |-> value]
           h == Handle(d)
           L == Len(symtab)
<1>1. /\ symtab \in Seq(Symbol) /\ L \in Nat /\ first \in Nat /\ first <= L
      /\ \A k \in DOMAIN c : c[k] \in first + 1 .. L
  BY ParseFacts DEF TypesOK, HandlesOK
<1>2. /\ d.name \in Names /\ d.shndx \in {"undef", "common"} \cup FileSections
      /\ d.bind = "local" => d.shndx \in FileSections \cup {"undef"}
  BY DeclsAssumption DEF Decl
<1>3. HandlesKept /\ AllClean
  BY DEF Referring, ParsedRefs, CleanOK
<1>4. h = <<d.name, d.bind = "local">> /\ h \in Names \X BOOLEAN
      /\ h[1] = d.name /\ (h[2] <=> d.bind = "local")
  BY <1>2 DEF Handle
<1>5. Clean(s)
  <2>1. d.shndx # "plt" /\ "undef" \notin Sections
    BY <1>2, FileSectionsFacts DEF Sections
  <2> QED BY <2>1 DEF Clean, Undefined
<1> HIDE DEF value
<1>6. s.name = d.name /\ s.bind = d.bind /\ s.shndx = d.shndx /\ s.value = value
  OBVIOUS
<1>7. ASSUME NEW new, new.name = d.name, Nonlocal(new) <=> d.bind # "local",
             new.shndx = d.shndx
      PROVE  HandleKept(h, new)
  BY <1>2, <1>4, <1>7 DEF HandleKept
<1>8. CASE Known(d)
  <2> DEFINE old == symtab[c[h]]
             new == [s EXCEPT !.vis = Merged(old.vis, s.vis),
                              !.bind = IF old.bind = "weak" THEN "weak" ELSE s.bind]
  <2>1. symtab' = [symtab EXCEPT ![c[h]] = new] /\ c' = c
    BY <1>8 DEF PutExternSym, value
  <2>2. h \in DOMAIN c
    BY <1>8 DEF Known
  <2>3. HandleKept(h, old)
    BY <1>3, <2>2 DEF HandlesKept
  <2>4. /\ new.name = d.name /\ new.shndx = d.shndx /\ new.value = value
        /\ new.bind = IF old.bind = "weak" THEN "weak" ELSE d.bind
    OBVIOUS
  <2>5. Nonlocal(new) <=> d.bind # "local"
    BY <1>4, <2>3, <2>4 DEF HandleKept, Nonlocal
  <2>6. Clean(new)
    BY <1>5, <1>6, <2>4 DEF Clean, Undefined
  <2> HIDE DEF old, new, s, h
  <2>7. HandleKept(h, new)
    BY <1>7, <2>4, <2>5
  <2>8. c[h] \in 1 .. L
    BY <1>1, <2>2
  <2>9. \A j \in 1 .. L : symtab'[j] = IF j = c[h] THEN new ELSE symtab[j]
    <3> HIDE DEF Symbol
    <3> QED BY <1>1, <2>1
  <2>10. Len(symtab') = L
    <3> HIDE DEF Symbol
    <3> QED BY <1>1, <2>1
  <2>11. ASSUME NEW k \in DOMAIN c PROVE HandleKept(k, symtab'[c[k]])
    <3>1. c[k] \in 1 .. L
      BY <1>1
    <3>2. HandleKept(k, symtab[c[k]])
      BY <1>3 DEF HandlesKept
    <3>3. c[k] = c[h] => k = h
      BY <1>4, <2>3, <3>2 DEF HandleKept, old
    <3> QED BY <2>7, <2>9, <3>1, <3>2, <3>3
  <2>12. HandlesKept'
    BY <2>1, <2>11 DEF HandlesKept
  <2>13. AllClean'
    BY <1>3, <2>6, <2>9, <2>10 DEF AllClean
  <2> QED BY <2>1, <2>12, <2>13 DEF HandlesStay
<1>9. CASE ~Known(d)
  <2>1. symtab' = Append(symtab, s) /\ c' = With(c, h, L + 1)
    BY <1>9 DEF PutExternSym, NextSym, value
  <2>2. HandleKept(h, s)
    BY <1>6, <1>7 DEF Nonlocal
  <2>3. h \notin DOMAIN c
    BY <1>9 DEF Known
  <2> HIDE DEF s, h
  <2>4. /\ Len(symtab') = L + 1 /\ symtab'[L + 1] = s
        /\ \A j \in 1 .. L : symtab'[j] = symtab[j]
    <3> HIDE DEF Symbol
    <3> QED BY <1>1, <2>1
  <2>5. DOMAIN c' = {h} \cup DOMAIN c /\ c'[h] = L + 1 /\ \A k \in DOMAIN c : c'[k] = c[k]
    BY <2>1, <2>3 DEF With
  <2>6. \A k \in DOMAIN c : c[k] \in 1 .. L
    BY <1>1
  <2> HIDE DEF L
  <2>7. HandlesKept'
    <3>1. ASSUME NEW k \in DOMAIN c' PROVE HandleKept(k, symtab'[c'[k]])
      <4>1. CASE k = h
        BY <2>2, <2>4, <2>5, <4>1
      <4>2. CASE k # h
        <5>1. k \in DOMAIN c /\ c'[k] = c[k]
          BY <2>5, <4>2
        <5>2. symtab'[c'[k]] = symtab[c[k]]
          BY <2>4, <2>6, <5>1
        <5> QED BY <1>3, <5>1, <5>2 DEF HandlesKept
      <4> QED BY <4>1, <4>2
    <3> QED BY <3>1 DEF HandlesKept
  <2>8. AllClean'
    <3>1. \A j \in 1 .. L + 1 : j = L + 1 \/ j \in 1 .. L
      BY <1>1
    <3> QED BY <1>3, <1>5, <2>4, <3>1 DEF AllClean, L
  <2> QED BY <2>5, <2>7, <2>8 DEF HandlesStay
<1> QED BY <1>8, <1>9

LEMMA DefineRefers == \A d \in Decls : IInv /\ Referring /\ Define(d) => Referring'
<1> SUFFICES ASSUME NEW d \in Decls, IInv, Referring, Define(d) PROVE Referring'
  OBVIOUS
<1>1. /\ stage = "parse" /\ PutExternSym(d)
      /\ UNCHANGED <<stage, first_rel, files, statics, rels>>
  BY DEF Define
<1>2. HandlesStay
  BY <1>1, PutExternSymRefers
<1>3. \A j \in 1 .. first : symtab'[j] = symtab[j]
  BY <1>1, PutExternSymFacts DEF Declared
<1>4. Len(rels) \in Nat
  BY <1>1, ParseFacts DEF RelocsOK
<1>5. /\ \A i \in 1 .. Len(rels) : rels'[i] = rels[i]
      /\ Len(rels) <= Len(rels') /\ Len(rels') \in Nat
      /\ \A i \in 1 .. Len(rels') : i > Len(rels) => OfFile(c', files, rels'[i])
  BY <1>1, <1>4
<1> QED BY <1>1, <1>2, <1>3, <1>5, ParsingRefers

LEMMA GrelocaRefers ==
  \A d \in Decls : \A type \in Emitted(d) \cap RelocTypes :
    IInv /\ Referring /\ Greloca(d, type) => Referring'
<1> SUFFICES ASSUME NEW d \in Decls, NEW type \in Emitted(d) \cap RelocTypes,
                    IInv, Referring, Greloca(d, type)
             PROVE  Referring'
  OBVIOUS
<1> DEFINE h == Handle(d)
           len == Len(rels)
           r == [ix |-> c'[h], type |-> type, for |-> <<d.name, d.bind = "local", files>>]
<1>1. /\ stage = "parse" /\ UNCHANGED <<stage, first_rel, files, statics>>
      /\ rels' = Append(rels, r)
      /\ Known(d) => UNCHANGED <<symtab, c>>
      /\ ~Known(d) => PutExternSym(d)
  BY DEF Greloca
<1>2. HandlesStay /\ (\A j \in 1 .. first : symtab'[j] = symtab[j]) /\ h \in DOMAIN c'
  <2>1. CASE Known(d)
    <3>1. HandlesKept /\ AllClean
      BY <1>1 DEF Referring, ParsedRefs, CleanOK
    <3>2. HandlesKept' /\ AllClean'
      BY <1>1, <2>1, <3>1 DEF HandlesKept, AllClean
    <3> QED BY <1>1, <2>1, <3>2 DEF HandlesStay, Known
  <2>2. CASE ~Known(d)
    BY <1>1, <2>2, PutExternSymRefers, PutExternSymFacts DEF Declared
  <2> QED BY <2>1, <2>2
<1>3. rels \in Seq(Rel) /\ len \in Nat
  BY <1>1, ParseFacts DEF RelocsOK
<1>4. OfFile(c', files, r)
  <2>1. r.ix = c'[h] /\ r.for[1] = d.name /\ r.for[2] = (d.bind = "local") /\ r.for[3] = files
        /\ h = <<d.name, d.bind = "local">>
    BY DEF Handle
  <2> HIDE DEF r, h
  <2>2. <<r.for[1], r.for[2]>> = h
    BY <2>1
  <2> QED BY <1>1, <1>2, <2>1, <2>2 DEF OfFile
<1> HIDE DEF r
<1>5. Len(rels') = len + 1 /\ rels'[len + 1] = r /\ \A i \in 1 .. len : rels'[i] = rels[i]
  <2> HIDE DEF Rel
  <2> QED BY <1>1, <1>3
<1>6. len <= Len(rels') /\ Len(rels') \in Nat
      /\ \A i \in 1 .. Len(rels') : i > len => i = len + 1
  <2> HIDE DEF len
  <2> QED BY <1>3, <1>5
<1>7. \A i \in 1 .. Len(rels') : i > len => OfFile(c', files, rels'[i])
  BY <1>4, <1>5, <1>6
<1> QED BY <1>1, <1>2, <1>5, <1>6, <1>7, ParsingRefers

LEMMA WeakenRefers == \A k \in DOMAIN c : IInv /\ Referring /\ Weaken(k) => Referring'
<1> SUFFICES ASSUME NEW h \in DOMAIN c, IInv, Referring, Weaken(h) PROVE Referring'
  OBVIOUS
<1> DEFINE L == Len(symtab)
<1>1. /\ stage = "parse" /\ symtab[c[h]].bind = "global"
      /\ symtab' = [symtab EXCEPT ![c[h]].bind = "weak"]
      /\ UNCHANGED <<stage, first_rel, files, statics, rels, c>>
  BY DEF Weaken
<1>2. /\ symtab \in Seq(Symbol) /\ L \in Nat /\ first \in Nat /\ first <= L
      /\ \A k \in DOMAIN c : c[k] \in first + 1 .. L
      /\ HandlesKept /\ AllClean /\ Len(rels) \in Nat
  BY <1>1, ParseFacts DEF TypesOK, HandlesOK, Referring, ParsedRefs, CleanOK, RelocsOK
<1> DEFINE new == [symtab[c[h]] EXCEPT !.bind = "weak"]
<1>3. c[h] \in first + 1 .. L /\ c[h] \in 1 .. L
  BY <1>2
<1>4. symtab[c[h]] \in Symbol
  <2> HIDE DEF Symbol
  <2> QED BY <1>2, <1>3
<1>5. /\ new.name = symtab[c[h]].name /\ new.shndx = symtab[c[h]].shndx
      /\ new.value = symtab[c[h]].value /\ new.bind = "weak"
  BY <1>4 DEF Symbol
<1>6. symtab' = [symtab EXCEPT ![c[h]] = new]
  BY <1>1, <1>2, <1>3
<1> HIDE DEF new
<1>7. Len(symtab') = L /\ \A j \in 1 .. L : symtab'[j] = IF j = c[h] THEN new ELSE symtab[j]
  <2> HIDE DEF Symbol
  <2> QED BY <1>2, <1>3, <1>6
<1>8. ASSUME NEW j \in 1 .. L
      PROVE  /\ symtab'[j].name = symtab[j].name /\ symtab'[j].shndx = symtab[j].shndx
             /\ symtab'[j].value = symtab[j].value
             /\ Nonlocal(symtab'[j]) <=> Nonlocal(symtab[j])
  BY <1>1, <1>5, <1>7 DEF Nonlocal
<1>9. AllClean'
  BY <1>2, <1>7, <1>8 DEF AllClean, Clean, Undefined
<1>10. HandlesKept'
  <2>1. ASSUME NEW k \in DOMAIN c PROVE HandleKept(k, symtab'[c[k]])
    <3>1. c[k] \in 1 .. L
      BY <1>2
    <3>2. HandleKept(k, symtab[c[k]])
      BY <1>2 DEF HandlesKept
    <3> QED BY <1>8, <3>1, <3>2 DEF HandleKept
  <2> QED BY <1>1, <2>1 DEF HandlesKept
<1>11. \A j \in 1 .. first : symtab'[j] = symtab[j]
  <2>1. \A j \in 1 .. first : j \in 1 .. L /\ j # c[h]
    BY <1>2, <1>3
  <2> QED BY <1>7, <2>1
<1>12. /\ \A i \in 1 .. Len(rels) : rels'[i] = rels[i]
       /\ Len(rels) <= Len(rels') /\ Len(rels') \in Nat
       /\ \A i \in 1 .. Len(rels') : i > Len(rels) => OfFile(c', files, rels'[i])
  BY <1>1, <1>2
<1>13. HandlesStay
  BY <1>1, <1>9, <1>10 DEF HandlesStay
<1> QED BY <1>1, <1>11, <1>12, <1>13, ParsingRefers

(* The statics a file adds are its own, one of each name.                  *)
FileStatics ==
  {<<k[1], files, symtab[c[k]].shndx, symtab[c[k]].value>> :
     k \in {k \in DOMAIN c : k[2] /\ ~Undefined(symtab[c[k]])}}

LEMMA FileStaticsFacts ==
  ASSUME IInv, Referring, stage = "parse"
  PROVE  /\ FileStatics \subseteq Names \X Nat \X FileSections \X Nat
         /\ \A d \in FileStatics :
              /\ d[2] = files
              /\ \E k \in DOMAIN c : /\ k = <<d[1], TRUE>> /\ ~Undefined(symtab[c[k]])
                                     /\ d = <<k[1], files, symtab[c[k]].shndx, symtab[c[k]].value>>
<1>1. /\ symtab \in Seq(Symbol) /\ files \in Nat /\ first \in Nat /\ HandlesKept
      /\ \A k \in DOMAIN c : c[k] \in first + 1 .. Len(symtab)
  BY ParseFacts DEF TypesOK, HandlesOK, Referring, ParsedRefs
<1>2. ASSUME NEW k \in DOMAIN c, k[2], ~Undefined(symtab[c[k]])
      PROVE  /\ k = <<k[1], TRUE>> /\ k[1] \in Names
             /\ symtab[c[k]].shndx \in FileSections /\ symtab[c[k]].value \in Nat
  <2>1. HandleKept(k, symtab[c[k]])
    BY <1>1 DEF HandlesKept
  <2>2. c[k] \in 1 .. Len(symtab)
    BY <1>1
  <2>3. symtab[c[k]] \in Symbol
    <3> HIDE DEF Symbol
    <3> QED BY <1>1, <2>2
  <2>4. k = <<k[1], TRUE>> /\ k[1] \in Names
    <3>1. k \in Names \X BOOLEAN
      BY <2>1 DEF HandleKept
    <3>2. k[1] \in Names /\ k[2] \in BOOLEAN /\ k = <<k[1], k[2]>>
      BY <3>1
    <3>3. k[2] = TRUE
      BY <1>2, <3>2
    <3> QED BY <3>2, <3>3
  <2>5. symtab[c[k]].shndx \in FileSections
    BY <1>2, <2>1 DEF HandleKept, Undefined
  <2>6. symtab[c[k]].value \in Nat
    BY <2>3 DEF Symbol
  <2> QED BY <2>4, <2>5, <2>6
<1>3. ASSUME NEW d \in FileStatics
      PROVE  /\ d \in Names \X Nat \X FileSections \X Nat /\ d[2] = files
             /\ \E k \in DOMAIN c : /\ k = <<d[1], TRUE>> /\ ~Undefined(symtab[c[k]])
                                    /\ d = <<k[1], files, symtab[c[k]].shndx, symtab[c[k]].value>>
  <2>1. PICK k \in DOMAIN c :
          /\ k[2] /\ ~Undefined(symtab[c[k]])
          /\ d = <<k[1], files, symtab[c[k]].shndx, symtab[c[k]].value>>
    BY DEF FileStatics
  <2>2. /\ k = <<k[1], TRUE>> /\ k[1] \in Names
        /\ symtab[c[k]].shndx \in FileSections /\ symtab[c[k]].value \in Nat
    BY <1>2, <2>1
  <2>3. d[1] = k[1] /\ d[2] = files
    BY <2>1
  <2>4. d \in Names \X Nat \X FileSections \X Nat
    BY <1>1, <2>1, <2>2
  <2> QED BY <2>1, <2>2, <2>3, <2>4
<1> QED BY <1>3

(* What a reference of the file stands for once the file is merged.        *)
LEMMA OwnStands ==
  ASSUME IInv, Referring, stage = "parse", NEW r, OfFile(c, files, r)
  PROVE  Stands(statics \cup FileStatics, Offer(symtab[r.ix]), r.for)
<1> DEFINE k == <<r.for[1], r.for[2]>>
           s == symtab[c[k]]
           S == statics \cup FileStatics
<1>1. r.for[3] = files /\ k \in DOMAIN c /\ r.ix = c[k] /\ k[1] = r.for[1] /\ k[2] = r.for[2]
  BY DEF OfFile
<1>2. HandleKept(k, s)
  BY <1>1 DEF Referring, ParsedRefs, HandlesKept
<1>3. /\ s.name = r.for[1] /\ r.for[1] \in Names /\ r.for[2] \in BOOLEAN
      /\ Nonlocal(s) <=> ~r.for[2]
  BY <1>1, <1>2 DEF HandleKept
<1>4. symtab[r.ix] = s /\ Offer(s) = (IF Undefined(s) /\ ~Nonlocal(s)
                                     THEN [s EXCEPT !.bind = "global"] ELSE s)
  BY <1>1 DEF Offer, Nonlocal
<1>5. s \in Symbol
  <2>1. symtab \in Seq(Symbol) /\ c[k] \in 1 .. Len(symtab)
    BY <1>1, ParseFacts DEF TypesOK, HandlesOK
  <2> HIDE DEF Symbol, k
  <2> QED BY <2>1
<1>6. CASE ~r.for[2]
  <2>1. Nonlocal(s)
    BY <1>3, <1>6
  <2>2. Offer(s) = s
    BY <1>4, <2>1
  <2> HIDE DEF s
  <2> QED BY <1>3, <1>4, <1>6, <2>1, <2>2 DEF Stands
<1>7. CASE r.for[2] /\ Undefined(s)
  <2>1. Offer(s) = [s EXCEPT !.bind = "global"]
    BY <1>3, <1>4, <1>7
  <2>2. Offer(s).name = s.name /\ Nonlocal(Offer(s))
    BY <1>5, <2>1 DEF Symbol, Nonlocal
  <2>3. ASSUME NEW d \in S, d[1] = r.for[1], d[2] = r.for[3] PROVE FALSE
    <3>1. CASE d \in statics
      BY <1>1, <2>3, <3>1 DEF Referring, StaticsOK
    <3>2. CASE d \in FileStatics
      <4>1. PICK h \in DOMAIN c : h = <<d[1], TRUE>> /\ ~Undefined(symtab[c[h]])
        BY <3>2, FileStaticsFacts
      <4>2. h = k
        BY <1>3, <1>7, <2>3, <4>1
      <4> QED BY <1>7, <4>1, <4>2
    <3> QED BY <2>3, <3>1, <3>2
  <2> HIDE DEF s, S
  <2>4. Stands(S, Offer(s), r.for)
    BY <1>3, <2>2, <2>3 DEF Stands
  <2> QED BY <1>4, <2>4 DEF S
<1>8. CASE r.for[2] /\ ~Undefined(s)
  <2>1. Offer(s) = s /\ ~Nonlocal(s)
    BY <1>3, <1>4, <1>8
  <2>2. <<k[1], files, s.shndx, s.value>> \in FileStatics
    <3>1. k \in DOMAIN c /\ k[2] /\ ~Undefined(symtab[c[k]])
      BY <1>1, <1>8
    <3> HIDE DEF k
    <3> QED BY <3>1 DEF FileStatics
  <2>3. <<r.for[1], r.for[3], s.shndx, s.value>> \in S
    BY <1>1, <2>2
  <2> HIDE DEF s, S
  <2>4. Stands(S, Offer(s), r.for)
    BY <1>3, <1>8, <2>1, <2>3 DEF Stands
  <2> QED BY <1>4, <2>4 DEF S
<1> QED BY <1>3, <1>6, <1>7, <1>8

LEMMA EndFileRefers == IInv /\ Referring /\ EndFile => Referring'
<1> SUFFICES ASSUME IInv, Referring, EndFile PROVE Referring'
  OBVIOUS
<1> DEFINE m == Merge
           t == m.t
           n == Len(symtab) - first
           moved(r) == [r EXCEPT !.ix = m.tr[r.ix - first]]
<1>1. /\ stage = "parse" /\ stage' = "link" /\ SetTab(t) /\ c' = <<>>
      /\ rels' = [i \in DOMAIN rels |-> IF i > first_rel THEN moved(rels[i]) ELSE rels[i]]
      /\ statics' = statics \cup FileStatics
      /\ UNCHANGED <<first, first_rel, files>>
  BY DEF EndFile, FileStatics
<1>2. /\ TypesOK /\ Parsed /\ RelocsOK /\ RelocsOfFile
      /\ Len(symtab) \in Nat /\ first <= Len(symtab) /\ first \in Nat /\ files \in Nat
  BY <1>1, ParseFacts DEF TypesOK
<1>3. MergeOK(n, m)
  BY <1>2, MergeFacts
<1> HIDE DEF m
<1>4. /\ Good(t) /\ t.n \in Nat /\ first <= t.n /\ Traced(n, t, m.tr)
      /\ \A j \in 1 .. n : m.tr[j] \in 1 .. t.n
  BY <1>3 DEF MergeOK, Good, Tabs
<1> HIDE DEF t
<1>5. Len(symtab') = t.n /\ \A j \in 1 .. t.n : symtab'[j] = t.syms[j]
  BY <1>1, <1>4, SetTabFacts
<1>6. StaticsOK'
  <2>1. /\ statics \subseteq Names \X Nat \X FileSections \X Nat
        /\ \A d, e \in statics : d[1] = e[1] /\ d[2] = e[2] => d = e
        /\ \A d \in statics : d[2] <= files /\ d[2] # files
    BY <1>1 DEF Referring, StaticsOK
  <2>2. /\ FileStatics \subseteq Names \X Nat \X FileSections \X Nat
        /\ \A d \in FileStatics :
             /\ d[2] = files
             /\ \E k \in DOMAIN c :
                  k = <<d[1], TRUE>> /\ d = <<k[1], files, symtab[c[k]].shndx, symtab[c[k]].value>>
    BY <1>1, FileStaticsFacts
  <2>3. ASSUME NEW d \in FileStatics, NEW e \in FileStatics, d[1] = e[1] PROVE d = e
    <3>1. PICK k \in DOMAIN c :
            /\ k = <<d[1], TRUE>>
            /\ d = <<k[1], files, symtab[c[k]].shndx, symtab[c[k]].value>>
      BY <2>2
    <3>2. PICK h \in DOMAIN c :
            /\ h = <<e[1], TRUE>>
            /\ e = <<h[1], files, symtab[c[h]].shndx, symtab[c[h]].value>>
      BY <2>2
    <3>3. k = h
      BY <2>3, <3>1, <3>2
    <3> QED BY <3>1, <3>2, <3>3
  <2>4. \A d, e \in statics' : d[1] = e[1] /\ d[2] = e[2] => d = e
    BY <1>1, <2>1, <2>2, <2>3
  <2>5. \A d \in statics' : d[2] <= files
    <3>1. files <= files
      BY <1>2
    <3> QED BY <1>1, <2>1, <2>2, <3>1
  <2>6. statics' \subseteq Names \X Nat \X FileSections \X Nat
    BY <1>1, <2>1, <2>2
  <2> QED BY <1>1, <2>4, <2>5, <2>6 DEF StaticsOK
<1>7. ASSUME NEW i \in 1 .. Len(rels)
      PROVE  rels'[i].for[3] <= files /\ Stands(statics', symtab'[rels'[i].ix], rels'[i].for)
  <2> DEFINE r == rels[i]
             q == rels'[i]
  <2>1. r \in Rel /\ r.ix \in 1 .. Len(symtab) /\ r.for[3] \in Nat
    BY RelocFacts
  <2>2. i \in DOMAIN rels
    BY <1>2 DEF RelocsOK
  <2>3. q = IF i > first_rel THEN moved(r) ELSE r
    BY <1>1, <2>2
  <2>4. IF i > first_rel THEN r.ix > first ELSE r.ix <= first
    BY <1>1, <1>2 DEF RelocsOfFile
  <2>5. IF i > first_rel THEN OfFile(c, files, r) ELSE OfEarlier(statics, files, symtab, r)
    BY <1>1 DEF Referring, ParsedRefs
  <2> HIDE DEF r, q
  <2>6. CASE i > first_rel
    <3> DEFINE j == r.ix - first
               ix == m.tr[j]
    <3>1. j \in 1 .. n /\ first + j = r.ix
      BY <1>2, <2>1, <2>4, <2>6
    <3>2. ix \in 1 .. t.n /\ Keeps(Offer(symtab[first + j]), t.syms[ix])
      BY <1>4, <3>1 DEF Traced
    <3>3. q.ix = ix /\ q.for = r.for
      BY <2>1, <2>3, <2>6 DEF Rel
    <3> HIDE DEF j, ix
    <3>4. OfFile(c, files, r)
      BY <2>5, <2>6
    <3>5. Stands(statics \cup FileStatics, Offer(symtab[r.ix]), r.for)
      BY <1>1, <3>4, OwnStands
    <3>6. Keeps(Offer(symtab[r.ix]), symtab'[ix])
      BY <1>5, <3>1, <3>2
    <3>7. Stands(statics', symtab'[ix], r.for)
      BY <1>1, <3>5, <3>6, StandsStill
    <3>8. q.for[3] <= files
      BY <1>2, <3>3, <3>4 DEF OfFile
    <3> QED BY <3>3, <3>7, <3>8 DEF q
  <2>7. CASE ~(i > first_rel)
    <3>1. q = r
      BY <2>3, <2>7
    <3>2. r.ix \in 1 .. first /\ r.ix \in 1 .. t.n
      BY <1>2, <1>4, <2>1, <2>4, <2>7
    <3>3. r.for[3] < files /\ Stands(statics, symtab[r.ix], r.for)
      BY <2>5, <2>7 DEF OfEarlier
    <3>4. Keeps(symtab[r.ix], symtab'[r.ix])
      BY <1>4, <1>5, <3>2 DEF Traced
    <3>5. r.for[3] # files /\ r.for[3] <= files
      BY <1>2, <2>1, <3>3
    <3>6. \A d \in statics' : d \in statics \/ d[2] # r.for[3]
      BY <1>1, <3>5, FileStaticsFacts
    <3>7. Stands(statics', symtab'[r.ix], r.for)
      BY <1>1, <3>3, <3>4, <3>6, StandsStill
    <3> QED BY <3>1, <3>5, <3>7 DEF q
  <2> QED BY <2>6, <2>7
<1>8. MergedRefs'
  <2>1. Len(rels') = Len(rels)
    <3>1. rels \in Seq(Rel) /\ Len(rels) \in Nat /\ DOMAIN rels = 1 .. Len(rels)
      <4> HIDE DEF Rel
      <4> QED BY <1>2 DEF RelocsOK
    <3>2. DOMAIN rels' = 1 .. Len(rels)
      BY <1>1, <3>1
    <3>3. rels' \in Seq(Rel)
      BY EndFileKeeps DEF TablesOK, RelocsOK
    <3> HIDE DEF Rel
    <3> QED BY <3>1, <3>2, <3>3
  <2> QED BY <1>1, <1>7, <2>1 DEF MergedRefs
<1>9. CleanOK'
  <2>1. AllClean
    BY <1>1 DEF Referring, CleanOK
  <2>2. \A j \in 1 .. t.n : Clean(t.syms[j])
    BY <1>4, <2>1 DEF Traced, AllClean
  <2> QED BY <1>5, <2>2 DEF CleanOK, AllClean
<1>10. ParsedRefs' /\ SettledOK' /\ SizedOK'
  BY <1>1 DEF ParsedRefs, SettledOK, SizedOK
<1> QED BY <1>6, <1>8, <1>9, <1>10 DEF Referring

LEMMA AddSymbolRefers == \A name \in AddedNames : IInv /\ Referring /\ AddSymbol(name) => Referring'
<1> SUFFICES ASSUME NEW name \in AddedNames, IInv, Referring, AddSymbol(name) PROVE Referring'
  OBVIOUS
<1> DEFINE s == GlobalSym(name, "abs", AddedValue)
           u == Set(Tab, s)
<1>1. /\ stage = "link" /\ SetTab(u)
      /\ UNCHANGED <<stage, rels, files, statics>>
  BY DEF AddSymbol
<1>2. s \in Symbol /\ Nonlocal(s) /\ s.name \in Names /\ Clean(s)
  <2>1. name \in Names /\ name \in AllNames /\ "abs" \in Shndx /\ AddedValue \in Nat
    BY AddedAssumption DEF AllNames, Shndx
  <2>2. Clean(s)
    BY DEF Clean, Undefined, GlobalSym
  <2> HIDE DEF s
  <2> QED BY <2>1, <2>2, GlobalSymFacts DEF s
<1> HIDE DEF s
<1>3. Good(Tab) /\ Len(symtab) \in Nat /\ Tab.n = Len(symtab) /\ Tab.syms = symtab
  BY <1>1, LinkFacts
<1>4. /\ Good(u) /\ u.n \in Nat /\ Len(symtab) <= u.n
  <2>1. Named(Tab.syms, Tab.n)
    BY <1>1, LinkFacts
  <2> QED BY <1>2, <1>3, <2>1, EntryOffered
<1>5. /\ \A j \in 1 .. Len(symtab) : Keeps(symtab[j], u.syms[j])
      /\ AllClean => \A j \in 1 .. u.n : Clean(u.syms[j])
  BY <1>2, <1>3, SetPlaces DEF AllClean
<1> HIDE DEF u
<1>6. /\ Len(symtab') = u.n /\ \A j \in 1 .. u.n : symtab'[j] = u.syms[j]
  BY <1>1, <1>4, SetTabFacts
<1>7. StaticsOK'
  BY <1>1 DEF Referring, StaticsOK
<1>8. CleanOK'
  BY <1>1, <1>5, <1>6 DEF Referring, CleanOK, AllClean
<1>9. MergedRefs'
  <2>1. ASSUME NEW i \in 1 .. Len(rels)
        PROVE  rels[i].for[3] <= files /\ Stands(statics, symtab'[rels[i].ix], rels[i].for)
    <3>1. rels[i].ix \in 1 .. Len(symtab)
      BY RelocFacts
    <3>2. rels[i].for[3] <= files /\ Stands(statics, symtab[rels[i].ix], rels[i].for)
      BY <1>1 DEF Referring, MergedRefs
    <3>3. rels[i].ix \in 1 .. u.n
      BY <1>3, <1>4, <3>1
    <3>4. Keeps(symtab[rels[i].ix], symtab'[rels[i].ix])
      BY <1>5, <1>6, <3>1, <3>3
    <3> QED BY <3>2, <3>4, StandsStill
  <2> QED BY <1>1, <2>1 DEF MergedRefs
<1>10. ParsedRefs' /\ SettledOK' /\ SizedOK'
  BY <1>1 DEF ParsedRefs, SettledOK, SizedOK
<1> QED BY <1>7, <1>8, <1>9, <1>10 DEF Referring

(* Common symbols get their place: references to them still stand, and the *)
(* entries are what they will be when the program is linked.               *)
LEMMA ResolveCommonSymsRefers == IInv /\ AsOffered /\ Referring /\ ResolveCommonSyms => Referring'
<1> SUFFICES ASSUME IInv, AsOffered, Referring, ResolveCommonSyms PROVE Referring'
  OBVIOUS
<1> DEFINE L == Len(symtab)
           common == {i \in DOMAIN symtab : symtab[i].shndx = "common"}
           value(i) == fill["bss"] + Cardinality({j \in common : j < i})
<1>1. /\ stage = "link" /\ stage' = "resolved"
      /\ symtab' = [i \in DOMAIN symtab |->
                      IF i \in common
                      THEN [symtab[i] EXCEPT !.shndx = "bss", !.value = value(i)]
                      ELSE symtab[i]]
      /\ UNCHANGED <<rels, files, statics, offered>>
  BY DEF ResolveCommonSyms
<1>2. /\ symtab \in Seq(Symbol) /\ L \in Nat /\ DOMAIN symtab = 1 .. L
      /\ \A i \in 1 .. L : symtab[i] \in Symbol
  <2>1. symtab \in Seq(Symbol)
    BY DEF IInv, TablesOK, TypesOK
  <2> HIDE DEF Symbol
  <2> QED BY <2>1
<1> HIDE DEF value
<1>3. ASSUME NEW i \in 1 .. L
      PROVE  LET s == symtab[i]
                 r == symtab'[i]
             IN IF s.shndx = "common"
                THEN /\ r.name = s.name /\ r.bind = s.bind /\ r.type = s.type /\ r.vis = s.vis
                     /\ r.shndx = "bss"
                ELSE r = s
  <2> DEFINE s == symtab[i]
             r == [s EXCEPT !.shndx = "bss", !.value = value(i)]
  <2>1. s \in Symbol /\ (i \in common <=> s.shndx = "common")
    BY <1>2
  <2>2. symtab'[i] = IF i \in common THEN r ELSE s
    BY <1>1, <1>2
  <2> HIDE DEF s
  <2>3. /\ r.name = s.name /\ r.bind = s.bind /\ r.type = s.type /\ r.vis = s.vis
        /\ r.shndx = "bss"
    BY <2>1 DEF Symbol
  <2> HIDE DEF r
  <2> QED BY <2>1, <2>2, <2>3 DEF s
<1>4. Len(symtab') = L
  <2> DEFINE q == symtab'
  <2>1. q = [i \in 1 .. L |-> q[i]]
    BY <1>1, <1>2
  <2> HIDE DEF q, L
  <2>2. Len(q) = L
    BY <1>2, <2>1
  <2> QED BY <2>2 DEF q
<1>5. /\ Tab.n = L /\ Tab.syms = symtab /\ Tab'.n = Len(symtab') /\ Tab'.syms = symtab'
  BY DEF Tab
<1> HIDE DEF L, common
<1>6. StaticsOK'
  BY <1>1 DEF Referring, StaticsOK
<1>7. CleanOK'
  <2>1. AllClean
    BY <1>1 DEF Referring, CleanOK
  <2>2. \A i \in 1 .. L : Clean(symtab'[i])
    BY <1>3, <2>1 DEF AllClean, Clean, Undefined, L
  <2> QED BY <1>4, <2>2 DEF CleanOK, AllClean
<1>8. MergedRefs'
  <2>1. ASSUME NEW i \in 1 .. Len(rels)
        PROVE  rels[i].for[3] <= files /\ Stands(statics, symtab'[rels[i].ix], rels[i].for)
    <3> DEFINE s == symtab[rels[i].ix]
               r == symtab'[rels[i].ix]
    <3>1. rels[i].ix \in 1 .. L
      BY RelocFacts DEF L
    <3>2. rels[i].for[3] <= files /\ Stands(statics, s, rels[i].for)
      BY <1>1 DEF Referring, MergedRefs
    <3>3. IF s.shndx = "common" THEN r.name = s.name /\ r.bind = s.bind ELSE r = s
      BY <1>3, <3>1
    <3>4. ~Nonlocal(s) => s.shndx \in FileSections
      BY <3>2 DEF Referring, StaticsOK, Stands
    <3> HIDE DEF s, r
    <3>5. Keeps(s, r)
      BY <3>3, <3>4, FileSectionsFacts DEF Keeps, Alike, Nonlocal
    <3> QED BY <3>2, <3>5, StandsStill DEF r
  <2> QED BY <1>1, <2>1 DEF MergedRefs
<1>9. SettledOK'
  <2>1. Knows(Tab, offered) /\ Counts(Tab, offered)
    BY <1>1 DEF AsOffered, Agrees
  <2>2. ASSUME NEW j \in 1 .. L, NEW n \in Names, Holds(Tab', j, n)
        PROVE  SettledAs(offered, n, symtab'[j])
    <3> DEFINE s == symtab[j]
               r == symtab'[j]
    <3>1. IF s.shndx = "common"
          THEN /\ r.name = s.name /\ r.bind = s.bind /\ r.type = s.type /\ r.vis = s.vis
               /\ r.shndx = "bss"
          ELSE r = s
      BY <1>3
    <3>2. Holds(Tab, j, n)
      BY <1>5, <2>2, <3>1 DEF Holds, Nonlocal
    <3>3. KnownAs(offered, n, s) /\ CountsAs(offered, n, s)
      BY <1>5, <2>1, <3>2 DEF Knows, Counts
    <3> HIDE DEF s, r
    <3>4. SettledAs(offered, n, r)
      BY <3>1, <3>3 DEF KnownAs, CountsAs, SettledAs, Undefined
    <3> QED BY <3>4 DEF r
  <2>3. Settled(Tab', L, offered)
    BY <1>5, <2>2 DEF Settled
  <2> QED BY <1>1, <1>4, <2>3 DEF SettledOK
<1>10. ParsedRefs' /\ SizedOK'
  BY <1>1 DEF ParsedRefs, SizedOK
<1> QED BY <1>6, <1>7, <1>8, <1>9, <1>10 DEF Referring

(* The GOT and the PLT are built, and each relocation leads there by its   *)
(* own symbol.                                                             *)
LEMMA RelocateRefers ==
  GotName \notin Names /\ IInv /\ AsOffered /\ Referring /\ Relocate => Referring'
<1> SUFFICES ASSUME GotName \notin Names, IInv, AsOffered, Referring, Relocate PROVE Referring'
  OBVIOUS
<1> DEFINE x == AddLinkerSymbols
           u == x.t
           g == BuildGotEntries(u)
           err == g.t.err \/ Unresolved(g.t)
           t == [g.t EXCEPT !.err = err]
           o == x.o
           len == Len(rels)
<1>1. /\ stage = "resolved" /\ SetTab(t) /\ rels' = g.rels /\ got' = g.got /\ attrs' = g.attrs
      /\ stage' \in {"failed", "sized"} /\ offered' = o
      /\ UNCHANGED <<files, statics>>
  BY DEF Relocate
<1>2. /\ TypesOK /\ RelocsOK /\ got = <<>> /\ attrs = <<>> /\ Good(Tab)
      /\ Len(symtab) \in Nat /\ Tab.n = Len(symtab) /\ Tab.syms = symtab
      /\ Knows(Tab, offered) /\ Settled(Tab, Len(symtab), offered) /\ AllClean
  BY <1>1, LinkFacts DEF AsOffered, Referring, SettledOK, CleanOK
<1> HIDE DEF x
<1>3. /\ Good(u) /\ u.n \in Nat /\ Len(symtab) <= u.n /\ Named(u.syms, u.n)
      /\ \A j \in 1 .. Len(symtab) : Keeps(symtab[j], u.syms[j])
      /\ \A j \in 1 .. u.n : Clean(u.syms[j])
      /\ Settled(u, u.n, o)
  BY <1>1, <1>2, LinkerFacts DEF x, LinkerOK, Good, Tabs
<1> HIDE DEF u
<1>4. \A i \in 1 .. len : rels[i].ix \in 1 .. u.n
  <2>1. \A j \in 1 .. Len(symtab) : j \in 1 .. u.n
    BY <1>2, <1>3
  <2> QED BY <1>2, <2>1 DEF RelocsOK
<1>7. GotOK(u, 2 * len, g)
  BY <1>2, <1>3, <1>4, BuildGotEntriesFacts DEF GotInput, RelocsOK
<1> HIDE DEF g, o
<1>8. /\ g \in GotStates /\ Good(g.t) /\ g.t \in Tabs /\ Len(g.rels) = len
      /\ u.n <= g.t.n /\ g.t.n \in Nat
      /\ \A i \in 1 .. len : g.rels[i].ix \in 1 .. g.t.n
      /\ Own(u, g) /\ Routed(2 * len, g)
  BY <1>7 DEF GotOK, Good, Tabs
<1>9. err \in BOOLEAN
  BY DEF err
<1> HIDE DEF err
<1>10. t \in Tabs /\ t.n = g.t.n /\ t.hash = g.t.hash /\ t.syms = g.t.syms
  BY <1>8, <1>9 DEF Tabs
<1> HIDE DEF t
<1>11. Good(t)
  <2>1. StaticsDefined(t) /\ t.n <= Len(t.syms)
    BY <1>8, <1>10 DEF Good, StaticsDefined
  <2> QED BY <1>8, <1>10, <2>1, Retouched DEF Alike
<1>12. Len(symtab') = g.t.n /\ \A j \in 1 .. g.t.n : symtab'[j] = g.t.syms[j]
  BY <1>1, <1>10, <1>11, SetTabFacts
<1> DEFINE d == Laid'
<1>13. d.t.n = g.t.n /\ d.t.syms = symtab' /\ d.got = g.got /\ d.attrs = g.attrs
  BY <1>1, <1>12 DEF Laid, Tab
<1> HIDE DEF d
<1>14. Extends(g, d)
  BY <1>8, <1>12, <1>13 DEF Extends
<1>15. Slots(d)
  BY <1>8, <1>13, <1>14, SlotStays DEF Routed, Slots
<1>16. ASSUME NEW i \in 1 .. len PROVE Led(d, statics, o, g.rels[i])
  <2> DEFINE j == rels[i].ix
             r == g.rels[i]
  <2>1. j \in 1 .. Len(symtab) /\ len \in Nat /\ j \in Nat
    BY <1>2, RelocFacts DEF RelocsOK
  <2>2. j \in 1 .. u.n /\ j \in 1 .. g.t.n
    BY <1>2, <1>3, <1>8, <2>1
  <2>3. symtab'[j] = u.syms[j]
    BY <1>8, <1>12, <2>2 DEF Own
  <2>4. r.for = rels[i].for /\ Goes(g, r, j, i + len <= 2 * len)
    BY <1>8 DEF Routed
  <2>5. i + len <= 2 * len
    BY <2>1
  <2>6. Goes(g, r, j, TRUE)
    BY <2>4, <2>5
  <2>7. Stands(statics, symtab[j], rels[i].for)
    BY <1>1 DEF Referring, MergedRefs
  <2> HIDE DEF j, r
  <2>8. Keeps(symtab[j], u.syms[j])
    BY <1>3, <2>1
  <2>9. Stands(statics, u.syms[j], r.for)
    BY <2>4, <2>7, <2>8, StandsStill
  <2>10. Nonlocal(u.syms[j]) => SettledAs(o, r.for[1], u.syms[j])
    BY <1>3, <2>2, <2>9 DEF Settled, Holds, Stands
  <2>11. Meets(statics, o, symtab'[j], r.for)
    BY <1>3, <2>2, <2>3, <2>9, <2>10 DEF Meets
  <2>12. Goes(d, r, j, TRUE)
    BY <1>12, <1>13, <2>6 DEF Goes
  <2> QED BY <1>13, <2>2, <2>11, <2>12 DEF Led, r
<1>17. SizedOK'
  <2>1. Len(rels') = len
    BY <1>1, <1>8
  <2>2. \A i \in 1 .. Len(rels') : Led(d, statics', offered', rels'[i])
    BY <1>1, <1>16, <2>1
  <2> HIDE DEF o
  <2> QED BY <1>15, <2>2 DEF SizedOK, d
<1>18. StaticsOK' /\ ParsedRefs' /\ MergedRefs' /\ CleanOK' /\ SettledOK'
  BY <1>1 DEF Referring, StaticsOK, ParsedRefs, MergedRefs, CleanOK, SettledOK
<1> QED BY <1>17, <1>18 DEF Referring

(* The value a symbol gets when its section has an address.                *)
Moves(s) == IF Placed(s) THEN s.value + Base[s.shndx] ELSE s.value

LEMMA RelocateSymsMoves ==
  ASSUME IInv, RelocateSyms
  PROVE  /\ symtab \in Seq(Symbol) /\ Len(symtab) \in Nat /\ Len(symtab') = Len(symtab)
         /\ \A j \in 1 .. Len(symtab) :
              /\ symtab[j] \in Symbol /\ Alike(symtab[j], symtab'[j])
              /\ symtab'[j].shndx = symtab[j].shndx /\ symtab'[j].value = Moves(symtab[j])
<1> DEFINE L == Len(symtab)
           moved(s) == [s EXCEPT !.value = s.value + Base[s.shndx]]
<1>1. symtab' = [i \in DOMAIN symtab |->
                   IF Placed(symtab[i]) THEN moved(symtab[i]) ELSE symtab[i]]
  BY DEF RelocateSyms
<1>2. symtab \in Seq(Symbol) /\ L \in Nat /\ DOMAIN symtab = 1 .. L
  BY DEF IInv, TablesOK, TypesOK
<1>3. ASSUME NEW j \in 1 .. L
      PROVE  /\ symtab[j] \in Symbol /\ Alike(symtab[j], symtab'[j])
             /\ symtab'[j].shndx = symtab[j].shndx /\ symtab'[j].value = Moves(symtab[j])
  <2> DEFINE s == symtab[j]
  <2>1. s \in Symbol
    <3> HIDE DEF Symbol
    <3> QED BY <1>2
  <2>2. symtab'[j] = IF Placed(s) THEN moved(s) ELSE s
    BY <1>1, <1>2
  <2> HIDE DEF s
  <2>3. /\ Alike(s, moved(s)) /\ moved(s).shndx = s.shndx
        /\ moved(s).value = s.value + Base[s.shndx]
    BY <2>1 DEF Symbol, Alike, Nonlocal
  <2> HIDE DEF moved
  <2>4. Alike(s, symtab'[j]) /\ symtab'[j].shndx = s.shndx /\ symtab'[j].value = Moves(s)
    BY <2>2, <2>3 DEF Moves, Alike
  <2> QED BY <2>1, <2>4 DEF s
<1>4. Len(symtab') = L
  <2> DEFINE q == symtab'
  <2>1. q = [i \in 1 .. L |-> q[i]]
    BY <1>1, <1>2
  <2> HIDE DEF q, L
  <2>2. Len(q) = L
    BY <1>2, <2>1
  <2> QED BY <2>2 DEF q
<1> QED BY <1>2, <1>3, <1>4

(* Through the PLT, the GOT or directly, a relocation reaches the symbol   *)
(* it leads to.                                                            *)
LEMMA ReachesItsSymbol ==
  ASSUME IInv, RelocateSyms, Slots(Laid), NEW i \in 1 .. Len(rels), NEW j \in 1 .. Len(symtab),
         Clean(symtab[j]), Goes(Laid, rels[i], j, TRUE)
  PROVE  Reached(rels[i])' = Moves(symtab[j])
<1> DEFINE r == rels[i]
<1>1. UNCHANGED <<rels, got, attrs>> /\ rels'[i] = r
  BY DEF RelocateSyms
<1>2. /\ Len(symtab) \in Nat
      /\ \A k \in 1 .. Len(symtab) :
           /\ symtab[k] \in Symbol /\ symtab'[k].shndx = symtab[k].shndx
           /\ symtab'[k].value = Moves(symtab[k])
  BY RelocateSymsMoves
<1>3. /\ Laid.t.n = Len(symtab) /\ Laid.t.syms = symtab /\ Laid.got = got
      /\ Laid.attrs = attrs
  BY DEF Laid, Tab
<1>4. CASE r.ix = j /\ (r.type = "gotpcrel" => j \in DOMAIN attrs /\ attrs[j].got # 0)
  <2>1. symtab'[r.ix].shndx # "plt" /\ symtab'[r.ix].value = Moves(symtab[j])
    BY <1>2, <1>4 DEF Clean
  <2>2. r.type = "gotpcrel" => got[attrs[j].got] = j
    BY <1>3, <1>4 DEF Slots, Slot
  <2> HIDE DEF r
  <2> QED BY <1>1, <1>4, <2>1, <2>2 DEF Reached
<1>5. CASE /\ r.ix \in 1 .. Len(symtab) /\ symtab[r.ix].shndx = "plt"
           /\ got[symtab[r.ix].value] = j
  <2> DEFINE q == symtab[r.ix]
             v == q.value
  <2>1. q \in Symbol /\ q.shndx = "plt" /\ got[v] = j
    BY <1>2, <1>5
  <2>2. symtab'[r.ix].shndx = "plt" /\ symtab'[r.ix].value = Moves(q)
    BY <1>2, <1>5
  <2> HIDE DEF q, r
  <2>3. v \in Nat /\ Base["plt"] \in Nat
    BY <2>1, BaseAssumption DEF Symbol, Sections
  <2>4. Moves(q) = v + Base["plt"]
    BY <2>1 DEF Moves, Placed
  <2> HIDE DEF v
  <2>5. Moves(q) - Base["plt"] = v
    BY <2>3, <2>4
  <2>6. symtab'[got[v]].value = Moves(symtab[j])
    BY <1>2, <2>1
  <2> QED BY <1>1, <2>2, <2>5, <2>6 DEF Reached
<1> QED BY <1>3, <1>4, <1>5 DEF Goes

(* That symbol has the value the source meant.                             *)
LEMMA SymbolIsMeant ==
  ASSUME IInv, Referring, RelocateSyms, NEW i \in 1 .. Len(rels), NEW j \in 1 .. Len(symtab),
         Meets(statics, offered, symtab[j], rels[i].for)
  PROVE  Meant(rels[i].for)' = Moves(symtab[j])
<1> DEFINE for == rels[i].for
           n == for[1]
           s == symtab[j]
           own == {d \in statics : for[2] /\ d[1] = for[1] /\ d[2] = for[3]}
<1>1. UNCHANGED <<rels, statics, offered>> /\ rels'[i] = rels[i]
  BY DEF RelocateSyms
<1>2. /\ s \in Symbol /\ Alike(s, symtab'[j]) /\ symtab'[j].value = Moves(s)
      /\ Len(symtab) \in Nat /\ Len(symtab') = Len(symtab)
  BY RelocateSymsMoves
<1>3. Stands(statics, s, for) /\ Clean(s) /\ (Nonlocal(s) => SettledAs(offered, n, s))
  BY DEF Meets
<1> HIDE DEF s
<1>4. CASE ~Nonlocal(s)
  <2> DEFINE e == <<for[1], for[3], s.shndx, s.value>>
             d == CHOOSE d \in own : TRUE
  <2>1. e \in own
    BY <1>3, <1>4 DEF Stands
  <2>2. d \in own
    BY <2>1
  <2>3. d = e
    <3>1. e \in statics /\ d \in statics /\ d[1] = e[1] /\ d[2] = e[2]
      BY <2>1, <2>2
    <3> HIDE DEF d, e
    <3> QED BY <3>1 DEF Referring, StaticsOK
  <2>4. Meant(for)' = Base[d[3]] + d[4]
    BY <1>1, <2>1 DEF Meant
  <2>5. s.shndx \in FileSections
    <3>1. e \in statics /\ e \in Names \X Nat \X FileSections \X Nat
      BY <2>1 DEF Referring, StaticsOK
    <3> QED BY <3>1
  <2>6. s.shndx \in Sections /\ Placed(s) /\ s.value \in Nat
    BY <1>2, <2>5, FileSectionsFacts DEF Placed, Symbol
  <2>7. Base[s.shndx] \in Nat
    BY <2>6, BaseAssumption
  <2>8. Base[s.shndx] + s.value = s.value + Base[s.shndx]
    BY <2>6, <2>7
  <2> HIDE DEF d
  <2>9. d[3] = s.shndx /\ d[4] = s.value
    BY <2>3
  <2> QED BY <2>4, <2>6, <2>8, <2>9 DEF Moves, s
<1>5. CASE Nonlocal(s)
  <2> DEFINE w == Winner(n)
  <2>1. own = {} /\ n \in Names /\ s.name = n /\ SettledAs(offered, n, s)
    BY <1>3, <1>5 DEF Stands
  <2>2. Meant(for)' = IF Definitions(offered, n) = {} THEN 0
                      ELSE IF w.shndx = "abs" THEN w.value
                      ELSE IF w.shndx = "common" THEN symtab'[Find(Tab', n)].value
                      ELSE Base[w.shndx] + w.value
    BY <1>1, <2>1 DEF Meant, Winner
  <2>3. CASE Definitions(offered, n) = {}
    <3>1. Undefined(s)
      BY <2>1, <2>3 DEF SettledAs
    <3>2. Moves(s) = 0
      BY <1>3, <3>1 DEF Clean, Moves, Placed, Undefined
    <3> QED BY <2>2, <2>3, <3>2 DEF s
  <2>4. CASE Definitions(offered, n) # {}
    <3>1. /\ ~Undefined(s) /\ s.shndx = IF w.shndx = "common" THEN "bss" ELSE w.shndx
          /\ w.shndx # "common" => s.value = w.value
      BY <2>1, <2>4 DEF SettledAs, Winner
    <3> HIDE DEF w, for
    <3>2. CASE w.shndx = "abs"
      <4>1. Moves(s) = w.value
        BY <3>1, <3>2 DEF Moves, Placed
      <4> QED BY <2>2, <2>4, <3>2, <4>1 DEF s, for
    <3>3. CASE w.shndx = "common"
      <4>1. Good(Tab')
        <5>1. TablesOK' /\ stage' = "linked"
          BY RelocateSymsKeeps DEF RelocateSyms
        <5> QED BY <5>1 DEF TablesOK, TableOK
      <4> DEFINE t == Tab'
                 ix == Find(t, n)
      <4>2. t.n = Len(symtab) /\ t.syms = symtab'
        BY <1>2 DEF Tab
      <4>3. Nonlocal(t.syms[j]) /\ t.syms[j].name = n /\ j \in 1 .. t.n
        BY <1>2, <1>5, <2>1, <4>2 DEF Alike
      <4> HIDE DEF t
      <4>4. n \in AllNames
        BY <2>1 DEF AllNames
      <4>5. /\ ix \in 0 .. t.n
            /\ ix # 0 => Nonlocal(t.syms[ix]) /\ t.syms[ix].name = n
            /\ \A k \in ix + 1 .. t.n : Nonlocal(t.syms[k]) => t.syms[k].name # n
        BY <4>1, <4>4, FindFacts DEF t
      <4> HIDE DEF ix
      <4>6. ix # 0
        <5> SUFFICES ASSUME ix = 0 PROVE FALSE
          OBVIOUS
        <5>1. j \in ix + 1 .. t.n
          BY <4>3
        <5> QED BY <4>3, <4>5, <5>1
      <4>7. ix \in 1 .. t.n
        BY <1>2, <4>2, <4>5, <4>6
      <4>8. ix = j
        <5>1. Once(t) /\ n \in Unique
          BY <2>1, <4>1 DEF Good, t, Unique
        <5> QED BY <4>3, <4>5, <4>6, <4>7, <5>1 DEF Once
      <4>9. symtab'[Find(Tab', n)].value = Moves(s)
        BY <1>2, <4>8 DEF ix, t
      <4> QED BY <2>2, <2>4, <3>3, <4>9 DEF s, for
    <3>4. CASE w.shndx # "abs" /\ w.shndx # "common"
      <4>1. s.shndx = w.shndx /\ s.value = w.value /\ Placed(s)
        BY <3>1, <3>4 DEF Placed, Undefined
      <4>2. s.shndx \in Sections /\ s.value \in Nat
        BY <1>2, <4>1 DEF Symbol, Shndx, Placed
      <4>3. Base[s.shndx] \in Nat
        BY <4>2, BaseAssumption
      <4>4. Base[s.shndx] + s.value = s.value + Base[s.shndx]
        BY <4>2, <4>3
      <4>5. Meant(for)' = Base[w.shndx] + w.value
        BY <2>2, <2>4, <3>4
      <4> QED BY <4>1, <4>4, <4>5 DEF Moves, s, for
    <3> QED BY <3>2, <3>3, <3>4
  <2> QED BY <2>3, <2>4
<1> QED BY <1>4, <1>5

LEMMA RelocateSymsReaches == IInv /\ Referring /\ RelocateSyms => ReferencesReach'
<1> SUFFICES ASSUME IInv, Referring, RelocateSyms PROVE ReferencesReach'
  OBVIOUS
<1>1. stage = "sized" /\ UNCHANGED rels
  BY DEF RelocateSyms
<1>2. Slots(Laid) /\ \A i \in 1 .. Len(rels) : Led(Laid, statics, offered, rels[i])
  BY <1>1 DEF Referring, SizedOK
<1>3. ASSUME NEW i \in 1 .. Len(rels)
      PROVE  Reached(rels[i])' = Meant(rels[i].for)'
  <2>1. Laid.t.n = Len(symtab) /\ Laid.t.syms = symtab
    BY DEF Laid, Tab
  <2>2. PICK j \in 1 .. Len(symtab) :
          Meets(statics, offered, symtab[j], rels[i].for) /\ Goes(Laid, rels[i], j, TRUE)
    BY <1>2, <2>1 DEF Led
  <2>3. Reached(rels[i])' = Moves(symtab[j])
    BY <1>2, <2>2, ReachesItsSymbol DEF Meets
  <2>4. Meant(rels[i].for)' = Moves(symtab[j])
    BY <2>2, SymbolIsMeant
  <2> QED BY <2>3, <2>4
<1>4. DOMAIN rels = 1 .. Len(rels)
  <2>1. rels \in Seq(Rel)
    BY DEF IInv, TablesOK, RelocsOK
  <2> HIDE DEF Rel
  <2> QED BY <2>1
<1> QED BY <1>1, <1>3, <1>4 DEF ReferencesReach

LEMMA RelocateSymsRefers == Referring /\ RelocateSyms => Referring'
<1> SUFFICES ASSUME Referring, RelocateSyms PROVE Referring'
  OBVIOUS
<1>1. stage' = "linked" /\ UNCHANGED <<files, statics>>
  BY DEF RelocateSyms
<1> QED BY <1>1 DEF Referring, StaticsOK, ParsedRefs, MergedRefs, CleanOK, SettledOK, SizedOK

LEMMA NextRefers ==
  GotName \notin Names /\ IInv /\ AsOffered /\ Referring /\ [Next]_vars => Referring'
<1> SUFFICES ASSUME GotName \notin Names, IInv, AsOffered, Referring, [Next]_vars
             PROVE  Referring'
  OBVIOUS
<1>1. CASE UNCHANGED vars
  <2>1. UNCHANGED <<stage, symtab, hashtab, nb_hashed, first_rel>>
        /\ UNCHANGED <<c, rels, got, attrs, nb_errors, files, offered, statics>>
    BY <1>1 DEF vars
  <2>2. StaticsOK' /\ ParsedRefs' /\ MergedRefs'
    BY <2>1 DEF Referring, StaticsOK, ParsedRefs, HandlesKept, OfFile, OfEarlier, MergedRefs
  <2>3. CleanOK' /\ SettledOK' /\ SizedOK'
    BY <2>1 DEF Referring, CleanOK, AllClean, SettledOK, SizedOK, Laid, Tab
  <2> QED BY <2>2, <2>3 DEF Referring
<1>2. CASE BeginFile
  BY <1>2, BeginFileRefers
<1>3. CASE EndFile
  BY <1>3, EndFileRefers
<1>4. CASE ResolveCommonSyms
  BY <1>4, ResolveCommonSymsRefers
<1>5. CASE Relocate
  BY <1>5, RelocateRefers
<1>6. CASE RelocateSyms
  BY <1>6, RelocateSymsRefers
<1>7. CASE \E d \in Decls : Define(d)
  BY <1>7, DefineRefers
<1>8. CASE \E d \in Decls : \E type \in Emitted(d) \cap RelocTypes : Greloca(d, type)
  BY <1>8, GrelocaRefers
<1>9. CASE \E k \in DOMAIN c : Weaken(k)
  BY <1>9, WeakenRefers
<1>10. CASE \E name \in AddedNames : AddSymbol(name)
  BY <1>10, AddSymbolRefers
<1> QED BY <1>1, <1>2, <1>3, <1>4, <1>5, <1>6, <1>7, <1>8, <1>9, <1>10 DEF Next

LEMMA ReferringInvariant ==
  ASSUME GotName \notin Names
  PROVE  Spec => [](IInv /\ AsOffered /\ Referring)
<1>1. Init => IInv /\ AsOffered /\ Referring
  BY InitIInv, InitOffered, InitReferring
<1>2. (IInv /\ AsOffered /\ Referring) /\ [Next]_vars => (IInv /\ AsOffered /\ Referring)'
  BY NextIInv, NextOffered, NextRefers
<1> QED BY <1>1, <1>2, PTL DEF Spec

(* When the linker's own name is not one of the program's, every reference *)
(* of a linked program reaches what its source meant: the static of its    *)
(* file or the definition that counts, wherever merges, the GOT and the    *)
(* PLT have taken it.                                                      *)
THEOREM ReferencesFollowed ==
  ASSUME GotName \notin Names
  PROVE  Spec => []ReferencesReach
<1>1. Init => ReferencesReach
  BY DEF Init, ReferencesReach
<1>2. (IInv /\ AsOffered /\ Referring) /\ ReferencesReach /\ [Next]_vars => ReferencesReach'
  <2> SUFFICES ASSUME IInv, AsOffered, Referring, ReferencesReach, [Next]_vars
               PROVE  ReferencesReach'
    OBVIOUS
  <2>1. CASE UNCHANGED vars
    <3>1. UNCHANGED <<stage, symtab, hashtab, nb_hashed, rels, got, attrs, nb_errors>>
          /\ UNCHANGED <<offered, statics>>
      BY <2>1 DEF vars
    <3>2. Tab' = Tab
      BY <3>1 DEF Tab
    <3>3. ASSUME NEW i \in DOMAIN rels PROVE Reached(rels[i])' = Reached(rels[i])
      BY <3>1 DEF Reached
    <3>4. ASSUME NEW i \in DOMAIN rels PROVE Meant(rels[i].for)' = Meant(rels[i].for)
      BY <3>1, <3>2 DEF Meant, Winner
    <3> QED BY <3>1, <3>3, <3>4 DEF ReferencesReach
  <2>2. CASE RelocateSyms
    BY <2>2, RelocateSymsReaches
  <2>3. CASE \/ BeginFile \/ EndFile \/ ResolveCommonSyms \/ Relocate
             \/ \E d \in Decls : Define(d)
             \/ \E d \in Decls : \E type \in Emitted(d) \cap RelocTypes : Greloca(d, type)
             \/ \E k \in DOMAIN c : Weaken(k)
             \/ \E name \in AddedNames : AddSymbol(name)
    <3>1. stage' # "linked"
      BY <2>3 DEF BeginFile, EndFile, ResolveCommonSyms, Relocate, Define, Greloca, Weaken,
                  AddSymbol
    <3> QED BY <3>1 DEF ReferencesReach
  <2> QED BY <2>1, <2>2, <2>3 DEF Next
<1> QED BY <1>1, <1>2, ReferringInvariant, PTL DEF Spec

-----------------------------------------------------------------------------
(* What relocation reports.                                                *)
LEMMA RelocateReports ==
  GotName \notin Names /\ IInv /\ AsOffered /\ Referring /\ Relocate => MissingReported'
<1> SUFFICES ASSUME GotName \notin Names, IInv, AsOffered, Referring, Relocate
             PROVE  MissingReported'
  OBVIOUS
<1> DEFINE x == AddLinkerSymbols
           u == x.t
           g == BuildGotEntries(u)
           err == g.t.err \/ Unresolved(g.t)
           o == x.o
           failed == \E n \in Names : Missing(o, n) \/ Taken(o, n)
<1>1. /\ stage = "resolved" /\ offered' = o
      /\ stage' = IF [g.t EXCEPT !.err = err].err THEN "failed" ELSE "sized"
  BY DEF Relocate
<1>2. /\ TypesOK /\ RelocsOK /\ got = <<>> /\ attrs = <<>> /\ Len(symtab) \in Nat
      /\ Knows(Tab, offered) /\ Settled(Tab, Len(symtab), offered) /\ ~nb_errors
  BY <1>1, LinkFacts DEF AsOffered, Referring, SettledOK
<1> HIDE DEF x
<1>3. /\ Good(u) /\ u.n \in Nat /\ Len(symtab) <= u.n /\ Named(u.syms, u.n) /\ Knows(u, o)
      /\ u.err <=> \E n \in Names : Taken(o, n)
  BY <1>1, <1>2, LinkerFacts DEF x, LinkerOK, Good, Tabs
<1> HIDE DEF u
<1>4. \A i \in 1 .. Len(rels) : rels[i].ix \in 1 .. u.n
  <2>1. \A j \in 1 .. Len(symtab) : j \in 1 .. u.n
    BY <1>2, <1>3
  <2> QED BY <1>2, <2>1 DEF RelocsOK
<1>5. GotOK(u, 2 * Len(rels), g)
  BY <1>2, <1>3, <1>4, BuildGotEntriesFacts DEF GotInput, RelocsOK
<1> HIDE DEF g, o
<1>6. /\ Own(u, g) /\ g.t \in Tabs /\ u.n <= g.t.n /\ g.t.n \in Nat
  BY <1>5 DEF GotOK, Good, Tabs
<1>7. Unresolved(g.t) <=> Unresolved(u)
  <2>1. /\ \A j \in 1 .. u.n : g.t.syms[j] = u.syms[j] /\ j \in 1 .. g.t.n
        /\ \A j \in 1 .. g.t.n : j \in 1 .. u.n \/ ~Undefined(g.t.syms[j])
    BY <1>3, <1>6 DEF Own
  <2> QED BY <2>1 DEF Unresolved
<1>8. err <=> failed
  <2>1. g.t.err <=> \E n \in Names : Taken(o, n)
    BY <1>3, <1>6 DEF Own
  <2>2. Unresolved(u) <=> \E n \in Names : Missing(o, n)
    BY <1>3, UnresolvedMissing
  <2> QED BY <1>7, <2>1, <2>2
<1> HIDE DEF err
<1>9. [g.t EXCEPT !.err = err].err = err
  BY <1>6 DEF Tabs
<1>10. stage' \in {"failed", "sized"} /\ (stage' = "failed" <=> failed)
  BY <1>1, <1>8, <1>9
<1> QED BY <1>1, <1>10 DEF MissingReported

(* When the linker's own name is not one of the program's, relocation      *)
(* fails exactly when a name is used that nothing defines, or the program  *)
(* takes one the linker provides.                                          *)
THEOREM MissingFound ==
  ASSUME GotName \notin Names
  PROVE  Spec => []MissingReported
<1>1. Init => MissingReported
  BY DEF Init, MissingReported
<1>2. (IInv /\ AsOffered /\ Referring) /\ MissingReported /\ [Next]_vars => MissingReported'
  <2> SUFFICES ASSUME IInv, AsOffered, Referring, MissingReported, [Next]_vars
               PROVE  MissingReported'
    OBVIOUS
  <2>1. CASE UNCHANGED vars
    BY <2>1 DEF vars, MissingReported
  <2>2. CASE BeginFile \/ EndFile \/ ResolveCommonSyms
    <3>1. stage' \in {"parse", "link", "resolved"}
      BY <2>2 DEF BeginFile, EndFile, ResolveCommonSyms
    <3> QED BY <3>1 DEF MissingReported
  <2>3. CASE Relocate
    BY <2>3, RelocateReports
  <2>4. CASE RelocateSyms
    <3>1. stage = "sized" /\ stage' = "linked" /\ offered' = offered
      BY <2>4 DEF RelocateSyms
    <3> QED BY <3>1 DEF MissingReported
  <2>5. CASE \/ \E d \in Decls : Define(d)
             \/ \E d \in Decls : \E type \in Emitted(d) \cap RelocTypes : Greloca(d, type)
             \/ \E k \in DOMAIN c : Weaken(k)
             \/ \E name \in AddedNames : AddSymbol(name)
    <3>1. stage' \in {"parse", "link"}
      BY <2>5 DEF Define, Greloca, Weaken, AddSymbol
    <3> QED BY <3>1 DEF MissingReported
  <2> QED BY <2>1, <2>2, <2>3, <2>4, <2>5 DEF Next
<1> QED BY <1>1, <1>2, ReferringInvariant, PTL DEF Spec
=============================================================================
