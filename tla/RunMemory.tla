----------------------------- MODULE RunMemory -----------------------------
(***************************************************************************)
(* Where a compiled program lives: tcc_relocate() lays its sections out in *)
(* a block of the C heap, copies them there class by class, and changes    *)
(* the protection of the pages each class fills; tcc_run_free() takes the  *)
(* protection back before the block returns to the heap.  None of this     *)
(* holds the semaphore of libtcc, so several programs are loaded and freed *)
(* at once, next to every other block of the same heap.                    *)
(*                                                                         *)
(* A layout is the sequence of the sections of a TCCState that are         *)
(* SHF_ALLOC, with the flags reduced to the three classes of the code:     *)
(* 0 executable, 1 read-only, 2 writable.                                  *)
(***************************************************************************)
EXTENDS Integers, Sequences, FiniteSetsExt

CONSTANTS
  Programs,     \* programs being loaded, used and freed
  Blocks,       \* other blocks of the C heap: TCCStates, other libraries
  Page,         \* PAGESIZE
  HeapPages,    \* bound: pages of the heap
  MallocAlign,  \* alignment malloc() promises
  Layouts,      \* section lists a compilation may end with
  BlockSizes,   \* sizes of the other blocks
  Free, None    \* a byte of no block; no address

Section == [class : 0..2, align : Nat \ {0}, length : Nat]

ASSUME PageAssumption == Page \in Nat /\ Page > 1
ASSUME HeapAssumption == HeapPages \in Nat /\ MallocAlign \in Nat \ {0}
ASSUME LayoutsAssumption == Layouts \subseteq Seq(Section)
(* Alignments and PAGESIZE are powers of two.                              *)
ASSUME AlignmentsAssumption ==
  \A secs \in Layouts :
    LET sizes == {Page} \cup {secs[i].align : i \in DOMAIN secs}
    IN \A a, b \in sizes : a % b = 0 \/ b % a = 0
(* tccelf_new() gives every state its .data and .bss.                      *)
ASSUME DataAssumption ==
  \A secs \in Layouts : \E i \in DOMAIN secs : secs[i].class = 2
ASSUME BlockSizesAssumption == BlockSizes \subseteq Nat \ {0}
ASSUME OwnersAssumption ==
  /\ Programs \cap Blocks = {}
  /\ None \notin Nat
  /\ Free \notin (Programs \cup Blocks) \X Nat

VARIABLES
  stage,   \* how far tcc_relocate() and tcc_run_free() are
  image,   \* image[p]: p's sections, in the order the passes visit them
  base,    \* base[p]: runtime_mem
  size,    \* size[p]: what the first pass asked malloc() for
  next,    \* next[p]: the section the copying pass is at
  heap,    \* heap[a]: <<owner, section>> whose byte is at address a
  perm     \* perm[g]: protection of page g

vars == <<stage, image, base, size, next, heap, perm>>

Addresses == 0 .. HeapPages * Page - 1
Pages == 0 .. HeapPages - 1
Stages == {"idle", "copy", "protect", "ready", "unprotected"}
Protection == [k \in 0 .. 2 |-> CASE k = 0 -> "rx" [] k = 1 -> "r" [] k = 2 -> "rw"]
PageOf(a) == a \div Page
AlignUp(x, a) == ((x + a - 1) \div a) * a

(***************************************************************************)
(* The layout passes of tcc_relocate_ex                                    *)
(***************************************************************************)

(* The inner loop: the sections of one class, in section order.            *)
OfClass(secs, k) ==
  LET among[i \in 0 .. Len(secs)] ==
        IF i = 0 THEN <<>>
        ELSE IF secs[i].class = k THEN Append(among[i - 1], secs[i]) ELSE among[i - 1]
  IN among[Len(secs)]

(* The order of the loops: class by class.                                 *)
ByClass(secs) == OfClass(secs, 0) \o OfClass(secs, 1) \o OfClass(secs, 2)

FirstOfClass(secs, i) == \A j \in 1 .. i - 1 : secs[j].class # secs[i].class

(* The bug of a layout that leaves alignment to the sections.              *)
AlignmentAsAsked(secs, i) == secs[i].align

(* The first section of a class starts a page, even an empty one.          *)
Alignment(secs, i) ==
  IF FirstOfClass(secs, i) /\ secs[i].align < Page THEN Page ELSE secs[i].align

(* Layout(secs, mem)[i]: the offset behind section i when the block starts *)
(* at mem.                                                                 *)
Layout(secs, mem) ==
  LET end[i \in 0 .. Len(secs)] ==
        IF i = 0 THEN 0
        ELSE AlignUp(mem + end[i - 1], Alignment(secs, i)) - mem + secs[i].length
  IN end

ShAddr(secs, mem, i) == mem + Layout(secs, mem)[i] - secs[i].length

(* The bug of a size that trusts malloc() with the alignment.              *)
RequiredSizeExact(secs) == Layout(secs, 0)[Len(secs)]

(* The first call, without memory: the size to allocate.                   *)
RequiredSize(secs) ==
  Layout(secs, 0)[Len(secs)] + Max({0} \cup {Alignment(secs, i) - 1 : i \in DOMAIN secs})

Bytes(from, n) == from .. from + n - 1
SectionBytes(p, i) == Bytes(ShAddr(image[p], base[p], i), image[p][i].length)

(* mprotect() on the pages [from, from + n) touches.                       *)
SetPages(from, n, mode) ==
  perm' = [g \in Pages |->
             IF g \in PageOf(from) .. AlignUp(from + n, Page) \div Page - 1
             THEN Protection[mode] ELSE perm[g]]

Vacant(from, n) == \A a \in Bytes(from, n) : a \in Addresses /\ heap[a] = Free
Fill(bytes, value) == heap' = [a \in Addresses |-> IF a \in bytes THEN value ELSE heap[a]]

Init ==
  /\ stage = [p \in Programs |-> "idle"]
  /\ image = [p \in Programs |-> <<>>]
  /\ base = [p \in Programs |-> None]
  /\ size = [p \in Programs |-> 0]
  /\ next = [p \in Programs |-> 0]
  /\ heap = [a \in Addresses |-> Free]
  /\ perm = [g \in Pages |-> "rw"]

(* tcc_relocate(): the size pass, tcc_malloc, and the placing pass.        *)
Relocate(p, secs, mem) ==
  /\ stage[p] = "idle"
  /\ LET order == ByClass(secs) IN
       /\ Vacant(mem, RequiredSize(order))
       /\ image' = [image EXCEPT ![p] = order]
       /\ size' = [size EXCEPT ![p] = RequiredSize(order)]
       /\ Fill(Bytes(mem, RequiredSize(order)), <<p, 0>>)
  /\ base' = [base EXCEPT ![p] = mem]
  /\ next' = [next EXCEPT ![p] = 1]
  /\ stage' = [stage EXCEPT ![p] = "copy"]
  /\ UNCHANGED perm

LastOfClass(secs, i) == i = Len(secs) \/ secs[i + 1].class # secs[i].class

(* memcpy or memset of the next section.                                   *)
CopySection(p) ==
  /\ stage[p] = "copy" /\ next[p] \in DOMAIN image[p]
  /\ Fill(SectionBytes(p, next[p]), <<p, next[p]>>)
  /\ IF LastOfClass(image[p], next[p])
     THEN stage' = [stage EXCEPT ![p] = "protect"] /\ UNCHANGED next
     ELSE next' = [next EXCEPT ![p] = @ + 1] /\ UNCHANGED stage
  /\ UNCHANGED <<image, base, size, perm>>

(* set_pages_executable() behind the last section of a class, from the     *)
(* first one of the class as far as the last one goes.                     *)
Protect(p) ==
  /\ stage[p] = "protect"
  /\ LET last == next[p]
         k == image[p][last].class
         first == CHOOSE i \in DOMAIN image[p] : image[p][i].class = k /\ FirstOfClass(image[p], i)
         addr == ShAddr(image[p], base[p], first)
         n == ShAddr(image[p], base[p], last) - addr + image[p][last].length
     IN IF n > 0 THEN SetPages(addr, n, k) ELSE UNCHANGED perm
  /\ stage' = [stage EXCEPT ![p] = IF next[p] = Len(image[p]) THEN "ready" ELSE "copy"]
  /\ next' = [next EXCEPT ![p] = @ + 1]
  /\ UNCHANGED <<image, base, size, heap>>

(* The bug of a free without the protection taken back.                    *)
UnprotectSkipped(p) ==
  /\ stage[p] = "ready"
  /\ stage' = [stage EXCEPT ![p] = "unprotected"]
  /\ UNCHANGED <<image, base, size, next, heap, perm>>

(* tcc_run_free(): the block becomes writable again ...                    *)
Unprotect(p) ==
  /\ stage[p] = "ready"
  /\ SetPages(base[p], size[p], 2)
  /\ stage' = [stage EXCEPT ![p] = "unprotected"]
  /\ UNCHANGED <<image, base, size, next, heap>>

(* The bug of a runtime_mem that outlives its block.                       *)
RunFreeKeepsMem(p) ==
  /\ stage[p] = "unprotected"
  /\ Fill(Bytes(base[p], size[p]), Free)
  /\ stage' = [stage EXCEPT ![p] = "idle"]
  /\ UNCHANGED <<image, base, size, next, perm>>

(* ... and goes back to the heap.                                          *)
RunFree(p) ==
  /\ stage[p] = "unprotected"
  /\ Fill(Bytes(base[p], size[p]), Free)
  /\ stage' = [stage EXCEPT ![p] = "idle"]
  /\ image' = [image EXCEPT ![p] = <<>>]
  /\ base' = [base EXCEPT ![p] = None]
  /\ size' = [size EXCEPT ![p] = 0]
  /\ next' = [next EXCEPT ![p] = 0]
  /\ UNCHANGED perm

(* malloc() and free() of everything else in the process.                  *)
Malloc(b, n, mem) ==
  /\ \A a \in Addresses : heap[a] # <<b, 0>>
  /\ Vacant(mem, n)
  /\ Fill(Bytes(mem, n), <<b, 0>>)
  /\ UNCHANGED <<stage, image, base, size, next, perm>>

MallocFree(b) ==
  /\ \E a \in Addresses : heap[a] = <<b, 0>>
  /\ Fill({a \in Addresses : heap[a] = <<b, 0>>}, Free)
  /\ UNCHANGED <<stage, image, base, size, next, perm>>

Starts == {a \in Addresses : a % MallocAlign = 0}

Next ==
  \/ \E p \in Programs, secs \in Layouts, mem \in Starts : Relocate(p, secs, mem)
  \/ \E p \in Programs :
       \/ CopySection(p) \/ Protect(p)
       \/ Unprotect(p) \/ RunFree(p)
  \/ \E b \in Blocks, n \in BlockSizes, mem \in Starts : Malloc(b, n, mem)
  \/ \E b \in Blocks : MallocFree(b)

Spec == Init /\ [][Next]_vars

-----------------------------------------------------------------------------

(* Type invariant of the state of tcc_relocate and the heap.               *)
TypeOK ==
  /\ stage \in [Programs -> Stages]
  /\ \A p \in Programs :
       /\ image[p] \in Seq(Section)
       /\ base[p] \in Addresses \cup {None}
       /\ size[p] \in Nat /\ next[p] \in 0 .. Len(image[p]) + 1
       /\ stage[p] = "idle" <=> base[p] = None
  /\ DOMAIN heap = Addresses
  /\ perm \in [Pages -> {"rx", "r", "rw"}]

(* The block the size pass asked for holds every section wherever malloc   *)
(* puts it: each lies in the block, where its alignment wants it, and no   *)
(* two share a byte.                                                       *)
SectionsFit ==
  \A p \in Programs : stage[p] # "idle" =>
    \A i \in DOMAIN image[p] :
      /\ SectionBytes(p, i) \subseteq Bytes(base[p], size[p])
      /\ ShAddr(image[p], base[p], i) % image[p][i].align = 0
      /\ \A j \in DOMAIN image[p] \ {i} : SectionBytes(p, i) \cap SectionBytes(p, j) = {}

(* A loaded program is as the linker left it until it is freed: whatever   *)
(* other programs and the rest of the process do, each of its bytes is its *)
(* own and its pages have the protection of their class.                   *)
LoadedIntact ==
  \A p \in Programs : stage[p] = "ready" =>
    \A i \in DOMAIN image[p] : \A a \in SectionBytes(p, i) :
      /\ heap[a] = <<p, i>>
      /\ perm[PageOf(a)] = Protection[image[p][i].class]

(* Every byte somebody may write is in a writable page: the free heap,     *)
(* the blocks of others, and the sections the copying pass has not         *)
(* reached.  A protection that reaches past its own class would be a       *)
(* memory fault in code that knows nothing of niffler.                     *)
WritersDoNotFault ==
  /\ \A a \in Addresses :
       heap[a] = Free \/ heap[a][1] \in Blocks => perm[PageOf(a)] = "rw"
  /\ \A p \in Programs : stage[p] \in {"copy", "protect"} =>
       \A i \in next[p] .. Len(image[p]) : \A a \in SectionBytes(p, i) : perm[PageOf(a)] = "rw"
=============================================================================
