------------------------------- MODULE Linker -------------------------------
(***************************************************************************)
(* The in-memory linker of libtcc: the ELF symbol table with its hash      *)
(* table, the merge of each compiled file into it, the symbols the program *)
(* adds (niffler adds the C library functions of symbols.def), and the     *)
(* passes of tcc_relocate(): common symbols, the symbols the linker        *)
(* provides, GOT and PLT, symbol values.                                   *)
(*                                                                         *)
(* A file is parsed with hashing switched off, so that each of its C       *)
(* symbols gets an entry of its own; the merge compacts the entries of the *)
(* file in place and renumbers the relocations.  Symbol 0 is the null      *)
(* symbol; symtab[i] is symbol i.                                          *)
(***************************************************************************)
EXTENDS Integers, Sequences, FiniteSetsExt

CONSTANTS
  Names,        \* names of C symbols
  Plt,          \* Plt[n]: "n@plt", n cut to 95 characters
  GotName,      \* "_GLOBAL_OFFSET_TABLE_"
  UserSections, \* sections the program names, in the order of their creation
  Start, Stop,  \* Start[s]: "__start_s", Stop[s]: "__stop_s"
  Hash,         \* elf_hash()
  Decls,        \* declarations a file may contain
  RelocTypes,   \* bound: kinds of relocation
  AddedNames,   \* names tcc_add_symbol() is called with
  AddedValue,   \* the address tcc_add_symbol() is given
  Base,         \* Base[s]: where section s is placed
  MaxFiles, MaxSyms, MaxRelocs, MaxAdded  \* bounds of an instance

ArraySections == {".preinit_array", ".init_array", ".fini_array"}
NamedSections == {UserSections[i] : i \in DOMAIN UserSections}
FileSections == {"text", "data", "bss"} \cup ArraySections \cup NamedSections
Sections == FileSections \cup {"got", "plt"}
Shndx == Sections \cup {"undef", "common", "abs"}
AllNames == Names \cup {Plt[n] : n \in Names} \cup {GotName}
Bindings == {"local", "weak", "global"}
Visibilities == {"default", "hidden"}
Types == {"pc32", "plt32", "abs64", "gotpcrel"}
LinkerNames ==
  {"_etext", "_edata", "_end", "__preinit_array_start", "__preinit_array_end",
   "__init_array_start", "__init_array_end", "__fini_array_start", "__fini_array_end"}

(* The symbol of a C function or variable has its size and type, what the  *)
(* linker makes has neither; the unused bits of st_other are left out.     *)
Symbol == [name : AllNames, type : {"c", "notype"}, bind : Bindings, vis : Visibilities,
           shndx : Shndx, value : Nat]
Decl == [name : Names, bind : Bindings, vis : Visibilities,
         shndx : {"undef", "common"} \cup FileSections]

ASSUME HashAssumption == Hash \in [AllNames -> Nat]
ASSUME BaseAssumption == Base \in [Sections -> Nat]
ASSUME DeclsAssumption ==
  /\ Decls \subseteq Decl
  /\ \A d \in Decls : d.bind = "local" => d.shndx # "common"  \* needs -fcommon
ASSUME NamesAssumption == LinkerNames \subseteq Names
ASSUME UserSectionsAssumption ==
  /\ UserSections \in Seq(NamedSections)
  /\ NamedSections \cap {"text", "data", "bss", "got", "plt", "undef", "common", "abs"} = {}
  /\ \A s \in NamedSections : Start[s] \in Names /\ Stop[s] \in Names
(* No C name ends in "@plt".                                               *)
ASSUME PltAssumption == \A n \in Names : Plt[n] \notin Names \cup {GotName}
ASSUME RelocTypesAssumption == RelocTypes \subseteq Types
ASSUME AddedAssumption == AddedNames \subseteq Names /\ AddedValue \in Nat \ {0}
ASSUME BoundsAssumption == {MaxFiles, MaxSyms, MaxRelocs, MaxAdded} \subseteq Nat

VARIABLES
  stage,      \* "link", "parse" a file, "resolved", "sized", "linked" or "failed"
  symtab,     \* the entries of .symtab
  hashtab,    \* the ints of .hashtab: nbuckets, nchain, buckets, chains
  nb_hashed,  \* nb_hashed_syms
  first,      \* sh_offset of the symbol table: entries of earlier files
  first_rel,  \* sh_offset of the relocation sections
  c,          \* c[d]: Sym.c of the current file, by <<name, is static>>
  rels,       \* relocations against the symbol table
  fill,       \* fill[s]: data_offset of section s
  got, attrs, \* symbols of the GOT's relocations; sym_attrs
  nb_errors,  \* nb_errors # 0
  files, added,      \* files compiled, symbols added
  offered, statics   \* ghosts: what the merge was given, in order

vars == <<stage, symtab, hashtab, nb_hashed, first, first_rel, c, rels, fill, got, attrs,
          nb_errors, files, added, offered, statics>>

(* The map f with y for x.                                                 *)
With(f, x, y) == [z \in {x} \cup DOMAIN f |-> IF z = x THEN y ELSE f[z]]

-----------------------------------------------------------------------------
(* The table, as one value: what the functions of tccelf.c read and write. *)
Tab == [syms |-> symtab, n |-> Len(symtab), hash |-> hashtab, hashed |-> nb_hashed,
        err |-> nb_errors, ix |-> 0]

Hashing == stage # "parse"

Nonlocal(s) == s.bind # "local"
NbBuckets(h) == h[1]
BucketPos(h, name) == 3 + (Hash[name] % NbBuckets(h))
ChainPos(h, ix) == 3 + NbBuckets(h) + ix

(* find_elf_sym(): along the chain to the first entry of that name.        *)
Find(t, name) ==
  LET at[k \in 0 .. t.n] ==
        IF k = 0 THEN t.hash[BucketPos(t.hash, name)]
        ELSE LET ix == at[k - 1]
             IN IF ix = 0 \/ t.syms[ix].name = name THEN ix ELSE t.hash[ChainPos(t.hash, ix)]
  IN at[t.n]

(* The bug of a rebuild that forgets the buckets it had.                   *)
RebuildEmpty(t, nbuckets) ==
  [t EXCEPT !.hash = <<nbuckets, t.n + 1>> \o [b \in 1 .. nbuckets + 1 + t.n |-> 0]]

(* rebuild_hash(): every bucket lists its symbols, the latest first.       *)
Rebuild(t, nbuckets) ==
  LET latest(b, k) ==
        Max({0} \cup {j \in 1 .. k : Nonlocal(t.syms[j]) /\ Hash[t.syms[j].name] % nbuckets = b})
  IN [t EXCEPT !.hash =
        <<nbuckets, t.n + 1>> \o [b \in 1 .. nbuckets |-> latest(b - 1, t.n)] \o <<0>>
        \o [i \in 1 .. t.n |-> IF Nonlocal(t.syms[i])
                               THEN latest(Hash[t.syms[i].name] % nbuckets, i - 1) ELSE 0]]

(* put_elf_sym() writes the entry at data_offset, over what was there ...  *)
Write(t, s) ==
  [t EXCEPT !.n = @ + 1, !.ix = t.n + 1,
            !.syms = IF t.n < Len(@) THEN [@ EXCEPT ![t.n + 1] = s] ELSE Append(@, s)]

(* ... and, while hashing, appends its chain link (none, or the entry the  *)
(* bucket listed so far) and doubles the buckets when the lists get long.  *)
Unlinked(h) == [Append(h, 0) EXCEPT ![2] = h[2] + 1]
Linked(h, at, ix) == [Append(h, h[at]) EXCEPT ![at] = ix, ![2] = h[2] + 1]

Put(t, s) ==
  LET w == Write(t, s)
      at == BucketPos(t.hash, s.name)
      linked == [w EXCEPT !.hashed = @ + 1, !.hash = Linked(@, at, w.n)]
  IN IF ~Nonlocal(s) THEN [w EXCEPT !.hash = Unlinked(@)]
     ELSE IF linked.hashed > 2 * NbBuckets(t.hash)
     THEN Rebuild(linked, 2 * NbBuckets(t.hash)) ELSE linked

(***************************************************************************)
(* set_elf_sym(): which of two definitions of a name stays.                *)
(***************************************************************************)
Undefined(s) == s.shndx = "undef"
Tentative(s) == s.shndx \in {"bss", "common"}
Placed(s) == s.shndx \notin {"abs", "common", "undef"}  \* < SHN_LORESERVE
Merged(old, new) == IF "hidden" \in {old, new} THEN "hidden" ELSE "default"

(* The bug of a linker whose weak definitions win over later ones.         *)
OverridesNotWeak(new, old) ==
  \/ Undefined(old)
  \/ /\ ~Undefined(new) /\ new.vis = "default"
     /\ Tentative(old) /\ Placed(new) /\ ~Tentative(new)

Overrides(new, old) ==
  \/ Undefined(old)
  \/ /\ ~Undefined(new)
     /\ \/ new.bind = "global" /\ old.bind = "weak"
        \/ /\ new.bind = old.bind /\ new.bind = "global" /\ new.vis = "default"
           /\ Tentative(old) /\ Placed(new) /\ ~Tentative(new)

DefinedTwice(new, old) ==
  /\ ~Undefined(old) /\ ~Undefined(new)
  /\ new.bind = "global" /\ old.bind = "global" /\ new.vis = "default"
  /\ ~(Tentative(old) /\ Placed(new)) /\ ~Tentative(new)

Set(t, s) ==
  LET ix == IF Nonlocal(s) THEN Find(t, s.name) ELSE 0
      old == t.syms[ix]
      vis == IF Undefined(old) THEN s.vis ELSE Merged(old.vis, s.vis)
  IN IF ix = 0 THEN Put(t, s)
     ELSE IF old = s THEN [t EXCEPT !.ix = ix]
     ELSE [t EXCEPT !.ix = ix,
             !.err = @ \/ DefinedTwice(s, old),
             !.syms[ix] = IF Overrides(s, old) THEN [s EXCEPT !.vis = vis]
                          ELSE [old EXCEPT !.vis = vis]]

SetTab(t) ==
  /\ symtab' = SubSeq(t.syms, 1, t.n)
  /\ hashtab' = t.hash /\ nb_hashed' = t.hashed /\ nb_errors' = t.err

-----------------------------------------------------------------------------
Init ==
  /\ stage = "link"
  /\ symtab = <<>> /\ hashtab = <<1, 1, 0, 0>> /\ nb_hashed = 0
  /\ first = 0 /\ first_rel = 0
  /\ c = <<>> /\ rels = <<>>
  /\ fill = [s \in Sections |-> 0]
  /\ got = <<>> /\ attrs = <<>>
  /\ nb_errors = FALSE
  /\ files = 0 /\ added = 0
  /\ offered = <<>> /\ statics = {}

(* tccelf_begin_file(): remember where the file starts, stop hashing.      *)
BeginFile ==
  /\ stage = "link" /\ files < MaxFiles
  /\ stage' = "parse" /\ files' = files + 1
  /\ first' = Len(symtab) /\ first_rel' = Len(rels)
  /\ UNCHANGED <<symtab, hashtab, nb_hashed, c, rels, fill, got, attrs, nb_errors, added,
                 offered, statics>>

(* The bug of a lookup that takes a function's static for the global.      *)
HandleByName(d) == <<d.name, FALSE>>

Handle(d) == <<d.name, d.bind = "local">>
Known(d) == Handle(d) \in DOMAIN c

(* The bug of a symbol number that does not count the null symbol.         *)
NextSymFromZero == Len(symtab)

NextSym == Len(symtab) + 1

(* put_extern_sym2() and update_storage(): a new entry, or the one earlier *)
(* declarations made, with their attributes added; a common symbol has its *)
(* alignment as value.                                                     *)
PutExternSym(d) ==
  LET value == IF d.shndx \in Sections THEN fill[d.shndx] ELSE IF d.shndx = "common" THEN 1 ELSE 0
      s == [name |-> d.name, type |-> "c", bind |-> d.bind, vis |-> d.vis,
            shndx |-> d.shndx, value |-> value]
      old == symtab[c[Handle(d)]]
  IN IF Known(d)
     THEN /\ symtab' = [symtab EXCEPT ![c[Handle(d)]] =
                          [s EXCEPT !.vis = Merged(old.vis, @),
                                    !.bind = IF old.bind = "weak" THEN "weak" ELSE @]]
          /\ UNCHANGED c
     ELSE symtab' = Append(symtab, s) /\ c' = With(c, Handle(d), NextSym)

(* A definition: space in its section, and the symbol.  The parser refuses *)
(* a second definition in the same file, except of a variable that had no  *)
(* initializer so far.                                                     *)
Define(d) ==
  /\ stage = "parse" /\ ~Undefined(d)
  /\ Known(d) => LET old == symtab[c[Handle(d)]]
                 IN Undefined(old) \/ (Tentative(old) /\ d.shndx = "data")
  /\ ~Known(d) => Len(symtab) < MaxSyms
  /\ PutExternSym(d)
  /\ fill' = [s \in Sections |-> IF s = d.shndx THEN fill[s] + 1 ELSE fill[s]]
  /\ UNCHANGED <<stage, hashtab, nb_hashed, first, first_rel, rels, got, attrs, nb_errors,
                 files, added, offered, statics>>

(* What the code generator emits: a call, the address of a static from     *)
(* where the code is, of anything else from the GOT, or pointers in data.  *)
Emitted(d) == {"plt32", "abs64", IF d.bind = "local" THEN "pc32" ELSE "gotpcrel"}

(* greloca(): code or data that refers to a symbol, known or not.          *)
Greloca(d, type) ==
  /\ stage = "parse" /\ Undefined(d) /\ Len(rels) < MaxRelocs
  /\ ~Known(d) => Len(symtab) < MaxSyms
  /\ IF Known(d) THEN UNCHANGED <<symtab, c>> ELSE PutExternSym(d)
  /\ rels' = Append(rels, [ix |-> c'[Handle(d)], type |-> type,
                           for |-> <<d.name, d.bind = "local", files>>])
  /\ UNCHANGED <<stage, hashtab, nb_hashed, first, first_rel, fill, got, attrs, nb_errors,
                 files, added, offered, statics>>

(* A later declaration with the weak attribute: update_storage().          *)
Weaken(k) ==
  /\ stage = "parse" /\ k \in DOMAIN c /\ symtab[c[k]].bind = "global"
  /\ symtab' = [symtab EXCEPT ![c[k]].bind = "weak"]
  /\ UNCHANGED <<stage, hashtab, nb_hashed, first, first_rel, c, rels, fill, got, attrs,
                 nb_errors, files, added, offered, statics>>

(* What the file offers: a static that was never defined becomes global.   *)
Offer(s) == IF Undefined(s) /\ s.bind = "local" THEN [s EXCEPT !.bind = "global"] ELSE s

(* tccelf_end_file(): the entries of the file are read from where they are *)
(* while the table grows over them again.                                  *)
Merge ==
  LET n == Len(symtab) - first
      step[i \in 0 .. n] ==
        IF i = 0 THEN [t |-> [Tab EXCEPT !.n = first], tr |-> <<>>]
        ELSE LET old == step[i - 1]
                 t == Set(old.t, Offer(old.t.syms[first + i]))
             IN [t |-> t, tr |-> Append(old.tr, t.ix)]
  IN step[n]

EndFile ==
  /\ stage = "parse" /\ stage' = "link"
  /\ \E m \in {Merge} :
       /\ SetTab(m.t)
       /\ rels' = [i \in DOMAIN rels |->
                     IF i > first_rel THEN [rels[i] EXCEPT !.ix = m.tr[@ - first]] ELSE rels[i]]
  /\ offered' = offered \o [i \in 1 .. Len(symtab) - first |-> Offer(symtab[first + i])]
  /\ statics' = statics \cup
       {<<k[1], files, symtab[c[k]].shndx, symtab[c[k]].value>> :
          k \in {k \in DOMAIN c : k[2] /\ ~Undefined(symtab[c[k]])}}
  /\ c' = <<>>
  /\ UNCHANGED <<first, first_rel, fill, got, attrs, files, added>>

(* set_global_sym()                                                        *)
GlobalSym(name, shndx, value) ==
  [name |-> name, type |-> "notype", bind |-> "global", vis |-> "default",
   shndx |-> shndx, value |-> value]

(* tcc_add_symbol()                                                        *)
AddSymbol(name) ==
  /\ stage = "link" /\ added < MaxAdded
  /\ \E t \in {Set(Tab, GlobalSym(name, "abs", AddedValue))} : SetTab(t)
  /\ offered' = Append(offered, GlobalSym(name, "abs", AddedValue))
  /\ added' = added + 1
  /\ UNCHANGED <<stage, first, first_rel, c, rels, fill, got, attrs, files, statics>>

(***************************************************************************)
(* tcc_relocate_ex() without memory                                        *)
(***************************************************************************)

(* resolve_common_syms(): errors of earlier steps are forgotten, and every *)
(* common symbol gets room in .bss.                                        *)
ResolveCommonSyms ==
  /\ stage = "link" /\ stage' = "resolved"
  /\ LET common == {i \in DOMAIN symtab : symtab[i].shndx = "common"}
         before(i) == Cardinality({j \in common : j < i})
     IN /\ symtab' = [i \in DOMAIN symtab |->
                        IF i \in common
                        THEN [symtab[i] EXCEPT !.shndx = "bss", !.value = fill["bss"] + before(i)]
                        ELSE symtab[i]]
        /\ fill' = [fill EXCEPT !["bss"] = @ + Cardinality(common)]
  /\ nb_errors' = FALSE
  /\ UNCHANGED <<hashtab, nb_hashed, first, first_rel, c, rels, got, attrs, files, added,
                 offered, statics>>

(* The ends of the sections, the bounds of the arrays of functions (both   *)
(* the start of .data without an array: add_init_array_defines()), and the *)
(* bounds of the sections the program names.                               *)
Bounds(start, end, s, size) == <<GlobalSym(start, s, 0), GlobalSym(end, s, size)>>
ArrayBounds(start, end, s) == Bounds(start, end, IF fill[s] = 0 THEN "data" ELSE s, fill[s])

LinkerSyms ==
  <<GlobalSym("_etext", "text", fill["text"]), GlobalSym("_edata", "data", fill["data"]),
    GlobalSym("_end", "bss", fill["bss"])>>
  \o ArrayBounds("__preinit_array_start", "__preinit_array_end", ".preinit_array")
  \o ArrayBounds("__init_array_start", "__init_array_end", ".init_array")
  \o ArrayBounds("__fini_array_start", "__fini_array_end", ".fini_array")
  \o [i \in 1 .. 2 * Len(UserSections) |->
        LET s == UserSections[(i + 1) \div 2]
        IN IF i % 2 = 1 THEN GlobalSym(Start[s], s, 0) ELSE GlobalSym(Stop[s], s, fill[s])]

(* A section the program names exists once something is in it.             *)
Absent(s) == s.shndx \in NamedSections /\ fill[s.shndx] = 0

(* tcc_add_linker_symbols(): the table, and what was offered to it.        *)
AddLinkerSymbols ==
  LET at[k \in 0 .. Len(LinkerSyms)] ==
        IF k = 0 THEN [t |-> Tab, o |-> offered]
        ELSE LET old == at[k - 1]
                 s == LinkerSyms[k]
             IN IF Absent(s) THEN old ELSE [t |-> Set(old.t, s), o |-> Append(old.o, s)]
  IN at[Len(LinkerSyms)]

EntryFor(g, ix) == IF ix \in DOMAIN g.attrs THEN g.attrs[ix] ELSE [plt |-> 0, got |-> 0]

(* build_got()                                                             *)
BuildGot(g) ==
  IF g.built THEN g
  ELSE [g EXCEPT !.built = TRUE, !.t = Set(g.t, GlobalSym(GotName, "got", 0))]

(* put_got_entry(): a GOT slot with its relocation, and for a call the PLT *)
(* entry that jumps through it, with a symbol of its own.                  *)
PutGotEntry(g, call, ix) ==
  LET attr == EntryFor(g, ix)
      slot == Len(g.got) + 1
      t == Put(g.t, GlobalSym(Plt[g.t.syms[ix].name], "plt", slot))
  IN IF call THEN
       IF attr.plt # 0 THEN g
       ELSE [g EXCEPT !.got = Append(@, ix), !.t = t,
                      !.attrs = With(@, ix, [attr EXCEPT !.plt = t.ix])]
     ELSE
       IF attr.got # 0 THEN g
       ELSE [g EXCEPT !.got = Append(@, ix), !.attrs = With(@, ix, [attr EXCEPT !.got = slot])]

CodeReloc(type) == type \in {"pc32", "plt32"}

(* Relocations that get an entry only for symbols outside the program.     *)
AutoEntry(type) == type \in {"pc32", "abs64"}

(* build_got_entries(): one relocation in one of its two passes.           *)
GotStep(g, pass, i) ==
  LET r == g.rels[i]
      s == g.t.syms[r.ix]
      outside == Undefined(s) \/ (s.shndx = "abs" /\ s.value # 0)
      direct == CodeReloc(r.type) /\ ~Undefined(s) /\ (s.vis # "default" \/ s.bind = "local")
      e == PutGotEntry(BuildGot(g), CodeReloc(r.type), r.ix)
  IN IF AutoEntry(r.type) /\ ~outside THEN g
     ELSE IF direct THEN [g EXCEPT !.rels[i].type = "pc32"]
     ELSE IF CodeReloc(r.type) # (pass = 0) THEN g
     ELSE IF CodeReloc(r.type) THEN [e EXCEPT !.rels[i].ix = e.attrs[r.ix].plt] ELSE e

BuildGotEntries(t) ==
  LET n == Len(rels)
      g[k \in 0 .. 2 * n] ==
        IF k = 0 THEN [t |-> t, rels |-> rels, got |-> got, attrs |-> attrs, built |-> FALSE]
        ELSE IF k <= n THEN GotStep(g[k - 1], 0, k) ELSE GotStep(g[k - 1], 1, k - n)
  IN g[2 * n]

(* The bug of a check that wants weak symbols defined, too.                *)
UnresolvedWeak(t) == \E i \in 1 .. t.n : Undefined(t.syms[i]) /\ t.syms[i].name # "_fp_hw"

(* relocate_syms() of a program with -nostdlib: nothing is looked up in    *)
(* the process, and only weak symbols and _fp_hw may stay undefined.       *)
Unresolved(t) ==
  \E i \in 1 .. t.n :
    Undefined(t.syms[i]) /\ t.syms[i].name # "_fp_hw" /\ t.syms[i].bind # "weak"

Relocate ==
  /\ stage = "resolved"
  /\ \E provided \in {AddLinkerSymbols} : \E g \in {BuildGotEntries(provided.t)} :
     \E t \in {[g.t EXCEPT !.err = @ \/ Unresolved(g.t)]} :
       /\ SetTab(t) /\ offered' = provided.o
       /\ rels' = g.rels /\ got' = g.got /\ attrs' = g.attrs
       /\ stage' = IF t.err THEN "failed" ELSE "sized"
  /\ UNCHANGED <<first, first_rel, c, fill, files, added, statics>>

(* The second call has the memory: sections have addresses, and            *)
(* relocate_syms() adds them to the symbols.                               *)
RelocateSyms ==
  /\ stage = "sized" /\ stage' = "linked"
  /\ symtab' = [i \in DOMAIN symtab |->
                  IF Placed(symtab[i]) THEN [symtab[i] EXCEPT !.value = @ + Base[symtab[i].shndx]]
                  ELSE symtab[i]]
  /\ UNCHANGED <<hashtab, nb_hashed, first, first_rel, c, rels, fill, got, attrs, nb_errors,
                 files, added, offered, statics>>

Next ==
  \/ BeginFile \/ EndFile \/ ResolveCommonSyms \/ Relocate \/ RelocateSyms
  \/ \E d \in Decls : Define(d) \/ \E type \in Emitted(d) \cap RelocTypes : Greloca(d, type)
  \/ \E k \in DOMAIN c : Weaken(k)
  \/ \E name \in AddedNames : AddSymbol(name)

Spec == Init /\ [][Next]_vars

-----------------------------------------------------------------------------
(* Type invariant of the tables.                                           *)
TypeOK ==
  /\ stage \in {"link", "parse", "resolved", "sized", "linked", "failed"}
  /\ \A i \in DOMAIN symtab : symtab[i] \in Symbol
  /\ nb_errors \in BOOLEAN
  /\ \A k \in DOMAIN c : c[k] \in first + 1 .. Len(symtab)
  /\ \A i \in DOMAIN rels : rels[i].ix \in DOMAIN symtab /\ rels[i].type \in Types
  /\ \A i \in DOMAIN got : got[i] \in DOMAIN symtab

(* Whenever the table is hashed, a chain link is at the place of its       *)
(* symbol, and find_elf_sym() finds the latest entry a name has among the  *)
(* global and weak symbols, which is the only one unless it is the name of *)
(* PLT entries: through merges in place, growth of the table and the       *)
(* symbols of the PLT.                                                     *)
HashFinds ==
  Hashing =>
    /\ Len(hashtab) = 3 + NbBuckets(hashtab) + Len(symtab)
    /\ \A n \in AllNames :
         LET ix == Find(Tab, n)
             entries == {i \in DOMAIN symtab : Nonlocal(symtab[i]) /\ symtab[i].name = n}
         IN ix = Max({0} \cup entries) /\ (n \in Names \cup {GotName} => entries \subseteq {ix})

(* The places of a name in the sequence o of symbols offered.              *)
Offers(o, n) == {k \in DOMAIN o : Nonlocal(o[k]) /\ o[k].name = n}
Definitions(o, n) == {k \in Offers(o, n) : ~Undefined(o[k])}
Globals(o, n) == {k \in Definitions(o, n) : o[k].bind = "global"}
Contents(s) == Placed(s) /\ ~Tentative(s) /\ s.vis = "default"
WithContents(o, n) == {k \in Globals(o, n) : Contents(o[k])}

(* The rules of set_elf_sym() without its order of steps.  Of the global   *)
(* definitions the first one counts, unless it only reserves space and a   *)
(* visible one with contents follows; without global definitions it is the *)
(* first weak one.                                                         *)
Winning(o, n) ==
  LET g == Globals(o, n)
  IN IF g = {} THEN Min(Definitions(o, n))
     ELSE IF Tentative(o[Min(g)]) /\ WithContents(o, n) # {} THEN Min(WithContents(o, n))
     ELSE Min(g)
Winner(n) == offered[Winning(offered, n)]

(* Two global definitions of one name, neither only reserving space nor    *)
(* hidden after the first; an added address conflicts with any other.  The *)
(* same symbol may come again, unless its name has become hidden.          *)
HiddenBefore(o, n, j) ==
  \E h \in Offers(o, n) : h < j /\ o[h].vis = "hidden" /\ \E d \in Definitions(o, n) : d <= h
Repeats(o, n, i, j) == o[i] = o[j] /\ ~HiddenBefore(o, n, j)
Clash(o, n, j) ==
  /\ o[j].vis = "default" /\ ~Tentative(o[j])
  /\ \E i \in Globals(o, n) :
       /\ i < j /\ ~Repeats(o, n, i, j)
       /\ i = Min(Globals(o, n)) \/ Contents(o[i])
       /\ Tentative(o[i]) => o[j].shndx = "abs"
Conflict(o, n) == \E j \in Globals(o, n) : Clash(o, n, j)

(* Whatever the order of files, added symbols and weak, common and hidden  *)
(* definitions, the table holds the definition that counts, and errors are *)
(* counted exactly when a name is defined twice.                           *)
WinnerKept ==
  stage = "link" =>
    /\ \A n \in Names :
         LET i == Find(Tab, n)
         IN IF Definitions(offered, n) = {} THEN i = 0 \/ Undefined(symtab[i])
            ELSE i # 0 /\ symtab[i].shndx = Winner(n).shndx /\ symtab[i].value = Winner(n).value
    /\ nb_errors <=> \E n \in Names : Conflict(offered, n)

(* Used, never defined, never declared weak last.                          *)
Missing(o, n) ==
  /\ n # "_fp_hw" /\ Definitions(o, n) = {} /\ Offers(o, n) # {}
  /\ o[Max(Offers(o, n))].bind # "weak"

(* A definition the linker provides conflicts with an earlier one.         *)
Provided(s) == s.type = "notype" /\ Placed(s)
Taken(o, n) == \E j \in Globals(o, n) : Provided(o[j]) /\ Clash(o, n, j)

(* Relocation fails exactly when a name is used that neither the program,  *)
(* nor an added symbol, nor the linker defines and that is not declared    *)
(* weak last, or when the program takes a name the linker provides: a      *)
(* conflict of earlier definitions is forgotten by then.                   *)
MissingReported ==
  stage \in {"sized", "linked", "failed"} =>
    (stage = "failed" <=> \E n \in Names : Missing(offered, n) \/ Taken(offered, n))

(* Where a relocation takes the program when it runs: through a PLT entry  *)
(* and its GOT slot, through the GOT, or directly.                         *)
Reached(r) ==
  LET s == symtab[r.ix]
  IN IF s.shndx = "plt" THEN symtab[got[s.value - Base["plt"]]].value
     ELSE IF r.type = "gotpcrel" THEN symtab[got[attrs[r.ix].got]].value
     ELSE s.value

(* What the source meant: the static of its file, or the definition of the *)
(* name that counts.                                                       *)
Meant(for) ==
  LET own == {d \in statics : for[2] /\ d[1] = for[1] /\ d[2] = for[3]}
      w == Winner(for[1])
  IN IF own # {} THEN LET d == CHOOSE d \in own : TRUE IN Base[d[3]] + d[4]
     ELSE IF Definitions(offered, for[1]) = {} THEN 0
     ELSE IF w.shndx = "abs" THEN w.value
     ELSE IF w.shndx = "common" THEN symtab[Find(Tab, for[1])].value
     ELSE Base[w.shndx] + w.value

(* A linked program's references reach what its source meant, through the  *)
(* renumbering of each merge, statics that share a global's name, and the  *)
(* symbols of the PLT; section addresses are counted in once.              *)
ReferencesReach ==
  stage = "linked" => \A i \in DOMAIN rels : Reached(rels[i]) = Meant(rels[i].for)
=============================================================================
