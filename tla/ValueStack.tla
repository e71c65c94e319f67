----------------------------- MODULE ValueStack -----------------------------
(***************************************************************************)
(* How TinyCC keeps the values of an expression while it compiles it: the  *)
(* value stack of tccgen.c, the three integer registers the x86-64         *)
(* generator has, and the frame slots registers are saved to.  A model of  *)
(* the compiler and of one run of what it generates: next to each entry of *)
(* the value stack stands what the C source means by it.                   *)
(*                                                                         *)
(* The parser is reduced to the order in which it calls the generator for  *)
(* an expression with parentheses.  A value is one word.                   *)
(***************************************************************************)
EXTENDS Integers, Sequences, SequencesExt, FiniteSetsExt

CONSTANTS
  VarTypes,   \* VarTypes[i]: levels of pointer of the variable at -i
  Ops,        \* bound: the binary operators in use
  MaxTemps,   \* MAX_TEMP_LOCAL_VARIABLE_NUMBER
  MaxFrame,   \* bound: words in the frame
  MaxDepth    \* bound: open constructs of an expression

Commutative == {"+", "*"}
Comparisons == {"<"}
Operators == Commutative \cup Comparisons \cup {"-", "<<", "/", "%"}

ASSUME VarTypesAssumption == VarTypes \in Seq(0 .. 1)
ASSUME OpsAssumption == Ops \subseteq Operators
ASSUME BoundsAssumption == {MaxTemps, MaxFrame, MaxDepth} \subseteq Nat /\ MaxFrame >= Len(VarTypes)

Regs == {"rax", "rcx", "rdx"}   \* RC_INT
RegOrder == <<"rax", "rcx", "rdx">>
Frame == -MaxFrame .. -1        \* words below rbp; their addresses as values
Variables == {-i : i \in DOMAIN VarTypes}
Junk == 0                       \* no value the program has
Values == -MaxFrame .. MaxFrame + 2 * MaxDepth + 3

(* r without its flags, VT_LVAL, c, the type; then what the source means:  *)
(* whether it is an lvalue, and its address or value.                      *)
Entry == [v : Regs \cup {"const", "local", "llocal", "cmp"}, lval : BOOLEAN, c : Values,
          type : 0 .. 2, object : BOOLEAN, means : Values]

VARIABLES
  vstack,     \* vstack[Len(vstack)] is vtop
  temps,      \* arr_temp_local_vars
  loc,        \* the lowest word of the frame in use
  open,       \* constructs the parser is in the middle of
  operand,    \* whether it has parsed the operand it needs next
  executed,   \* whether the run passes the code being generated
  reg, frame, flags,  \* the machine of the run
  mem,        \* ghost: the variables as the source means them
  misread     \* ghost: an instruction had an operand the source does not mean

vars == <<vstack, temps, loc, open, operand, executed, reg, frame, flags, mem, misread>>

-----------------------------------------------------------------------------
(* The generator as one value, which its functions pass on.                *)
Gen == [vs |-> vstack, temps |-> temps, loc |-> loc, exec |-> executed,
        reg |-> reg, frame |-> frame, flags |-> flags, mem |-> mem, bad |-> misread]

InSlot(e, l) == e.v \in {"local", "llocal"} /\ e.c = l

(* The values of the run are only names: the n-th new one in the order of  *)
(* variables and entries is n from then on.  Addresses and the values put  *)
(* aside keep theirs.                                                      *)
Renamed(n, order, aside) ==
  LET at == {k \in DOMAIN order : order[k] = n}
      upTo(k) == Cardinality({order[i] : i \in 1 .. k} \ (aside \cup -MaxFrame .. Junk))
  IN IF n <= Junk \/ n \in aside THEN n
     ELSE IF at = {} THEN Junk
     ELSE CHOOSE m \in 1 .. Max(Values) : m \notin aside /\ Cardinality((1 .. m) \ aside) = upTo(Min(at))

(* What no entry refers to may hold anything: it is Junk from then on.     *)
SetGen(g) ==
  LET apart == {open'[i].sv : i \in {i \in DOMAIN open' : open'[i].kind = ":"}}
      used == {g.vs[i] : i \in DOMAIN g.vs} \cup apart
      order == [i \in 1 .. Len(VarTypes) |-> g.mem[-i]] \o [i \in DOMAIN g.vs |-> g.vs[i].means]
      new == [n \in Values |-> Renamed(n, order, {e.means : e \in apart})]
  IN /\ g.loc >= -MaxFrame
     /\ vstack' = [i \in DOMAIN g.vs |-> [g.vs[i] EXCEPT !.means = new[@], !.c = new[@]]]
     /\ temps' = g.temps /\ loc' = g.loc /\ executed' = g.exec
     /\ reg' = [r \in Regs |-> IF \E e \in used : e.v = r THEN new[g.reg[r]] ELSE Junk]
     /\ frame' = [a \in Frame |-> IF a \in Variables \/ \E e \in used : InSlot(e, a)
                                  THEN new[g.frame[a]] ELSE Junk]
     /\ flags' = IF \E e \in used : e.v = "cmp" THEN new[g.flags] ELSE Junk
     /\ mem' = [x \in Variables |-> new[g.mem[x]]] /\ misread' = g.bad

Top(g) == Last(g.vs)
Below(g) == g.vs[Len(g.vs) - 1]
SetTop(g, e) == [g EXCEPT !.vs = Append(Front(@), e)]
Drop(g) == [g EXCEPT !.vs = Front(@)]
IsConst(e) == e.v = "const"

(* A number the program has nowhere, for a new value.                      *)
Fresh(g) ==
  LET used == {g.vs[i].means : i \in DOMAIN g.vs} \cup {g.mem[x] : x \in Variables}
              \cup {open[i].sv.means : i \in {i \in DOMAIN open : open[i].kind = ":"}}
  IN IF g.exec THEN CHOOSE n \in 1 .. Cardinality(used) + 1 :
                      n \notin used /\ \A m \in 1 .. n - 1 : m \in used
     ELSE Junk

(***************************************************************************)
(* Instructions of the run                                                 *)
(***************************************************************************)

At(g, a) == IF a \in Frame THEN g.frame[a] ELSE Junk
SetAt(g, a, n) == [g EXCEPT !.frame = [b \in Frame |-> IF b = a /\ g.exec THEN n ELSE @[b]]]

(* The address an lvalue stands for, and the value of an entry.            *)
Address(g, e) ==
  CASE e.v = "local" -> e.c [] e.v = "llocal" -> At(g, e.c) [] e.v \in Regs -> g.reg[e.v]
    [] OTHER -> Junk
Value(g, e) ==
  IF e.lval THEN At(g, Address(g, e))
  ELSE CASE e.v \in {"const", "local"} -> e.c [] e.v \in Regs -> g.reg[e.v] [] OTHER -> g.flags

(* load()                                                                  *)
Load(g, r, e) == IF g.exec THEN [g EXCEPT !.reg[r] = Value(g, e)] ELSE g

(* An instruction that reads n where the source means m.                   *)
Reads(g, n, m) == [g EXCEPT !.bad = @ \/ (g.exec /\ n # m)]
Clobber(g, rs) == IF g.exec THEN [g EXCEPT !.reg = [r \in Regs |-> IF r \in rs THEN Junk ELSE @[r]],
                                           !.flags = Junk] ELSE g
SetReg(g, r, n) == IF g.exec THEN [g EXCEPT !.reg[r] = n] ELSE g

(***************************************************************************)
(* Registers and slots                                                     *)
(***************************************************************************)

(* The bug of a slot search that overlooks saved pointers.                 *)
FreeTempsNoLlocal(g) ==
  {k \in DOMAIN g.temps : \A i \in DOMAIN g.vs : ~(g.vs[i].v = "local" /\ g.vs[i].c = g.temps[k])}

FreeTemps(g) == {k \in DOMAIN g.temps : \A i \in DOMAIN g.vs : ~InSlot(g.vs[i], g.temps[k])}

(* get_temp_local_var(): a slot no entry uses, or a new one, remembered    *)
(* while there is room for it.                                             *)
GetTempLocalVar(g) ==
  IF FreeTemps(g) # {} THEN [g |-> g, l |-> g.temps[Min(FreeTemps(g))]]
  ELSE [g |-> [g EXCEPT !.loc = @ - 1,
                        !.temps = IF Len(@) < MaxTemps THEN Append(@, g.loc - 1) ELSE @],
        l |-> g.loc - 1]

(* save_reg(): every entry that uses r now uses the slot; a pointer that   *)
(* was to be dereferenced still is, one level deeper.                      *)
SaveReg(g, r) ==
  LET saved(e, l) == [e EXCEPT !.v = IF e.lval THEN "llocal" ELSE "local", !.lval = TRUE, !.c = l]
      to(t) == [SetAt(t.g, t.l, g.reg[r]) EXCEPT
                  !.vs = [i \in DOMAIN @ |-> IF @[i].v = r THEN saved(@[i], t.l) ELSE @[i]]]
  IN IF \A i \in DOMAIN g.vs : g.vs[i].v # r THEN g ELSE to(GetTempLocalVar(g))

(* save_regs(): all registers of the entries up to vtop - n.               *)
SaveRegs(g, n) ==
  FoldLeft(LAMBDA h, i : IF h.vs[i].v \in Regs THEN SaveReg(h, h.vs[i].v) ELSE h,
           g, [i \in 1 .. Len(g.vs) - n |-> i])

(* get_reg(): a register no entry uses, or that of the lowest entry.       *)
GetReg(g, rc) ==
  LET free == {k \in DOMAIN RegOrder : RegOrder[k] \in rc /\ \A i \in DOMAIN g.vs : g.vs[i].v # RegOrder[k]}
      lowest == g.vs[Min({i \in DOMAIN g.vs : g.vs[i].v \in rc})].v
      saving(r) == [g |-> SaveReg(g, r), r |-> r]
  IN IF free # {} THEN [g |-> g, r |-> RegOrder[Min(free)]] ELSE saving(lowest)

(* What reading an lvalue means.                                           *)
Rvalue(g, e) ==
  IF e.object
  THEN [e EXCEPT !.object = FALSE,
                 !.means = IF g.exec /\ @ \in Variables THEN g.mem[@] ELSE Junk]
  ELSE e

(* gv(): vtop into a register of a class.                                  *)
Gv(g, rc) ==
  LET into(a) == SetTop(Load(a.g, a.r, Top(a.g)),
                        [Rvalue(g, Top(a.g)) EXCEPT !.v = a.r, !.lval = FALSE, !.c = 0])
  IN IF ~Top(g).lval /\ Top(g).v \in rc THEN g ELSE into(GetReg(g, rc))

(* The bug of flags that are left under other code.                        *)
VcheckCmpNot(g) == g

(* vcheck_cmp(): flags do not survive other instructions.                  *)
VcheckCmp(g) == IF g.vs # <<>> /\ Top(g).v = "cmp" THEN Gv(g, Regs) ELSE g

Vsetc(g, e) == [VcheckCmp(g) EXCEPT !.vs = Append(@, e)]
Vdup(g) == [g EXCEPT !.vs = Append(@, Top(g))]
Vswap(g) == [VcheckCmp(g) EXCEPT !.vs = SubSeq(@, 1, Len(@) - 2) \o <<Last(@), @[Len(@) - 1]>>]
Vrotb3(g) ==
  [VcheckCmp(g) EXCEPT !.vs = SubSeq(@, 1, Len(@) - 3) \o <<@[Len(@) - 1], Last(@), @[Len(@) - 2]>>]

(* The bug of a second operand that may have pushed the first one out.     *)
Gv2NoReload(g, rc1, rc2) == Gv(Vswap(Gv(Vswap(g), rc1)), rc2)

(* gv2(): the two operands into registers, the first one again if loading  *)
(* the second one took its register.                                       *)
Gv2(g, rc1, rc2) ==
  LET reload(h) == IF Below(h).v \in Regs THEN h ELSE Vswap(Gv(Vswap(h), rc1))
      reloadTop(h) == IF Top(h).v \in Regs THEN h ELSE Gv(h, rc2)
  IN IF Top(g).v # "cmp" THEN reload(Gv(Vswap(Gv(Vswap(g), rc1)), rc2))
     ELSE reloadTop(Vswap(Gv(Vswap(Gv(g, rc2)), rc1)))

(* gv_dup(): vtop in two registers.                                        *)
GvDup(g) ==
  LET into(h, r) == SetTop(Load(h, r, Top(h)), [Top(h) EXCEPT !.v = r, !.lval = FALSE, !.c = 0])
      dup(a) == into(Vdup(a.g), a.r)
  IN dup(GetReg(Gv(g, Regs), Regs))

(* gaddrof(): "if saved lvalue, then we can go back to lvalue".            *)
Gaddrof(g) ==
  LET e == Top(g)
  IN SetTop(g, [e EXCEPT !.lval = e.v = "llocal", !.v = IF @ = "llocal" THEN "local" ELSE @,
                         !.object = FALSE, !.type = @ + 1])

(* indir()                                                                 *)
Indir(g) ==
  LET object(h) == SetTop(h, [Top(h) EXCEPT !.lval = TRUE, !.object = TRUE, !.type = @ - 1])
  IN object(IF Top(g).lval THEN Gv(g, Regs) ELSE g)

-----------------------------------------------------------------------------
(* Operators                                                               *)

Const(n) == [v |-> "const", lval |-> FALSE, c |-> n, type |-> 0, object |-> FALSE, means |-> n]

(* The operands as the instruction reads them, against what is meant.      *)
ReadBoth(g, n1) == Reads(Reads(g, n1, Rvalue(g, Below(g)).means), Value(g, Top(g)), Rvalue(g, Top(g)).means)

(* The division writes the remainder to rdx.                               *)
SaveRdx(g) == SaveReg(g, "rdx")

(* gen_opi(): the operation is done in the register of the first operand. *)
GenOpi(g, op) ==
  LET n == Fresh(g)
      result(h, v) == SetTop(IF v = "cmp" THEN [h EXCEPT !.flags = IF g.exec THEN n ELSE @] ELSE SetReg(h, v, n),
                             [Top(h) EXCEPT !.v = v, !.lval = FALSE, !.c = 0, !.type = 0,
                                            !.object = FALSE, !.means = n])
      read(h) == Drop(ReadBoth(h, Value(h, Below(h))))
      divide(h) == result(Clobber(SaveRdx(read(h)), {"rax", "rdx"}), IF op = "%" THEN "rdx" ELSE "rax")
      compute(h) == result(Clobber(read(h), {}), IF op \in Comparisons THEN "cmp" ELSE Below(h).v)
  IN IF op \in {"/", "%"} THEN divide(Gv2(g, {"rax"}, {"rcx"}))
     ELSE compute(IF IsConst(Top(g)) /\ op # "*" THEN Vswap(Gv(Vswap(g), Regs))
                  ELSE Gv2(g, Regs, IF op = "<<" THEN {"rcx"} ELSE Regs))

(* gen_op() on integers: constants are folded, or put second.              *)
GenOp(g, op) ==
  LET on(h) == IF IsConst(Top(h)) /\ IsConst(Below(h)) THEN SetTop(Drop(h), Const(Fresh(h)))
               ELSE GenOpi(IF IsConst(Below(h)) /\ op \in Commutative THEN Vswap(h) ELSE h, op)
  IN on(VcheckCmp(g))

(* The bug of a store that takes a saved pointer for the variable.         *)
ReadSavedPointerSkipped(g) == g

(* vstore(): "if lvalue was saved on stack, must read it".                 *)
ReadSavedPointer(g) ==
  LET n == Len(g.vs) - 1
      into(a) == [SetReg(a.g, a.r, At(a.g, Below(g).c)) EXCEPT !.vs[n].v = a.r, !.vs[n].c = 0]
  IN IF Below(g).v # "llocal" THEN g ELSE into(GetReg(g, Regs))

(* vstore(): the value to its lvalue; the value stays on the stack.        *)
Vstore(g) ==
  LET assigned(h, to) ==
        [SetAt(h, IF to.v = "llocal" THEN to.c ELSE Address(h, to), Value(h, Top(h))) EXCEPT
           !.mem = [x \in Variables |-> IF x = to.means /\ g.exec THEN Top(h).means ELSE @[x]]]
      assign(h) == assigned(h, Below(h))
  IN Drop(Vswap(assign(ReadSavedPointer(Gv(g, Regs)))))

(* inc()                                                                   *)
Inc(g, post) ==
  LET add(h) == Vstore(GenOp(Vsetc(h, Const(Fresh(h))), "+"))
      last(h) == IF post THEN Drop(h) ELSE h
  IN last(add(IF post THEN Vrotb3(Vrotb3(GvDup(Vdup(g)))) ELSE Vdup(g)))

(* gfunc_call(1) and the push of its result: every entry leaves the        *)
(* registers, the argument goes to rdi, and the callee may change all.     *)
GfuncCall(g) ==
  LET read(h) == Drop(Reads(h, Value(h, Top(h)), Rvalue(h, Top(h)).means))
      argument == read(Gv(SaveRegs(VcheckCmp(g), 0), Regs))
      n == Fresh(g)
  IN Vsetc(SetReg(Clobber(read(SaveRegs(argument, 0)), Regs), "rax", n),
           [Const(n) EXCEPT !.v = "rax", !.c = 0])

(* gvtst(): the comparison with 0, and the jump on it.                     *)
Gvtst(g) ==
  LET jump(h) == Drop(Reads(h, Value(h, Top(h)), Top(h).means))
  IN jump(IF Top(g).v = "cmp" THEN g ELSE GenOp(Vsetc(g, Const(Fresh(g))), "<"))

MoveReg(g, r, s) ==
  LET move(h) == SetReg(h, r, h.reg[s]) IN IF r = s THEN g ELSE move(SaveReg(g, r))

-----------------------------------------------------------------------------
(* The parser                                                              *)

Init ==
  /\ vstack = <<>> /\ temps = <<>> /\ loc = -Len(VarTypes)
  /\ open = <<>> /\ operand = FALSE /\ executed = TRUE
  /\ mem = [x \in Variables |-> IF VarTypes[-x] = 0 THEN -x ELSE -1]
  /\ frame = [a \in Frame |-> IF a \in Variables THEN mem[a] ELSE Junk]
  /\ reg = [r \in Regs |-> Junk] /\ flags = Junk
  /\ misread = FALSE

(* unary(): a constant or a variable.                                      *)
Primary(e) ==
  /\ ~operand /\ operand' = TRUE
  /\ UNCHANGED open
  /\ SetGen(Vsetc(Gen, e))

Constant == Primary(Const(Fresh(Gen)))
Variable(x) == Primary([v |-> "local", lval |-> TRUE, c |-> x, type |-> VarTypes[-x],
                        object |-> TRUE, means |-> x])

(* Operators of one operand.                                               *)
Unary(g) == operand /\ UNCHANGED <<open, operand>> /\ SetGen(g)

AddressOf == operand /\ Top(Gen).object /\ Top(Gen).type < 2 /\ Unary(Gaddrof(Gen))
Dereference == operand /\ Top(Gen).type > 0 /\ Unary(Indir(Gen))
Increment(post) == operand /\ Top(Gen).object /\ Top(Gen).type = 0 /\ Unary(Inc(Gen, post))

(* The next operand of a construct.                                        *)
Open(construct, g) ==
  /\ operand /\ operand' = FALSE
  /\ Len(open) < MaxDepth
  /\ open' = Append(open, construct)
  /\ SetGen(g)

Close(g) ==
  /\ open' = Front(open)
  /\ SetGen(g)
  /\ UNCHANGED operand

Closes(kind) == operand /\ open # <<>> /\ Last(open).kind = kind

(* expr_infix()                                                            *)
BeginBinary(op) == operand /\ Top(Gen).type = 0 /\ Open([kind |-> "op", op |-> op], Gen)
EndBinary == Closes("op") /\ Top(Gen).type = 0 /\ Close(GenOp(Gen, Last(open).op))

(* expr_eq(): the lvalue of a compound assignment is kept twice.           *)
BeginAssign == operand /\ Top(Gen).object /\ Open([kind |-> "="], Gen)
BeginAssignOp(op) ==
  operand /\ Top(Gen).object /\ Top(Gen).type = 0 /\ Open([kind |-> "op=", op |-> op], Vdup(Gen))
EndAssign == Closes("=") /\ Top(Gen).type = Below(Gen).type /\ Close(Vstore(Gen))
EndAssignOp == Closes("op=") /\ Top(Gen).type = 0 /\ Close(Vstore(GenOp(Gen, Last(open).op)))

(* A call of the function a word is the address of, with one argument.     *)
BeginCall == operand /\ Top(Gen).type = 0 /\ Top(Gen).v # "cmp" /\ Open([kind |-> "call"], Gen)
EndCall == Closes("call") /\ Close(GfuncCall(Gen))

(* expr_cond(): everything under the condition leaves the registers, so    *)
(* that both branches find it in the same place; the run takes one.        *)
BeginCond(first) ==
  /\ operand /\ Top(Gen).type = 0 /\ ~IsConst(Top(Gen))
  /\ ~executed => ~first
  /\ Open([kind |-> "?", outer |-> executed, first |-> first],
          [Gvtst(SaveRegs(Gen, 1)) EXCEPT !.exec = @ /\ first])

(* The value of the first branch is put aside as it is.                    *)
Else ==
  /\ Closes("?") /\ operand' = FALSE
  /\ LET o == Last(open)
     IN /\ open' = Append(Front(open), [kind |-> ":", outer |-> o.outer, first |-> o.first, sv |-> Top(Gen)])
        /\ SetGen([Drop(Gen) EXCEPT !.exec = o.outer /\ ~o.first])

(* The second value to a register; at the end of the first branch, its     *)
(* value to the same register.                                             *)
EndCond ==
  /\ Closes(":")
  /\ LET o == Last(open)
         moved(g1, e) == SetTop(MoveReg(g1, e.v, Top(g1).v),
                                [Top(g1) EXCEPT !.v = e.v, !.means = IF o.first THEN @ ELSE e.means])
         first(g2) == moved(Gv(SetTop([g2 EXCEPT !.exec = o.outer /\ o.first], o.sv), Regs), Top(g2))
     IN /\ o.sv.type = Top(Gen).type
        /\ ~(o.sv.v = "cmp" /\ Top(Gen).v = "cmp")
        /\ Close([first(Gv(Gen, Regs)) EXCEPT !.exec = o.outer])

(* gexpr() behind a comma, and the end of an expression statement: vpop(). *)
Comma ==
  /\ operand /\ operand' = FALSE
  /\ UNCHANGED open
  /\ SetGen(Drop(Gen))

Next ==
  \/ Constant \/ \E x \in Variables : Variable(x)
  \/ AddressOf \/ Dereference \/ \E post \in BOOLEAN : Increment(post)
  \/ \E op \in Ops : BeginBinary(op)
  \/ \E op \in Ops \ Comparisons : BeginAssignOp(op)
  \/ EndBinary \/ EndAssignOp \/ BeginAssign \/ EndAssign
  \/ BeginCall \/ EndCall
  \/ \E first \in BOOLEAN : BeginCond(first)
  \/ Else \/ EndCond \/ Comma

Spec == Init /\ [][Next]_vars

-----------------------------------------------------------------------------

(* Type invariant: only vtop may be the flags, and a saved pointer is      *)
(* always one still to be followed.                                        *)
TypeOK ==
  /\ \A i \in DOMAIN vstack :
       /\ vstack[i] \in Entry
       /\ vstack[i].v = "llocal" \/ vstack[i].object => vstack[i].lval
       /\ vstack[i].v \in {"cmp", "const"} => ~vstack[i].lval
       /\ vstack[i].v = "cmp" => i = Len(vstack)
  /\ loc \in Frame /\ \A k \in DOMAIN temps : temps[k] \in loc .. -1 \ Variables
  /\ frame \in [Frame -> Values] /\ reg \in [Regs -> Values]
  /\ mem \in [Variables -> Values]
  /\ operand => vstack # <<>>

(* Whatever was saved, moved, copied or recomputed, each entry of the      *)
(* value stack still leads the run to the object or the value the source   *)
(* means by it: through registers used twice, slots used again, calls,     *)
(* divisions and both branches of a conditional.                           *)
EntriesHold ==
  executed =>
    \A i \in DOMAIN vstack :
      vstack[i].means = IF vstack[i].object THEN Address(Gen, vstack[i]) ELSE Value(Gen, vstack[i])

(* Assignments reach the variable the source names, directly or through a  *)
(* pointer that was saved in between, and no saved register overwrites a   *)
(* variable.                                                               *)
VariablesKept == \A x \in Variables : frame[x] = mem[x]

(* Every operation, test and call of the run gets the operands the source  *)
(* means, in both registers at once.                                       *)
OperandsMeant == ~misread
=============================================================================
