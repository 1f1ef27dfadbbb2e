---------------------------- MODULE ExpressionIR ----------------------------
(***************************************************************************)
(* What the IR builder makes of an analysed expression (src/IR.cpp): the    *)
(* instructions of each basic block, the registers they use and the type    *)
(* each one carries, which is all the two machines know of the program.     *)
(*                                                                         *)
(* The builder is [code, cur, next, given]: the instructions of each block, *)
(* the open block, the last register and the types of the checker's slots.  *)
(***************************************************************************)
EXTENDS Expressions

CONSTANTS VarRegister,    \* the register that holds the address of a variable
          BoundsChecks    \* ShouldDoBoundsChecking()

Nowhere == -1             \* no register

Instruction(op, left, right, type, result, info) ==
    [op |-> op, left |-> left, right |-> right, type |-> type, result |-> result, info |-> info]

NewBuilder(st, registers) ==
    [code |-> << <<>> >>, cur |-> 1, next |-> registers, given |-> st.given]

PushInstruction(b, I) == [b EXCEPT !.code[b.cur] = Append(@, I)]

\* An instruction with a register of its own.
Push(b, op, left, right, type, info) ==
    [b |-> PushInstruction([b EXCEPT !.next = @ + 1], Instruction(op, left, right, type, b.next, info)),
     r |-> b.next]
PushOp(b, op, left, right, type) == Push(b, op, left, right, type, <<>>)
PushInt(b, n, type) == Push(b, "constint", Nowhere, Nowhere, type, n)
PushAlloc(b, type)  == PushOp(b, "alloc", Nowhere, Nowhere, type)
PushLoad(b, from, type) == PushOp(b, "load", Nowhere, from, type)
\* A store and a branch name a register that exists.
PushStore(b, to, from, type) == PushInstruction(b, Instruction("store", to, from, type, to, <<>>))
PushIf(b, cond, then, else) ==
    PushInstruction(b, Instruction("if", then, else, Basic_bool, cond, <<>>))
PushJmp(b, to) == Push(b, "jmp", to, Nowhere, NoType, <<>>).b

\* The id of the n-th block allocated from here on.
AllocateBlocks(b, n) == [b EXCEPT !.code = @ \o [i \in 1..n |-> <<>>]]
NewBlock(b, n) == Len(b.code) + n
Terminate(b, goto) == [b EXCEPT !.cur = goto]

BuildAssertExpr(b, cond) ==
    LET after == NewBlock(b, 2)
        failed == NewBlock(b, 1)
        b1 == Terminate(PushIf(AllocateBlocks(b, 2), cond, after, failed), failed)
        b2 == PushInstruction(b1, Instruction("assert_failed", Nowhere, Nowhere, NoType, Nowhere, <<>>))
    IN  Terminate(b2, after)

RECURSIVE BuildIRFromExpression(_, _, _), BuildArguments(_, _)

Value(b, e)    == BuildIRFromExpression(b, e, FALSE)
Location(b, e) == BuildIRFromExpression(b, e, TRUE)

-----------------------------------------------------------------------------

BuildIRFromID(b, e, lhs) ==
    IF ~lhs /\ IsLoadableType(VarType[e.x])
    THEN PushLoad(b, VarRegister[e.x], VarType[e.x])
    ELSE [b |-> b, r |-> VarRegister[e.x]]

BuildIRFromReserved(b, e) ==
    IF e.w = "null" THEN PushOp(b, "null", Nowhere, Nowhere, NULLType)
    ELSE Push(b, "const", Nowhere, Nowhere, Basic_bool,
              [k |-> "int", n |-> IF e.w = "true" THEN 1 ELSE 0])

\* Adds one to what a location holds, or takes one away.
Stepped(b, op, old, type) ==
    LET pointer == type.kind = "pointer"
        one == PushInt(b, IF pointer /\ op = "--" THEN -1 ELSE 1, IF pointer THEN Basic_int ELSE type)
    IN  PushOp(one.b, IF pointer THEN "index" ELSE IF op = "++" THEN "+" ELSE "-", old, one.r, type)

\* A mutant gives back the new value.
BuildIRFromPostOpAsPrefix(b, e) ==
    LET at  == Location(b, e.e)
        new == LET old == PushLoad(at.b, at.r, e.ty) IN Stepped(old.b, e.op, old.r, e.ty)
    IN  [b |-> PushStore(new.b, at.r, new.r, e.ty), r |-> new.r]

BuildIRFromPostOp(b, e) ==
    LET at  == Location(b, e.e)
        old == PushLoad(at.b, at.r, e.ty)
        new == Stepped(old.b, e.op, old.r, e.ty)
    IN  [b |-> PushStore(new.b, at.r, new.r, e.ty), r |-> old.r]

BuildIRFromIfX(b, e, lhs) ==
    LET type == b.given[e.slot]
        c == Value(b, e.c)
        end == NewBlock(c.b, 3)
        out == PushAlloc(AllocateBlocks(c.b, 3), type)
        b1 == Terminate(PushIf(out.b, c.r, NewBlock(c.b, 1), NewBlock(c.b, 2)), NewBlock(c.b, 1))
        t == Value(b1, e.a)
        b2 == Terminate(PushJmp(PushStore(t.b, out.r, t.r, type), end), NewBlock(c.b, 2))
        f == Value(b2, e.b)
        b3 == Terminate(PushJmp(PushStore(f.b, out.r, f.r, type), end), end)
    IN  IF lhs THEN [b |-> b3, r |-> out.r] ELSE PushLoad(b3, out.r, type)

\* The operand of an array is its place, that of a pointer is its value.
BuildIRFromIndex(b, e, lhs) ==
    LET a == BuildIRFromExpression(b, e.a, lhs /\ e.ty.kind # "pointer")
        i == Value(a.b, e.i)
        wide == IF e.ity = Basic_int THEN i
                ELSE Push(i.b, "cast", i.r, Nowhere, Basic_int, e.ity)
        count == PushInt(wide.b, e.ty.count, Basic_int)
        inside == PushOp(count.b, "<", wide.r, count.r, Basic_bool)
        checked == IF BoundsChecks /\ e.ty.kind = "array" /\ e.ty.count # 0
                   THEN BuildAssertExpr(inside.b, inside.r) ELSE i.b
        place == PushOp(checked, "index", a.r, i.r, e.ty)
    IN  IF lhs \/ e.force \/ ~IsLoadableType(e.of) THEN place ELSE PushLoad(place.b, place.r, e.of)

BuildIRFromCast(b, e, lhs) ==
    LET v == BuildIRFromExpression(b, e.e, lhs)
    IN  IF e.from.kind = "pointer" /\ e.to.kind = "pointer"
        THEN PushOp(v.b, "ptrcast", Nowhere, v.r, e.to)
        ELSE Push(v.b, IF e.bit THEN "bitcast" ELSE "cast", v.r, Nowhere, e.to, e.from)

BuildArguments(b, args) ==
    IF args = <<>> THEN [b |-> b, rs |-> <<>>]
    ELSE LET v == Value(b, Head(args))
             rest == BuildArguments(v.b, Tail(args))
         IN  [b |-> rest.b, rs |-> <<v.r>> \o rest.rs]

BuildIRFromCall(b, e) ==
    LET a == BuildArguments(b, e.args)
        type == FnType[e.f]
    IN  Push(a.b, "call", Nowhere, Nowhere, type.elem[Len(type.elem)], [f |-> e.f, args |-> a.rs])

BuildIRFromUnary(b, e, lhs) ==
    LET type == Underlying(IF e.slot = 0 THEN IF e.op = "-" THEN e.ty ELSE Basic_bool
                           ELSE b.given[e.slot])
        v == Value(b, e.e)
        at == Location(b, e.e)
        old == PushLoad(at.b, at.r, type)
        new == Stepped(old.b, e.op, old.r, type)
    IN  CASE e.op = "-" ->
               LET zero == IF Flag(type, "integer") THEN PushInt(v.b, 0, type)
                           ELSE Push(v.b, "const", Nowhere, Nowhere, type, [k |-> "float", n |-> 0])
               IN  PushOp(zero.b, "-", zero.r, v.r, type)
          [] e.op \in {"++", "--"} -> [b |-> PushStore(new.b, at.r, new.r, type), r |-> new.r]
          [] e.op = "~" -> PushOp(v.b, "~", Nowhere, v.r, type)
          [] e.op = "!" ->
               LET false == PushInt(v.b, 0, Basic_bool) IN
               PushOp(false.b, "==", v.r, false.r, Basic_bool)
          [] e.op = "*" -> IF lhs THEN v ELSE PushLoad(v.b, v.r, type)
          [] e.op = "&" -> at
          [] e.op = "?" -> BuildIRFromExpression(b, e.e, lhs)

\* && and ||: the right operand has a block of its own.
BuildLogical(b, e) ==
    LET true == NewBlock(b, 1)
        false == NewBlock(b, 2)
        evaluateRight == NewBlock(b, 3)
        after == NewBlock(b, 4)
        out == PushAlloc(AllocateBlocks(b, 4), Basic_bool)
        l == Value(out.b, e.l)
        b1 == IF e.op = "&&" THEN PushIf(l.b, l.r, evaluateRight, false)
              ELSE PushIf(l.b, l.r, true, evaluateRight)
        r == Value(Terminate(b1, evaluateRight), e.r)
        b2 == Terminate(PushIf(r.b, r.r, true, false), true)
        one == PushInt(b2, 1, Basic_bool)
        b3 == Terminate(PushJmp(PushStore(one.b, out.r, one.r, Basic_bool), after), false)
        zero == PushInt(b3, 0, Basic_bool)
        b4 == Terminate(PushJmp(PushStore(zero.b, out.r, zero.r, Basic_bool), after), after)
    IN  PushLoad(b4, out.r, Basic_bool)

\* An assignment loads what it stored, if that is needed.
BuildIRFromOperands(op, l, r, type, load) ==
    IF op # "=" THEN PushOp(r.b, op, l, r.r, type)
    ELSE LET stored == PushStore(r.b, l, r.r, type) IN
         IF load THEN PushLoad(stored, l, type) ELSE [b |-> stored, r |-> l]
BuildIRFromRight(l, e, type, lhs, load) ==
    BuildIRFromOperands(e.op, l.r, BuildIRFromExpression(l.b, e.r, lhs /\ e.op # "="), type, load)

BuildIRFromBinary(b, e, lhs, need) ==
    BuildIRFromRight(BuildIRFromExpression(b, e.l, lhs \/ e.op = "="), e,
                     Underlying(b.given[e.slot]), lhs, need /\ ~lhs)

BuildIRFromExpression(b, e, lhs) ==
    CASE e.k = "bin" -> IF e.op \in {"&&", "||"} THEN BuildLogical(b, e)
                        ELSE BuildIRFromBinary(b, e, lhs, TRUE)
      [] e.k = "un"    -> BuildIRFromUnary(b, e, lhs)
      [] e.k = "id"    -> BuildIRFromID(b, e, lhs)
      [] e.k = "const" -> Push(b, "const", Nowhere, Nowhere, b.given[e.slot], e.c)
      [] e.k = "char"  -> PushInt(b, e.n, Basic_u8)
      [] e.k = "reserved" -> BuildIRFromReserved(b, e)
      [] e.k = "post"  -> BuildIRFromPostOp(b, e)
      [] e.k = "ifx"   -> BuildIRFromIfX(b, e, lhs)
      [] e.k = "index" -> BuildIRFromIndex(b, e, lhs)
      [] e.k = "cast"  -> BuildIRFromCast(b, e, lhs)
      [] e.k = "call"  -> BuildIRFromCall(b, e)
      [] e.k = "ptrdiff" ->
            LET l == Value(b, e.l)
                r == Value(l.b, e.r)
            IN  PushOp(r.b, "ptrdiff", l.r, r.r, e.ty)
=============================================================================
