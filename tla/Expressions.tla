----------------------------- MODULE Expressions -----------------------------
(***************************************************************************)
(* How the type checker goes through an expression (src/Semantics.cpp):     *)
(* what it accepts, the casts it inserts, the operators it rewrites and the *)
(* type each untyped constant ends with.                                    *)
(*                                                                         *)
(* The checker keeps a stack of pointers to the types that are still        *)
(* untyped.  Whoever learns a type gives it to the whole stack, whatever    *)
(* put the entries there.  Here such a type is a slot: "given" holds the    *)
(* slots of all nodes, "stack" the ones still to be given a type.           *)
(***************************************************************************)
EXTENDS Types, SequencesExt

CONSTANTS VarType,      \* the type of each variable in scope
          FnType        \* the type of each function: arguments, then the return

\* The source of an expression.  A constant is [k |-> "int" or "float", n].
Const(k, n)     == [k |-> "const", c |-> [k |-> k, n |-> n]]
Id(x)           == [k |-> "id", x |-> x]
Reserved(w)     == [k |-> "reserved", w |-> w]
CharLit(n)      == [k |-> "char", n |-> n]
Un(op, e)       == [k |-> "un", op |-> op, e |-> e]
Post(op, e)     == [k |-> "post", op |-> op, e |-> e]
Bin(op, l, r)   == [k |-> "bin", op |-> op, l |-> l, r |-> r]
Cast(to, e)     == [k |-> "cast", to |-> to, e |-> e, bit |-> FALSE]
BitCast(to, e)  == [k |-> "cast", to |-> to, e |-> e, bit |-> TRUE]
Index(a, i)     == [k |-> "index", a |-> a, i |-> i]
Call(f, args)   == [k |-> "call", f |-> f, args |-> args]
IfX(c, a, b)    == [k |-> "ifx", c |-> c, a |-> a, b |-> b]

\* The nodes only the checker makes.
MakeCast(e, from, to) ==
    [k |-> "cast", e |-> e, from |-> from, to |-> to, bit |-> FALSE]
MakeIndex(a, i, operand, pointed) ==
    [k |-> "index", a |-> a, i |-> i, ty |-> operand, of |-> pointed, ity |-> Basic_bool, force |-> TRUE]
MakePointerDiff(l, r, t) == [k |-> "ptrdiff", l |-> l, r |-> r, ty |-> t]

Clean == [given |-> <<>>, stack |-> {}, err |-> FALSE]

RaiseError(st) == [st EXCEPT !.err = TRUE]
RaiseErrorIf(cond, st) == IF cond THEN RaiseError(st) ELSE st

\* A new slot, pending when its type is untyped.
Slot(st, t) ==
    LET id == Len(st.given) + 1 IN
    [st EXCEPT !.given = Append(@, t), !.stack = IF IsUntyped(t) THEN @ \cup {id} ELSE @]
Newest(st) == Len(st.given)

FillUntypedStack(st, t) ==
    LET to == IF t.kind = "pointer" THEN Basic_int ELSE t IN
    IF t = Basic_error THEN st
    ELSE [st EXCEPT !.given = [s \in DOMAIN @ |-> IF s \in st.stack THEN to ELSE @[s]],
                    !.stack = IF IsUntyped(to) THEN @ ELSE {}]

Result(e, ty, st) == [e |-> e, ty |-> ty, st |-> st]

RECURSIVE IsLHSAssignable(_)
IsLHSAssignable(e) ==
    \/ e.k = "id"
    \/ e.k = "cast" /\ IsLHSAssignable(e.e)
    \/ e.k = "index" /\ IsLHSAssignable(e.a)
    \/ e.k = "un" /\ e.op \in {"*", "?", "&"} /\ IsLHSAssignable(e.e)

\* Makes two operands agree: the narrower one gets a cast, or the constants
\* still untyped get their type.
Operands(st, t, l, r) == [st |-> st, ty |-> t, l |-> l, r |-> r]
PromoteRight(st, from, to, l, r) ==
    IF IsUntyped(from) THEN Operands(FillUntypedStack(st, to), to, l, r)
    ELSE Operands(st, to, l, MakeCast(r, from, to))
PromoteLeft(st, from, to, l, r, assignment) ==
    IF IsUntyped(from) THEN Operands(FillUntypedStack(st, to), to, l, r)
    ELSE IF assignment THEN Operands(RaiseError(st), from, l, r)
    ELSE Operands(st, to, MakeCast(l, from, to), r)

TypeCheckAndPromote(st, left, right, l, r, assignment) ==
    LET lt == Underlying(left)
        rt == Underlying(right)
        v == IsTypeCompatible(lt, rt, assignment)
    IN  CASE ~v.ok -> Operands(RaiseError(st), lt, l, r)
          [] v = Yes -> Operands(st, left, l, r)
          [] v = Verdict(TRUE, "left") -> PromoteRight(st, rt, lt, l, r)
          [] v = Verdict(TRUE, "right") -> PromoteLeft(st, lt, rt, l, r, assignment)

\* A value that initialises, is passed or is returned: it is converted to the
\* type of the place it goes to.
Converted(v, to) ==
    LET c == IsTypeCompatible(to, v.ty, TRUE)
        st == RaiseErrorIf(~c.ok, v.st)
    IN  IF c.ok /\ c.promotion # "none"
        THEN IF IsUntyped(v.ty) THEN Result(v.e, to, FillUntypedStack(st, to))
             ELSE Result(MakeCast(v.e, v.ty, to), to, st)
        ELSE Result(v.e, v.ty, st)

RECURSIVE AnalyzeExpression(_, _)

Zero(k) == [k |-> "const", c |-> [k |-> "int", n |-> 0], slot |-> k]

\* A condition is compared with zero or null unless it is a bool; the
\* comparison is built without a type of its own, which leaves it bool.
Versus(left, zero, ty, s) ==
    LET s2 == Slot(s, Basic_bool) IN
    Result([k |-> "bin", op |-> "!=", l |-> left, r |-> zero, slot |-> Newest(s2)], ty, s2)
VersusZero(left, ty, s) == Versus(left, Zero(Newest(s)), ty, s)
Condition(v) ==
    IF v.ty.kind \notin {"basic", "pointer", "enum"} THEN Result(v.e, Basic_bool, RaiseError(v.st))
    ELSE IF IsString(v.ty)
    THEN VersusZero([k |-> "count", e |-> v.e], v.ty, Slot(v.st, Basic_int))
    ELSE IF v.ty.kind = "pointer" THEN Versus(v.e, Reserved("null"), v.ty, v.st)
    ELSE IF v.ty.kind = "enum" \/ "boolean" \notin BasicFlags(v.ty.name)
    THEN VersusZero(v.e, v.ty, Slot(v.st, v.ty))
    ELSE v
AnalyzeBooleanExpression(e, st) == Condition(AnalyzeExpression(e, st))

(* Operators of one operand. *)

\* What a dereference points to does not touch the constants around it.
\* A mutant leaves them on the stack.
AnalyzeOnTheStack(e, st) == AnalyzeExpression(e, st)
AnalyzeAside(e, st) ==
    LET v == AnalyzeExpression(e, [st EXCEPT !.stack = {}]) IN
    [v EXCEPT !.st.stack = @ \cup st.stack]

AnalyzeUnary(e, st) ==
    LET Boolean == AnalyzeBooleanExpression(e.e, st)
        v == IF e.op = "*" THEN AnalyzeAside(e.e, st) ELSE AnalyzeExpression(e.e, st)
        t == v.ty
        Built(s, ty) == LET s2 == Slot(s, ty) IN
            Result([k |-> "un", op |-> e.op, e |-> v.e, slot |-> Newest(s2)], ty, s2)
    IN  CASE e.op = "-" ->
               Built(RaiseErrorIf(\/ ~HasBasicFlag(t, "integer") /\ ~HasBasicFlag(t, "float")
                                  \/ HasBasicFlag(t, "unsigned"), v.st), t)
          [] e.op \in {"++", "--"} ->
               Built(RaiseErrorIf(\/ ~IsLHSAssignable(e.e)
                                  \/ ~HasBasicFlag(t, "integer") /\ t.kind # "pointer", v.st), t)
          [] e.op = "!" ->
               LET s2 == Slot(Boolean.st, Basic_bool) IN
               Result([k |-> "un", op |-> "!", e |-> Boolean.e, slot |-> Newest(s2)], Basic_bool, s2)
          [] e.op = "~" ->
               Built(RaiseErrorIf(~HasBasicFlag(t, "integer") /\ t.kind # "enum", v.st), t)
          [] e.op = "?" -> Result([k |-> "un", op |-> "?", e |-> v.e, slot |-> 0], t,
                                  RaiseErrorIf(t.kind # "pointer", v.st))
          [] e.op = "*" ->
               IF t.kind # "pointer" THEN Result(v.e, t, RaiseError(v.st))
               ELSE IF t.elem = <<>> THEN Result(v.e, Basic_error, RaiseError(v.st))
               ELSE Built(v.st, t.elem[1])
          [] e.op = "&" -> Built(RaiseErrorIf(~IsLHSAssignable(v.e), v.st), PointerTo(t))

AnalyzePostOp(e, st) ==
    LET v == AnalyzeExpression(e.e, st) IN
    Result([k |-> "post", op |-> e.op, e |-> v.e, ty |-> v.ty], v.ty,
           RaiseErrorIf(\/ ~IsLHSAssignable(e.e)
                        \/ ~HasBasicFlag(v.ty, "integer") /\ v.ty.kind # "pointer", v.st))

ChosenBy(c, p) ==
    LET s == Slot(p.st, p.ty) IN
    Result([k |-> "ifx", c |-> c, a |-> p.l, b |-> p.r, slot |-> Newest(s)], p.ty, s)

AnalyzeIfX(e, st) ==
    LET c == AnalyzeBooleanExpression(e.c, st)
        a == AnalyzeExpression(e.a, c.st)
        b == AnalyzeExpression(e.b, a.st)
    IN  ChosenBy(c.e, TypeCheckAndPromote(b.st, a.ty, b.ty, a.e, b.e, FALSE))

AnalyzeIndex(e, st) ==
    LET a == AnalyzeExpression(e.a, st)
        t == a.ty
        bad == \/ t.kind = "pointer" /\ t.elem = <<>>
               \/ t.kind \notin {"pointer", "array", "slice"} /\ ~IsString(t)
        of == IF t.kind = "pointer" /\ t.elem = <<>> THEN Basic_error
              ELSE IF bad THEN t ELSE IF IsString(t) THEN Basic_u8 ELSE t.elem[1]
        i == AnalyzeExpression(e.i, FillUntypedStack(RaiseErrorIf(bad, a.st), of))
        it == Underlying(i.ty)
        st2 == RaiseErrorIf(~Flag(it, "integer"), i.st)
    IN  IF t.kind = "pointer" /\ t.elem = <<>> THEN Result(a.e, of, RaiseError(a.st))
        ELSE Result([k |-> "index", a |-> a.e, i |-> i.e, ty |-> t, of |-> of, force |-> FALSE,
                     ity |-> IF IsUntyped(it) THEN Basic_int ELSE it], of,
                    IF IsUntyped(it) THEN FillUntypedStack(st2, Basic_int) ELSE st2)

\* An explicit cast gives its type to every pending constant at once, those of
\* the expression around it included.
AnalyzeCast(e, st) ==
    LET to == e.to
        v == AnalyzeExpression(e.e, FillUntypedStack(st, to))
        from == v.ty
        given == IF IsUntyped(from) THEN FillUntypedStack(v.st, to) ELSE v.st
        failed == ~IsCastValid(from, to)
        node == [k |-> "cast", e |-> v.e, from |-> from, to |-> to, bit |-> e.bit]
        held == IF IsUntyped(from) THEN to ELSE from
    IN  IF from = Basic_error THEN Result(v.e, to, v.st)
        ELSE IF e.bit
        THEN Result(node, to, RaiseErrorIf(GetTypeSize(held) # GetTypeSize(to)
                                           \/ IsCastRedundant(held, to), given))
        ELSE IF failed THEN Result(node, to, RaiseError(v.st))
        ELSE IF IsCastRedundant(from, to) THEN Result(v.e, from, v.st)
        ELSE IF IsUntyped(from) THEN Result(v.e, to, given)
        ELSE Result(node, to, v.st)

\* Arguments are analysed and converted one after the other.
WithArgument(done, v) == [args |-> Append(done.args, v.e), st |-> v.st]
AnalyzeArguments(args, types, st) ==
    FoldLeftDomain(LAMBDA done, i :
                     WithArgument(done, Converted(AnalyzeExpression(args[i], done.st), types[i])),
                   [args |-> <<>>, st |-> st], args)

AnalyzeCall(e, st) ==
    LET t == FnType[e.f]
        count == Len(t.elem) - t.count
        ret == t.elem[Len(t.elem)]
        a == AnalyzeArguments(e.args, t.elem, st)
    IN  IF Len(e.args) # count THEN Result(e, ret, RaiseError(st))
        ELSE Result([e EXCEPT !.args = a.args], ret, a.st)

(* Operators of two operands. *)

\* e op= r becomes e = e op r; the same node of e stands on both sides.
OverwriteOpEqExpression(l, new, slot) ==
    [k |-> "bin", op |-> "=", l |-> l, r |-> new, slot |-> slot]

PointerArithmetic(op, l, r, left, right) ==
    LET bare == IF r.k = "cast" /\ r.to.kind = "pointer" THEN r.e ELSE r IN
    MakeIndex(l, IF op = "-"
                 THEN [k |-> "un", op |-> "-", e |-> bare, slot |-> 0,
                       ty |-> IF IsUntyped(right) THEN Basic_int ELSE right]
                 ELSE bare, left, left.elem[1])

PointerAndBasic(left, right) == {left.kind, right.kind} = {"pointer", "basic"}
IsOpaque(left, right) ==
    PointerAndBasic(left, right) /\ (IF left.kind = "pointer" THEN left ELSE right).elem = <<>>
PointsTo(t) == IF t.kind = "pointer" THEN t.elem ELSE <<>>
ComparedType(op, left, to) ==
    IF op \notin Comparisons THEN to
    ELSE IF left.kind = "array" THEN ArrayOf(Basic_bool, left.count) ELSE Basic_bool

\* An operator, with the assignment around it if it is an assigning one.
Around(op, l, new, t, ty, st) ==
    IF op \notin Assigning THEN Result(new, ty, st)
    ELSE LET s == Slot(st, t) IN Result(OverwriteOpEqExpression(l, new, Newest(s)), ty, s)

\* Of the two operands made to agree in p; left and right are their own types.
OperatorOf(op, left, right, p) ==
    LET inner == IF op \in Assigning THEN OpOf[op] ELSE op
        \* An assigning operator computes with the type of its left side.
        typed == Slot(p.st, IF op \in Assigning THEN left ELSE p.ty)
        result == ComparedType(op, left, p.ty)
    IN  IF left.kind = "pointer" /\ HasBasicFlag(right, "integer") /\ ~IsOpaque(left, right)
        THEN Around(op, p.l, PointerArithmetic(inner, p.l, p.r, left, right), left, result, p.st)
        ELSE IF left.kind = "pointer" /\ right.kind = "pointer" /\ inner = "-"
        THEN Around(op, p.l, MakePointerDiff(p.l, p.r, left), left, Basic_int,
                    RaiseErrorIf(PointsTo(left) # PointsTo(right), p.st))
        ELSE Around(op, p.l, [k |-> "bin", op |-> inner, l |-> p.l, r |-> p.r, slot |-> Newest(typed)],
                    p.ty, result, typed)

Assignable(op, lv, right, p) ==
    LET wrong == ~IsLHSAssignable(lv.e) \/ (p.ty = right /\ p.ty # lv.ty) IN
    [p EXCEPT !.st = RaiseErrorIf(op \in Assigning \cup {"="} /\ wrong, @)]

Operator(op, e, lv, rv) ==
    IF \/ ~CanTypePerformBinExpression(lv.ty, op)
       \/ ~CanTypePerformBinExpression(rv.ty, op)
    THEN Result(e, lv.ty, RaiseError(rv.st))
    ELSE IF PointerAndBasic(lv.ty, rv.ty) /\ op \notin {"+", "-", "+=", "-="}
    THEN Result(e, Basic_error, RaiseError(rv.st))
    ELSE OperatorOf(op, lv.ty, rv.ty, Assignable(op, lv, rv.ty,
             TypeCheckAndPromote(RaiseErrorIf(IsOpaque(lv.ty, rv.ty), rv.st),
                                 lv.ty, rv.ty, lv.e, rv.e, op = "=")))

AnalyzeBinary(e, st) ==
    LET lv == AnalyzeExpression(e.l, st) IN
    Operator(e.op, e, lv, AnalyzeExpression(e.r, lv.st))

AnalyzeLogical(e, st) ==
    LET l == AnalyzeBooleanExpression(e.l, st)
        r == AnalyzeBooleanExpression(e.r, l.st)
        s == Slot(r.st, Basic_bool)
    IN  Result([k |-> "bin", op |-> e.op, l |-> l.e, r |-> r.e, slot |-> Newest(s)], Basic_bool, s)

AnalyzeAtom(e, st) ==
    CASE e.k = "const" ->
           LET t == IF e.c.k = "int" THEN UntypedInteger ELSE UntypedFloat
               s == Slot(st, t)
           IN  Result([k |-> "const", c |-> e.c, slot |-> Newest(s)], t, s)
      [] e.k = "id" -> Result(e, VarType[e.x], st)
      [] e.k = "reserved" -> Result(e, IF e.w = "null" THEN NULLType ELSE Basic_bool, st)
      [] e.k = "char" -> Result(e, Basic_u8, st)

AnalyzeExpression(e, st) ==
    CASE e.k = "bin" /\ e.op \in {"&&", "||"} -> AnalyzeLogical(e, st)
      [] e.k = "bin" /\ e.op \notin {"&&", "||"} -> AnalyzeBinary(e, st)
      [] e.k = "un"    -> AnalyzeUnary(e, st)
      [] e.k = "post"  -> AnalyzePostOp(e, st)
      [] e.k = "ifx"   -> AnalyzeIfX(e, st)
      [] e.k = "index" -> AnalyzeIndex(e, st)
      [] e.k = "cast"  -> AnalyzeCast(e, st)
      [] e.k = "call"  -> AnalyzeCall(e, st)
      [] OTHER         -> AnalyzeAtom(e, st)

-----------------------------------------------------------------------------
(* Statements.  A statement is [k, e] with the declared type of a "decl"    *)
(* (NoType when the expression gives it) or the return type of a "return".  *)

\* A declaration without a type has that of its value.
OwnType(v) ==
    IF ~IsUntyped(v.ty) THEN v
    ELSE LET auto == UntypedGetType(v.ty) IN Result(v.e, auto, FillUntypedStack(v.st, auto))
Done(s, v, ty) == [stmt |-> [k |-> s.k, ty |-> ty, e |-> v.e], st |-> v.st]
Deduced(s, v) == Done(s, v, v.ty)

\* The statement with the value of its expression.
Completed(s, v) ==
    CASE s.k \in {"decl", "return"} /\ s.ty # NoType -> Done(s, Converted(v, s.ty), s.ty)
      [] s.k = "decl" /\ s.ty = NoType -> Deduced(s, OwnType(v))
      [] s.k \in {"if", "assert"} -> Done(s, Condition(v), Basic_bool)
      [] s.k = "expr" -> Deduced(s, v)
AnalyzeNode(s, st) == Completed(s, AnalyzeExpression(s.e, st))
=============================================================================
