----------------------------- MODULE Evaluation -----------------------------
(***************************************************************************)
(* A function body from its source to the end of its run: the checker goes  *)
(* through the statements (Expressions), the IR builder lowers them         *)
(* (ExpressionIR), LLVM looks at the types of the instructions, and the     *)
(* body runs on the interpreter, as compile-time code does, and as          *)
(* generated code (Machines), one basic block at a time.                    *)
(*                                                                         *)
(* A body is a sequence of statements [k, ty, e] as AnalyzeNode takes them. *)
(***************************************************************************)
EXTENDS Machines

CONSTANTS Bodies,       \* the bodies the checker is given
          Inputs,       \* what the variables may hold: variable -> value
          Address       \* where each variable lives

VARIABLES phase,        \* what has been done with the body
          body,         \* its statements, as analysed once checked
          checker,      \* the checker's slots, untyped stack and error flag
          builder,      \* the IR builder
          input,        \* the values the body is run with
          interpreter, generated      \* the two machines

vars == <<phase, body, checker, builder, input, interpreter, generated>>

Variables == DOMAIN VarType
Frame == Max({Address[x] + GetTypeSize(VarType[x]) : x \in Variables})

-----------------------------------------------------------------------------
(* The statements of a body, one after the other. *)

Analysed(done, next) == [stmts |-> Append(done.stmts, next.stmt), st |-> next.st]
AnalyzeBody(stmts, st) ==
    FoldLeft(LAMBDA done, s : Analysed(done, AnalyzeNode(s, done.st)),
             [stmts |-> <<>>, st |-> st], stmts)

Return(b, r, type) == PushInstruction(b, Instruction("ret", r, Nowhere, type, Nowhere, <<>>))
ReturnInt(b, n) == LET c == PushInt(b, n, Basic_int) IN Return(c.b, c.r, Basic_int)

BuildIRStoreVariable(b, r, type) ==
    LET at == PushAlloc(b, type) IN PushStore(at.b, at.r, r, type)

BuildIRFromIf(v, then, else) ==
    Terminate(ReturnInt(Terminate(
        ReturnInt(Terminate(PushIf(AllocateBlocks(v.b, 2), v.r, then, else), then), 1),
        else), 0), else)

\* Only an assignment that is a statement gives no value.
StatementValue(b, s) ==
    IF s.k = "expr" /\ s.e.k = "bin" /\ s.e.op \notin {"&&", "||"}
    THEN BuildIRFromBinary(b, s.e, FALSE, FALSE) ELSE Value(b, s.e)

BuildIRFromValue(s, v) ==
    CASE s.k = "decl" -> BuildIRStoreVariable(v.b, v.r, s.ty)
      [] s.k = "return" -> Return(v.b, v.r, s.ty)
      [] s.k = "assert" -> BuildAssertExpr(v.b, v.r)
      [] s.k = "if" -> BuildIRFromIf(v, NewBlock(v.b, 1), NewBlock(v.b, 2))
      [] s.k = "expr" -> v.b
BuildIRBody(b, s) == BuildIRFromValue(s, StatementValue(b, s))

LastIsReturn(stmts) == stmts[Len(stmts)].k \in {"return", "if"}

EndFunction(b, returns) == IF returns THEN b ELSE Return(b, Nowhere, NoType)
BuildFunctionIR(stmts, st) ==
    EndFunction(FoldLeft(BuildIRBody, NewBuilder(st, Cardinality(Variables)), stmts),
                LastIsReturn(stmts))

-----------------------------------------------------------------------------
(* What a machine starts with: the variables hold the input, every alloc    *)
(* has a place of its own behind them.                                      *)

Instructions(b) == FoldLeft(LAMBDA s, blk : s \o blk, <<>>, b.code)
Allocs(b) == SelectSeq(Instructions(b), LAMBDA I : I.op = "alloc")

Machine(b, values, register(_, _), none) ==
    LET allocs == Allocs(b)
        empty == [a \in 0..(Frame + 8 * Len(allocs) - 1) |-> 0]
        Put(x, mem) == WriteBytes(mem, Address[x], GetTypeSize(VarType[x]),
                                  Pattern(values[x], Width(GetTypeSize(VarType[x]))))
        Owner(r) == {x \in Variables : VarRegister[x] = r}
        Place(r) == {i \in DOMAIN allocs : allocs[i].result = r}
    IN  [mem |-> FoldSet(Put, empty, DOMAIN values), blk |-> 1, out |-> "running",
         result |-> 0, trace |-> <<>>,
         regs |-> [r \in 0..(b.next - 1) |->
                     IF Owner(r) # {} THEN LET x == CHOOSE y \in Owner(r) : TRUE IN
                                           register(VarType[x], Address[x])
                     ELSE IF Place(r) # {} THEN LET i == CHOOSE j \in Place(r) : TRUE IN
                                                register(allocs[i].type, Frame + 8 * (i - 1))
                     ELSE none]]

InterpretedRegister(t, at) == value(PointerTo(t), at)
GeneratedRegister(t, at) == [lt |-> LType("ptr", Full), n |-> at]

\* The type LLVM gives each register, and the instructions it cannot take.
Typing(b) ==
    FoldLeft(LAMBDA s, I :
               [bad |-> IF IsWellTyped(s.types, I) THEN s.bad ELSE s.bad \cup {I},
                types |-> IF I.result \in DOMAIN s.types /\ I.op \notin {"store", "if", "jmp"}
                          THEN [s.types EXCEPT ![I.result] = ResultLType(s.types, I)] ELSE s.types],
             [bad |-> {},
              types |-> [r \in 0..(b.next - 1) |->
                           IF r < Cardinality(Variables) THEN LType("ptr", Full) ELSE NoLType]],
             Instructions(b))

-----------------------------------------------------------------------------

NoMachine == [out |-> "none"]

Init ==
    /\ phase = "parsed"
    /\ body \in Bodies
    /\ checker = Clean
    /\ builder = NewBuilder(Clean, 0)
    /\ input = <<>>
    /\ interpreter = NoMachine
    /\ generated = NoMachine

Check ==
    /\ phase = "parsed"
    /\ \E a \in {AnalyzeBody(body, Clean)} :
       /\ checker' = a.st
       /\ phase' = IF a.st.err THEN "rejected" ELSE "checked"
       /\ body' = IF a.st.err THEN body ELSE a.stmts
    /\ UNCHANGED <<builder, input, interpreter, generated>>

Build ==
    /\ phase = "checked"
    /\ builder' = BuildFunctionIR(body, checker)
    /\ phase' = "built"
    /\ UNCHANGED <<body, checker, input, interpreter, generated>>

\* The body is a compile-time call, with the input as its arguments.
StartInterpreter ==
    /\ phase = "built"
    /\ input' \in Inputs
    /\ interpreter' = Machine(builder, input', InterpretedRegister, value(NoType, 0))
    /\ phase' = "interpreted"
    /\ UNCHANGED <<body, checker, builder, generated>>

InterpretBlock ==
    /\ interpreter.out = "running"
    /\ interpreter' = RunBlock(interpreter, builder.code, Interpret)
    /\ UNCHANGED <<phase, body, checker, builder, input, generated>>

\* LLVM verifies the module before it runs.
StartGenerated ==
    /\ phase = "interpreted" /\ interpreter.out # "running"
    /\ phase' = IF Typing(builder).bad = {} THEN "compiled" ELSE "refused"
    /\ generated' = IF Typing(builder).bad = {}
                    THEN Machine(builder, input, GeneratedRegister, [lt |-> NoLType, n |-> 0])
                    ELSE generated
    /\ UNCHANGED <<body, checker, builder, input, interpreter>>

RunGeneratedBlock ==
    /\ generated.out = "running"
    /\ generated' = RunBlock(generated, builder.code, RunGenerated)
    /\ UNCHANGED <<phase, body, checker, builder, input, interpreter>>

Finished ==
    /\ \/ phase = "rejected"
       \/ phase = "refused"
       \/ phase = "compiled" /\ generated.out # "running"
    /\ UNCHANGED vars

Next == \/ Check \/ Build \/ StartInterpreter \/ InterpretBlock
        \/ StartGenerated \/ RunGeneratedBlock \/ Finished

Spec == Init /\ [][Next]_vars

-----------------------------------------------------------------------------

(* What a body means: the analysed statements evaluated over the memory,    *)
(* operand by operand, without blocks or registers.  A state is the memory, *)
(* the calls made, the value found and whether all of it is defined.        *)

RECURSIVE Means(_, _, _), MeansAll(_, _, _), Place(_, _, _)

Is(s, n) == [s EXCEPT !.n = n]
ValueAt(s, t) ==
    IF ~IsLoadableType(t) THEN s
    ELSE IF ~InMemory(s.mem, s.n, GetTypeSize(t)) THEN [s EXCEPT !.ok = FALSE]
    ELSE Is(s, Number(ReadBytes(s.mem, s.n, GetTypeSize(t)), Kind(t), Width(GetTypeSize(t))))
PutAt(s, at, t, n) ==
    IF ~InMemory(s.mem, at, GetTypeSize(t)) THEN [s EXCEPT !.ok = FALSE]
    ELSE [s EXCEPT !.mem = WriteBytes(@, at, GetTypeSize(t), Pattern(n, Width(GetTypeSize(t)))), !.n = n]
Reduced(t, n) == Number(n, Kind(t), Width(GetTypeSize(t)))

\* Adds to what is at a place; gives the new value.
Bumped(s, op, t) ==
    LET v == ValueAt(s, t)
        step == IF t.kind = "pointer" THEN GetTypeSize(t.elem[1]) ELSE 1
    IN  IF ~v.ok THEN v ELSE PutAt(v, s.n, t, Reduced(t, IF op = "++" THEN v.n + step ELSE v.n - step))

Place(e, s, given) ==
    CASE e.k = "id" -> Is(s, Address[e.x])
      [] e.k = "un" /\ e.op = "*" -> Means(e.e, s, given)
      [] e.k = "index" ->
            LET a == IF e.ty.kind = "pointer" THEN Means(e.a, s, given) ELSE Place(e.a, s, given)
                i == Means(e.i, a, given)
                out == e.ty.kind = "array" /\ i.n \notin 0..(e.ty.count - 1)
            IN  IF out THEN [i EXCEPT !.stopped = TRUE]
                ELSE Is(i, (a.n + GetTypeSize(e.of) * i.n) % (2^Full))
      [] OTHER -> Means(e, s, given)

Means(e, s, given) ==
    LET T == Underlying(IF e.k \in {"bin", "const", "ifx"} THEN given[e.slot]
                        ELSE IF e.k = "un" THEN IF e.slot # 0 THEN given[e.slot]
                                                ELSE IF e.op = "-" THEN e.ty ELSE Basic_bool
                        ELSE Basic_bool)
        l == IF e.k = "bin" /\ e.op = "=" THEN Place(e.l, s, given)
             ELSE Means(IF e.k \in {"bin", "ptrdiff"} THEN e.l ELSE IF e.k = "ifx" THEN e.c ELSE e.e, s, given)
        r == Means(e.r, l, given)
        at == Place(e.e, s, given)
        width == Width(GetTypeSize(T))
    IN  IF s.stopped \/ ~s.ok THEN s
        ELSE CASE e.k = "id" -> ValueAt(Is(s, Address[e.x]), VarType[e.x])
          [] e.k = "const" -> Is(s, IF Kind(T) = "float" THEN IF e.c.k = "int" THEN 2 * e.c.n ELSE e.c.n
                                    ELSE Reduced(T, IF e.c.k = "int" THEN e.c.n ELSE Quotient(e.c.n, 2)))
          [] e.k = "char"     -> Is(s, e.n)
          [] e.k = "reserved" -> Is(s, IF e.w = "true" THEN 1 ELSE 0)
          [] e.k = "un" /\ e.op = "-" -> Is(l, Reduced(T, -l.n))
          [] e.k = "un" /\ e.op = "~" -> Is(l, Reduced(T, -1 - l.n))
          [] e.k = "un" /\ e.op = "!" -> Is(l, 1 - l.n)
          [] e.k = "un" /\ e.op = "?" -> l
          [] e.k = "un" /\ e.op = "&" -> at
          [] e.k = "un" /\ e.op = "*" -> ValueAt(l, T)
          [] e.k = "un" /\ e.op \in {"++", "--"} -> Bumped(at, e.op, T)
          [] e.k = "post" -> [Bumped(at, e.op, e.ty) EXCEPT !.n = ValueAt(at, e.ty).n]
          [] e.k = "bin" /\ e.op \in {"&&", "||"} -> IF l.n = (IF e.op = "||" THEN 1 ELSE 0) THEN l ELSE r
          [] e.k = "bin" /\ e.op = "=" ->
                IF r.stopped \/ ~r.ok THEN r ELSE PutAt(r, l.n, T, Reduced(T, r.n))
          [] e.k = "bin" /\ e.op \in Comparisons -> Is(r, IF Compare(e.op, l.n, r.n) THEN 1 ELSE 0)
          [] e.k = "bin" /\ e.op \in Arithmetic \cup Bitwise ->
                IF IsUndefined(e.op, l.n, r.n, Kind(T), width) THEN [r EXCEPT !.ok = FALSE]
                ELSE Is(r, Reduced(T, Compute(e.op, l.n, r.n, Kind(T), width)))
          [] e.k = "ifx" -> IF l.n = 1 THEN Means(e.a, l, given) ELSE Means(e.b, l, given)
          [] e.k = "index" ->
                LET p == Place(e, s, given) IN
                IF e.force \/ p.stopped \/ ~p.ok THEN p ELSE ValueAt(p, e.of)
          [] e.k = "cast" ->
                LET to == Underlying(e.to)
                    w == Width(GetTypeSize(to))
                IN  IF e.bit THEN Is(l, Reduced(to, l.n))
                    ELSE IF Misses(l.n, Kind(e.from), Kind(to), w) THEN [l EXCEPT !.ok = FALSE]
                    ELSE Is(l, Reduced(to, Convert(l.n, Kind(e.from), Kind(to))))
          [] e.k = "ptrdiff" -> Is(r, Quotient(l.n - r.n, GetTypeSize(e.ty.elem[1])))
          [] e.k = "call" ->
                LET a == MeansAll(e.args, s, given)
                    In(i) == Pattern(a.ns[i], Width(GetTypeSize(FnType[e.f].elem[i])))
                IN  [Is(a.s, Reduced(FnType[e.f].elem[Len(FnType[e.f].elem)], In(1)))
                        EXCEPT !.trace = Append(@, <<e.f, [i \in DOMAIN e.args |-> In(i)]>>)]

MeansAll(es, s, given) ==
    IF es = <<>> THEN [s |-> s, ns |-> <<>>]
    ELSE LET v == Means(Head(es), s, given)
             rest == MeansAll(Tail(es), v, given)
         IN  [s |-> rest.s, ns |-> <<v.n>> \o rest.ns]

\* A statement ends the body or leaves it to the next one.
Executed(v, stmt) ==
    CASE v.stopped \/ ~v.ok -> v
      [] stmt.k = "decl"   -> [PutAt(v, v.local, stmt.ty, v.n) EXCEPT !.local = @ + 8]
      [] stmt.k = "return" ->
            [v EXCEPT !.returned = TRUE, !.n = Pattern(v.n, Width(GetTypeSize(stmt.ty)))]
      [] stmt.k = "if"     -> [v EXCEPT !.returned = TRUE]
      [] stmt.k = "assert" -> [v EXCEPT !.stopped = v.n # 1]
      [] OTHER -> v
Executes(s, stmt) ==
    IF s.stopped \/ s.returned \/ ~s.ok THEN s
    ELSE Executed(Means(stmt.e, s, checker.given), stmt)

-----------------------------------------------------------------------------

\* What the checker lets through although LLVM has no such instruction: a
\* comparison of two constants, which stay untyped; a float as a condition;
\* the sum of two pointers; a bitwise assignment to a float; casts of a bool,
\* of a pointer to or from a float and bit casts of a pointer; the difference
\* of two opaque pointers, and one that is assigned to a pointer.
KnownGap(types, I) ==
    LET Of(r) == IF r \in DOMAIN types THEN types[r] ELSE LType("any", 0)
        ks == {Of(I.left).k, Of(I.right).k}
    IN  \/ "none" \in ks \/ IsUntyped(I.type)
        \/ I.op \in Comparisons /\ I.type = Basic_bool /\ "float" \in ks
        \/ I.op = "+" /\ I.type.kind = "pointer"
        \/ I.op \in {"&", "|", "^"} /\ "float" \in ks
        \/ I.op \in {"cast", "bitcast"} /\ Of(I.left) = LType("int", 1)
        \/ I.op = "store" /\ Of(I.right) = LType("int", 1)
        \/ I.op = "cast" /\ {Of(I.left).k, ConvertToLLVMType(I.type).k} = {"ptr", "float"}
        \/ I.op = "bitcast" /\ "ptr" \in {Of(I.left).k, ConvertToLLVMType(I.type).k}
        \/ I.op = "ptrdiff" /\ I.type.elem = <<>>
        \/ I.op = "store" /\ I.type = Basic_int /\ Of(I.right).k = "ptr"

\* An assignment to a cast converts the address of what it should assign to.
AssignsToCast(types, I) ==
    /\ I.op = "cast" /\ I.info.kind # "pointer"
    /\ types[I.left].k = "ptr"

\* What the checker accepts LLVM accepts: both operands of every instruction
\* have the type the instruction needs, and no constant is left untyped.
AcceptedIsWellTyped ==
    phase = "refused" =>
        LET t == Typing(builder) IN
        \/ \E I \in t.bad : AssignsToCast(t.types, I)
        \/ \A I \in t.bad : KnownGap(t.types, I)

\* Where the two machines are known to part: the interpreter takes the bits of
\* a narrow index as they are and LLVM extends them by their sign; it subtracts
\* pointers in bytes and LLVM in elements; it tests a bound as a signed number
\* and lets a negative index through.
KnownToPart ==
    LET types == Typing(builder).types
        code == Instructions(builder)
    IN  \E i \in DOMAIN code :
           \/ code[i].op = "index" /\ code[i].type.kind = "pointer" /\ types[code[i].right].w < Full
           \/ code[i].op = "ptrdiff"
           \/ /\ code[i].op = "<" /\ code[i].type = Basic_bool
              /\ Number(interpreter.regs[code[i].left].n, "signed", Full) < 0

\* A body does the same at compile time as in the generated program.
InterpretedAsCompiled ==
    phase = "compiled" /\ generated.out \notin {"running", "undefined"} /\ interpreter.out # "undefined"
    /\ ~KnownToPart =>
        /\ interpreter.out = generated.out
        /\ interpreter.trace = generated.trace
        /\ interpreter.mem = generated.mem
        /\ interpreter.result = generated.result

\* The generated program computes what the statements say, with their side
\* effects in their order and the operands that are skipped left alone.
ComputesAsWritten ==
    phase = "compiled" /\ generated.out \notin {"running", "undefined"} /\ ~KnownToPart =>
        LET start == [mem |-> Machine(builder, input, GeneratedRegister, 0).mem, trace |-> <<>>, n |-> 0,
                      ok |-> TRUE, stopped |-> FALSE, returned |-> FALSE, local |-> Frame]
        IN  \A m \in {FoldLeft(Executes, start, body)} :
            m.ok => /\ m.stopped = (generated.out = "assertion failed")
                    /\ m.trace = generated.trace
                    /\ \A a \in 0..(Frame - 1) : m.mem[a] = generated.mem[a]
                    /\ m.returned => m.n = generated.result
=============================================================================
