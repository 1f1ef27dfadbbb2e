------------------------------ MODULE Machines ------------------------------
(***************************************************************************)
(* The two machines an IR function runs on: the interpreter of the compile- *)
(* time code (src/Interpreter.cpp, InterpCasts.cpp, InterpBinaryOps.cpp)    *)
(* and the code LLVM is asked to generate (src/backend/LLVMC).              *)
(*                                                                         *)
(* A byte has ByteBits bits here, so that a whole int fits TLC's integers.  *)
(* A float is a fixed-point number with one binary digit behind the point.  *)
(* What C++ or LLVM leaves undefined (a division by zero, an access outside *)
(* the memory, a float out of range) ends a machine with "undefined".       *)
(***************************************************************************)
EXTENDS ExpressionIR, SequencesExt, Bitwise

CONSTANT ByteBits

Width(bytes) == ByteBits * bytes
Full == Width(8)                       \* an interpreter register

Kind(t) ==
    LET u == Underlying(t) IN
    IF Flag(u, "float") THEN "float" ELSE IF u.kind = "basic" /\ IsSigned(u) THEN "signed" ELSE "unsigned"

\* The number a bit pattern stands for, and the pattern of a number.
Number(n, kind, width) ==
    LET low == n % (2^width) IN
    IF kind # "unsigned" /\ low >= 2^(width - 1) THEN low - 2^width ELSE low
Pattern(x, width) == x % (2^width)
Fits(x, kind, width) == Number(x, kind, width) = x

Quotient(x, y) ==
    LET AbsOf(z) == IF z < 0 THEN -z ELSE z
        q == AbsOf(x) \div AbsOf(y)
    IN  IF (x < 0) = (y < 0) THEN q ELSE -q

Compare(op, x, y) ==
    CASE op = "==" -> x = y [] op = "!=" -> x # y [] op = "<" -> x < y
      [] op = ">" -> x > y [] op = "<=" -> x <= y [] op = ">=" -> x >= y

\* x and y are numbers; an integer result is cut to its width by the caller.
Compute(op, x, y, kind, width) ==
    CASE op = "+" -> x + y
      [] op = "-" -> x - y
      [] op = "*" -> IF kind = "float" THEN (x * y) \div 2
                     ELSE Number(x, "signed", width) * Number(y, "signed", width)
      [] op = "/" -> Quotient(IF kind = "float" THEN 2 * x ELSE x, y)
      [] op = "%" -> x - y * Quotient(x, y)
      [] op = "<<" -> x * 2^y
      [] op = ">>" -> x \div 2^y
      [] op = "&" -> Pattern(x, width) & Pattern(y, width)
      [] op = "|" -> Pattern(x, width) | Pattern(y, width)
      [] op = "^" -> Pattern(x, width) ^^ Pattern(y, width)

IsUndefined(op, x, y, kind, width) ==
    \/ op \in {"/", "%"} /\ (y = 0 \/ (kind = "signed" /\ y = -1 /\ x = -(2^(width - 1))))
    \/ op \in {"<<", ">>"} /\ y \notin 0..(width - 1)
    \/ kind = "float" /\ ~Fits(Compute(op, x, y, kind, width), kind, width)

Convert(x, from, to) ==
    IF from = "float" /\ to # "float" THEN Quotient(x, 2)
    ELSE IF from # "float" /\ to = "float" THEN 2 * x ELSE x
\* Only a conversion between a float and an integer can miss its target.
Misses(x, from, to, width) ==
    "float" \in {from, to} /\ ~Fits(Convert(x, from, to), to, width)

ReadBytes(mem, at, bytes) ==
    FoldFunctionOnSet(LAMBDA a, b : a + b, 0,
                      [i \in 0..(bytes - 1) |-> mem[at + i] * 2^Width(i)], 0..(bytes - 1))
WriteBytes(mem, at, bytes, n) ==
    [a \in DOMAIN mem |-> IF a \in at..(at + bytes - 1)
                          THEN (n \div 2^Width(a - at)) % (2^ByteBits) ELSE mem[a]]
InMemory(mem, at, bytes) == at..(at + bytes - 1) \subseteq DOMAIN mem

Undefined(m) == [m EXCEPT !.out = "undefined"]
Crash(m)     == [m EXCEPT !.out = "crash"]
When(ok, m, next) == IF ok THEN next ELSE Undefined(m)
Assign(m, r, v) == [m EXCEPT !.regs[r] = v]

\* A call is recorded with its arguments and gives back the first one.
CallArg(m, I, i) ==
    Pattern(m.regs[I.info.args[i]].n, Width(GetTypeSize(FnType[I.info.f].elem[i])))
Called(m, I, result) ==
    [m EXCEPT !.trace = Append(@, <<I.info.f, [i \in DOMAIN I.info.args |-> CallArg(m, I, i)]>>),
              !.regs[I.result] = result]

-----------------------------------------------------------------------------
(* The interpreter.  A register is [ty, n]: the type it was written with,   *)
(* which some instructions look at, and its 64 bits.                        *)

\* A member of the union is the low bits of the register, and a write leaves
\* the rest zero.
value(t, n) == [ty |-> t, n |-> n]
Field(v, t) == Number(v.n, Kind(t), Width(GetTypeSize(t)))
Written(t, x) == value(t, Pattern(x, Width(GetTypeSize(t))))

\* (T)value and memcpy of the value, by the type the value is said to have.
\* A mutant reads the value as unsigned.
CastFnUnsigned(t, v) == Written(t, Convert(Pattern(v.n, Width(GetTypeSize(v.ty))), Kind(v.ty), Kind(t)))
CastFn(t, v)    == Written(t, Convert(Field(v, v.ty), Kind(v.ty), Kind(t)))
BitCastFn(t, v) == value(t, Pattern(v.n, Width(GetTypeSize(v.ty))))

bool_cast_fn(v) == CastFn(Basic_u8, v)
i8_cast_fn(v)   == CastFn(Basic("i8"), v)
i16_cast_fn(v)  == CastFn(Basic("i16"), v)
i32_cast_fn(v)  == CastFn(Basic("i32"), v)
i64_cast_fn(v)  == CastFn(Basic("i64"), v)
u8_cast_fn(v)   == CastFn(Basic_u8, v)
u16_cast_fn(v)  == CastFn(Basic("u16"), v)
u32_cast_fn(v)  == CastFn(Basic("u32"), v)
u64_cast_fn(v)  == CastFn(Basic("u64"), v)
f32_cast_fn(v)  == CastFn(Basic("f32"), v)
f64_cast_fn(v)  == CastFn(Basic("f64"), v)
ptr_cast_fn(v)  == value(NULLType, Pattern(Field(v, v.ty), Full))

bool_bit_cast_fn(v) == BitCastFn(Basic_bool, v)
i8_bit_cast_fn(v)   == BitCastFn(Basic("i8"), v)
i16_bit_cast_fn(v)  == BitCastFn(Basic("i16"), v)
i32_bit_cast_fn(v)  == BitCastFn(Basic("i32"), v)
i64_bit_cast_fn(v)  == BitCastFn(Basic("i64"), v)
u8_bit_cast_fn(v)   == BitCastFn(Basic_u8, v)
u16_bit_cast_fn(v)  == BitCastFn(Basic("u16"), v)
u32_bit_cast_fn(v)  == BitCastFn(Basic("u32"), v)
u64_bit_cast_fn(v)  == BitCastFn(Basic("u64"), v)
f32_bit_cast_fn(v)  == BitCastFn(Basic("f32"), v)
f64_bit_cast_fn(v)  == BitCastFn(Basic("f64"), v)
ptr_bit_cast_fn(v)  == BitCastFn(NULLType, v)

PerformCast(v, to, bit) ==
    LET t == Underlying(to)
        n == t.name
        By(cast, bitcast) == (IF bit THEN bitcast ELSE cast).n
    IN  value(to,
          CASE t.kind = "pointer"    -> By(ptr_cast_fn(v), ptr_bit_cast_fn(v))
            [] n = "bool"            -> By(bool_cast_fn(v), bool_bit_cast_fn(v))
            [] n = "u8"              -> By(u8_cast_fn(v), u8_bit_cast_fn(v))
            [] n = "u16"             -> By(u16_cast_fn(v), u16_bit_cast_fn(v))
            [] n = "u32"             -> By(u32_cast_fn(v), u32_bit_cast_fn(v))
            [] n \in {"u64", "uint"} -> By(u64_cast_fn(v), u64_bit_cast_fn(v))
            [] n = "i8"              -> By(i8_cast_fn(v), i8_bit_cast_fn(v))
            [] n = "i16"             -> By(i16_cast_fn(v), i16_bit_cast_fn(v))
            [] n = "i32"             -> By(i32_cast_fn(v), i32_bit_cast_fn(v))
            [] n \in {"i64", "int"}  -> By(i64_cast_fn(v), i64_bit_cast_fn(v))
            [] n = "f32"             -> By(f32_cast_fn(v), f32_bit_cast_fn(v))
            [] n = "f64"             -> By(f64_cast_fn(v), f64_bit_cast_fn(v)))

\* A constant of an integer type fills the whole register.
InterpretConst(c, type) ==
    LET t == Underlying(type)
        int == IF c.k = "int" THEN c.n ELSE Quotient(c.n, 2)
    IN  CASE Flag(t, "float")   -> Written(type, IF c.k = "int" THEN 2 * c.n ELSE c.n)
          [] Flag(t, "boolean") -> value(type, IF c.n # 0 THEN 1 ELSE 0)
          [] OTHER              -> value(type, Pattern(int, Full))

IntForT(type, n) ==
    value(type, IF Flag(type, "boolean") THEN Pattern(n, Width(1)) ELSE Pattern(n, Full))

Load(m, I) ==
    LET at == m.regs[I.right].n
        size == GetTypeSize(I.type)
    IN  When(InMemory(m.mem, at, size), m,
             Assign(m, I.result, value(I.type, ReadBytes(m.mem, at, size))))

\* int and uint are written as the host's, whatever the target's width is.
Store(m, I) ==
    LET at == m.regs[I.left].n
        t == Underlying(I.type)
        size == IF t \in {Basic_int, Basic_uint} \/ t.kind = "pointer" THEN 8 ELSE GetTypeSize(t)
    IN  When(InMemory(m.mem, at, size), m,
             [m EXCEPT !.mem = WriteBytes(m.mem, at, size, m.regs[I.right].n)])

\* The whole index register counts, by the sign of the type it has.
IndexVM(m, I) ==
    LET i == m.regs[I.right]
        of == I.type.elem[1]
        kind == IF HasBasicFlag(Underlying(i.ty), "unsigned") THEN "unsigned" ELSE "signed"
    IN  Assign(m, I.result,
               value(PointerTo(of), Pattern(m.regs[I.left].n
                                            + GetTypeSize(of) * Number(i.n, kind, Full), Full)))

\* Arithmetic reads both registers as the instruction's type.
DoOp(m, I) ==
    LET t == I.type
        width == Width(GetTypeSize(t))
        x == Field(m.regs[I.left], t)
        y == Field(m.regs[I.right], t)
    IN  IF IsUntyped(t) \/ t.kind = "pointer" THEN Crash(m)
        ELSE When(~IsUndefined(I.op, x, y, Kind(t), width), m,
                  Assign(m, I.result, Written(t, Compute(I.op, x, y, Kind(t), width))))

\* A comparison reads both as the type the left register was written with.
BIN_COMP_OP(m, I) ==
    LET t == Underlying(m.regs[I.left].ty) IN
    IF IsUntyped(t) THEN Crash(m)
    ELSE Assign(m, I.result,
                value(Basic_bool, IF Compare(I.op, Field(m.regs[I.left], t), Field(m.regs[I.right], t))
                                  THEN 1 ELSE 0))

InterpretCast(m, I, v) ==
    LET from == I.info
        kinds == <<Kind(from), Kind(I.type)>>
        to == IF I.type = Basic_bool THEN Basic_u8 ELSE I.type
    IN  When(I.op = "bitcast" \/ ~Misses(Field(v, from), kinds[1], Kind(to), Width(GetTypeSize(to))), m,
             Assign(m, I.result, PerformCast([v EXCEPT !.ty = from], I.type, I.op = "bitcast")))

\* One instruction of Run.
Interpret(m, I) ==
    CASE I.op = "const" ->
           IF IsUntyped(I.type) THEN Crash(m) ELSE Assign(m, I.result, InterpretConst(I.info, I.type))
      [] I.op = "constint" -> Assign(m, I.result, IntForT(Underlying(I.type), I.info))
      [] I.op = "null"     -> Assign(m, I.result, value(I.type, 0))
      [] I.op = "load"     -> Load(m, I)
      [] I.op = "store"    -> Store(m, I)
      [] I.op = "index"    -> IndexVM(m, I)
      [] I.op = "ptrcast"  -> Assign(m, I.result, value(I.type, m.regs[I.right].n))
      [] I.op \in {"cast", "bitcast"} -> InterpretCast(m, I, m.regs[I.left])
      [] I.op = "ptrdiff"  ->
            Assign(m, I.result, value(I.type, Pattern(m.regs[I.left].n - m.regs[I.right].n, Full)))
      [] I.op = "~" -> Assign(m, I.result, Written(I.type, -1 - Field(m.regs[I.right], I.type)))
      [] I.op \in Arithmetic \cup Bitwise -> DoOp(m, I)
      [] I.op \in Comparisons -> BIN_COMP_OP(m, I)
      [] I.op = "call" -> Called(m, I, value(I.type, CallArg(m, I, 1)))
      [] I.op = "if" ->
            [m EXCEPT !.blk = IF Field(m.regs[I.result], Basic_u8) # 0 THEN I.left ELSE I.right]

-----------------------------------------------------------------------------
(* The generated code.  An LLVM type is [k, w]; a register has the one its  *)
(* instruction gave it, whatever the instruction's ReComp type says.        *)

LType(k, w) == [k |-> k, w |-> w]
NoLType == LType("none", 0)

ConvertToLLVMType(t) ==
    CASE t.kind = "enum"    -> LType("int", Width(GetTypeSize(t.elem[1])))
      [] t.kind = "pointer" -> LType("ptr", Full)
      [] t.kind = "basic" /\ IsUntyped(t)        -> NoLType
      [] t.kind = "basic" /\ Flag(t, "boolean")  -> LType("int", 1)
      [] t.kind = "basic" /\ Flag(t, "float")    -> LType("float", Width(GetTypeSize(t)))
      [] t.kind = "basic" /\ Flag(t, "integer")  -> LType("int", Width(GetTypeSize(t)))
      [] OTHER -> NoLType

RCCastTrunc(to) == IF Flag(to, "float") THEN "fptrunc" ELSE "trunc"
RCCastExt(from, to) == IF Flag(to, "float") THEN "fpext" ELSE IF Flag(from, "unsigned") THEN "zext" ELSE "sext"
RCCastFloatInt(from, to) ==
    IF Flag(from, "float") THEN IF Flag(to, "unsigned") THEN "fptoui" ELSE "fptosi"
    ELSE IF Flag(from, "unsigned") THEN "uitofp" ELSE "sitofp"

RCCast(a, b) ==
    LET from == Underlying(a)
        to == Underlying(b)
        shrinks == GetTypeSize(to) < GetTypeSize(from)
        grows   == GetTypeSize(to) > GetTypeSize(from)
    IN  IF from.kind = "pointer" THEN "ptrtoint"
        ELSE IF to.kind = "pointer" THEN "inttoptr"
        ELSE IF Flag(from, "float") # Flag(to, "float") THEN RCCastFloatInt(from, to)
        ELSE IF shrinks THEN RCCastTrunc(to)
        ELSE IF grows THEN RCCastExt(from, to)
        ELSE "none"

\* What the verifier of LLVM asks of a cast.
CastIsLegal(opcode, from, to) ==
    CASE opcode = "trunc"          -> from.k = "int" /\ to.k = "int" /\ from.w > to.w
      [] opcode \in {"zext", "sext"} -> from.k = "int" /\ to.k = "int" /\ from.w < to.w
      [] opcode = "fptrunc"        -> from.k = "float" /\ to.k = "float" /\ from.w > to.w
      [] opcode = "fpext"          -> from.k = "float" /\ to.k = "float" /\ from.w < to.w
      [] opcode \in {"fptoui", "fptosi"} -> from.k = "float" /\ to.k = "int"
      [] opcode \in {"uitofp", "sitofp"} -> from.k = "int" /\ to.k = "float"
      [] opcode = "ptrtoint"       -> from.k = "ptr" /\ to.k = "int"
      [] opcode = "inttoptr"       -> from.k = "int" /\ to.k = "ptr"
      [] opcode = "none"           -> from = to
      [] opcode = "bitcast"        -> from.w = to.w /\ (from.k = "ptr") = (to.k = "ptr")

\* The type of the register an instruction writes.
ResultLType(types, I) ==
    CASE I.op \in Arithmetic \cup Bitwise -> types[I.left]
      [] I.op = "~" -> types[I.right]
      [] I.op \in Comparisons -> LType("int", 1)
      [] I.op \in {"index", "alloc"} -> LType("ptr", Full)
      [] I.op = "ptrdiff" -> ConvertToLLVMType(Basic_uint)
      [] I.op = "cast" /\ RCCast(I.info, I.type) = "none" -> types[I.left]
      [] OTHER -> ConvertToLLVMType(I.type)

\* Whether the operands have the types the LLVM instruction needs.
IsWellTyped(types, I) ==
    LET T(r) == types[r].k
        Same == types[I.left] = types[I.right]
    IN  CASE I.op \in Arithmetic ->
               Same /\ T(I.left) = (IF IsFloatOrVec(I.type) THEN "float" ELSE "int")
          [] I.op \in Bitwise -> Same /\ T(I.left) = "int"
          [] I.op = "~" -> T(I.right) = "int"
          [] I.op \in Comparisons ->
               Same /\ (IF Flag(I.type, "float") THEN T(I.left) = "float" ELSE T(I.left) \in {"int", "ptr"})
          [] I.op = "load"  -> T(I.right) = "ptr" /\ ConvertToLLVMType(I.type) # NoLType
          [] I.op = "store" ->
               LET lt == ConvertToLLVMType(I.type) IN
               /\ T(I.left) = "ptr"
               \* A number as wide as a pointer may be stored as one.
               /\ types[I.right] = lt \/ (lt.k = "ptr" /\ types[I.right] = LType("int", lt.w))
          [] I.op = "index" -> T(I.left) = "ptr" /\ T(I.right) = "int"
          [] I.op = "ptrdiff" -> T(I.left) = "ptr" /\ T(I.right) = "ptr" /\ I.type.elem # <<>>
          [] I.op = "ptrcast" -> T(I.right) = "ptr"
          [] I.op = "cast" ->
               CastIsLegal(RCCast(I.info, I.type), types[I.left], ConvertToLLVMType(I.type))
          [] I.op = "bitcast" -> CastIsLegal("bitcast", types[I.left], ConvertToLLVMType(I.type))
          [] I.op \in {"const", "constint", "null", "alloc"} -> ConvertToLLVMType(I.type) # NoLType
          [] I.op = "if" -> types[I.result] = LType("int", 1)
          [] I.op = "call" ->
               \A i \in DOMAIN I.info.args :
                  types[I.info.args[i]] = ConvertToLLVMType(FnType[I.info.f].elem[i])
          [] I.op = "ret" -> I.left # Nowhere => types[I.left] = ConvertToLLVMType(I.type)
          [] OTHER -> TRUE

FromConstVal(c, type) ==
    LET t == Underlying(type)
        lt == ConvertToLLVMType(t)
    IN  IF Flag(t, "float") THEN Pattern(IF c.k = "int" THEN 2 * c.n ELSE c.n, lt.w)
        ELSE Pattern(IF c.k = "int" THEN c.n ELSE Quotient(c.n, 2), lt.w)

BuildCast(m, I, opcode) ==
    LET from == m.regs[I.left]
        to == IF opcode = "none" THEN from.lt ELSE ConvertToLLVMType(I.type)
        kind == CASE opcode \in {"fptoui", "fptosi", "fptrunc", "fpext"} -> "float"
                  [] opcode \in {"sext", "sitofp"} -> "signed"
                  [] OTHER -> "unsigned"
        into == CASE opcode \in {"fptosi", "sext"} -> "signed"
                  [] opcode \in {"sitofp", "uitofp", "fptrunc", "fpext"} -> "float"
                  [] OTHER -> "unsigned"
        x == Number(from.n, kind, from.lt.w)
    IN  When(~Misses(x, kind, into, to.w), m,
             Assign(m, I.result, [lt |-> to, n |-> Pattern(Convert(x, kind, into), to.w)]))

\* One instruction of the code RCGenerateInstruction asks for.
RunGenerated(m, I) ==
    LET lt == ResultLType([r \in DOMAIN m.regs |-> m.regs[r].lt], I)
        Is(n) == Assign(m, I.result, [lt |-> lt, n |-> n])
        Bytes(w) == (w + ByteBits - 1) \div ByteBits
        l == m.regs[I.left]
        r == m.regs[I.right]
        unsigned == HasBasicFlag(I.type, "unsigned")
        kind == IF IsFloatOrVec(I.type) THEN "float" ELSE IF unsigned THEN "unsigned" ELSE "signed"
        x == Number(l.n, kind, l.lt.w)
        y == Number(r.n, kind, r.lt.w)
        size == GetTypeSize(I.type)
    IN  CASE I.op \in Arithmetic \cup Bitwise ->
               When(~IsUndefined(I.op, x, y, kind, l.lt.w), m,
                    Is(Pattern(Compute(I.op, x, y, kind, l.lt.w), l.lt.w)))
          [] I.op \in Comparisons -> Is(IF Compare(I.op, x, y) THEN 1 ELSE 0)
          [] I.op = "~" -> Is(Pattern(-1 - r.n, r.lt.w))
          [] I.op = "const" -> Is(FromConstVal(I.info, I.type))
          [] I.op = "constint" -> Is(Pattern(I.info, lt.w))
          [] I.op = "null" -> Is(0)
          [] I.op = "load" ->
               When(InMemory(m.mem, r.n, size), m, Is(ReadBytes(m.mem, r.n, size) % (2^lt.w)))
          [] I.op = "store" ->
               When(InMemory(m.mem, l.n, Bytes(r.lt.w)), m,
                    [m EXCEPT !.mem = WriteBytes(m.mem, l.n, Bytes(r.lt.w), r.n)])
          [] I.op = "index" ->
               Is(Pattern(l.n + GetTypeSize(I.type.elem[1]) * Number(r.n, "signed", r.lt.w), Full))
          [] I.op = "ptrdiff" ->
               Is(Pattern(Quotient(l.n - r.n, GetTypeSize(I.type.elem[1])), Full))
          [] I.op = "ptrcast" -> Is(r.n)
          [] I.op = "bitcast" -> Is(l.n)
          [] I.op = "cast" -> BuildCast(m, I, RCCast(I.info, I.type))
          [] I.op = "call" -> Called(m, I, [lt |-> lt, n |-> CallArg(m, I, 1)])
          [] I.op = "if" -> [m EXCEPT !.blk = IF m.regs[I.result].n = 1 THEN I.left ELSE I.right]

-----------------------------------------------------------------------------
(* What the two machines have in common: jumps and returns. *)

Step(m, I, Local(_, _)) ==
    IF m.out # "running" THEN m
    ELSE CASE I.op = "alloc" -> m
           [] I.op = "jmp"   -> [m EXCEPT !.blk = I.left]
           [] I.op = "ret"   ->
                 [m EXCEPT !.out = "returned",
                           !.result = IF I.left = Nowhere THEN 0
                                      ELSE Pattern(m.regs[I.left].n, Width(GetTypeSize(I.type)))]
           [] I.op = "assert_failed" -> [m EXCEPT !.out = "assertion failed"]
           [] OTHER -> Local(m, I)

RunBlock(m, code, Local(_, _)) == FoldLeft(LAMBDA s, I : Step(s, I, Local), m, code[m.blk])
=============================================================================
