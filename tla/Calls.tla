-------------------------------- MODULE Calls --------------------------------
(***************************************************************************)
(* How a call passes its arguments and takes its result.  The lowering      *)
(* decides it at four places: the function's own type                       *)
(* (FixFunctionTypeForCallConv), the arguments of a call                    *)
(* (FixCallWithComplexParameter), the call's result (AST_CALL) and return   *)
(* (AST_RETURN); generated code and the interpreter each put a parameter    *)
(* together again (OP_ARG).  The places decide on their own, for each of    *)
(* the targets, and have to agree.                                          *)
(*                                                                         *)
(* A byte is <<i, o, age>>: byte o of the variable that argument i names    *)
(* (0: the variable that is returned), as it was when the argument was      *)
(* evaluated ("old") or after a later assignment ("new").  A value has the  *)
(* bytes in its register; an address has an object, or the bytes of the     *)
(* memory it alone points to.                                               *)
(***************************************************************************)
EXTENDS TypeForms

CONSTANTS Targets,      \* of platform and architecture
          Functions,    \* signatures: returns, params, varargs, foreign
          Extras,       \* what a variadic call may pass behind its parameters
          DataTypes,    \* the types of variables, members and results
          TypeSize(_, _),                \* of a type, at a register's bytes (GetTypeSize)
          MemberOffset(_, _, _)         \* of a struct's member (GetStructMemberOffset)

Address == NULLType                         \* what an address is to LLVM
FloatVector == VectorOf("float", 2)
Unsigned(size) == Basic(CASE size = 8 -> "u64" [] size = 4 -> "u32"
                          [] size = 2 -> "u16" [] size = 1 -> "u8")

ReturnsToType(rs) == IF rs = <<>> THEN NoType ELSE IF Len(rs) = 1 THEN rs[1]
                     ELSE StructOf("returns", rs, {})

ASSUME TargetsAssumption == Targets \subseteq {"unix64", "windows64", "x86", "wasm32"}

\* A variable's type is no untyped number's, a struct has members (the
\* lowering asserts it), an enum is over an integer (the checker reports
\* others).
ASSUME TypesAssumption ==
    \A t \in DataTypes :
        /\ t.kind = "basic" => t = Basic(t.name) /\ ~IsUntyped(t)
        /\ t.kind = "struct" => t.elem \in Seq(DataTypes) /\ t.elem # <<>>
        /\ t.kind = "enum" => Flag(t.elem[1], "integer")

ASSUME FunctionsAssumption ==
    /\ Functions \subseteq [returns : Seq(DataTypes), params : Seq(DataTypes),
                            varargs : BOOLEAN, foreign : BOOLEAN]
    /\ \A f \in Functions : f.returns # <<>> => ReturnsToType(f.returns) \in DataTypes
    /\ Extras \subseteq Seq(DataTypes)

\* Sizes of the types that decide something, and where members lie: inside
\* their struct, one behind the other unless it is a union.
ASSUME LayoutAssumption ==
    \A w \in {4, 8} :
        /\ \A t \in DataTypes : TypeSize(w, t) \in Nat
        /\ \A n \in {1, 2, 4, 8} : TypeSize(w, Unsigned(n)) = n
        /\ TypeSize(w, Basic("f32")) = 4 /\ TypeSize(w, Basic("f64")) = 8
        /\ TypeSize(w, FloatVector) = 8 /\ TypeSize(w, Basic_string) = 2 * w
        /\ \A t \in DataTypes : t.kind = "struct" =>
              LET At(i) == MemberOffset(w, t, i)
                  End(i) == At(i) + TypeSize(w, t.elem[i])
              IN /\ At(1) = 0
                 /\ \A i \in DOMAIN t.elem : At(i) \in Nat /\ End(i) <= TypeSize(w, t)
                 /\ \A i \in DOMAIN t.elem : i < Len(t.elem) =>
                       IF "union" \in t.flags THEN At(i + 1) = 0
                       ELSE /\ At(i + 1) >= End(i)
                            /\ t.elem[i] = Basic("f32") /\ t.elem[i + 1] = Basic("f32")
                               => At(i + 1) = End(i)

VARIABLES call,         \* target, function, arguments written (the rest of
                        \* params has defaults), types of the variadic ones
          phase,
          at,           \* the next argument or parameter
          passed,       \* Args of the call
          changed,      \* variables assigned to after they were evaluated
          machine,      \* who runs the call
          frame,        \* what the callee's parameters hold
          returned,     \* the operand of OP_RET
          slot          \* the memory of the caller that takes the result
vars == <<call, phase, at, passed, changed, machine, frame, returned, slot>>

-----------------------------------------------------------------------------
(* Types and targets *)

Width(p) == IF p \in {"unix64", "windows64"} THEN 8 ELSE 4
Wasm(p) == p = "wasm32"
Windows(p) == p = "windows64"
IsSysVSystem(p) == ~Wasm(p) /\ ~Windows(p)

Size(p, t) == TypeSize(Width(p), t)
Offset(p, t, i) == MemberOffset(Width(p), t, i)

MAX_PARAMETER_SIZE == 16

IsStructAllFloats(t) == \A i \in DOMAIN t.elem : Flag(t.elem[i], "float")

\* A Wasm parameter is in a register if it has one member that fits there.
OneMember(p, t) == Len(t.elem) = 1 /\ Size(p, t) <= 8 /\ IsLoadableType(t.elem[1])

CanGetPointerAfterSize(p, t, size) == \E i \in DOMAIN t.elem : Offset(p, t, i) = size

\* Mutant: the second register always holds the second member.
SecondMember(p, t, size) == IF Len(t.elem) > 1 THEN 2 ELSE 1

GetPointerPassIdx(p, t, size) ==
    CHOOSE i \in DOMAIN t.elem : /\ Offset(p, t, i) = size
                                 /\ \A j \in 1 .. i - 1 : Offset(p, t, j) # size

\* Two f32 in a row share a vector.
SharesVector(t, i) ==
    i < Len(t.elem) /\ t.elem[i] = Basic("f32") /\ t.elem[i + 1] = Basic("f32")

\* The registers of a struct of floats from a member on; every part is the
\* type it is passed as and the member it begins with.
PartsFrom(t) ==
    LET parts[i \in 1 .. Len(t.elem) + 1] ==
            IF i > Len(t.elem) THEN <<>>
            ELSE IF SharesVector(t, i)
            THEN <<[type |-> FloatVector, member |-> i]>> \o parts[i + 2]
            ELSE <<[type |-> t.elem[i], member |-> i]>> \o parts[i + 1]
    IN parts

FloatParts(t) == PartsFrom(t)[1]

IsRetTypePassInPointer(p, t) ==
    \/ t.kind = "slice"
    \/ /\ t.kind # "function" /\ ~IsLoadableType(t)
       /\ IF Size(p, t) = 8 THEN p \in {"x86", "wasm32"}
                            ELSE Size(p, t) \notin {1, 2, 4}

ComplexTypeToSizeType(p, t) == Unsigned(Size(p, t))

\* Mutant: a pair of floats comes back as its first.
FirstFloat(t) == t.elem[1]

AllFloatsStructToReturnType(t) == IF Len(t.elem) = 1 THEN t.elem[1] ELSE FloatVector

\* It makes a struct of two other floats, which LLVM's function type returns
\* through memory once more, and asserts that there are no three.
NoReturnType(p, t) ==
    /\ t.kind = "struct" /\ IsStructAllFloats(t) /\ IsSysVSystem(p)
    /\ ~IsRetTypePassInPointer(p, t)
    /\ Len(t.elem) > 1 /\ t.elem # <<Basic("f32"), Basic("f32")>>

\* The register of a result, as the caller and the return statement have it.
ReturnedWrongType(p, t) ==
    IF t.kind = "function" THEN Address
    ELSE IF t.kind \notin {"struct", "array"} THEN t
    ELSE IF t.kind = "struct" /\ IsStructAllFloats(t) /\ IsSysVSystem(p)
    THEN AllFloatsStructToReturnType(t)
    ELSE ComplexTypeToSizeType(p, t)

\* The first i of some sequences, joined.
Joined(qs) == LET upTo[i \in 0 .. Len(qs)] == IF i = 0 THEN <<>> ELSE upTo[i - 1] \o qs[i]
              IN upTo

-----------------------------------------------------------------------------
(* The function's type: FixFunctionTypeForCallConv.  A call c has a target,  *)
(* fn, given and extra.                                                      *)

Location(load, types) == [load |-> load, types |-> types]

FixFunctionComplexParameter(p, t) ==
    LET size == Size(p, t)
        parts == FloatParts(t)
    IN IF t.kind # "struct" \/ size > MAX_PARAMETER_SIZE
       THEN Location("normal", <<Address>>)
       ELSE IF Wasm(p)
       THEN IF OneMember(p, t) THEN Location("int", <<t.elem[1]>>)
                               ELSE Location("normal", <<Address>>)
       ELSE IF IsStructAllFloats(t) /\ IsSysVSystem(p)
       THEN Location("floats", [k \in DOMAIN parts |-> parts[k].type])
       ELSE IF size \in {1, 2, 4, 8}
       THEN Location("int", <<Unsigned(size)>>)
       ELSE IF size \in {10, 12, 16} /\ ~Windows(p) /\ CanGetPointerAfterSize(p, t, 8)
       THEN Location("multi int", <<Unsigned(8), Unsigned(size - 8)>>)
       ELSE Location("normal", <<Address>>)

Parameter(p, t) == IF IsLoadableType(t) THEN Location("normal", <<t>>)
                                        ELSE FixFunctionComplexParameter(p, t)

ResultType(c) == ReturnsToType(c.fn.returns)
Returns(c) == c.fn.returns # <<>>

ResultInPointer(c) == Returns(c) /\ IsRetTypePassInPointer(c.target, ResultType(c))

\* In Wasm only a struct around one member is returned in a register.
WasmAggregate(c) == Wasm(c.target) /\ ResultType(c).kind \in {"struct", "array"}
WrapsOne(t) == t.kind = "struct" /\ Len(t.elem) = 1 /\ IsLoadableType(t.elem[1])

RetInPtr(c) ==
    ResultInPointer(c) \/ (Returns(c) /\ WasmAggregate(c) /\ ~WrapsOne(ResultType(c)))

DeclaredReturn(c) ==
    IF ~Returns(c) \/ RetInPtr(c) THEN NoType
    ELSE IF WasmAggregate(c) THEN ResultType(c).elem[1]
    ELSE ReturnedWrongType(c.target, ResultType(c))

ParameterTypes(c) ==
    Joined([i \in DOMAIN c.fn.params |-> Parameter(c.target, c.fn.params[i]).types])

\* LLVMCreateFunctionType adds the slice of the variadic arguments.
Declared(c) ==
    (IF RetInPtr(c) THEN <<Address>> ELSE <<>>) \o ParameterTypes(c)[Len(c.fn.params)]
    \o (IF c.fn.varargs /\ ~c.fn.foreign THEN <<Address>> ELSE <<>>)

\* Where the values of parameter i begin among those of the function.
Start(c, i) == (IF RetInPtr(c) THEN 1 ELSE 0) + Len(ParameterTypes(c)[i - 1]) + 1

-----------------------------------------------------------------------------
(* Memory and values *)

TypeOf(c, i) == IF i = 0 THEN ResultType(c)
                ELSE IF i <= Len(c.fn.params) THEN c.fn.params[i]
                ELSE c.extra[i - Len(c.fn.params)]

Bytes(c, i, age) == [o \in 1 .. Size(c.target, TypeOf(c, i)) |-> <<i, o, age>>]
Now(c, later, i) == Bytes(c, i, IF i \in later THEN "new" ELSE "old")

\* A register's part behind the variable's end is unknown.
Loaded(c, i, t, offset) ==
    [type |-> t, object |-> -1,
     bytes |-> [o \in 1 .. Size(c.target, t) |->
                   IF offset + o <= Size(c.target, TypeOf(c, i))
                   THEN <<i, offset + o, "old">> ELSE <<>>]]
AddressOf(i) == [type |-> Address, object |-> i, bytes |-> <<>>]
AddressOfMemory(bytes) == [type |-> Address, object |-> -1, bytes |-> bytes]

AllocateAndCopy(c, i) == AddressOfMemory(Bytes(c, i, "old"))

Pointee(c, later, v) == IF v.object = -1 THEN v.bytes ELSE Now(c, later, v.object)

\* Expressions of a type that is not loadable are addresses.
HasAddress(t) == ~IsLoadableType(t) /\ t.kind # "function"
Expression(c, i) ==
    LET t == TypeOf(c, i)
    IN IF HasAddress(t) THEN AddressOf(i)
       ELSE Loaded(c, i, t, 0)

PassAddress(c, i) == <<IF c.fn.foreign THEN AllocateAndCopy(c, i) ELSE AddressOf(i)>>

\* Mutant: Windows passes two registers too.
PassEverywhere(c, i) ==
    LET t == TypeOf(c, i)
    IN IF t.kind = "struct" /\ Size(c.target, t) \in {10, 12, 16}
       THEN <<Loaded(c, i, Unsigned(8), 0), Loaded(c, i, Unsigned(Size(c.target, t) - 8), 8)>>
       ELSE <<Expression(c, i)>>

FixCallWithComplexParameter(c, i) ==
    LET p == c.target
        t == TypeOf(c, i)
        size == Size(p, t)
        parts == FloatParts(t)
    IN IF t.kind = "function" THEN <<Expression(c, i)>>
       ELSE IF t.kind # "struct" THEN PassAddress(c, i)
       ELSE IF Wasm(p)
       THEN IF OneMember(p, t) THEN <<Loaded(c, i, t.elem[1], 0)>> ELSE PassAddress(c, i)
       ELSE IF size > MAX_PARAMETER_SIZE THEN PassAddress(c, i)
       ELSE IF IsStructAllFloats(t) /\ IsSysVSystem(p)
       THEN [k \in DOMAIN parts |-> Loaded(c, i, parts[k].type, Offset(p, t, parts[k].member))]
       ELSE IF size \in {1, 2, 4, 8} THEN <<Loaded(c, i, Unsigned(size), 0)>>
       ELSE IF size \in {10, 12, 16} /\ ~Windows(p) /\ CanGetPointerAfterSize(p, t, 8)
       THEN <<Loaded(c, i, Unsigned(8), 0),
              Loaded(c, i, Unsigned(size - 8), Offset(p, t, GetPointerPassIdx(p, t, 8)))>>
       ELSE PassAddress(c, i)

Lowered(c, i) == IF IsLoadableType(TypeOf(c, i)) THEN <<Expression(c, i)>>
                                                 ELSE FixCallWithComplexParameter(c, i)

\* The variadic arguments of a native function: each is copied to memory of
\* its own; the callee gets the address of a slice of types and addresses.
ExtraBytes(c) == Joined([e \in DOMAIN c.extra |-> Bytes(c, Len(c.fn.params) + e, "old")])
Slice(c) == AddressOfMemory(ExtraBytes(c)[Len(c.extra)])

-----------------------------------------------------------------------------
(* The caller: AST_CALL *)

\* GetDefaultValues reports a default in front of the ....
CallSites ==
    UNION {[target : Targets, fn : {f},
            given : IF f.varargs THEN {Len(f.params)} ELSE 0 .. Len(f.params),
            extra : IF f.varargs THEN Extras ELSE {<<>>}] : f \in Functions}

Init ==
    /\ call \in CallSites
    /\ phase = "call" /\ at = 1 /\ passed = <<>> /\ changed = {}
    /\ machine = "none" /\ frame = <<>> /\ returned = AddressOfMemory(<<>>) /\ slot = <<>>

BeginCall ==
    /\ phase = "call"
    /\ phase' = IF Returns(call) /\ NoReturnType(call.target, ResultType(call))
                THEN "unlowered" ELSE "arguments"
    /\ passed' = IF ResultInPointer(call) THEN <<AddressOf(0)>> ELSE <<>>
    /\ UNCHANGED <<call, at, changed, machine, frame, returned, slot>>

Push(values) ==
    /\ passed' = passed \o values
    /\ at' = at + 1
    /\ UNCHANGED <<call, phase, changed, machine, frame, returned, slot>>

PassArgument == phase = "arguments" /\ at <= call.given /\ Push(Lowered(call, at))

\* A default argument is pushed as its expression is.
PassDefault ==
    /\ phase = "arguments" /\ at > call.given /\ at <= Len(call.fn.params)
    /\ Push(<<Expression(call, at)>>)

PassForeignExtra ==
    /\ phase = "arguments" /\ call.fn.foreign
    /\ at > Len(call.fn.params) /\ at <= Len(call.fn.params) + Len(call.extra)
    /\ Push(Lowered(call, at))

PassSlice ==
    /\ phase = "arguments" /\ call.fn.varargs /\ ~call.fn.foreign
    /\ at = Len(call.fn.params) + 1
    /\ Push(<<Slice(call)>>)

\* The expression of a later argument assigns to the variable an earlier
\* one named.
Reassign(i) ==
    /\ phase = "arguments" /\ i < at /\ at <= call.given /\ changed = {}
    /\ HasAddress(TypeOf(call, i))
    /\ changed' = {i}
    /\ UNCHANGED <<call, phase, at, passed, machine, frame, returned, slot>>

Arguments(c) == Len(c.fn.params) + (IF c.fn.foreign THEN Len(c.extra)
                                    ELSE IF c.fn.varargs THEN 1 ELSE 0)

\* Every pointer is the same to LLVM.
LLVMType(t) == IF t.kind \in {"pointer", "function"} THEN Address ELSE t
Registers(types) == [k \in DOMAIN types |-> LLVMType(types[k])]
TypesOf(values) == [k \in DOMAIN values |-> values[k].type]

\* A variadic foreign function takes what comes behind its parameters.
Fits(c, values) ==
    LET types == TypesOf(values)
        n == IF c.fn.varargs /\ c.fn.foreign THEN Len(Declared(c)) ELSE Len(types)
    IN n <= Len(types) /\ Registers(SubSeq(types, 1, n)) = Registers(Declared(c))

\* OP_CALL.  LLVM refuses a call that does not fit; the interpreter would
\* read other registers.
Call(m) ==
    /\ phase = "arguments" /\ at = Arguments(call) + 1
    /\ machine' = m /\ at' = 1
    /\ phase' = CASE call.fn.foreign /\ m = "interpreter" -> "foreign"
                  [] ~call.fn.foreign /\ Fits(call, passed) -> "callee"
                  [] call.fn.foreign /\ m = "generated" /\ Fits(call, passed) -> "outside"
                  [] OTHER -> "misfit"
    /\ UNCHANGED <<call, passed, changed, frame, returned, slot>>

\* The interpreter has no address for a foreign function that was not loaded.
NotLoaded ==
    /\ phase = "arguments" /\ at = Arguments(call) + 1 /\ call.fn.foreign
    /\ machine' = "interpreter" /\ phase' = "reported"
    /\ UNCHANGED <<call, at, passed, changed, frame, returned, slot>>

-----------------------------------------------------------------------------
(* The callee: OP_ARG for each parameter, then AST_RETURN and OP_RET *)

Write(offset, bytes) == [offset |-> offset, bytes |-> bytes]

\* Memory of n bytes in which some are written: the last write of a byte
\* counts.  (Only a vector stored to a union of two f32 passes the end.)
Hits(writes, o) == {w \in DOMAIN writes : /\ writes[w].offset < o
                                          /\ o <= writes[w].offset + Len(writes[w].bytes)}
LastHit(writes, o) == CHOOSE w \in Hits(writes, o) : \A x \in Hits(writes, o) : x <= w
Written(n, writes) ==
    [o \in 1 .. n |->
        IF Hits(writes, o) = {} THEN <<>>
        ELSE writes[LastHit(writes, o)].bytes[o - writes[LastHit(writes, o)].offset]]

GeneratedFloats(p, t, values) ==
    [k \in DOMAIN values |-> Write(Offset(p, t, FloatParts(t)[k].member), values[k].bytes)]

\* The interpreter keeps its own offset and leaves out the last part if that
\* is a single member.
InterpreterParts(t) ==
    LET parts == FloatParts(t)
    IN IF parts[Len(parts)].type = FloatVector THEN parts
       ELSE SubSeq(parts, 1, Len(parts) - 1)

InterpreterOffsets(p, t) ==
    LET parts == InterpreterParts(t)
        offset[k \in DOMAIN parts] ==
            IF k = 1 THEN 0 ELSE offset[k - 1] + Size(p, parts[k - 1].type)
    IN offset

InterpreterFloats(p, t, values) ==
    [k \in DOMAIN InterpreterParts(t) |-> Write(InterpreterOffsets(p, t)[k], values[k].bytes)]

\* It stores a pair with an instruction that needs an address divisible by 16.
Misaligned(p, t) ==
    \E k \in DOMAIN InterpreterParts(t) :
        InterpreterParts(t)[k].type = FloatVector /\ InterpreterOffsets(p, t)[k] % 16 # 0

\* What machine m puts together for a parameter of type t.
Received(c, later, m, t, values) ==
    LET p == c.target
        load == Parameter(p, t).load
    IN CASE load = "normal" -> IF IsLoadableType(t) THEN values[1].bytes
                                                    ELSE Pointee(c, later, values[1])
         [] load = "int" -> Written(Size(p, t), <<Write(0, values[1].bytes)>>)
         [] load = "multi int" ->
               Written(Size(p, t),
                       <<Write(0, values[1].bytes),
                         Write(IF m = "interpreter" THEN 8
                               ELSE Offset(p, t, GetPointerPassIdx(p, t, 8)), values[2].bytes)>>)
         [] load = "floats" ->
               Written(Size(p, t), IF m = "interpreter" THEN InterpreterFloats(p, t, values)
                                                        ELSE GeneratedFloats(p, t, values))

\* The values of parameter i among those that were passed.
ValuesOf(c, values, i) ==
    SubSeq(values, Start(c, i),
           Start(c, i) + Len(Parameter(c.target, c.fn.params[i]).types) - 1)

StoresBadly(c, m, t) ==
    m = "interpreter" /\ Parameter(c.target, t).load = "floats" /\ Misaligned(c.target, t)

TakeParameter ==
    /\ phase = "callee" /\ at <= Len(call.fn.params)
    /\ IF StoresBadly(call, machine, call.fn.params[at])
       THEN phase' = "fault" /\ UNCHANGED <<at, frame>>
       ELSE /\ frame' = Append(frame, Received(call, changed, machine, call.fn.params[at],
                                               ValuesOf(call, passed, at)))
            /\ at' = at + 1 /\ UNCHANGED phase
    /\ UNCHANGED <<call, passed, changed, machine, returned, slot>>

\* The slice lies behind the last named parameter.  Without one the
\* interpreter reads before the array of locations, generated code takes the
\* first value of the call.
TakeSlice ==
    /\ phase = "callee" /\ call.fn.varargs /\ at = Len(call.fn.params) + 1
    /\ IF call.fn.params = <<>> /\ machine = "interpreter"
       THEN phase' = "fault" /\ UNCHANGED <<at, frame>>
       ELSE /\ LET place == IF call.fn.params = <<>> THEN 1 ELSE Start(call, at)
               IN frame' = Append(frame, Pointee(call, changed, passed[place]))
            /\ at' = at + 1 /\ UNCHANGED phase
    /\ UNCHANGED <<call, passed, changed, machine, returned, slot>>

\* AST_RETURN evaluates the expression and loads it if it goes in a register.
ReturnOperand(c) ==
    IF ResultType(c).kind \in {"struct", "array"} /\ ~ResultInPointer(c)
    THEN Loaded(c, 0, ReturnedWrongType(c.target, ResultType(c)), 0)
    ELSE Expression(c, 0)

EvaluateReturn ==
    /\ phase = "callee" /\ at = Len(call.fn.params) + (IF call.fn.varargs THEN 2 ELSE 1)
    /\ phase' = "return"
    /\ returned' = IF Returns(call) THEN ReturnOperand(call) ELSE returned
    /\ UNCHANGED <<call, at, passed, changed, machine, frame, slot>>

\* Deferred statements run between the expression and OP_RET.
Defer ==
    /\ phase = "return" /\ Returns(call) /\ 0 \notin changed
    /\ changed' = changed \cup {0}
    /\ UNCHANGED <<call, phase, at, passed, machine, frame, returned, slot>>

\* OP_RET, and the caller's store of a register to memory of the result type.
Return ==
    /\ phase = "return"
    /\ phase' = "returned"
    /\ slot' = IF ~Returns(call) THEN slot
               ELSE IF RetInPtr(call) THEN Pointee(call, changed, returned)
               ELSE Written(Size(call.target, ResultType(call)), <<Write(0, returned.bytes)>>)
    /\ UNCHANGED <<call, at, passed, changed, machine, frame, returned>>

-----------------------------------------------------------------------------
(* PerformForeignFunctionCall: the values of the call, one by one, as the    *)
(* types of the function before it was lowered.                              *)

IsAggregate(t) == t.kind \in {"slice", "struct"} \/ IsString(t)
IsFunctionPointer(t) == t.kind = "pointer" /\ t.elem # <<>> /\ t.elem[1].kind = "function"

\* What value i is taken for: variadic ones by their own type.
ForeignType(c, values, i) ==
    IF i > Len(c.fn.params) THEN values[i].type ELSE Underlying(c.fn.params[i])

\* MakeAggr describes an aggregate's members; the library reads them there.
MakeAggr(c, later, v) == Pointee(c, later, v)

ForeignBytes(c, later, t, v) ==
    IF IsAggregate(t) THEN MakeAggr(c, later, v)
    ELSE IF v.type = Address THEN Pointee(c, later, v) ELSE v.bytes

\* A number is read as an address, or the type has no case.
NotForeign(t, v) == \/ IsAggregate(t) /\ v.type # Address
                    \/ t.kind \in {"vector", "function"}

PushForeign ==
    /\ phase = "foreign" /\ at <= Len(passed)
    /\ LET t == ForeignType(call, passed, at)
       IN IF NotForeign(t, passed[at])
          THEN phase' = "fault" /\ UNCHANGED <<at, frame>>
          ELSE /\ frame' = Append(frame, ForeignBytes(call, changed, t, passed[at]))
               /\ at' = at + 1 /\ UNCHANGED phase
    /\ UNCHANGED <<call, passed, changed, machine, returned, slot>>

\* A function of the program is checked as a callback: the check is given the
\* pointer's type and asserts that it is a function's.
PushCallback ==
    /\ phase = "foreign" /\ at <= Len(passed)
    /\ IsFunctionPointer(ForeignType(call, passed, at))
    /\ phase' = "fault"
    /\ UNCHANGED <<call, at, passed, changed, machine, frame, returned, slot>>

\* The result by its kind.  The interpreter has the address of an aggregate
\* where the lowered code expects its register or has reserved memory.
ForeignReturn ==
    /\ phase = "foreign" /\ at = Len(passed) + 1
    /\ phase' = IF Len(call.fn.returns) > 1 THEN "reported"
                ELSE IF /\ Returns(call)
                        /\ ResultType(call).kind \in {"enum", "array", "vector", "function"}
                THEN "fault" ELSE "returned"
    /\ slot' = IF Returns(call) /\ IsLoadableType(ResultType(call))
               THEN Bytes(call, 0, "old") ELSE <<>>
    /\ UNCHANGED <<call, at, passed, changed, machine, frame, returned>>

Stopped == phase \in {"returned", "outside", "misfit", "fault", "reported", "unlowered"}

Finished == Stopped /\ UNCHANGED vars

Next ==
    \/ BeginCall \/ PassArgument \/ PassDefault \/ PassForeignExtra \/ PassSlice
    \/ \E i \in 1 .. Len(call.fn.params) : Reassign(i)
    \/ \E m \in {"generated", "interpreter"} : Call(m)
    \/ NotLoaded
    \/ TakeParameter \/ TakeSlice \/ EvaluateReturn \/ Defer \/ Return
    \/ PushForeign \/ PushCallback \/ ForeignReturn
    \/ Finished

Spec == Init /\ [][Next]_vars

-----------------------------------------------------------------------------
(* What a call promises *)

\* Padding does not travel: only the bytes of a struct's members count.
MemberBytes(p, t) ==
    IF t.kind # "struct" THEN 1 .. Size(p, t)
    ELSE UNION {Offset(p, t, i) + 1 .. Offset(p, t, i) + Size(p, t.elem[i]) : i \in DOMAIN t.elem}

SameMembers(p, t, a, b) == Len(a) = Len(b) /\ \A o \in MemberBytes(p, t) : a[o] = b[o]

PassedByAddress(p, t) == HasAddress(t) /\ Parameter(p, t).load = "normal"
PassedByMembers(p, t) == ~IsLoadableType(t) /\ Parameter(p, t).load # "normal"

\* Known: Wasm's function type returns more through memory than its callers
\* and its return statements do.
SmallWasmResult(c) ==
    /\ Returns(c) /\ WasmAggregate(c) /\ ~ResultInPointer(c)
    /\ DeclaredReturn(c) # ReturnedWrongType(c.target, ResultType(c))

\* Known: a default argument of a struct type is passed as an address.
DefaultOfStruct(c) ==
    \E i \in c.given + 1 .. Len(c.fn.params) : PassedByMembers(c.target, c.fn.params[i])

\* A call has the values its function's type declares, in number and type,
\* and the register of the result is the declared one: the caller
\* (FixCallWithComplexParameter, AST_CALL), the return statement and the
\* function's own type (FixFunctionTypeForCallConv) divide every type in the
\* same way on every target.  Only unions of floats have no such register.
CallFitsFunction ==
    /\ phase = "misfit" => SmallWasmResult(call) \/ DefaultOfStruct(call)
    /\ /\ phase \in {"callee", "return", "returned"} /\ ~call.fn.foreign
       /\ Returns(call) /\ ~SmallWasmResult(call)
       => \/ RetInPtr(call)
          \/ ReturnedWrongType(call.target, ResultType(call)) = DeclaredReturn(call)
    /\ phase = "unlowered" => "union" \in ResultType(call).flags

\* Known: in the interpreter the tail of an all-float struct and the variadic
\* slice of a function without other parameters are lost.
LostInInterpreter(c, m, i) ==
    /\ m = "interpreter"
    /\ IF i > Len(c.fn.params) THEN c.fn.params = <<>>
       ELSE /\ Parameter(c.target, c.fn.params[i]).load = "floats"
            /\ c.fn.params[i].elem # <<Basic("f32"), Basic("f32")>>

\* Known: generated code then takes the address of the result for the slice.
SliceBehindResult(c) == c.fn.varargs /\ c.fn.params = <<>> /\ RetInPtr(c)

\* Known: a default argument that is a Wasm struct around a pointer fits, but
\* its address is taken for its member.
WrappedDefault(c, i) ==
    /\ i > c.given /\ i <= Len(c.fn.params) /\ Wasm(c.target)
    /\ PassedByMembers(c.target, c.fn.params[i]) /\ c.fn.params[i].elem[1].kind = "pointer"

\* What parameter i of a native function should hold.
Arrives(c, later, i, held) ==
    IF i > Len(c.fn.params) THEN held = ExtraBytes(c)[Len(c.extra)]
    ELSE SameMembers(c.target, c.fn.params[i], held,
                     IF PassedByAddress(c.target, c.fn.params[i])
                     THEN Now(c, later, i) ELSE Bytes(c, i, "old"))

\* Known: a foreign function called while compiling gets its values by
\* position among the types before lowering, so a result or a parameter that
\* the lowering moves to other registers breaks it, and so do vectors and
\* functions.
NoForeignValue(t) == t.kind \in {"vector", "function"} \/ IsFunctionPointer(t)
OutOfStep(c) ==
    \/ Returns(c) /\ (~IsLoadableType(ResultType(c)) \/ ResultType(c).kind \in {"enum", "vector"})
    \/ \E i \in 1 .. Len(c.fn.params) + Len(c.extra) :
          PassedByMembers(c.target, TypeOf(c, i)) \/ NoForeignValue(TypeOf(c, i))

\* Every parameter of a native function has, member for member, what its
\* argument was when the caller evaluated it, in generated code and in the
\* interpreter, through whatever registers it went; one passed by address has
\* what the variable is at the call.  A foreign function called while
\* compiling gets every argument as it was evaluated: memory that is handed
\* over is the callee's own copy.
ArgumentsArrive ==
    /\ ~call.fn.foreign =>
        /\ phase = "fault" => LostInInterpreter(call, machine, at)
        /\ \A i \in DOMAIN frame :
              \/ LostInInterpreter(call, machine, i) \/ WrappedDefault(call, i)
              \/ i > Len(call.fn.params) /\ SliceBehindResult(call)
              \/ Arrives(call, changed, i, frame[i])
    /\ call.fn.foreign /\ machine = "interpreter" /\ ~OutOfStep(call) =>
        /\ phase # "fault"
        /\ \A i \in DOMAIN frame : frame[i] = Bytes(call, i, "old")

\* Known: AST_RETURN evaluates a result that is returned through memory to its
\* address only, and OP_RET copies it after the deferred statements, though
\* tests/defer/defer.rv:12 has them run after the value is evaluated.
CopiedAfterDefers(c, later) == RetInPtr(c) /\ 0 \in later

\* The caller's memory for the result holds every member of what the return
\* statement evaluated, through whatever registers it went and whatever the
\* deferred statements do to it afterwards (IR.cpp:3444-3468).
ResultArrives ==
    ~call.fn.foreign /\ phase = "returned" /\ Returns(call) /\ ~CopiedAfterDefers(call, changed)
    => SameMembers(call.target, ResultType(call), slot, Bytes(call, 0, "old"))
=============================================================================
