-------------------------------- MODULE Types --------------------------------
(***************************************************************************)
(* The types of ReComp as the type checker compares them (src/Type.cpp):    *)
(* sizes and layouts, the implicit conversions between two operands, the    *)
(* explicit casts and the operators a type accepts.  Nothing here has       *)
(* state; the checker, the IR builder and the two machines are built on it. *)
(***************************************************************************)
EXTENDS TypeForms, FiniteSetsExt, Folds

CONSTANT RegisterBytes          \* GetRegisterTypeSize() / 8

ASSUME RegisterAssumption == RegisterBytes \in {4, 8}

-----------------------------------------------------------------------------
(* Sizes, alignments and member offsets, in bytes. *)

GetBasicTypeSize(name) ==
    CASE name \in {"bool", "i8", "u8"} -> 1
      [] name \in {"i16", "u16"} -> 2
      [] name \in {"i32", "u32", "f32"} -> 4
      [] name \in {"i64", "u64", "f64"} -> 8
      [] name \in {"int", "uint", "type"} -> RegisterBytes
      [] name = "string" -> 2 * RegisterBytes
      [] OTHER -> 0

AlignTo(n, alignment) == ((n + alignment - 1) \div alignment) * alignment

RECURSIVE GetTypeSize(_), GetTypeAlignment(_)

\* Where the i-th member of a struct begins and where the one before it ends.
RECURSIVE GetStructMemberOffset(_, _)
MemberEnd(t, i) ==
    IF i = 0 THEN 0 ELSE GetStructMemberOffset([t EXCEPT !.flags = @ \ {"union"}], i)
                         + GetTypeSize(t.elem[i])
GetStructMemberOffset(t, i) ==
    IF "union" \in t.flags THEN 0
    ELSE IF "packed" \in t.flags THEN MemberEnd(t, i - 1)
    ELSE AlignTo(MemberEnd(t, i - 1), GetTypeAlignment(t.elem[i]))

GetStructAlignment(t) ==
    IF "packed" \in t.flags THEN 1
    ELSE Max({1} \cup {GetTypeAlignment(t.elem[i]) : i \in DOMAIN t.elem})

GetStructSize(t) ==
    IF t.elem = <<>> THEN 0
    ELSE IF "union" \in t.flags
    THEN AlignTo(Max({GetTypeSize(t.elem[i]) : i \in DOMAIN t.elem}), GetStructAlignment(t))
    ELSE AlignTo(MemberEnd(t, Len(t.elem)), GetStructAlignment(t))

GetTypeSize(t) ==
    CASE t.kind = "basic"   -> GetBasicTypeSize(t.name)
      [] t.kind = "enum"    -> GetTypeSize(t.elem[1])
      [] t.kind \in {"pointer", "function"} -> RegisterBytes
      [] t.kind = "array"   -> GetTypeSize(t.elem[1]) * t.count
      [] t.kind = "slice"   -> 2 * RegisterBytes
      [] t.kind = "vector"  -> 4 * t.count
      [] t.kind = "struct"  -> GetStructSize(t)

GetTypeAlignment(t) ==
    CASE t.kind = "basic" -> IF IsString(t) THEN RegisterBytes ELSE GetBasicTypeSize(t.name)
      [] t.kind \in {"slice", "function", "pointer"} -> RegisterBytes
      [] t.kind \in {"array", "enum"} -> GetTypeAlignment(t.elem[1])
      [] t.kind = "vector"  -> 4 * t.count
      [] t.kind = "struct"  -> GetStructAlignment(t)

-----------------------------------------------------------------------------
(* Implicit conversions: whether two types go together and which of the two *)
(* the other one is promoted to.                                            *)

Verdict(ok, promotion) == [ok |-> ok, promotion |-> promotion]
No  == Verdict(FALSE, "none")
Yes == Verdict(TRUE, "none")

Mismatch(l, r, f) == Flag(l, f) # Flag(r, f)

CheckBasicTypes(l, r, assignment) ==
    LET toFloat == IF ~Mismatch(l, r, "float") THEN "none"
                   ELSE IF Flag(l, "float") THEN "left" ELSE "right"
        ls == GetBasicTypeSize(l.name)
        rs == GetBasicTypeSize(r.name)
    IN  IF IsString(l) /\ IsString(r) THEN Yes
        ELSE IF \/ \E f \in {"typeid", "string", "boolean"} : Mismatch(l, r, f)
                \/ (Mismatch(l, r, "unsigned") /\ ~IsUntyped(l) /\ ~IsUntyped(r))
                \/ /\ toFloat # "none"
                   /\ (assignment /\ Flag(r, "float")) \/ ~Mismatch(l, r, "integer")
                \/ (ls < rs /\ (assignment \/ toFloat = "left"))
                \/ (ls > rs /\ toFloat = "right")
        THEN No
        ELSE Verdict(TRUE, IF ls < rs THEN "right" ELSE IF ls > rs THEN "left" ELSE toFloat)

RECURSIVE TypesMustMatch(_, _)
TypeCheckPointers(l, r) ==
    l.elem = <<>> \/ r.elem = <<>> \/ TypesMustMatch(l.elem[1], r.elem[1])
TypesMustMatch(l, r) ==
    \/ l = Basic_error \/ r = Basic_error
    \/ /\ l.kind = r.kind
       /\ CASE l.kind \in {"enum", "struct", "basic"} -> l.name = r.name
            [] l.kind = "pointer" -> TypeCheckPointers(l, r)
            [] l.kind \in {"array", "function"} ->
                  /\ l.count = r.count /\ Len(l.elem) = Len(r.elem)
                  /\ \A i \in DOMAIN l.elem : TypesMustMatch(l.elem[i], r.elem[i])
            [] l.kind = "slice" -> TypesMustMatch(l.elem[1], r.elem[1])
            [] l.kind = "vector" -> l.name = r.name /\ l.count = r.count

\* A pointer to a function is compared as the function itself.
FunctionBehind(t, other) ==
    IF other.kind = "function" /\ t.kind = "pointer" /\ t.elem # <<>> THEN t.elem[1] ELSE t

IsKindCompatible(a, b, assignment) ==
    IF a.kind # b.kind THEN No
    ELSE CASE a.kind = "basic" -> CheckBasicTypes(a, b, assignment)
           [] a.kind = "array" ->
                 IF IsUntyped(b.elem[1]) THEN Verdict(a.count = b.count, "left")
                 ELSE Verdict(a.count = b.count /\ TypesMustMatch(a.elem[1], b.elem[1]), "none")
           [] a.kind = "struct" -> Verdict(assignment /\ a.name = b.name, "none")
           [] OTHER -> Verdict(TypesMustMatch(a, b), "none")

IsTypeCompatible(l, r, assignment) ==
    IF l = Basic_error \/ r = Basic_error
    THEN Verdict(TRUE, IF r # Basic_error THEN "right" ELSE IF l # Basic_error THEN "left" ELSE "none")
    ELSE IF l.kind = "pointer" /\ HasBasicFlag(r, "integer") THEN Verdict(TRUE, "left")
    ELSE IsKindCompatible(FunctionBehind(l, r), FunctionBehind(r, l), assignment)

-----------------------------------------------------------------------------
(* Explicit casts and operators. *)

RECURSIVE IsCastValid(_, _)
IsCastValid(from, to) ==
    LET Bytes(t) == t.kind = "slice" /\ t.elem[1] = Basic_u8 IN
    \/ Bytes(from) /\ IsString(to)
    \/ Bytes(to) /\ IsString(from)
    \/ /\ {from.kind, to.kind} \cap {"slice", "vector"} = {}
       /\ IF from.kind = "pointer" /\ to.kind = "basic"
          THEN GetTypeSize(to) = RegisterBytes
          ELSE IF from.kind = "basic" /\ to.kind = "pointer"
          THEN \/ IsUntyped(from) /\ HasBasicFlag(from, "integer")
               \/ GetTypeSize(from) = RegisterBytes
          ELSE /\ "struct" \notin {from.kind, to.kind}
               /\ IF from.kind = "enum" /\ to.kind # "enum" THEN IsCastValid(from.elem[1], to)
                  ELSE IF to.kind = "enum" /\ from.kind # "enum" THEN IsCastValid(to.elem[1], from)
                  ELSE IsString(from) = IsString(to) /\ from.kind = to.kind

RECURSIVE IsCastRedundant(_, _)
IsCastRedundant(from, to) ==
    /\ from.kind = to.kind
    /\ CASE from.kind = "array" -> from.count = to.count /\ IsCastRedundant(from.elem[1], to.elem[1])
         [] from.kind = "pointer" ->
               IF from.elem = <<>> \/ to.elem = <<>> THEN from.elem = to.elem
               ELSE IsCastRedundant(from.elem[1], to.elem[1])
         [] from.kind \in {"basic", "enum", "struct"} -> from.name = to.name
         [] OTHER -> FALSE

Comparisons == {"==", "!=", "<", ">", "<=", ">="}
Arithmetic  == {"+", "-", "*", "/", "%"}
Bitwise     == {"&", "|", "^", "<<", ">>"}
\* The operator an assigning operator stands for.
OpOf == [o \in {"+=", "-=", "*=", "/=", "%=", "&=", "|=", "^=", "<<=", ">>="} |->
            CASE o = "+=" -> "+" [] o = "-=" -> "-" [] o = "*=" -> "*" [] o = "/=" -> "/"
              [] o = "%=" -> "%" [] o = "&=" -> "&" [] o = "|=" -> "|" [] o = "^=" -> "^"
              [] o = "<<=" -> "<<" [] o = ">>=" -> ">>"]
Assigning == DOMAIN OpOf

CanTypePerformBinExpression(t, op) ==
    CASE t.kind = "basic" ->
           /\ t.name # "module"
           /\ t.name \in {"string", "type"} => op \in {"==", "!=", "="}
           /\ t.name = "bool" => op \in {"==", "!=", "=", "||", "&&"}
           /\ Flag(t, "float") => op \notin {"<<", ">>", "<<=", ">>=", "&", "|", "^"}
      [] t.kind = "pointer" -> op \in Comparisons \cup {"+", "-", "+=", "-=", "="}
      [] t.kind = "array" ->
           LET e == t.elem[1] IN
           IF HasBasicFlag(e, "integer") \/ HasBasicFlag(e, "float")
           THEN op \in Arithmetic \cup Comparisons \cup {"+=", "-=", "*=", "/=", "%=", "="}
           ELSE op = "=" \/ (HasBasicFlag(e, "boolean") /\ op \in {"==", "!=", "||", "&&"})
      [] t.kind = "vector" -> op \in {"+", "-", "*", "/", "="}
      [] t.kind \in {"struct", "slice"} -> op = "="
      [] t.kind = "enum" -> op \in Comparisons \cup {"|", "&", "|=", "&=", "="}
      [] OTHER -> FALSE
=============================================================================
