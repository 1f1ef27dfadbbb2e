------------------------------ MODULE TypeForms ------------------------------
(***************************************************************************)
(* What a type of ReComp is (src/Type.cpp, src/Type.h): its kinds and the   *)
(* flags of the basic types.                                                *)
(*                                                                         *)
(* A type is a record: its kind, its name (of a basic type, an enum or a    *)
(* struct, the lane kind of a vector), the types it is made of (what a      *)
(* pointer points to, an element, members, the type under an enum, the      *)
(* arguments of a function), its member count (of a function: how many of   *)
(* the types are returns, last) and its flags.                              *)
(***************************************************************************)
EXTENDS Integers, Sequences

Type(kind, name, elem, count) ==
    [kind |-> kind, name |-> name, elem |-> elem, count |-> count, flags |-> {}]

Basic(name)       == Type("basic", name, <<>>, 0)
PointerTo(t)      == Type("pointer", "", <<t>>, 0)
NULLType          == Type("pointer", "opaque", <<>>, 0)
ArrayOf(t, n)     == Type("array", "", <<t>>, n)
SliceOf(t)        == Type("slice", "", <<t>>, 0)
EnumOver(name, t) == Type("enum", name, <<t>>, 0)
VectorOf(lane, n) == Type("vector", lane, <<>>, n)
StructOf(name, ms, flags) == [Type("struct", name, ms, 0) EXCEPT !.flags = flags]

Basic_bool == Basic("bool")
Basic_int == Basic("int")
Basic_uint == Basic("uint")
Basic_u8 == Basic("u8")
Basic_string == Basic("string")
Basic_error == Basic("error")
NoType == Type("invalid", "", <<>>, 0)          \* INVALID_TYPE
UntypedInteger == Basic("untyped integer")
UntypedFloat   == Basic("untyped float")

SignedInts   == {"i8", "i16", "i32", "i64", "int"}
UnsignedInts == {"u8", "u16", "u32", "u64", "uint"}
Floats       == {"f32", "f64"}

BasicFlags(name) ==
    CASE name \in SignedInts   -> {"integer"}
      [] name \in UnsignedInts -> {"integer", "unsigned"}
      [] name \in Floats       -> {"float"}
      [] name = "untyped integer" -> {"integer", "untyped"}
      [] name = "untyped float"   -> {"float", "untyped"}
      [] name = "bool"   -> {"boolean", "unsigned"}
      [] name = "string" -> {"string"}
      [] name = "type"   -> {"typeid"}
      [] OTHER -> {}

\* The flag test of the checker also holds of the error type, so that one
\* error is not followed by another.
Flag(t, f) == t.kind = "basic" /\ f \in BasicFlags(t.name)
HasBasicFlag(t, f) == t = Basic_error \/ Flag(t, f)

IsUntyped(t) == Flag(t, "untyped")
IsString(t)  == Flag(t, "string")
IsFloatOrVec(t) == HasBasicFlag(t, "float") \/ (t.kind = "vector" /\ t.name = "float")
IsSigned(t)  == t.kind = "vector" \/ ~HasBasicFlag(t, "unsigned")

Underlying(t) == IF t.kind = "enum" THEN t.elem[1] ELSE t

UntypedGetType(t) == IF Flag(t, "integer") THEN Basic_int ELSE Basic("f32")

IsLoadableType(t) == t.kind \notin {"array", "struct", "function", "slice"} /\ ~IsString(t)
=============================================================================
