------------------------------- MODULE MCCalls -------------------------------
(* Types on both sides of every limit: one register, two, three, with and   *)
(* without a member at offset 8, all floats in every order that fits, and   *)
(* unions, vectors, pointers and functions.  Layouts are those of Types.    *)
EXTENDS Calls

Layout(w) == INSTANCE Types WITH RegisterBytes <- w
MCTypeSize(w, t) == Layout(w)!GetTypeSize(t)
MCMemberOffset(w, t, i) == Layout(w)!GetStructMemberOffset(t, i)

Basics(ks) == [i \in DOMAIN ks |-> Basic(ks[i])]
Struct(ks) == StructOf("s", Basics(ks), {})
Union(ks) == StructOf("u", Basics(ks), {"union"})
Bools == ArrayOf(Basic("u32"), 4)
Callback == PointerTo(Type("function", "", <<>>, 0))

MCTargets == {"unix64", "windows64", "x86", "wasm32"}

Plain == {Basic("u8"), Basic("f64"), EnumOver("e", Basic("u16")), FloatVector}

Structs == {Struct(ks) : ks \in
    {<<"u8">>, <<"u8", "u8">>, <<"u8", "u16">>, <<"f32">>, <<"u8", "u64">>,
     <<"u64", "u16">>, <<"u32", "u32", "u32">>, <<"u32", "u32", "u64">>,
     <<"u32", "u32", "u16">>, <<"u64", "u64", "u8">>,
     <<"f32", "f32">>, <<"f32", "f32", "f32">>, <<"f32", "f64">>, <<"f64", "f64">>,
     <<"f32", "f32", "f64">>, <<"f64", "f32", "f32">>, <<"f32", "f32", "f32", "f32">>}}
    \cup {StructOf("packed", Basics(<<"u64", "u16">>), {"packed"}),
          StructOf("wrapped", <<Bools>>, {}), StructOf("pointer", <<PointerTo(Basic_u8)>>, {}),
          Union(<<"u32", "u64">>), Union(<<"f32", "f32">>), Union(<<"f64", "f32">>)}

Others == {Basic_string, SliceOf(Basic_u8), ArrayOf(Basic_u8, 3), ArrayOf(Basic_u8, 2)}

AllTypes == Plain \cup Structs \cup Others

Function(rs, ps, varargs, foreign) ==
    [returns |-> rs, params |-> ps, varargs |-> varargs, foreign |-> foreign]

Returning == {<<>>, <<Basic("u8")>>, <<Callback>>, <<Callback.elem[1]>>} \cup {<<t>> : t \in AllTypes}
             \cup {Basics(ks) : ks \in {<<"u8", "u8">>, <<"f32", "f32">>, <<"u64", "u8">>}}
FewReturns == {<<>>, <<Basic("u64")>>, <<Struct(<<"u64", "u64">>)>>}
Second == {Basic("u8"), Struct(<<"u32", "u32", "u64">>), Struct(<<"u64", "u64", "u8">>)}
Parameters == {<<>>} \cup {<<t>> : t \in AllTypes} \cup {<<t, u>> : t \in AllTypes, u \in Second}

MCFunctions ==
    {Function(rs, ps, FALSE, FALSE) : rs \in FewReturns, ps \in Parameters}
    \cup {Function(rs, <<Basic("u8")>>, FALSE, FALSE) : rs \in Returning}
    \cup {Function(rs, ps, TRUE, FALSE) : rs \in FewReturns,
              ps \in {<<>>, <<Basic("u8")>>, <<Struct(<<"u32", "u32", "u64">>)>>}}
    \cup {Function(<<>>, ps, FALSE, TRUE) : ps \in Parameters}
    \cup {Function(rs, ps, TRUE, TRUE) : rs \in Returning, ps \in {<<Basic("f64")>>, <<Callback>>}}

MCExtras == {<<>>, <<Basic("u8")>>, <<Basic("u8"), Struct(<<"u64", "u64">>)>>}

Members(T) == T \cup UNION {{t.elem[i] : i \in DOMAIN t.elem} : t \in {s \in T : s.kind = "struct"}}
MCDataTypes ==
    Members(UNION {{ts[i] : i \in DOMAIN ts} : ts \in Parameters \cup MCExtras \cup Returning \cup FewReturns}
            \cup {ReturnsToType(rs) : rs \in Returning \ {<<>>}} \cup {Callback})
=============================================================================
