---------------------------- MODULE MCEvaluation ----------------------------
(***************************************************************************)
(* Small bodies over one variable of each interesting type.                 *)
(***************************************************************************)
EXTENDS Evaluation

Order == <<"a", "b", "t", "s", "d", "x", "g", "p", "q", "e", "arr">>

MCVarType ==
    [a |-> Basic("i8"), b |-> Basic_u8, t |-> Basic_bool, s |-> Basic("i32"), d |-> Basic("f32"),
     x |-> Basic_int, g |-> Basic("f64"), p |-> PointerTo(Basic_int), q |-> PointerTo(Basic("f32")), e |-> EnumOver("E", Basic_u8),
     arr |-> ArrayOf(Basic_int, 2)]
MCVarRegister == [v \in DOMAIN MCVarType |-> CHOOSE i \in 0..(Len(Order) - 1) : Order[i + 1] = v]
MCAddress == [a |-> 0, b |-> 1, t |-> 2, e |-> 3, s |-> 4, d |-> 8, x |-> 16, g |-> 24, p |-> 32, arr |-> 40, q |-> 56]
MCFnType == [f |-> Type("function", "", <<Basic("f64"), Basic_bool>>, 1),
             h |-> Type("function", "", <<Basic_int, Basic_int, Basic_int>>, 1)]

MCInputs ==
    { [a |-> -2, b |-> 3, t |-> 1, e |-> 2, s |-> 5, d |-> 5, x |-> -3, g |-> -3, p |-> 16, q |-> 8],
      [a |-> 1, b |-> 2, t |-> 0, e |-> 0, s |-> -7, d |-> 0, x |-> 1, g |-> 4, p |-> 40, q |-> 4] }

Literals == {Const("int", 1), Const("float", 3)}
Ids == {Id(v) : v \in DOMAIN MCVarType \ {"arr", "q"}}
Atoms == Ids \cup Literals \cup {CharLit(2), Reserved("null"), Reserved("true")}
UnaryOps == {"-", "++", "--", "!", "~", "*", "&", "?"}
BinaryOps == Comparisons \cup Arithmetic \cup Bitwise \cup Assigning \cup {"=", "&&", "||"}
CastTypes == {Basic(n) : n \in SignedInts \cup UnsignedInts \cup Floats} \cup {PointerTo(Basic_int), NULLType}


Ops1(S) == {Un(o, v) : o \in UnaryOps, v \in S} \cup {Post(o, v) : o \in {"++", "--"}, v \in S}
Bins(Os, S, T) == {Bin(o, l, r) : o \in Os, l \in S, r \in T}
Casts(Ts, S) == {Cast(t, v) : t \in Ts, v \in S} \cup {BitCast(t, v) : t \in Ts, v \in S}
Indexes(S, T) == {Index(l, i) : l \in S, i \in T}
Alternatives(C, S, T) == {IfX(c, l, r) : c \in C, l \in S, r \in T}

Stmt(k, ty, e) == [k |-> k, ty |-> ty, e |-> e]
Declared(S) == {<<Stmt("decl", NoType, e)>> : e \in S}

\* One operator of every kind.
Simple == Ops1(Atoms) \cup Bins(BinaryOps, Atoms, Atoms) \cup Casts(CastTypes, Atoms)
          \cup Indexes({Id("arr"), Id("p"), Id("x")}, Atoms \cup {Const("int", 2)})
          \cup Alternatives({Id("t"), Id("x"), Id("d")}, {Id("a"), Const("int", 1), Id("g")}, {Id("x"), Id("s"), Const("float", 3)})

\* Operands with side effects, skipped ones, and operators inside operators.
One == Const("int", 1)
Half == Const("float", 3)
Arr(i) == Index(Id("arr"), i)
Inner == { Bin("+", Id("a"), One), Bin("*", Id("x"), Id("x")), Bin("<", Id("x"), One), Bin("*", Id("d"), Half),
           Bin("=", Id("x"), Id("s")), Bin("&&", Id("t"), Bin("=", Id("t"), Reserved("true"))),
           Post("++", Id("x")), Un("--", Id("s")), Un("-", Half), Un("*", Id("p")), Un("&", Id("x")),
           Arr(Id("x")), Arr(Post("++", Id("x"))), Arr(One), Call("f", <<Bin("<", Id("d"), Half)>>), Call("h", <<Post("++", Id("x")), Id("x")>>),
           Call("h", <<Bin("=", Id("x"), Id("a")), One>>), Cast(Basic("i32"), Id("x")), Cast(Basic_u8, Half),
           IfX(Id("t"), Id("x"), Id("a")), IfX(Un("!", Id("b")), Half, Id("d")) }
Nested == Bins({"+", "<", "=", "+=", "&&", "||", "/", ">>"}, Inner, Inner \cup {Id("x"), Id("t"), One, Half})
          \cup Bins({"-", "==", "=", "-=", "||"}, {Id("x"), Id("t"), Id("p"), Arr(One), Half}, Inner)
          \cup Bins({"*", "+"}, {One, Half}, {Un("*", Id("q")), Un("*", Bin("+", Id("q"), One)), Un("*", Bin("-", Id("q"), One))})
          \cup Ops1(Inner) \cup Casts({Basic("i8"), Basic_u8, Basic("f32"), Basic_int}, Inner)
          \cup Indexes({Id("arr"), Id("p")}, Inner)
          \cup Alternatives({Id("t"), Un("!", Id("b")), Bin("||", Id("t"), Id("x"))}, Inner, {Id("x"), Half})

\* A declared type, conditions, assertions, returns and statements for their effect.
Kinds == {Stmt("return", Basic("f64"), e) : e \in Inner} \cup {Stmt("return", Basic_int, e) : e \in Inner}
         \cup {Stmt(k, Basic_bool, e) : k \in {"if", "assert", "expr"},
                                        e \in Inner \cup Bins({"&&", "||"}, {Id("t"), Id("x"), Id("p")}, Inner)}
         \cup {Stmt("decl", t, e) : t \in {Basic("i8"), Basic("f32"), Basic("u64")}, e \in Inner \cup Atoms}
Sequences == {<<Stmt("expr", NoType, e), s>> :
                e \in {Post("--", Id("x")), Bin("+=", Id("d"), Half), Bin("=", Arr(One), Id("x"))},
                s \in {Stmt("return", Basic_int, Arr(Id("x"))), Stmt("if", NoType, Bin("<", Id("d"), One)),
                       Stmt("assert", NoType, Bin("&&", Id("x"), Bin(">=", Arr(One), One)))}}

MCBodies == Declared(Simple \cup Nested) \cup {<<s>> : s \in Kinds} \cup Sequences

=============================================================================
