------------------------------ MODULE MCFrontEnd ------------------------------
(* Files for FrontEnd, each with the nodes it was written for: expressions  *)
(* with the parentheses that their operators need and no others, every form *)
(* of statement and of declaration; the same files with one token wrong;    *)
(* and short texts of any characters.                                       *)
EXTENDS AstExchange

\* InitializeLexer's table, in its order.
KeywordTable == <<
    <<"NEWCAST", <<"c", "a", "s", "t">>>>,
    <<"BITCAST", <<"b", "i", "t", "_", "c", "a", "s", "t">>>>,
    <<"CONTINUE", <<"c", "o", "n", "t", "i", "n", "u", "e">>>>,
    <<"BREAK", <<"b", "r", "e", "a", "k">>>>, <<"IF", <<"i", "f">>>>,
    <<"ELSE", <<"e", "l", "s", "e">>>>, <<"THEN", <<"t", "h", "e", "n">>>>,
    <<"FOR", <<"f", "o", "r">>>>, <<"FN", <<"f", "n">>>>, <<"AS", <<"a", "s">>>>,
    <<"IN", <<"i", "n">>>>, <<"::", <<":", ":">>>>, <<"GEQ", <<">", "=">>>>,
    <<"LEQ", <<"<", "=">>>>, <<"NEQ", <<"!", "=">>>>, <<"EQEQ", <<"=", "=">>>>,
    <<"LOR", <<"|", "|">>>>, <<"LAND", <<"&", "&">>>>, <<"ARR", <<"-", ">">>>>,
    <<"PPLUS", <<"+", "+">>>>, <<"MMIN", <<"-", "-">>>>, <<"SLEFT", <<"<", "<">>>>,
    <<"SRIGHT", <<">", ">">>>>, <<"PEQ", <<"+", "=">>>>, <<"MEQ", <<"-", "=">>>>,
    <<"TEQ", <<"*", "=">>>>, <<"DEQ", <<"/", "=">>>>, <<"MODEQ", <<"%", "=">>>>,
    <<"ANDEQ", <<"&", "=">>>>, <<"XOREQ", <<"^", "=">>>>, <<"OREQ", <<"|", "=">>>>,
    <<"SLEQ", <<"<", "<", "=">>>>, <<"SREQ", <<">", ">", "=">>>>,
    <<"RAWSTRING", <<"tick", "tick", "tick">>>>, <<"VARARG", <<".", ".", ".">>>>,
    <<"SHADOW", <<"#", "s", "h", "a", "d", "o", "w">>>>,
    <<"IMPORT", <<"#", "i", "m", "p", "o", "r", "t">>>>,
    <<"STATIC", <<"#", "s", "t", "a", "t", "i", "c">>>>,
    <<"FOREIGN", <<"#", "f", "o", "r", "e", "i", "g", "n">>>>,
    <<"LINK", <<"#", "l", "i", "n", "k">>>>,
    <<"NOCHECK", <<"#", "n", "o", "c", "h", "e", "c", "k">>>>,
    <<"SELF", <<"#", "s", "e", "l", "f">>>>, <<"CALLC", <<"#", "c", "c">>>>,
    <<"INTR", <<"#", "i", "n", "t", "r", "i", "n", "s", "i", "c">>>>,
    <<"NORETURN", <<"#", "n", "o", "_", "r", "e", "t", "u", "r", "n">>>>,
    <<"WASM_IMPORT", <<"#", "w", "a", "s", "m", "_", "i", "m", "p", "o", "r", "t">>>>,
    <<"TAG", <<"#", "t", "a", "g">>>>, <<"PACK", <<"#", "p", "a", "c", "k">>>>,
    <<"PUBLIC", <<"#", "p", "u", "b", "l", "i", "c">>>>,
    <<"PRIVATE", <<"#", "p", "r", "i", "v", "a", "t", "e">>>>,
    <<"EMBED_BIN", <<"#", "e", "m", "b", "e", "d", "_", "b", "i", "n">>>>,
    <<"EMBED_STR", <<"#", "e", "m", "b", "e", "d", "_", "s", "t", "r">>>>,
    <<"INLINE", <<"#", "i", "n", "l", "i", "n", "e">>>>, <<"PWDIF", <<"#", "i", "f">>>>,
    <<"PWDELIF", <<"#", "e", "l", "i", "f">>>>, <<"PWDELSE", <<"#", "e", "l", "s", "e">>>>,
    <<"INFO", <<"t", "y", "p", "e", "_", "i", "n", "f", "o">>>>,
    <<"ASSERT", <<"#", "a", "s", "s", "e", "r", "t">>>>,
    <<"LOAD_DL", <<"#", "l", "o", "a", "d", "_", "d", "l">>>>,
    <<"LOAD_SYSTEM_DL", <<"#", "l", "o", "a", "d", "_", "s", "y", "s", "t", "e", "m", "_", "d", "l">>>>,
    <<"FILE_LOCATION", <<"#", "f", "i", "l", "e", "_", "l", "o", "c", "a", "t", "i", "o", "n">>>>,
    <<"RUN", <<"#", "r", "u", "n">>>>, <<"RETURN", <<"r", "e", "t", "u", "r", "n">>>>,
    <<"STRUCT", <<"s", "t", "r", "u", "c", "t">>>>, <<"ENUM", <<"e", "n", "u", "m">>>>,
    <<"UNION", <<"u", "n", "i", "o", "n">>>>, <<"DEFER", <<"d", "e", "f", "e", "r">>>>,
    <<"SWITCH", <<"s", "w", "i", "t", "c", "h">>>>, <<"CASE", <<"c", "a", "s", "e">>>>,
    <<"SIZEOF", <<"s", "i", "z", "e", "_", "o", "f">>>>,
    <<"TYPEOF", <<"t", "y", "p", "e", "_", "o", "f">>>>, <<"VOID", <<"v", "o", "i", "d">>>>,
    <<"PROFILE", <<"@", "p", "r", "o", "f", "i", "l", "e">>>>,
    <<"USING", <<"u", "s", "i", "n", "g">>>>, <<"YIELD", <<"y", "i", "e", "l", "d">>>>,
    <<"MODULE", <<"m", "o", "d", "u", "l", "e">>>>,
    <<"THREADLOCAL", <<"#", "t", "h", "r", "e", "a", "d", "_", "l", "o", "c", "a", "l">>>> >>

\* The table as functions from a spelling and from a type. (A set of one
\* element has its element evaluated once.)
Swapped(table, x, y) == [s \in {e[x] : e \in table} |-> (CHOOSE e \in table : e[x] = s)[y]]
MCKeywords == CHOOSE f \in {Swapped(table, 2, 1) : table \in {ToSet(KeywordTable)}} : TRUE
MCLetters == {"a", "b", "c", "d", "e", "f", "g", "h", "i", "k", "l", "m", "n", "o", "p", "q", "r",
              "s", "t", "u", "v", "w", "x", "y", "z", "_"}
MCReserved == {<<"n", "a", "n">>}
MCFilesFound == {<<"a">>}
MCConfig == {<<"a">>}

\* A word of a file below is the type of a keyword, one character, or one of
\* the strings "a" and "b", a character literal, a reserved name.
Others == [w \in {"found", "missing", "char", "nan"} |->
              CASE w = "found" -> <<"\"", "a", "\"">>
                [] w = "missing" -> <<"\"", "b", "\"">>
                [] w = "char" -> <<"'", "a", "'">>
                [] w = "nan" -> <<"n", "a", "n">>]
Spelling ==
    UNION {{Swapped(table, 1, 2) @@ Others} : table \in {ToSet(KeywordTable)}}
\* The text of some words, by a spelling of them.
Text(words, spelling) ==
    FlattenSeq([k \in DOMAIN words |->
        Append(IF words[k] \in DOMAIN spelling THEN spelling[words[k]] ELSE <<words[k]>>, " ")])
Sourced(spelling, words, tree) == [text |-> Text(words, spelling), tree |-> tree]

-----------------------------------------------------------------------------
(* Expressions: their words, their node and how tightly they bind *)
S(w, n, l) == [w |-> w, n |-> n, l |-> l]
Name(c) == S(<<c>>, MakeID(<<c>>), 100)
P(e, level) == IF e.l >= level THEN e.w ELSE <<"(">> \o e.w \o <<")">>
Binary(op, x, y) ==
    LET v == Level[op]
    IN  IF op \in Assignments
            THEN S(P(x, v + 1) \o <<op>> \o P(y, v), MakeBinary(x.n, y.n, op), v)
        ELSE S(P(x, v) \o <<op>> \o P(y, v + 1), MakeBinary(x.n, y.n, op), v)
Unary(op, x) == S(<<op>> \o P(x, 90), MakeUnary(x.n, op), 90)
a == Name("a")
b == Name("b")
Postfixed(x) ==
    LET o == P(x, 100)
    IN  {S(o \o <<"PPLUS">>, MakePostOp(x.n, "PPLUS"), 100),
         S(o \o <<"(", ")">>, MakeCall(x.n, << >>), 100),
         S(o \o <<"(", "a", ",", "b", ")">>, MakeCall(x.n, <<a.n, b.n>>), 100),
         S(o \o <<"[", "b", "]">>, MakeIndex(x.n, b.n), 100),
         S(o \o <<"[", ":", "b", "]">>, MakeSliceExpr(x.n, Absent, b.n), 100),
         S(o \o <<"[", "a", ":", "]">>, MakeSliceExpr(x.n, a.n, Absent), 100),
         S(o \o <<".", "b">>, MakeSelector(x.n, <<"b">>), 100),
         S(o \o <<"{", "b", "=", "a", ",", "b", "}">>,
           MakeTypeList(x.n, <<MakeListItem(<<"b">>, a.n), MakeListItem(Absent, b.n)>>), 100)}
Inside(x) ==
    {S(<<"a", "(">> \o x.w \o <<",", "b", ")">>, MakeCall(a.n, <<x.n, b.n>>), 100),
     S(<<"a", "[">> \o x.w \o <<":">> \o x.w \o <<"]">>, MakeSliceExpr(a.n, x.n, x.n), 100),
     S(<<".", "{", "b", "=">> \o x.w \o <<"}">>,
       MakeTypeList(Absent, <<MakeListItem(<<"b">>, x.n)>>), 100),
     S(<<"IF">> \o x.w \o <<"THEN">> \o x.w \o <<"ELSE">> \o x.w, MakeIfX(x.n, x.n, x.n), -100),
     S(P(x, 100) \o <<"AS", "t">>, MakeCast(x.n, MakeID(<<"t">>), FALSE), -100),
     S(<<"BITCAST", "(", "t", ",">> \o x.w \o <<")">>, MakeCast(x.n, MakeID(<<"t">>), TRUE), 100),
     S(<<"SIZEOF", "(">> \o x.w \o <<")">>, MakeSize(x.n), 100),
     S(<<"TYPEOF", "(">> \o x.w \o <<")">>, MakeTypeOf(x.n), 100),
     S(<<"RUN">> \o x.w, MakeRun(<<x.n>>), -100),
     S(<<"a", "ARR">> \o x.w, MakeShortLambda(a.n, x.n, << >>), -100),
     S(<<"(", ")", "ARR">> \o x.w, MakeShortLambda(MakeList(<< >>), x.n, << >>), -100),
     S(<<"SWITCH", "a", "{", "CASE">> \o x.w \o <<":", "YIELD", "b", ";", "}">>,
       MakeSwitch(a.n, <<MakeCase(x.n, <<MakeTypedExpr("yield", b.n)>>)>>), -100)}
Primary ==
    {a, S(<<"1">>, MakeConstant(<<"VAL", <<"1">>>>), 100),
     S(<<"found">>, MakeConstant(<<"STR", <<"a">>>>), 100),
     S(<<"char">>, MakeCharLiteral(<<"a">>), 100), S(<<"nan">>, MakeReserve(<<"n", "a", "n">>), 100),
     S(<<"FILE_LOCATION">>, MakeFileLocation, 100),
     S(<<"EMBED_STR", "found">>, MakeEmbed(<<"a">>, TRUE), 100),
     S(<<"INFO", "a">>, MakeTypeInfo(a.n), 100),
     S(<<"[", "1", "]", "t">>,
       MakeArrayType(MakeID(<<"t">>), MakeConstant(<<"VAL", <<"1">>>>)), -100)}
Operators1 == {"*", "+", "SLEFT", "&", "^", "|", "<", "EQEQ", "LAND", "LOR", "=", "PEQ"}
Expressions1 ==
    Primary \cup Postfixed(a) \cup Inside(b)
      \cup {Unary(op, a) : op \in PrefixTokens} \cup {Binary(op, a, b) : op \in Operators1}
\* Of those, one for each way that expressions bind, in all places.
Binding ==
    {a, Unary("-", a), S(<<"a", ".", "b">>, MakeSelector(a.n, <<"b">>), 100)}
      \cup {Binary(op, a, b) : op \in {"*", "+", "<", "LAND", "=", "PEQ"}}
      \cup {S(<<"b", "ARR", "a">>, MakeShortLambda(b.n, a.n, << >>), -100),
            S(<<"IF", "a", "b", "ELSE", "a">>, MakeIfX(a.n, b.n, a.n), -100)}
Expressions2 ==
    {Binary(op, x, y) : op \in {"*", "+", "&", "EQEQ", "LOR", "=", "PEQ"}, x \in Binding, y \in Binding}
      \cup {Unary(op, x) : op \in {"-", "*"}, x \in Binding}
      \cup UNION {Postfixed(x) \cup Inside(x) : x \in Binding}

-----------------------------------------------------------------------------
(* Statements: their words and the nodes of a body that they become *)
T(w, n) == [w |-> w, n |-> n]
Some == {a, Binary("+", a, b), Binary("=", a, b), S(<<"a", ".", "b">>, MakeSelector(a.n, <<"b">>), 100)}
Empty == <<MakeScope(TRUE), MakeScope(FALSE)>>
Types ==
    {T(<<"t">>, MakeID(<<"t">>)), T(<<"*", "t">>, MakePointerType(MakeID(<<"t">>), FALSE)),
     T(<<"?", "*", "t">>, MakePointerType(MakeID(<<"t">>), TRUE)),
     T(<<"[", "]", "t">>, MakeArrayType(MakeID(<<"t">>), Absent)),
     T(<<"t", "<", "t", ",", "*", "t", ">">>,
       MakeGenericStructType(MakeID(<<"t">>),
           <<MakeID(<<"t">>), MakePointerType(MakeID(<<"t">>), FALSE)>>)),
     T(<<"m", ".", "t">>, MakeSelector(MakeID(<<"m">>), <<"t">>)),
     T(<<"$", "t">>, MakeGenericNode(<<"t">>)),
     T(<<"FN", "(", "a", ":", "t", "=", "b", ",", "b", ":", "VARARG", ")", "ARR", "(", "t", ",", "t", ")", "INLINE">>,
       MakeFunction(Absent,
           <<MakeVar(<<"a">>, MakeID(<<"t">>), b.n), MakeVar(<<"b">>, Done, Absent)>>,
           <<MakeID(<<"t">>), MakeID(<<"t">>)>>, {<<"INLINE">>}, << >>))}
Declared(flags) ==
    {T(<<"a", ":", "=">> \o e.w, MakeDecl(a.n, e.n, Absent, flags)) : e \in Some}
      \cup {T(<<"a", ":">> \o t.w \o <<"=">> \o e.w, MakeDecl(a.n, e.n, t.n, flags)) : t \in Types, e \in Some}
      \cup {T(<<"a", ":">> \o t.w, MakeDecl(a.n, Absent, t.n, flags)) : t \in Types}
      \cup {T(<<"a", "::">> \o e.w, MakeDecl(a.n, e.n, Absent, {<<"const">>} \cup flags)) : e \in Some}
      \cup {T(<<"a", ",", "b", ":", "=">> \o e.w,
              MakeDecl(MakeList(<<a.n, b.n>>), e.n, Absent, flags)) : e \in Some}
Ended(statements) == {T(s.w \o <<";">>, <<s.n>>) : s \in statements}
Simple ==
    Ended({T(e.w, e.n) : e \in Some} \cup Declared({})
          \cup {T(<<"b", ":", "=">> \o e.w, MakeDecl(b.n, e.n, Absent, {})) : e \in Expressions1}
          \cup {T(<<"STATIC">> \o d.w, [d.n EXCEPT ![5] = @ \cup {<<"static">>}]) : d \in Declared({})}
          \cup {T(<<"RETURN">>, MakeReturn(Absent)), T(<<"BREAK">>, MakeBreak),
                T(<<"CONTINUE">>, MakeContinue), T(<<"USING", "a">>, MakeTypedExpr("using", a.n)),
                T(<<"RETURN", "a", ",", "b">>, MakeReturn(MakeList(<<a.n, b.n>>)))}
          \cup {T(<<"RETURN">> \o e.w, MakeReturn(e.n)) : e \in Some}
          \cup {T(<<"YIELD">> \o e.w, MakeTypedExpr("yield", e.n)) : e \in Some})
      \cup {T(<<"ASSERT">> \o e.w \o <<";">>, <<MakeAssert(e.n)>>) : e \in Some}
      \cup {T(<<"IMPORT", "a">>, << >>), T(<<"IMPORT", "found", "AS", "b">>, << >>)}
\* A statement as a body: in braces, and by itself where it is one node.
InBraces(s) == T(<<"{">> \o s.w \o <<"}">>, <<MakeScope(TRUE)>> \o s.n \o <<MakeScope(FALSE)>>)
Bodies(s) == {InBraces(s)} \cup IF Len(s.n) = 1 THEN {s} ELSE {}
Compound(s) ==
    UNION {{T(<<"IF">> \o e.w \o body.w, <<MakeIf(e.n, body.n, << >>)>>),
            T(<<"IF">> \o e.w \o body.w \o <<"ELSE">> \o body.w, <<MakeIf(e.n, body.n, body.n)>>),
            T(<<"DEFER">> \o body.w, <<MakeDefer(body.n)>>),
            T(<<"RUN">> \o body.w, <<MakeRun(body.n)>>),
            T(<<"FOR">> \o InBraces(s).w, <<MakeFor("infinite", Absent, Absent, Absent, InBraces(s).n)>>),
            T(<<"FOR", "a", "IN">> \o e.w \o InBraces(s).w, <<MakeFor("it", a.n, e.n, Absent, InBraces(s).n)>>),
            T(<<"FOR">> \o e.w \o InBraces(s).w, <<MakeFor("while", e.n, Absent, Absent, InBraces(s).n)>>),
            T(<<"FOR", "b", ":", "=", "a", ";">> \o e.w \o <<";">> \o e.w \o InBraces(s).w,
              <<MakeFor("c", MakeDecl(b.n, a.n, Absent, {}), e.n, e.n, InBraces(s).n)>>),
            InBraces(s),
            T(<<"a", "(", "FN", "(", ")">> \o InBraces(s).w \o <<")", ";">>,
              <<MakeCall(a.n, <<MakeFunction(<<"lambda">>, << >>, << >>, {}, InBraces(s).n)>>)>>)} :
           e \in Some, body \in Bodies(s)}
\* The statements that bodies are made of.
Inner == Ended({T(<<"a">>, a.n), T(<<"b", ":", "=", "a">>, MakeDecl(b.n, a.n, Absent, {})),
                T(<<"RETURN", "a", ",", "b">>, MakeReturn(MakeList(<<a.n, b.n>>)))})
Statements == Simple \cup {T(<<";">>, << >>)} \cup UNION {Compound(s) : s \in Inner}

-----------------------------------------------------------------------------
(* Files: `module m`, then declarations *)
Public == {<<"public">>}
Function(s) == T(<<"f", "::", "FN", "(", ")">> \o InBraces(s).w,
                 <<MakeFunction(<<"f">>, << >>, << >>, Public, InBraces(s).n)>>)
Global(e) == T(<<"a", ":", "=">> \o e.w \o <<";">>, <<MakeDecl(a.n, e.n, Absent, Public)>>)
Qualify(c) == <<<<"m">>, <<c>>>>
MemberList == <<"{", "a", ":", "t", "=", "b", ",", "USING", "t", ",", "}">>
MemberNodes == <<MakeVar(<<"a">>, MakeID(<<"t">>), b.n), MakeVar(Absent, MakeID(<<"t">>), Absent)>>
ItemList == <<"{", "a", "=", "1", ",", "b", "}">>
ItemNodes == <<MakeListItem(<<"a">>, MakeConstant(<<"VAL", <<"1">>>>)), MakeListItem(<<"b">>, Absent)>>
Declarations ==
    {T(d.w \o <<";">>, <<d.n>>) : d \in Declared(Public)}
      \cup {T(<<"PRIVATE">> \o d.w \o <<";">>, <<d.n>>) : d \in Declared({})}
      \cup {T(<<"f", "::", "STRUCT">> \o MemberList, <<MakeStructDecl(Qualify("f"), MemberNodes, << >>, {})>>),
            T(<<"f", "::", "UNION", "<", "a", ",", "b", ">", "PACK">> \o MemberList,
              <<MakeStructDecl(Qualify("f"), MemberNodes, <<<<"a">>, <<"b">>>>, {<<"union">>, <<"packed">>})>>),
            T(<<"f", "::", "ENUM">> \o ItemList, <<MakeEnum(Qualify("f"), ItemNodes, Absent)>>),
            T(<<"f", "::", "ENUM", ":", "t">> \o ItemList, <<MakeEnum(Qualify("f"), ItemNodes, MakeID(<<"t">>))>>),
            T(<<"a", ":", "t", "THREADLOCAL", ";">>,
              <<MakeDecl(a.n, Absent, MakeID(<<"t">>), Public \cup {<<"threadlocal">>})>>),
            T(<<"a", ":", "t", "LINK", "=", "found", ";">>,
              <<MakeDecl(a.n, Absent, MakeID(<<"t">>), Public \cup {<<"extern", <<"a">>>>})>>),
            T(<<"f", "::", "FN", "LINK", "=", "found", "WASM_IMPORT", "=", "found", ",", "found", "(", "t", ")", "ARR", "t", ";">>,
              <<MakeFunction(<<"f">>, <<MakeVar(<<"_">>, MakeID(<<"t">>), Absent)>>, <<MakeID(<<"t">>)>>,
                  Public \cup {<<"LINK", <<"a">>>>, <<"FOREIGN">>, <<"WASM_IMPORT", <<<<"a">>, <<"a">>>>>>}, << >>)>>),
            T(<<"PROFILE", "=", "b">> \o Function(T(<<";">>, << >>)).w,
              <<MakeFunction(<<"f">>, << >>, << >>, Public \cup {<<"profile", b.n>>}, Empty)>>),
            T(<<"IMPORT", "a", "AS", "*", "b", "::", "IMPORT", "found", ";">>, << >>),
            T(<<"LOAD_DL", "found", "LOAD_SYSTEM_DL", "found", ";">>, << >>),
            T(<<"RUN", "a", ";">>, <<MakeRun(<<a.n>>)>>)}
\* Branches that the name a chooses: that file, that body, is what is left.
Kept == T(<<"a", ":", "=", "1", ";">>, <<MakeDecl(a.n, MakeConstant(<<"VAL", <<"1">>>>), Absent, {})>>)
Dropped == <<"{", "f", "{", "b", "}", "}">>
Choices4 ==
    {<<"PWDIF", "a", "{">> \o Kept.w \o <<"}", "PWDELSE">> \o Dropped,
     <<"PWDIF", "b">> \o Dropped \o <<"PWDELSE", "{">> \o Kept.w \o <<"}">>,
     <<"PWDIF", "a", "{">> \o Kept.w \o <<"}", "PWDELIF", "b">> \o Dropped,
     <<"PWDIF", "b">> \o Dropped \o <<"PWDELIF", "a", "{">> \o Kept.w \o <<"}", "PWDELSE">> \o Dropped}
ChosenBranches ==
    {T(w, <<[Kept.n[1] EXCEPT ![5] = Public]>>) : w \in Choices4}
      \cup {Function(T(w, <<MakeScope(TRUE)>> \o Kept.n \o <<MakeScope(FALSE)>>)) : w \in Choices4}

Files ==
    {Global(e) : e \in Expressions1 \cup Expressions2}
      \cup {Function(s) : s \in Statements} \cup Declarations \cup ChosenBranches
File(d) == <<"MODULE", "m">> \o d.w
Written == {Sourced(spelling, File(d), d.n) : d \in Files, spelling \in Spelling}

-----------------------------------------------------------------------------
(* Files with one token wrong *)
Bases ==
    {Function(T(w, << >>)).w : w \in
        {<<"a", "(", "b", ",", "1", ")", ";">>, <<"RETURN", "a", ",", "b", ";">>,
         <<"FOR", "b", ":", "=", "a", ";", "a", ";", "a", "{", "}">>, <<"FOR", "a", ";", "b", ";", "{", "}">>,
         <<"IF", "a", "{", "b", ";", "}", "ELSE", "{", "a", ".", "b", ";", "}">>}}
      \cup {<<"f", "::", "STRUCT", "{", "a", ":", "t", ",", "b", ":", "*", "t", "}">>,
            <<"f", "::", "ENUM", "{", "a", "=", "1", ",", "b", "}">>,
            <<"a", ":", "[", "1", "]", "t", "=", "b", "AS", "t", ";">>}
Strays == {";", "(", "{", "}", ",", "."}
Damaged(w) ==
    {RemoveAt(w, k) : k \in 3 .. Len(w)} \cup {InsertAt(w, k, w[k]) : k \in 3 .. Len(w)}
      \cup {ReplaceAt(w, k, o) : k \in 3 .. Len(w), o \in Strays}
Wrong == {Sourced(spelling, w, Unknown) : spelling \in Spelling,
             w \in UNION {Damaged(<<"MODULE", "m">> \o w \o <<"b", ":", "=", "a", ";">>) : w \in Bases}}

-----------------------------------------------------------------------------
(* Short texts *)
Abc == {"a", "s", "0", "x", ".", "<", "=", "\"", "'", "/", "*", "\n", "\\", "tick"}
Short == UNION {{[text |-> s \o end, tree |-> Unknown] : s \in [1 .. n -> Abc], end \in {<<"\n">>}} : n \in 0 .. 3}
             \cup {[text |-> s, tree |-> Unknown] : s \in [1 .. 2 -> Abc]}

MCSources == Written \cup Wrong \cup Short
=============================================================================
