---------------------------- MODULE MCPolymorph ----------------------------
(***************************************************************************)
(* Small programs for Polymorph: a few structs in every order, two generic *)
(* functions of every shape of parameters that call each other, and a main *)
(* function that calls them with several types.                            *)
(***************************************************************************)
EXTENDS Polymorph

I32 == <<"basic", "i32">>
F32 == <<"basic", "f32">>
T == <<"name", "T">>
New == <<"new", "T">>
P(node) == <<"pointer", node>>
S(base, nodes) == <<"struct", base, nodes>>
Struct(params, members) == [params |-> params, members |-> members]

Box == Struct(<<"T">>, <<T, P(T)>>)
List == Struct(<<"T">>, <<T, P(S("List", <<T>>))>>)
Pair == Struct(<<"A", "B">>, <<<<"name", "B">>, P(<<"name", "A">>)>>)
Twice == Struct(<<"T">>, <<P(S("Box", <<T>>)), S("Box", <<F32>>), T>>)
Wrap == Struct(<<"U">>, <<S("Box", <<<<"name", "U">>>>)>>)
Both == Struct(<<"X", "Y">>, <<S("Pair", <<<<"name", "X">>, <<"name", "Y">>>>), <<"name", "X">>>>)
Plain == Struct(<<>>, <<S("Box", <<I32>>), F32>>)

Param(name, node) == [name |-> name, node |-> node]
Fn(name, params, returns, body) == [name |-> name, params |-> params, returns |-> returns, body |-> body]

\* The parameter lists of a generic function, and T's use in results.
OneName == {
    <<Param("a", New)>>, <<Param("a", P(New))>>, <<Param("a", S("Box", <<New>>))>>,
    <<Param("a", P(S("Box", <<New>>)))>>, <<Param("T", TypeID), Param("a", T)>>,
    <<Param("a", New), Param("b", P(T))>>, <<Param("T", TypeID), Param("a", S("Box", <<T>>))>>}

ThisVar(i) == <<"var", i>>
Call(f, args) == <<"call", f, args>>

\* An argument list made for a parameter list, from a variable of T, its
\* type node and a Box of it.
For(params, v, node, box) ==
    [i \in DOMAIN params |->
        CASE params[i].node = TypeID -> <<"type", node>>
          [] params[i].node[1] = "struct" -> box
          [] params[i].node[1] = "pointer" /\ params[i].node[2][1] = "struct" -> <<"addr", box>>
          [] params[i].node[1] = "pointer" -> <<"addr", v>>
          [] OTHER -> v]

\* f calls itself, or g with what it has or with a pointer to it, and then
\* uses T again; g calls f back or only uses T.
Bodies(fp, gp) ==
    LET n == Len(fp)
        t == ThisVar(n + 1)
        box == ThisVar(n + 2)
        start == <<<<"var", T>>, <<"var", S("Box", <<T>>)>>>>
        pointed == <<<<"var", S("Box", <<P(T)>>)>>>>
    IN  {start \o <<Call("g", For(gp, t, T, box)), <<"var", T>>, <<"var", S("Box", <<P(T)>>)>>>>,
         start \o pointed \o <<Call("g", For(gp, <<"addr", t>>, P(T), ThisVar(n + 3))), <<"var", P(T)>>>>,
         start \o <<Call("f", For(fp, t, T, box)), Call("g", For(gp, ThisVar(n), T, box)), <<"var", T>>>>}

BackBodies(fp, gp) ==
    LET t == ThisVar(Len(gp) + 1)
        start == <<<<"var", T>>, <<"var", S("Box", <<T>>)>>>>
    IN  {start, start \o <<Call("f", For(fp, t, T, ThisVar(Len(gp) + 2))), <<"var", P(T)>>>>}

Main(fp) ==
    Fn("main", <<>>, <<>>,
       <<<<"var", I32>>, <<"var", S("Box", <<I32>>)>>, Call("f", For(fp, ThisVar(1), I32, ThisVar(2))),
         <<"var", F32>>, <<"var", S("Box", <<F32>>)>>>>
       \o <<Call("f", For(fp, ThisVar(3), F32, ThisVar(4))), Call("f", For(fp, ThisVar(1), I32, ThisVar(2)))>>)

Boxes == [Box |-> Box]

Calling ==
    UNION {{[structs |-> Boxes,
             functions |-> <<Fn("f", fp, <<>>, fb), Main(fp), Fn("g", gp, <<>>, gb)>>] :
                fb \in Bodies(fp, gp), gb \in BackBodies(fp, gp)} : fp \in OneName, gp \in OneName}

\* The same, with an argument of another type than the rest asks for.
Misfits ==
    UNION {{[structs |-> Boxes,
             functions |-> <<Fn("f", fp, <<>>, <<<<"var", T>>>>),
                             Fn("main", <<>>, <<>>,
                                <<<<"var", I32>>, <<"var", F32>>, <<"var", S("Box", <<F32>>)>>, Call("f", args)>>)>>] :
                args \in [DOMAIN fp -> {ThisVar(1), ThisVar(2), ThisVar(3), <<"addr", ThisVar(1)>>,
                                       <<"addr", ThisVar(3)>>, <<"type", I32>>, <<"type", P(F32)>>}]} :
           fp \in {p \in OneName : Len(p) = 2}}

\* Structs in every order, used through functions of their parameters.
TwoNew(base) == S(base, <<<<"new", "A">>, <<"new", "B">>>>)
Swapped(base) == S(base, <<<<"name", "B">>, <<"name", "A">>>>)

Uses(base, body) ==
    <<Fn("f", <<Param("a", S(base, <<New>>)), Param("b", P(T))>>, <<S(base, <<P(T)>>)>>, body),
      Fn("plain", <<Param("a", S(base, <<I32>>))>>, <<F32>>, <<>>),
      Fn("main", <<>>, <<>>,
         <<<<"var", S(base, <<I32>>)>>, <<"var", I32>>, Call("f", <<ThisVar(1), <<"addr", ThisVar(2)>>>>),
           <<"var", P(P(I32))>>, Call("f", <<ThisVar(3), ThisVar(4)>>), Call("plain", <<ThisVar(1)>>)>>)>>

UsesTwo(base) ==
    <<Fn("g", <<Param("a", TwoNew(base))>>, <<Swapped(base)>>, <<<<"var", S("Box", <<<<"name", "A">>>>)>>>>),
      Fn("f", <<Param("a", P(TwoNew(base)))>>, <<Swapped(base)>>,
         <<<<"var", Swapped(base)>>, Call("g", <<ThisVar(2)>>), <<"var", <<"name", "A">>>>, Call("f", <<<<"addr", ThisVar(3)>>>>)>>),
      Fn("main", <<>>, <<>>,
         <<<<"var", S(base, <<I32, F32>>)>>, Call("f", <<<<"addr", ThisVar(1)>>>>), Call("g", <<ThisVar(2)>>), Call("g", <<ThisVar(1)>>)>>)>>

Using ==
    {[structs |-> [Box |-> Box, List |-> List, Twice |-> Twice, Wrap |-> Wrap], functions |-> Uses(base, body)] :
        base \in {"List", "Twice", "Wrap"},
        body \in {<<>>, <<<<"var", S("Box", <<T>>)>>, <<"var", S("Wrap", <<P(T)>>)>>>>}}
    \union {[structs |-> [Box |-> Box, Pair |-> Pair, Both |-> Both, Plain |-> Plain], functions |-> UsesTwo(base)] :
        base \in {"Pair", "Both"}}

\* What is refused before any call, an instance for every pointer depth, and
\* a struct with no arguments where one with some is asked for.
Refused ==
    {[structs |-> Boxes, functions |-> <<Fn("f", <<Param("a", New), Param("b", <<"new", "U">>)>>, <<>>, <<>>)>>]}

Endless ==
    {[structs |-> Boxes,
      functions |-> <<Fn("f", <<Param("a", New)>>, <<>>, <<Call("f", <<<<"addr", ThisVar(1)>>>>)>>),
                      Fn("main", <<>>, <<>>, <<<<"var", I32>>, Call("f", <<ThisVar(1)>>)>>)>>]}

Overrun ==
    {[structs |-> [Box |-> Box, Plain |-> Plain],
      functions |-> <<Fn("f", <<Param("a", S("Box", <<New>>))>>, <<>>, <<>>),
                      Fn("main", <<>>, <<>>, <<<<"var", <<"name", "Plain">>>>, Call("f", <<ThisVar(1)>>)>>)>>]}

MCPrograms == Calling \union Misfits \union Using \union Refused \union Endless \union Overrun
=============================================================================
