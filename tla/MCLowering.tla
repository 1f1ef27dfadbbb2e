----------------------------- MODULE MCLowering -----------------------------
(* TLC instances of the lowering: all small bodies of one statement inside   *)
(* another, and a few that combine more.                                     *)
EXTENDS FlowTyping

F == Call("f")
D == Defer(<<Call("d")>>)
Leaves == {F, D, Return(FALSE), Break, Continue, Yield}
Braced(S) == {<<Block(s)>> : s \in S}
Short == Braced(SeqOf(Leaves, 2)) \cup {<<s>> : s \in Leaves}

A == Atom("a")
B == Atom("b")
Loops(S) ==
    {For("while", << >>, <<A>>, << >>, s) : s \in S}
    \cup {For("infinite", << >>, << >>, << >>, s) : s \in S}
    \cup {For("c", <<Call("i")>>, <<A>>, <<Call("n")>>, s) : s \in S}
Ifs(S) == {If(B, s, e) : s \in S, e \in {<< >>, <<Block(<<Call("e")>>)>>}}
Switches(S) ==
    {Switch("int", "s", <<Case(1, TRUE, e), Case(2, FALSE, s)>>) :
        s \in S, e \in {<<Yield>>, <<Block(<<F>>)>>}}
    \cup {Switch("string", "s", <<Case(2, FALSE, s), Case(1, FALSE, <<F>>)>>) : s \in S}

OK(S) == {s \in S : Accepted(s) /\ PlainJumps(s)}
Alone(S) == OK({Block(<<D, s, F>>) : s \in S})

OneDeep == Alone(Loops(Short) \cup Ifs(Short) \cup Switches(Short))
TwoDeep == OK({Block(<<s>>) : s \in Loops(Braced({<<x>> : x \in Ifs(Short) \cup Switches(Short)}))})

\* Conditions, an assertion, a loop over an array, a default at the end of a
\* string switch, a return out of three scopes, a free block.
Others == OK({
    Block(<<If(And(A, Or(B, Atom("c"))), <<F>>, <<Return(FALSE)>>), Assertion(Or(A, B)), F>>),
    Block(<<D, For("it", <<Call("array")>>, <<Or(A, And(B, A))>>, << >>,
                   <<Block(<<Defer(<<Call("g")>>), If(B, <<Continue>>, << >>), F>>)>>), F>>),
    Block(<<Switch("string", "s", <<Case(1, FALSE, <<F>>), Case(1, TRUE, <<Block(<<D, F>>)>>)>>), F>>),
    Block(<<D, For("infinite", << >>, << >>, << >>,
                   <<Block(<<Defer(<<Call("g")>>),
                             If(A, <<Block(<<Defer(<<Call("h")>>), Return(TRUE)>>)>>, << >>)>>)>>),
            Return(TRUE)>>),
    Block(<<Block(<<D, Block(<<Defer(<<If(A, <<F>>, << >>)>>), F>>)>>), F>>),
    Block(<<For("c", << >>, << >>, << >>,
                <<Block(<<Switch("int", "s", <<Case(1, FALSE, <<Break>>), Case(1, FALSE, <<Yield>>)>>)>>)>>),
            Assertion(A)>>),
    Block(<<D, Defer(<<Call("g")>>), If(A, <<Block(<<F, Return(FALSE)>>)>>, << >>)>>)})

-----------------------------------------------------------------------------
(* Bodies with the nullable pointers p and q.                                *)

Compared(op, value) == [op |-> op, value |-> value]
Test(location, cmp, against) == [location |-> location, cmp |-> cmp, against |-> against]
NullTests ==
    "p != null" :> Test("p", "neq", << >>) @@ "p == null" :> Test("p", "eq", << >>)
    @@ "!(p != null)" :> Test("p", "neq", <<Compared("eq", FALSE)>>)
    @@ "!((p == null) != true)" :> Test("p", "eq", <<Compared("neq", TRUE), Compared("eq", FALSE)>>)
    @@ "(q == null) == false" :> Test("q", "eq", <<Compared("eq", FALSE)>>)
NullReads == "f(*p)" :> "p" @@ "f(*q)" :> "q"
NullStores ==
    "p = q" :> [location |-> "p", nullable |-> TRUE]
    @@ "p = &x" :> [location |-> "p", nullable |-> FALSE]

R == Call("f(*p)")
W == Call("p = q")
X == Call("p = &x")
N == Atom("p != null")
Z == Atom("p == null")
NotN == Atom("!(p != null)")
NotNotZ == Atom("!((p == null) != true)")

NullConds == {N, Z, NotN, NotNotZ, And(N, A), And(A, N), Or(Z, A), Or(N, Z)}
Then == {<<R>>, <<W>>, <<Return(FALSE)>>, <<Block(<<R, W>>)>>}
NullIfs == {Block(<<If(c, s, e), R>>) : c \in NullConds, s \in Then, e \in Then \cup {<< >>, <<X>>}}

NullLoopBodies == {
    <<Block(<<R>>)>>, <<Block(<<W>>)>>, <<Block(<<If(A, <<W>>, << >>)>>)>>,
    <<Block(<<If(Z, <<Break>>, << >>), R>>)>>,
    <<Block(<<R, If(A, <<Continue>>, << >>), R>>)>>,
    <<Block(<<If(N, <<R>>, <<W>>)>>)>>,
    <<Block(<<Defer(<<R>>), If(B, <<Break>>, << >>), F>>)>>}
NullLoops ==
    {Block(<<For("while", << >>, <<c>>, << >>, s), R>>) : c \in {N, Z, A}, s \in NullLoopBodies}
    \cup {Block(<<If(Z, <<Return(FALSE)>>, << >>), For("infinite", << >>, << >>, << >>, s)>>) :
            s \in NullLoopBodies}
    \cup {Block(<<If(N, <<Block(<<For("c", << >>, <<A>>, <<R>>, s)>>)>>, << >>)>>) : s \in NullLoopBodies}

NullSwitch(first, last) ==
    Block(<<If(Z, <<Return(FALSE)>>, << >>),
            Switch("int", "s", <<Case(2, first, <<R>>), Case(1, last, <<Block(<<R, W>>)>>)>>), R>>)
NullOthers == {
    NullSwitch(FALSE, FALSE), NullSwitch(FALSE, TRUE),
    Block(<<Assertion(N), R, If(And(N, Atom("(q == null) == false")), <<R, Call("f(*q)")>>, << >>)>>),
    Block(<<If(Atom("(q == null) == false"), <<Call("f(*q)"), W>>, << >>), If(N, <<R>>, <<X>>)>>)}

NullBodies == OK(NullIfs \cup NullLoops \cup NullOthers)

\* An integer switch whose default comes first, in a function with a nullable.
DefaultFirst ==
    {Block(<<Switch("int", "s", <<Case(1, TRUE, <<F>>), Case(1, FALSE, <<F>>)>>),
             If(N, <<R>>, << >>)>>)}
ASSUME AcceptedDefault == \A fn \in DefaultFirst : Accepted(fn) /\ PlainJumps(fn)

AllBodies == OneDeep \cup TwoDeep \cup Others \cup NullBodies

-----------------------------------------------------------------------------
(* The statements of the bodies; s: inside a switch.                         *)

RECURSIVE StatementsIn(_, _)
StatementsIn(body, s) ==
    UNION {{<<body[k], s>>} \cup
           LET node == body[k]
               parts == CASE node.op = "block" -> {<<node.body, s>>}
                          [] node.op = "defer" -> {<<node.body, FALSE>>}
                          [] node.op = "if" -> {<<node.then, s>>, <<node.else, s>>}
                          [] node.op = "for" -> {<<node.body, s>>, <<node.init, s>>, <<node.incr, s>>}
                          [] node.op = "switch" -> {<<c.body, TRUE>> : c \in Range(node.cases)}
                          [] OTHER -> {}
           IN UNION {StatementsIn(p[1], p[2]) : p \in parts} : k \in DOMAIN body}

RECURSIVE EndsInJump(_)
EndsInJump(node) ==
    \/ node.op \in {"return", "yield", "break", "continue"}
    \/ node.op = "block" /\ node.body # << >> /\ EndsInJump(Last(node.body))

AllStatements == UNION {StatementsIn(fn.body, FALSE) : fn \in AllBodies \cup DefaultFirst}
MCOngoing == [s \in BOOLEAN |-> {x[1] : x \in {y \in AllStatements : y[2] = s /\ ~EndsInJump(y[1])}}]
MCLeaving == [s \in BOOLEAN |-> {x[1] : x \in {y \in AllStatements : y[2] = s /\ EndsInJump(y[1])}}]
=============================================================================
