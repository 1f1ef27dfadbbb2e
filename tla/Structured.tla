----------------------------- MODULE Structured -----------------------------
(***************************************************************************)
(* What a function body means, read off the statements themselves: the     *)
(* reference that the blocks of Lowering are compared with.  A run is the  *)
(* sequence of its calls, conditions and matches; Follow(program, trace)   *)
(* says how far the statements go along with a trace.                      *)
(*                                                                         *)
(* Also the conditions under which the checker accepts a body.             *)
(***************************************************************************)
EXTENDS Lowering

\* Ways to go on: the next statement, a jump, the end of the trace, an
\* assertion that failed, or an event the trace does not have.
Result(i, out) == [i |-> i, out |-> out]

\* The event at place i, if the trace has one.
Event(tr, i, name) ==
    IF i > Len(tr) THEN Result(i, "open")
    ELSE IF tr[i][1] = name THEN Result(i + 1, "next") ELSE Result(i, "wrong")

Stops(r) == r.out \in {"open", "wrong", "abort"}

\* Decide(c, tr, i): the condition c from place i; "true" and "false" besides.
RECURSIVE Decide(_, _, _)
Decide(c, tr, i) ==
    IF c.op = "atom"
    THEN LET r == Event(tr, i, c.name) IN
         IF r.out # "next" THEN r ELSE Result(r.i, IF tr[i][2] = 1 THEN "true" ELSE "false")
    ELSE LET left == Decide(c.left, tr, i) IN
         IF \/ c.op = "and" /\ left.out = "true"
            \/ c.op = "or" /\ left.out = "false"
         THEN Decide(c.right, tr, left.i)
         ELSE left

RECURSIVE Statement(_, _, _), Sequence(_, _, _, _, _), Loop(_, _, _)

\* The statements of a body from the k-th on; a scope that is left by any way
\* runs the deferred bodies that were met, the last one first.
Sequence(body, k, defers, tr, i) ==
    LET RunDefered(r) ==
            IF Stops(r) THEN r
            ELSE LET d == Sequence(FlattenSeq(defers), 1, << >>, tr, r.i) IN
                 IF Stops(d) THEN d ELSE Result(d.i, r.out)
    IN  IF k > Len(body) THEN (IF defers = << >> THEN Result(i, "next") ELSE RunDefered(Result(i, "next")))
        ELSE IF body[k].op = "defer"
        THEN Sequence(body, k + 1, <<body[k].body>> \o defers, tr, i)
        ELSE LET r == Statement(body[k], tr, i) IN
             IF r.out = "next" THEN Sequence(body, k + 1, defers, tr, r.i)
             ELSE IF defers = << >> THEN r ELSE RunDefered(r)

Statement(node, tr, i) ==
    CASE node.op = "call" -> Event(tr, i, node.name)
      [] node.op = "block" -> Sequence(node.body, 1, << >>, tr, i)
      [] node.op = "return" ->
            LET r == IF node.value THEN Event(tr, i, "value") ELSE Result(i, "next") IN
            IF Stops(r) THEN r ELSE Result(r.i, "return")
      [] node.op \in {"break", "continue", "yield"} -> Result(i, node.op)
      [] node.op = "assert" ->
            LET r == Decide(node.cond, tr, i) IN
            IF Stops(r) THEN r ELSE Result(r.i, IF r.out = "true" THEN "next" ELSE "abort")
      [] node.op = "if" ->
            LET r == Decide(node.cond, tr, i) IN
            IF Stops(r) THEN r
            ELSE Sequence(IF r.out = "true" THEN node.then ELSE node.else, 1, << >>, tr, r.i)
      [] node.op = "for" ->
            LET r == Sequence(node.init, 1, << >>, tr, i) IN
            IF Stops(r) THEN r ELSE Loop(node, tr, r.i)
      [] node.op = "switch" ->
            LET r == Event(tr, i, node.name)
                default == DefaultOf(node)
                k == IF tr[i][2] # 0 THEN tr[i][2] ELSE default
                b == IF k = 0 THEN Result(r.i, "next")
                     ELSE Sequence(node.cases[OnValues(node)[k]].body, 1, << >>, tr, r.i)
            IN  IF Stops(r) THEN r ELSE IF b.out = "yield" THEN Result(b.i, "next") ELSE b

\* A round of the loop that has no event goes on for ever.
Loop(node, tr, i) ==
    LET test == IF node.cond = << >> THEN Result(i, "true") ELSE Decide(node.cond[1], tr, i)
        body == Sequence(node.body, 1, << >>, tr, test.i)
        incr == Sequence(node.incr, 1, << >>, tr, body.i)
    IN  CASE Stops(test) -> test
          [] test.out = "false" -> Result(test.i, "next")
          [] test.out = "true" /\ Stops(body) -> body
          [] test.out = "true" /\ body.out = "break" -> Result(body.i, "next")
          [] test.out = "true" /\ body.out \in {"return", "yield"} -> body
          [] test.out = "true" /\ body.out \in {"next", "continue"} ->
                IF Stops(incr) THEN incr
                ELSE IF incr.i = i THEN Result(i, "open") ELSE Loop(node, tr, incr.i)

Follow(body, tr) == Statement(body, tr, 1)

-----------------------------------------------------------------------------
(* What the checker accepts *)

\* The nodes of a body as the parser lists them: a braced block is its nodes
\* between an opening and a closing one.
RECURSIVE Flat(_)
Flat(body) ==
    FlattenSeq([i \in DOMAIN body |->
        IF body[i].op = "block"
        THEN <<[op |-> "open"]>> \o Flat(body[i].body) \o <<CloseScope>>
        ELSE <<body[i]>>])

\* CheckBodyForUnreachableCode: a jump is the last node of its body, but for
\* the brace that closes it.
NoUnreachableCode(body) ==
    LET flat == Flat(body) IN
    \A k \in DOMAIN flat :
        flat[k].op \in {"return", "yield", "break", "continue"} =>
            \/ k = Len(flat)
            \/ k + 1 = Len(flat) /\ flat[k + 1].op = "close"

\* The bodies of a node that are checked on their own, and what they are in.
Bodies(node) ==
    CASE node.op = "if" -> <<node.then, node.else>>
      [] node.op = "for" -> <<node.body>>
      [] node.op = "switch" -> [c \in DOMAIN node.cases |-> node.cases[c].body]
      [] node.op = "defer" -> <<node.body>>
      [] OTHER -> << >>

\* AnalyzeNode: a break or continue is inside a loop and a yield inside a switch.
RECURSIVE Placed(_, _, _)
Placed(body, inLoop, inSwitch) ==
    \A k \in DOMAIN body :
        LET node == body[k] IN
        /\ node.op \in {"break", "continue"} => inLoop
        /\ node.op = "yield" => inSwitch
        /\ node.op = "block" => Placed(node.body, inLoop, inSwitch)
        /\ \A b \in DOMAIN Bodies(node) :
            /\ NoUnreachableCode(Bodies(node)[b])
            /\ Placed(Bodies(node)[b], inLoop \/ node.op = "for", inSwitch \/ node.op = "switch")

\* All returns give a value or none does, and a value needs a return at the end.
RECURSIVE ReturnsIn(_)
ReturnsIn(body) ==
    UNION {IF body[k].op = "return" THEN {body[k].value}
           ELSE IF body[k].op = "block" THEN ReturnsIn(body[k].body)
           ELSE UNION {ReturnsIn(Bodies(body[k])[b]) : b \in DOMAIN Bodies(body[k])} :
           k \in DOMAIN body}

Accepted(fn) ==
    LET values == ReturnsIn(fn.body) \cup ReturnsIn(ImplicitReturn(fn.body)) IN
    /\ NoUnreachableCode(<<fn>>)
    /\ Placed(<<fn>>, FALSE, FALSE)
    /\ values \in {{TRUE}, {FALSE}}

-----------------------------------------------------------------------------
(* The jumps for which the lowering keeps the meaning of defer: those that   *)
(* leave no scope with deferred bodies but the innermost one, and that are   *)
(* not in a deferred body themselves.  A defer is directly in braces, and a  *)
(* string switch has its default at its end.                                 *)

HasDefer(body) == \E k \in DOMAIN body : body[k].op = "defer"

\* loop and switch: for each scope that is open since the loop or the switch
\* began, the enclosing one first, whether it defers anything.
RECURSIVE PlainIn(_, _, _, _)
PlainIn(body, loop, switch, scope) ==
    \A k \in DOMAIN body :
        LET node == body[k] IN
        CASE node.op = "block" ->
                PlainIn(node.body, Append(loop, HasDefer(node.body)),
                        Append(switch, HasDefer(node.body)), HasDefer(node.body))
          [] node.op \in {"break", "continue"} ->
                IF Len(loop) = 1 THEN ~scope
                ELSE \A i \in 2 .. Len(loop) - 1 : ~loop[i]
          [] node.op = "yield" -> \A i \in 2 .. Len(switch) : ~switch[i]
          [] node.op = "for" ->
                ~HasDefer(node.body) /\ PlainIn(node.body, <<scope>>, switch, scope)
          [] node.op = "switch" ->
                /\ node.kind = "string" => DefaultOf(node) \in {0, Len(OnValues(node))}
                /\ \A c \in DOMAIN node.cases :
                    /\ ~HasDefer(node.cases[c].body)
                    /\ PlainIn(node.cases[c].body, loop, <<scope>>, scope)
          [] node.op = "if" ->
                /\ ~HasDefer(node.then \o node.else)
                /\ PlainIn(node.then, loop, switch, scope)
                /\ PlainIn(node.else, loop, switch, scope)
          [] node.op = "defer" -> Placed(node.body, FALSE, FALSE) /\ ReturnsIn(node.body) = {}
          [] OTHER -> TRUE

PlainJumps(fn) == PlainIn(<<fn>>, << >>, << >>, FALSE)

-----------------------------------------------------------------------------
(* What must hold *)

\* The blocks do what the statements say: calls and conditions in their order,
\* only the side of && and || that is needed, the deferred code of every scope
\* that a jump leaves, after the value of a return is evaluated, and the next
\* round, the end of the loop or the case that a jump or a value leads to.
RunsAsWritten ==
    phase # "lower" =>
        LET r == Follow(program, trace) IN
        /\ r.i = Len(trace) + 1
        /\ r.out \in {"open", "next", "return", "abort"}
        /\ phase = "returned" => r.out \in {"next", "return"}
        /\ phase = "aborted" => r.out = "abort"
=============================================================================
