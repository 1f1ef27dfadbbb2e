------------------------------ MODULE Lowering ------------------------------
(***************************************************************************)
(* The lowering of a function's statements into basic blocks, IR.cpp, and  *)
(* the machine that runs the blocks.  The recursion of                     *)
(* BuildIRFunctionLevel is kept as the list todo of nodes and of the work  *)
(* that is left of the callers, one action for each kind.                  *)
(*                                                                         *)
(* Of the data only conditions and the values of a switch are kept; a call *)
(* stands for any statement that runs code and changes no control.         *)
(***************************************************************************)
EXTENDS Naturals, Sequences, SequencesExt

CONSTANTS
    Programs,     \* bound: the function bodies that are tried
    Ongoing,      \* Ongoing[s]: their statements that do not jump; s: inside a switch
    Leaving,      \* Leaving[s]: jumps, and blocks that end in one
    MaxEvents     \* bound: calls, conditions and matches of one run

VARIABLES
    program,      \* the body of the function: one braced block
    phase,        \* "lower", "run", "returned" or "aborted"
    todo,         \* nodes and work that is left
    builder,      \* block_builder
    at,           \* the block that runs and the place in it
    regs,         \* the registers that were assigned
    trace         \* what the run did: <<name, outcome>>

machine == <<at, regs, trace>>
vars == <<program, phase, todo, builder, at, regs, trace>>

-----------------------------------------------------------------------------
(* The nodes *)

Call(name) == [op |-> "call", name |-> name]
Block(body) == [op |-> "block", body |-> body]
Defer(body) == [op |-> "defer", body |-> body]
Return(value) == [op |-> "return", value |-> value]     \* with or without an expression
Break == [op |-> "break"]
Continue == [op |-> "continue"]
Yield == [op |-> "yield"]
If(cond, then, else) == [op |-> "if", cond |-> cond, then |-> then, else |-> else]
Assertion(cond) == [op |-> "assert", cond |-> cond]
\* cond is empty or one condition; init and incr are nodes.
For(kind, init, cond, incr, body) ==
    [op |-> "for", kind |-> kind, init |-> init, cond |-> cond, incr |-> incr, body |-> body]
\* A case has some values, or is the default; kind is "int" or "string".
Case(values, default, body) == [values |-> values, default |-> default, body |-> body]
Switch(kind, name, cases) == [op |-> "switch", kind |-> kind, name |-> name, cases |-> cases]

Atom(name) == [op |-> "atom", name |-> name]
And(left, right) == [op |-> "and", left |-> left, right |-> right]
Or(left, right) == [op |-> "or", left |-> left, right |-> right]

\* OnValues: the case of every value, with one place for the default.
OnValues(node) ==
    FlattenSeq([c \in DOMAIN node.cases |-> [i \in 1 .. node.cases[c].values |-> c]])
IsDefault(node, k) == node.cases[OnValues(node)[k]].default
DefaultOf(node) ==
    LET places == {k \in DOMAIN OnValues(node) : IsDefault(node, k)}
    IN  IF places = {} THEN 0 ELSE CHOOSE k \in places : TRUE

\* What a value can be matched with: no case, or one of the values.
Matches(node) == {0} \cup {k \in DOMAIN OnValues(node) : ~IsDefault(node, k)}

-----------------------------------------------------------------------------
(* What the checker accepts, of which the lowering makes use: a jump is the  *)
(* last thing in its body (CheckBodyForUnreachableCode), a yield is inside a *)
(* switch (AnalyzeNode), and a switch has a case (AnalyzeExpression).  A     *)
(* deferred body that is a jump itself is accepted too, and left out here.   *)

IsBody(body, s) ==
    /\ body \in Seq(Ongoing[s] \cup Leaving[s])
    /\ \A i \in DOMAIN body : body[i] \in Leaving[s] => i = Len(body)

IsOngoing(node, s) ==
    \/ node.op \in {"call", "assert"}
    \/ node.op = "block" /\ node.body \in Seq(Ongoing[s])
    \/ node.op = "defer" /\ node.body \in Seq(Ongoing[FALSE])
    \/ node.op = "if" /\ IsBody(node.then, s) /\ IsBody(node.else, s)
    \/ /\ node.op = "for" /\ IsBody(node.body, s)
       /\ node.init \in Seq(Ongoing[s]) /\ node.incr \in Seq(Ongoing[s])
    \/ /\ node.op = "switch" /\ Len(node.cases) \in Nat \ {0}
       /\ \A k \in 1 .. Len(node.cases) :
            node.cases[k].values \in Nat \ {0} /\ IsBody(node.cases[k].body, TRUE)

IsLeaving(node, s) ==
    \/ node.op \in {"return", "break", "continue"}
    \/ node.op = "yield" /\ s
    \/ node.op = "block" /\ IsBody(node.body, s)

ASSUME LoweringAssumption ==
    /\ MaxEvents \in Nat
    /\ \A s \in BOOLEAN :
        /\ \A node \in Ongoing[s] : IsOngoing(node, s)
        /\ \A node \in Leaving[s] : IsLeaving(node, s)
    /\ \A fn \in Programs :
        /\ fn.op = "block" /\ IsBody(fn.body, FALSE)
        /\ \A i \in DOMAIN fn.body : fn.body[i] \in Leaving[FALSE] => fn.body[i].op = "return"

-----------------------------------------------------------------------------
(* The builder *)

NewBlock(id) == [id |-> id, code |-> << >>, terminated |-> FALSE]

MakeBlockBuilder ==
    [current |-> NewBlock(0), blocks |-> << >>, defered |-> << >>, yields |-> << >>,
     breakTo |-> 0, continueTo |-> 0, lastBlock |-> 1, lastRegister |-> 0, asserted |-> FALSE]

\* PushInstruction asserts that the current block is not terminated.
Push(b, i) ==
    [b EXCEPT !.current.code = Append(@, i), !.asserted = @ \/ b.current.terminated]

Terminate(b, goTo) ==
    [b EXCEPT !.blocks = Append(@, [b.current EXCEPT !.terminated = TRUE]),
              !.current = NewBlock(goTo)]

AllocateBlocks(b, n) == [b EXCEPT !.lastBlock = @ + n]
AllocateRegister(b) == [b EXCEPT !.lastRegister = @ + 1]

Jmp(to) == [op |-> "jmp", to |-> to]
Branch(reg, then, else) == [op |-> "if", reg |-> reg, then |-> then, else |-> else]
Store(reg, value) == [op |-> "store", reg |-> reg, value |-> value]

\* A jump that ends the block by itself: return, yield, break and continue.
PushLast(b, i) == [Push(b, i) EXCEPT !.current.terminated = TRUE]

\* The instruction is put at the end of a block that was left without one.
AppendTo(b, id, i) ==
    [b EXCEPT !.blocks =
        [k \in DOMAIN b.blocks |->
            IF b.blocks[k].id = id THEN [b.blocks[k] EXCEPT !.code = Append(@, i)]
                                   ELSE b.blocks[k]]]

\* The deferred bodies of a scope, the last one first.
DeferedOf(scope) == FlattenSeq(Reverse(scope))

\* PushDefferedInstructions: those of all scopes, the innermost first.
AllDefered(b) ==
    FlattenSeq([i \in DOMAIN b.defered |-> DeferedOf(Reverse(b.defered)[i])])

Innermost(b) == IF b.defered = << >> THEN << >> ELSE Last(b.defered)

-----------------------------------------------------------------------------
(* Work that is left of a caller *)

Evaluate(cond, reg) == [op |-> "expr", cond |-> cond, reg |-> reg]
EndBody(to) == [op |-> "endBody", to |-> to]
CloseScope == [op |-> "close"]

\* The current node, and one step of the lowering of it.
Node == Head(todo)
Lower(op) == phase = "lower" /\ todo # << >> /\ Node.op = op
Proceed(work, b) ==
    /\ todo' = work \o Tail(todo)
    /\ builder' = b
    /\ UNCHANGED <<program, phase, machine>>

\* AnalyzeFunctionBody ends a body that has no return on its own level with one.
ImplicitReturn(body) ==
    IF \E i \in DOMAIN body : body[i].op = "return" THEN << >> ELSE <<Return(FALSE)>>

Init ==
    /\ program \in Programs
    /\ phase = "lower"
    /\ todo = <<program>> \o ImplicitReturn(program.body)
    /\ builder = MakeBlockBuilder
    /\ at = [block |-> 0, pc |-> 1]
    /\ regs = << >>
    /\ trace = << >>

-----------------------------------------------------------------------------
(* Statements *)

LowerCall ==
    /\ Lower("call")
    /\ Proceed(<< >>, Push(builder, [op |-> "call", name |-> Node.name]))

\* A braced body is its nodes between two AST_SCOPE nodes.  The opening one
\* pushes debug information and an empty list of deferred bodies.
OpenScope ==
    /\ Lower("block")
    /\ Proceed(Node.body \o <<CloseScope>>,
               [Push(builder, [op |-> "scope"]) EXCEPT !.defered = Append(@, << >>)])

\* Mutant: the deferred bodies run in the order in which they are written.
ScopeEndsInOrder ==
    /\ Lower("close")
    /\ Proceed(IF builder.current.terminated THEN << >> ELSE FlattenSeq(Last(builder.defered)),
               [builder EXCEPT !.defered = Front(@)])

\* The closing one runs them, unless the block has its terminator.
ScopeEnds ==
    /\ Lower("close")
    /\ Proceed(IF builder.current.terminated THEN << >> ELSE DeferedOf(Last(builder.defered)),
               [builder EXCEPT !.defered = Front(@)])

LowerDefer ==
    /\ Lower("defer")
    /\ Proceed(<< >>, [builder EXCEPT !.defered[Len(builder.defered)] = Append(@, Node.body)])

\* The value is evaluated, every scope's deferred bodies run, the function returns.
LowerReturn ==
    /\ Lower("return")
    /\ Proceed(AllDefered(builder) \o <<[op |-> "leave", to |-> [op |-> "ret"]]>>,
               IF Node.value THEN Push(builder, [op |-> "call", name |-> "value"]) ELSE builder)

\* A yield leaves for the end of the switch and runs nothing.
LowerYield ==
    /\ Lower("yield")
    /\ Proceed(<< >>, PushLast(builder, Jmp(Last(builder.yields))))

\* A break runs the deferred bodies of the innermost scope alone.
LowerBreak ==
    /\ Lower("break")
    /\ Proceed(DeferedOf(Innermost(builder)) \o
                  <<[op |-> "leave", to |-> Jmp(builder.breakTo)]>>, builder)

LowerContinue ==
    /\ Lower("continue")
    /\ Proceed(DeferedOf(Innermost(builder)) \o
                  <<[op |-> "leave", to |-> Jmp(builder.continueTo)]>>, builder)

\* The end of LowerReturn, LowerBreak and LowerContinue.
Leave ==
    /\ Lower("leave")
    /\ Proceed(<< >>, PushLast(builder, Node.to))

LowerAssert ==
    /\ Lower("assert")
    /\ Proceed(<<Evaluate(Node.cond, builder.lastRegister),
                 [op |-> "asserted", reg |-> builder.lastRegister]>>,
               AllocateRegister(builder))

\* BuildAssertExpr: the failed branch prints, aborts and is never left.
BuildAssertExpr ==
    LET failed == builder.lastBlock
        after == failed + 1
        branch == Push(AllocateBlocks(builder, 2), Branch(Node.reg, after, failed))
    IN
    /\ Lower("asserted")
    /\ Proceed(<< >>, Terminate(Push(Terminate(branch, failed), [op |-> "unreachable"]), after))

\* The end of BuildIRBody.
BodyEnds ==
    /\ Lower("endBody")
    /\ Proceed(<< >>, Terminate(IF builder.current.terminated THEN builder
                                ELSE Push(builder, Jmp(Node.to)), Node.to))

LowerIf ==
    /\ Lower("if")
    /\ Proceed(<<Evaluate(Node.cond, builder.lastRegister),
                 [op |-> "then", node |-> Node, reg |-> builder.lastRegister]>>,
               AllocateRegister(builder))

LowerThen ==
    LET then == builder.lastBlock
        else == then + 1
        end == then + 2
        branch == Push(AllocateBlocks(builder, 3), Branch(Node.reg, then, else))
    IN
    /\ Lower("then")
    /\ Proceed(Node.node.then \o
                  <<EndBody(end),
                    [op |-> "else", node |-> Node.node, block |-> else, end |-> end]>>,
               Terminate(branch, then))

LowerElse ==
    /\ Lower("else")
    /\ LET b == [builder EXCEPT !.current = NewBlock(Node.block)] IN
        IF Node.node.else = << >>
        THEN Proceed(<< >>, Terminate(Push(b, Jmp(Node.end)), Node.end))
        ELSE Proceed(Node.node.else \o <<EndBody(Node.end)>>, b)

-----------------------------------------------------------------------------
(* Loops: the blocks test, body, next and end; without an increment next is *)
(* the test.                                                                *)

Condition(node, reg) ==
    IF node.cond = << >> THEN << >> ELSE <<Evaluate(node.cond[1], reg)>>

BuildIRForLoopWhile ==
    LET test == builder.lastBlock
        loop == [node |-> Node, reg |-> builder.lastRegister, test |-> test, body |-> test + 1,
                 next |-> test, end |-> test + 2]
        b == AllocateRegister(AllocateBlocks(builder, 3))
    IN
    /\ Lower("for")
    /\ Node.kind \in {"while", "infinite"}
    /\ Proceed(Condition(Node, loop.reg) \o <<[op |-> "test", loop |-> loop]>>,
               Terminate(Push(b, Jmp(test)), test))

\* A C style loop and a loop over an array or a string have the same blocks;
\* the second one evaluates its array and sets its index first.
BuildIRForLoopCStyle ==
    LET test == builder.lastBlock
        loop == [node |-> Node, reg |-> builder.lastRegister, test |-> test, body |-> test + 1,
                 next |-> test + 2, end |-> test + 3]
    IN
    /\ Lower("for")
    /\ Node.kind = "c"
    /\ Proceed(Node.init \o <<[op |-> "head", loop |-> loop]>>,
               AllocateRegister(AllocateBlocks(builder, 4)))

BuildIRForIt ==
    LET test == builder.lastBlock
        loop == [node |-> Node, reg |-> builder.lastRegister, test |-> test, body |-> test + 1,
                 next |-> test + 2, end |-> test + 3]
    IN
    /\ Lower("for")
    /\ Node.kind = "it"
    /\ Proceed(Node.init \o <<[op |-> "head", loop |-> loop]>>,
               AllocateRegister(AllocateBlocks(builder, 4)))

LoopHead ==
    LET loop == Node.loop IN
    /\ Lower("head")
    /\ Proceed(Condition(loop.node, loop.reg) \o <<[op |-> "test", loop |-> loop]>>,
               Terminate(Push(builder, Jmp(loop.test)), loop.test))

LoopTest ==
    LET loop == Node.loop
        branch == Push(builder, IF loop.node.cond = << >> THEN Jmp(loop.body)
                                ELSE Branch(loop.reg, loop.body, loop.end))
    IN
    /\ Lower("test")
    /\ Proceed(loop.node.body \o
                  <<EndBody(loop.next),
                    [op |-> "next", loop |-> loop, breakTo |-> builder.breakTo,
                     continueTo |-> builder.continueTo]>>,
               [Terminate(branch, loop.body) EXCEPT !.breakTo = loop.end,
                                                    !.continueTo = loop.next])

LoopEnd(b, end, was) ==
    [b EXCEPT !.current = NewBlock(end), !.breakTo = was.breakTo, !.continueTo = was.continueTo]

WhileEnds ==
    /\ Lower("next")
    /\ Node.loop.next = Node.loop.test
    /\ Proceed(<< >>, LoopEnd(builder, Node.loop.end, Node))

LoopNext ==
    /\ Lower("next")
    /\ Node.loop.next # Node.loop.test
    /\ Proceed(Node.loop.node.incr \o <<[Node EXCEPT !.op = "again"]>>, builder)

LoopAgain ==
    LET loop == Node.loop IN
    /\ Lower("again")
    /\ Proceed(<< >>, LoopEnd(Terminate(Push(builder, Jmp(loop.test)), loop.end), loop.end, Node))

-----------------------------------------------------------------------------
(* Switches *)

\* BuildIRGenericSwitchPart up to the first case: the value, and where to end.
LowerSwitch ==
    LET reg == builder.lastRegister
        after == builder.lastBlock
        match == [op |-> "match", name |-> Node.name, reg |-> reg, of |-> Matches(Node)]
        b == AllocateBlocks(AllocateRegister(Push(builder, match)), 1)
    IN
    /\ Lower("switch")
    /\ Proceed(<<[op |-> "case", node |-> Node, k |-> 1, reg |-> reg, after |-> after,
                  start |-> builder.current.id, blocks |-> << >>, default |-> 0,
                  to |-> after, left |-> 0]>>,
               [b EXCEPT !.yields = Append(@, after)])

\* The block of a case is that of its first value.
LowerCase ==
    LET id == builder.lastBlock
        case == Node.node.cases[Node.k]
    IN
    /\ Lower("case")
    /\ Node.k <= Len(Node.node.cases)
    /\ Proceed(case.body \o
                  <<[Node EXCEPT !.op = "caseEnd", !.blocks = Append(@, id),
                                 !.default = IF case.default THEN Len(Node.blocks) + 1 ELSE @,
                                 !.to = id, !.left = case.values - 1]>>,
               Terminate(AllocateBlocks(builder, 1), id))

\* Mutant: the block takes the number that the next one will get.
FallthroughReuses(b, to) == Push(Terminate(b, b.lastBlock), Jmp(to))

\* A block that jumps to the case, for each of its other values.
Fallthrough(b, to) == Push(Terminate(AllocateBlocks(b, 1), b.lastBlock), Jmp(to))

CaseEnds ==
    /\ Lower("caseEnd")
    /\ Proceed(<<[Node EXCEPT !.op = "values"]>>,
               IF builder.current.terminated THEN builder ELSE Push(builder, Jmp(Node.after)))

OtherValue ==
    /\ Lower("values")
    /\ Node.left > 0
    /\ Proceed(<<[Node EXCEPT !.left = @ - 1, !.blocks = Append(@, builder.lastBlock)]>>,
               Fallthrough(builder, Node.to))

NextCase ==
    /\ Lower("values")
    /\ Node.left = 0
    /\ Proceed(<<[Node EXCEPT !.op = "case", !.k = @ + 1]>>, builder)

AfterCases == Terminate([builder EXCEPT !.yields = Front(@)], Node.after)

BuildIRIntMatch ==
    LET switch == [op |-> "switch", reg |-> Node.reg, cases |-> Node.blocks,
                   default |-> Node.default, after |-> Node.after]
    IN
    /\ Lower("case")
    /\ Node.k > Len(Node.node.cases)
    /\ Node.node.kind = "int"
    /\ Proceed(<< >>, AppendTo(AfterCases, Node.start, switch))

\* An instruction of a string's comparison.  The default takes part as well; its
\* value is register 0, whatever that holds.
Comparison(op, sw, reg, k) ==
    [op |-> op, match |-> sw.reg, reg |-> reg, value |-> IF k = sw.default THEN 0 ELSE k]

CompareAndBranch(b, i, true, false, next) ==
    Terminate(Push(Push(b, i), Branch(i.reg, true, false)), next)

StoreAndJump(b, reg, value, after, next) ==
    Terminate(Push(Push(b, Store(reg, value)), Jmp(after)), next)

\* Four blocks: the counts are compared, then the bytes where they agree, and
\* what comes of it is in the last block.
BuildStringCompare(sw, b, k) ==
    LET reg == b.lastRegister
        true == b.lastBlock
        false == true + 1
        evaluateRight == true + 2
        after == true + 3
        counts == CompareAndBranch(AllocateRegister(AllocateBlocks(b, 4)),
                                   Comparison("count", sw, reg, k),
                                   evaluateRight, false, evaluateRight)
        bytes == CompareAndBranch(counts, Comparison("memcmp", sw, reg, k), true, false, true)
        equal == StoreAndJump(bytes, reg, 1, after, false)
    IN  StoreAndJump(equal, reg, 0, after, after)

\* One comparison of BuildIRStringMatch.
TestCase(sw, b, k) ==
    LET x == BuildStringCompare(sw, b, k)
        Test(else) == Branch(b.lastRegister, sw.blocks[k], else)
    IN  CASE k < Len(sw.blocks) ->
                Terminate(Push(AllocateBlocks(x, 1), Test(x.lastBlock)), x.lastBlock)
          [] k = Len(sw.blocks) /\ sw.default # 0 ->
                Terminate(Push(x, Test(sw.blocks[sw.default])), sw.after)
          [] OTHER -> Terminate(Push(x, Test(sw.after)), sw.after)

BuildIRStringMatch ==
    LET start == builder.lastBlock
        b == AppendTo(AllocateBlocks(AfterCases, 1), Node.start, Jmp(start))
    IN
    /\ Lower("case")
    /\ Node.k > Len(Node.node.cases)
    /\ Node.node.kind = "string"
    /\ Proceed(<<[Node EXCEPT !.op = "strings", !.k = 1]>>, [b EXCEPT !.current = NewBlock(start)])

CompareStrings ==
    /\ Lower("strings")
    /\ Proceed(IF Node.k < Len(Node.blocks) THEN <<[Node EXCEPT !.k = @ + 1]>> ELSE << >>,
               TestCase(Node, builder, Node.k))

-----------------------------------------------------------------------------
(* Conditions: the result is kept in the register of the whole condition.    *)

LowerAtom ==
    /\ Lower("expr")
    /\ Node.cond.op = "atom"
    /\ Proceed(<< >>, Push(builder, [op |-> "eval", name |-> Node.cond.name, reg |-> Node.reg]))

\* BuildLogicalAnd, BuildLogicalOr: four blocks, then the left side.
LowerLeft ==
    /\ Lower("expr")
    /\ Node.cond.op \in {"and", "or"}
    /\ Proceed(<<Evaluate(Node.cond.left, Node.reg),
                 [op |-> "right", cond |-> Node.cond, reg |-> Node.reg,
                  true |-> builder.lastBlock]>>,
               AllocateBlocks(builder, 4))

\* The right side decides where the left one did not.
LowerRight ==
    LET right == Node.true + 2
        test == IF Node.cond.op = "and" THEN Branch(Node.reg, right, Node.true + 1)
                                        ELSE Branch(Node.reg, Node.true, right)
    IN
    /\ Lower("right")
    /\ Proceed(<<Evaluate(Node.cond.right, Node.reg), [Node EXCEPT !.op = "merge"]>>,
               Terminate(Push(builder, test), right))

Merge ==
    LET false == Node.true + 1
        after == Node.true + 3
        Result(b, value) == Push(Push(b, Store(Node.reg, value)), Jmp(after))
        true == Terminate(Push(builder, Branch(Node.reg, Node.true, false)), Node.true)
    IN
    /\ Lower("merge")
    /\ Proceed(<< >>, Terminate(Result(Terminate(Result(true, 1), false), 0), after))

-----------------------------------------------------------------------------
(* The blocks of the function run *)

\* BuildFunctionIR ends the last block.
StartRun ==
    /\ phase = "lower"
    /\ todo = << >>
    /\ phase' = "run"
    /\ builder' = Terminate(builder, 0)
    /\ UNCHANGED <<program, todo, machine>>

BlockOf(id) == builder.blocks[CHOOSE k \in DOMAIN builder.blocks : builder.blocks[k].id = id]
Instruction == BlockOf(at.block).code[at.pc]
Running(op) ==
    /\ phase = "run"
    /\ at.pc <= Len(BlockOf(at.block).code)
    /\ Instruction.op = op

Goto(id) == at' = [block |-> id, pc |-> 1]
Advance == at' = [at EXCEPT !.pc = @ + 1]
Assign(reg, value) == regs' = [r \in DOMAIN regs \cup {reg} |-> IF r = reg THEN value ELSE regs[r]]
Happens(name, outcome) ==
    /\ Len(trace) < MaxEvents
    /\ trace' = Append(trace, <<name, outcome>>)

RunCall ==
    /\ Running("call")
    /\ Happens(Instruction.name, 0)
    /\ Advance
    /\ UNCHANGED <<program, phase, todo, builder, regs>>

RunScope ==
    /\ Running("scope")
    /\ Advance
    /\ UNCHANGED <<program, phase, todo, builder, regs, trace>>

RunEval ==
    /\ Running("eval")
    /\ \E value \in {0, 1} : Happens(Instruction.name, value) /\ Assign(Instruction.reg, value)
    /\ Advance
    /\ UNCHANGED <<program, phase, todo, builder>>

RunMatch ==
    /\ Running("match")
    /\ \E k \in Instruction.of : Happens(Instruction.name, k) /\ Assign(Instruction.reg, k)
    /\ Advance
    /\ UNCHANGED <<program, phase, todo, builder>>

\* Strings that differ may be as long as each other, and a register that holds
\* no string may come out either way.
SameString == Instruction.value # 0 /\ regs[Instruction.match] = Instruction.value

RunCount ==
    /\ Running("count")
    /\ \E same \in IF SameString THEN {1} ELSE {0, 1} : Assign(Instruction.reg, same)
    /\ Advance
    /\ UNCHANGED <<program, phase, todo, builder, trace>>

RunMemcmp ==
    /\ Running("memcmp")
    /\ \E equal \in IF Instruction.value = 0 THEN {0, 1} ELSE IF SameString THEN {1} ELSE {0} :
            Assign(Instruction.reg, equal)
    /\ Advance
    /\ UNCHANGED <<program, phase, todo, builder, trace>>

RunStore ==
    /\ Running("store")
    /\ Assign(Instruction.reg, Instruction.value)
    /\ Advance
    /\ UNCHANGED <<program, phase, todo, builder, trace>>

RunJmp ==
    /\ Running("jmp")
    /\ Goto(Instruction.to)
    /\ UNCHANGED <<program, phase, todo, builder, regs, trace>>

RunIf ==
    /\ Running("if")
    /\ Goto(IF regs[Instruction.reg] = 1 THEN Instruction.then ELSE Instruction.else)
    /\ UNCHANGED <<program, phase, todo, builder, regs, trace>>

RunSwitchInt ==
    LET k == regs[Instruction.reg] IN
    /\ Running("switch")
    /\ Goto(IF k \in DOMAIN Instruction.cases /\ k # Instruction.default
            THEN Instruction.cases[k]
            ELSE IF Instruction.default # 0 THEN Instruction.cases[Instruction.default]
                                            ELSE Instruction.after)
    /\ UNCHANGED <<program, phase, todo, builder, regs, trace>>

RunRet ==
    /\ Running("ret")
    /\ phase' = "returned"
    /\ UNCHANGED <<program, todo, builder, machine>>

RunUnreachable ==
    /\ Running("unreachable")
    /\ phase' = "aborted"
    /\ UNCHANGED <<program, todo, builder, machine>>

\* The run is over, or the bound on its events is reached.
Stopped ==
    /\ \/ phase \in {"returned", "aborted"}
       \/ phase = "run" /\ Len(trace) = MaxEvents
    /\ UNCHANGED vars

-----------------------------------------------------------------------------
LowerJump == LowerReturn \/ LowerYield \/ LowerBreak \/ LowerContinue \/ Leave
LowerBranch ==
    \/ LowerIf \/ LowerThen \/ LowerElse \/ LowerAssert \/ BuildAssertExpr
LowerLoop ==
    \/ BuildIRForLoopWhile \/ BuildIRForLoopCStyle \/ BuildIRForIt
    \/ LoopHead \/ LoopTest \/ WhileEnds \/ LoopNext \/ LoopAgain
LowerCases ==
    \/ LowerSwitch \/ LowerCase \/ CaseEnds \/ OtherValue \/ NextCase
    \/ BuildIRIntMatch \/ BuildIRStringMatch \/ CompareStrings
LowerCondition == LowerAtom \/ LowerLeft \/ LowerRight \/ Merge

BuildIRFunctionLevel ==
    \/ LowerCall \/ OpenScope \/ ScopeEnds \/ LowerDefer \/ BodyEnds
    \/ LowerJump \/ LowerBranch \/ LowerLoop \/ LowerCases \/ LowerCondition

Run ==
    \/ RunCall \/ RunScope \/ RunEval \/ RunMatch \/ RunCount \/ RunMemcmp
    \/ RunStore \/ RunJmp \/ RunIf \/ RunSwitchInt \/ RunRet \/ RunUnreachable

Next == BuildIRFunctionLevel \/ StartRun \/ Run \/ Stopped

Spec == Init /\ [][Next]_vars

-----------------------------------------------------------------------------
(* What must hold *)

IsTerminator(i) == i.op \in {"jmp", "if", "switch", "ret", "unreachable"}

Targets(i) ==
    CASE i.op = "jmp" -> {i.to}
      [] i.op = "if" -> {i.then, i.else}
      [] i.op = "switch" -> {i.cases[k] : k \in DOMAIN i.cases} \cup {i.after}
      [] OTHER -> {}

Ids == {builder.blocks[k].id : k \in DOMAIN builder.blocks}

\* The finished function is one the code generators accept: a block has one
\* terminator, at its end, every jump leads to a block of the function, and no
\* two blocks share their number (a switch is added to its block at the end).
\* Every number is used: flow typing and SortBasicBlocks index arrays by it.
\* On the way there nothing is put behind the instruction that ends a block,
\* whatever statements end one, as PushInstruction asserts (IR.cpp:161).
BlocksWellFormed ==
    /\ ~builder.asserted
    /\ phase # "lower" =>
        /\ \A j, k \in DOMAIN builder.blocks :
               builder.blocks[j].id = builder.blocks[k].id => j = k
        /\ Ids = 0 .. Len(builder.blocks) - 1
        /\ \A k \in DOMAIN builder.blocks :
            LET code == builder.blocks[k].code IN
            /\ code # << >>
            /\ \A i \in DOMAIN code : IsTerminator(code[i]) <=> i = Len(code)
            /\ Targets(Last(code)) \subseteq Ids
=============================================================================
