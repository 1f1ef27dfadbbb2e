----------------------------- MODULE FlowTyping -----------------------------
(***************************************************************************)
(* Flow typing, FlowTyping.cpp: which nullable pointers are known not to   *)
(* be null where a block of a lowered function starts.  The blocks are put *)
(* in reverse postorder and evaluated over and over, one action each,      *)
(* until nothing changes; then the reads of pointers that may be null are  *)
(* errors, and a function with errors never runs.                          *)
(*                                                                         *)
(* Of a function's code it sees tests of a location against null, reads    *)
(* through a location (a load of what p points to, a call of p, p as an    *)
(* argument that must not be null) and stores to one.                      *)
(***************************************************************************)
EXTENDS Structured, TLC

CONSTANTS
    Reads,      \* statement that reads through a location |-> the location
    Tests,      \* condition |-> [location, cmp, against], see NullComparison
    Stores      \* statement |-> [location, nullable]: what is stored was loaded as nullable

VARIABLE
    flow        \* flow_state, with the phase of the analysis and its place

flowVars == <<program, phase, todo, builder, at, regs, trace, flow>>

-----------------------------------------------------------------------------
(* Null comparisons *)

CmpFlipType(cmp) == IF cmp = "eq" THEN "neq" ELSE "eq"

\* Mutant: a comparison with false is taken for one with true.
NeverFlipped(test) == test.cmp

\* A test compares its location with null (cmp) and the result with constants
\* (against); !x is a comparison with false.
NullComparison(test) ==
    FoldLeft(LAMBDA cmp, c : IF (c.op = "eq") = c.value THEN cmp ELSE CmpFlipType(cmp),
             test.cmp, test.against)

\* What the instruction says of a location: "read", "store" or a test of it.
IsTest(i) == i.op = "eval" /\ i.name \in DOMAIN Tests
IsRead(i) == i.op = "call" /\ i.name \in DOMAIN Reads
IsStore(i) == i.op = "call" /\ i.name \in DOMAIN Stores

LocationsIn(code) ==
    {Tests[i.name].location : i \in {x \in Range(code) : IsTest(x)}}
    \cup {Reads[i.name] : i \in {x \in Range(code) : IsRead(x)}}
    \cup {Stores[i.name].location : i \in {x \in Range(code) : IsStore(x)}}

\* The locations are variables of the function, declared in its entry block.
NullLocations == UNION {LocationsIn(builder.blocks[k].code) : k \in DOMAIN builder.blocks}

-----------------------------------------------------------------------------
(* The graph of the blocks *)

\* A block without code leads nowhere.
EndOf(id) == IF BlockOf(id).code = << >> THEN [op |-> "none"] ELSE Last(BlockOf(id).code)

\* A switch has its cases and the block after it as successors.
Successors(id) ==
    LET i == EndOf(id) IN
    CASE i.op = "jmp" -> <<i.to>>
      [] i.op = "if" -> <<i.then, i.else>>
      [] i.op = "switch" -> Append(i.cases, i.after)
      [] OTHER -> << >>

\* Default is the place of the default in the list of cases; here it is taken
\* for the number of a block.
DefaultBlock(i) == IF i.op = "switch" /\ i.default # 0 THEN {i.default - 1} ELSE {}

FlowsTo(id) == Range(Successors(id)) \cup DefaultBlock(EndOf(id))
Predecessors(id) == {b \in Ids : id \in FlowsTo(b)}

RECURSIVE PostorderSort(_, _)
PostorderSort(id, s) ==
    IF id \in s.visited THEN s
    ELSE LET below == FoldLeft(LAMBDA x, to : PostorderSort(to, x),
                               [s EXCEPT !.visited = @ \cup {id}], Successors(id))
         IN  [below EXCEPT !.sort = Append(@, id)]

SortBasicBlocks(entry) ==
    Reverse(PostorderSort(entry, [visited |-> {}, sort |-> << >>]).sort)

-----------------------------------------------------------------------------
(* What a block does, FlowTypeMarkBlock *)

CannotBeNull(id) == {Reads[i.name] : i \in {x \in Range(BlockOf(id).code) : IsRead(x)}}
MustBeNullable(id) ==
    {s.location : s \in {Stores[i.name] : i \in {x \in Range(BlockOf(id).code) : IsStore(x)}}
                        \cap {x \in Range(Stores) : x.nullable}}

\* The comparison a block branches on, if it is in that block: the location, and
\* the branch it is not null in.
Cmps(id) ==
    LET i == EndOf(id) IN
    {[location |-> Tests[c.name].location,
      notNullIn |-> IF NullComparison(Tests[c.name]) = "neq" THEN i.then ELSE i.else] :
        c \in {x \in Range(BlockOf(id).code) : IsTest(x) /\ i.op = "if" /\ x.reg = i.reg}}

FlowTypeMarkBlock(id) ==
    [predecessors |-> Predecessors(id), flowsTo |-> FlowsTo(id), cmps |-> Cmps(id),
     cannotBeNull |-> CannotBeNull(id), mustBeNullable |-> MustBeNullable(id)]

-----------------------------------------------------------------------------
(* The evaluation *)

NoFlow == [phase |-> "none", order |-> << >>, blocks |-> << >>, nullLocations |-> {}, i |-> 1,
           changed |-> FALSE, isNotNull |-> << >>, state |-> << >>]

FlowInit == Init /\ flow = NoFlow

\* The function is lowered and its analysis begins.
FlowTypeFunction ==
    /\ StartRun
    /\ flow' = [NoFlow EXCEPT !.phase = "mark"]

Mark ==
    LET order == SortBasicBlocks(0) IN
    /\ flow.phase = "mark"
    /\ flow' = [flow EXCEPT !.phase = "evaluate", !.order = order,
                            !.blocks = [id \in Range(order) |-> FlowTypeMarkBlock(id)],
                            !.nullLocations = NullLocations]
    /\ UNCHANGED vars

\* State[reg][from] of a block is kept at <<block, reg, from>>, and IsNotNull[reg]
\* at <<block, reg>>.
Said(id, reg) == {from \in flow.blocks[id].predecessors : <<id, reg, from>> \in DOMAIN flow.state}

\* A location is not null where all predecessors say so; in the entry it may be null.
MeetOfPredecessors(id, reg) ==
    Said(id, reg) # {} /\ \A from \in Said(id, reg) : flow.state[<<id, reg, from>>]

\* The assertion NotNull != NS_Unknown.
IsKnown(id, reg) == flow.blocks[id].predecessors = {} \/ Said(id, reg) # {}

\* What a block tells a successor of a location when known is the fact at its
\* own start: what it branches on, or that.
Tells(from, to, reg, known) ==
    IF \E c \in flow.blocks[from].cmps : c.location = reg
    THEN \E c \in flow.blocks[from].cmps : c.notNullIn = to
    ELSE known

Current == flow.order[flow.i]

\* The facts at the start of the block, and what it tells its successors; the
\* compiler stops if nothing is known of one.
FlowTypeEvaluateBlock ==
    LET facts == [k \in {Current} \X flow.nullLocations |-> MeetOfPredecessors(Current, k[2])]
        told == [k \in flow.blocks[Current].flowsTo \X flow.nullLocations \X {Current} |->
                    Tells(Current, k[1], k[2], facts[<<Current, k[2]>>])]
        isNotNull == facts @@ flow.isNotNull
        state == told @@ flow.state
    IN
    /\ flow.phase = "evaluate"
    /\ flow.i <= Len(flow.order)
    /\ flow' = IF \E reg \in flow.nullLocations : ~IsKnown(Current, reg)
               THEN [flow EXCEPT !.phase = "asserted"]
               ELSE [flow EXCEPT !.i = @ + 1, !.isNotNull = isNotNull, !.state = state,
                        !.changed = @ \/ isNotNull # flow.isNotNull \/ state # flow.state]
    /\ UNCHANGED vars

\* Mutant: one round, whatever changed.
OneRoundOnly ==
    /\ flow.phase = "evaluate"
    /\ flow.i > Len(flow.order)
    /\ flow' = [flow EXCEPT !.phase = "raise"]
    /\ UNCHANGED vars

\* The loop until nothing changes.
RunAgain ==
    /\ flow.phase = "evaluate"
    /\ flow.i > Len(flow.order)
    /\ flow' = IF flow.changed THEN [flow EXCEPT !.i = 1, !.changed = FALSE]
                               ELSE [flow EXCEPT !.phase = "raise"]
    /\ UNCHANGED vars

NotNullIn(id) == {reg \in flow.nullLocations : flow.isNotNull[<<id, reg>>]}

\* A block has no errors: what it reads through is not null, and what it stores
\* a nullable to is neither known not to be null nor read through.
HasNoErrors(id) ==
    LET block == flow.blocks[id] IN
    /\ block.cannotBeNull \subseteq NotNullIn(id)
    /\ block.mustBeNullable \cap (NotNullIn(id) \cup block.cannotBeNull) = {}

FlowTypeRaiseErrors ==
    /\ flow.phase = "raise"
    /\ flow' = [flow EXCEPT !.phase =
                    IF \A id \in Range(flow.order) : HasNoErrors(id) THEN "accepted" ELSE "rejected"]
    /\ UNCHANGED vars

-----------------------------------------------------------------------------
(* The accepted function runs *)

\* The outcome of a test for a pointer that is null or not.
Outcome(test, isNull) ==
    FoldLeft(LAMBDA b, c : IF c.op = "eq" THEN b = c.value ELSE b # c.value,
             (test.cmp = "eq") = isNull, test.against)

\* What an event says of a location: "null", "set", "any" or nothing new.
Says(event, reg, was) ==
    CASE event[1] \in DOMAIN Tests /\ Tests[event[1]].location = reg ->
            IF Outcome(Tests[event[1]], TRUE) = (event[2] = 1) THEN "null" ELSE "set"
      [] event[1] \in DOMAIN Stores /\ Stores[event[1]].location = reg ->
            IF Stores[event[1]].nullable THEN "any" ELSE "set"
      [] OTHER -> was

PointerAfter(tr, reg) == FoldLeft(LAMBDA was, e : Says(e, reg, was), "any", tr)

\* A pointer keeps its value until it is stored to: tests agree with it.
Agrees(tr) ==
    tr # << >> /\ Last(tr)[1] \in DOMAIN Tests =>
        LET reg == Tests[Last(tr)[1]].location IN
        PointerAfter(Front(tr), reg) \in {"any", PointerAfter(tr, reg)}

RunAccepted ==
    /\ flow.phase = "accepted"
    /\ Run
    /\ Agrees(trace')
    /\ UNCHANGED flow

Done ==
    /\ \/ flow.phase \in {"asserted", "rejected"}
       \/ flow.phase = "accepted" /\ Stopped
    /\ UNCHANGED flowVars

Lowers == BuildIRFunctionLevel /\ UNCHANGED flow

FlowNext ==
    \/ Lowers \/ FlowTypeFunction \/ Mark
    \/ FlowTypeEvaluateBlock \/ RunAgain \/ FlowTypeRaiseErrors
    \/ RunAccepted \/ Done

FlowSpec == FlowInit /\ [][FlowNext]_flowVars

-----------------------------------------------------------------------------
(* What must hold *)

\* The analysis knows something of every nullable location when it comes to a
\* block, as it asserts (FlowTyping.cpp:420): some predecessor came before it.
NullStateKnown == flow.phase # "asserted"

\* The blocks where a location may be null: the entry, and those that an edge
\* leads to which does not say otherwise.
RECURSIVE MayBeNull(_, _)
MayBeNull(reg, found) ==
    LET more == {to \in DOMAIN flow.blocks \ found :
                    \E from \in flow.blocks[to].predecessors \cap DOMAIN flow.blocks :
                        ~Tells(from, to, reg, from \notin found)}
    IN  IF more = {} THEN found ELSE MayBeNull(reg, found \cup more)

\* The facts that the rounds end with are those of the paths to a block: a
\* location is not null at the start of a block exactly if it was found not to
\* be null on every path there, around every loop; no block is come to before
\* something is known.
FactsAreThoseOfPaths ==
    /\ NullStateKnown
    /\ flow.phase = "raise" =>
        \A reg \in flow.nullLocations :
            {id \in DOMAIN flow.blocks : reg \notin NotNullIn(id)} = MayBeNull(reg, {0})

\* An accepted function never reads through a pointer that may be null: since the
\* last store of a nullable to it, a test has found it not to be null.
ReadsAreGuarded ==
    \A i \in DOMAIN trace :
        trace[i][1] \in DOMAIN Reads =>
            PointerAfter(SubSeq(trace, 1, i - 1), Reads[trace[i][1]]) = "set"
=============================================================================
