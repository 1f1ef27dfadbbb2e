---------------------------- MODULE LoweringItems ----------------------------
(***************************************************************************)
(* What the lowering of a function body keeps between two of its steps:    *)
(* the items of todo against the blocks, the open scopes and the open      *)
(* switches of the builder (block_builder, IR.cpp), as LoweringInv. Below  *)
(* it are the lemmas that its proof rests on: what putting an item or a    *)
(* body in front of others, and an operation of the builder, do to each of *)
(* its parts.                                                              *)
(***************************************************************************)
EXTENDS Lowering, SequenceTheorems, FiniteSetTheorems, WellFoundedInduction, TLAPS

IsSequence(q) == q \in Seq(Range(q))

-----------------------------------------------------------------------------
(* The builder                                                             *)

\* Terminated as a block should be, and not terminated yet.
Closed(code) == code # << >> /\ \A i \in DOMAIN code : IsTerminator(code[i]) <=> i = Len(code)
Open(code) == \A i \in DOMAIN code : ~IsTerminator(code[i])

LeadTo(code, nums) == \A i \in DOMAIN code : Targets(code[i]) \subseteq nums

IsBlock(c) ==
    /\ c = [id |-> c.id, code |-> c.code, terminated |-> c.terminated]
    /\ c.terminated \in BOOLEAN /\ IsSequence(c.code)

IsBuilder(b) ==
    b = [current |-> b.current, blocks |-> b.blocks, defered |-> b.defered, yields |-> b.yields,
         breakTo |-> b.breakTo, continueTo |-> b.continueTo, lastBlock |-> b.lastBlock,
         lastRegister |-> b.lastRegister, asserted |-> b.asserted]

Made(b) == {b.blocks[k].id : k \in DOMAIN b.blocks}
Numbers(b) == 0 .. b.lastBlock - 1
Free(b) == Numbers(b) \ (Made(b) \cup {b.current.id})

\* A block that is made; starts: those of which a switch will be the last
\* instruction.
Finished(c, nums, starts) ==
    /\ IsBlock(c) /\ c.id \in nums /\ LeadTo(c.code, nums)
    /\ c.id \in starts => Open(c.code)
    /\ c.id \notin starts => Closed(c.code)

Differ(blocks) == \A j, k \in DOMAIN blocks : blocks[j].id = blocks[k].id => j = k

Building(b, starts) ==
    /\ IsBuilder(b) /\ IsBlock(b.current) /\ IsSequence(b.blocks)
    /\ b.lastBlock \in Nat \ {0}
    /\ b.current.id \in Numbers(b) /\ LeadTo(b.current.code, Numbers(b))
    /\ b.breakTo \in Numbers(b) /\ b.continueTo \in Numbers(b)
    /\ b.yields \in Seq(Numbers(b)) /\ b.defered \in Seq(Seq(Seq(Ongoing[FALSE])))
    /\ Differ(b.blocks)
    /\ \A k \in DOMAIN b.blocks : Finished(b.blocks[k], Numbers(b), starts)
    /\ b.asserted = FALSE

-----------------------------------------------------------------------------
(* The items of todo                                                       *)

IsWhile(loop) == loop.next = loop.test

IsLoop(loop, s, nums) ==
    /\ IsBody(loop.node.body, s) /\ loop.node.incr \in Seq(Ongoing[s])
    /\ {loop.test, loop.body, loop.next, loop.end} \subseteq nums
    /\ loop.test \notin {loop.body, loop.end} /\ loop.body # loop.end
    /\ loop.next \notin {loop.body, loop.end}

InSwitch == {"case", "caseEnd", "values"}

IsSwitch(i, nums) ==
    /\ i = [op |-> i.op, node |-> i.node, k |-> i.k, reg |-> i.reg, after |-> i.after,
            start |-> i.start, blocks |-> i.blocks, default |-> i.default, to |-> i.to,
            left |-> i.left]
    /\ {i.after, i.start, i.to} \subseteq nums /\ i.blocks \in Seq(nums)
    /\ i.k \in Nat \ {0} /\ i.left \in Nat /\ i.default \in 0 .. Len(i.blocks)
    /\ Len(i.node.cases) \in Nat \ {0}
    /\ \A k \in 1 .. Len(i.node.cases) :
        i.node.cases[k].values \in Nat \ {0} /\ IsBody(i.node.cases[k].body, TRUE)
    /\ i.op \in {"caseEnd", "values"} => i.blocks # << >>
    /\ i.op = "case" /\ i.k > 1 => i.blocks # << >>
    /\ i.op = "strings" => i.k <= Len(i.blocks)

\* Items behind which the next one is reached, and items that leave.
Stays(i, s, nums) ==
    \/ IsOngoing(i, s)
    \/ i.op \in {"close", "expr", "asserted"}
    \/ i.op = "endBody" /\ i.to \in nums
    \/ i.op = "then" /\ IsBody(i.node.then, s) /\ IsBody(i.node.else, s)
    \/ i.op = "else" /\ IsBody(i.node.else, s) /\ {i.block, i.end} \subseteq nums /\ i.block # i.end
    \/ i.op = "head" /\ IsLoop(i.loop, s, nums) /\ ~IsWhile(i.loop)
    \/ i.op = "test" /\ IsLoop(i.loop, s, nums)
    \/ /\ i.op \in {"next", "again"} /\ IsLoop(i.loop, s, nums)
       /\ i = [op |-> i.op, loop |-> i.loop, breakTo |-> i.breakTo, continueTo |-> i.continueTo]
       /\ {i.breakTo, i.continueTo} \subseteq nums
    \/ /\ i.op \in {"right", "merge"}
       /\ i = [op |-> i.op, cond |-> i.cond, reg |-> i.reg, true |-> i.true]
       /\ {i.true, i.true + 1, i.true + 2, i.true + 3} \subseteq nums
    \/ i.op \in InSwitch \cup {"strings"} /\ IsSwitch(i, nums)
Goes(i, s, nums) ==
    \/ IsLeaving(i, s)
    \/ i.op = "leave" /\ IsTerminator(i.to) /\ Targets(i.to) \subseteq nums

\* What comes next does not mind that the block has its terminator.
Tolerates(td, i) ==
    \E j \in i .. Len(td) + 1 :
        /\ j = Len(td) + 1 \/ td[j].op \in {"endBody", "caseEnd"}
        /\ \A k \in i .. j - 1 : td[k].op = "close"

\* d: how many items from here on have such an op.
One(i, ops) == IF i.op \in ops THEN 1 ELSE 0
Depth(td, n, ops, d) ==
    /\ d \in [1 .. Len(td) + 1 -> Nat]
    /\ d[1] = n /\ d[Len(td) + 1] = 0
    /\ \A i \in 1 .. Len(td) : d[i] = d[i + 1] + One(td[i], ops)

\* A yield comes before the end of a switch, and a jump before the end of a body.
Fits(td, i, n, nums) ==
    \E s \in BOOLEAN :
        /\ s => n > 0
        /\ Stays(td[i], s, nums) \/ (Goes(td[i], s, nums) /\ Tolerates(td, i + 1))

Items(td, y, nums) ==
    \E d : Depth(td, y, InSwitch, d) /\ \A i \in 1 .. Len(td) : Fits(td, i, d[i], nums)
Scopes(td, c) == \E d : Depth(td, c, {"close"}, d)

-----------------------------------------------------------------------------
(* Every number of a block is that of one that is made, of the current one, *)
(* or of one that an item will make.                                       *)

Promises(i, made) ==
    CASE i.op = "endBody" -> {i.to} \ made
      [] i.op = "else" -> {i.block}
      [] i.op = "head" -> {i.loop.test, i.loop.body, i.loop.next, i.loop.end}
      [] i.op = "test" -> {i.loop.body, i.loop.next, i.loop.end} \ {i.loop.test}
      [] i.op \in {"next", "again"} -> {i.loop.end}
      [] i.op = "right" -> {i.true, i.true + 1, i.true + 2, i.true + 3}
      [] i.op = "merge" -> {i.true, i.true + 1, i.true + 3}
      [] i.op \in InSwitch \cup {"strings"} -> {i.after}
      [] OTHER -> {}

Promised(td, made) == UNION {Promises(td[i], made) : i \in 1 .. Len(td)}
Separate(td, made) ==
    \A i, j \in 1 .. Len(td) : i # j => Promises(td[i], made) \cap Promises(td[j], made) = {}

-----------------------------------------------------------------------------
(* What comes before and behind an item.  The end of a while loop's body is *)
(* its test, which is made: then the current block is thrown away.         *)

WhileEnd(i) == i.op = "next" /\ IsWhile(i.loop)
Ends(i, to) == i.op = "endBody" /\ i.to = to
Conditions == {"expr", "right", "merge"}

\* made: the blocks that are made; the second item comes next.
EndsInTime(i, made, last) ==
    /\ WhileEnd(i) => i.loop.test \in made
    /\ i.op = "endBody" /\ i.to \in made => ~last
Follows(i, next, made) ==
    /\ i.op = "endBody" /\ i.to \in made => WhileEnd(next)
    /\ next.op = "else" => Ends(i, next.end)
    /\ WhileEnd(next) => Ends(i, next.loop.test)
    /\ next.op \notin {"case", "values", "strings"}

Ordered(td, made) ==
    /\ \A i \in 1 .. Len(td) : EndsInTime(td[i], made, i = Len(td))
    /\ \A i \in 1 .. Len(td) - 1 : Follows(td[i], td[i + 1], made)
    /\ \A i \in 1 .. Len(td) : td[i].op = "test" => \A j \in 1 .. i - 1 : td[j].op \in Conditions

Starts(td) == {td[i].start : i \in {j \in 1 .. Len(td) : td[j].op \in InSwitch}}
StartsDiffer(td) ==
    \A i, j \in 1 .. Len(td) :
        /\ td[i].op \in InSwitch /\ td[j].op \in InSwitch
        /\ td[i].start = td[j].start
        => i = j

Todo(td, y, c, nums, made) ==
    /\ IsSequence(td)
    /\ Items(td, y, nums) /\ Scopes(td, c)
    /\ Separate(td, made) /\ Ordered(td, made) /\ StartsDiffer(td)

-----------------------------------------------------------------------------
(* The blocks and the items together                                       *)

First(td) == td # << >> /\ td[1].op = "case" /\ td[1].k = 1
Between(td) == td # << >> /\ (td[1].op = "values" \/ (td[1].op = "case" /\ td[1].k > 1))
ComesBack(td) == td # << >> /\ WhileEnd(td[1])

TestsMade(td, made) ==
    \A i \in 1 .. Len(td) : td[i].op = "test" /\ IsWhile(td[i].loop) => td[i].loop.test \in made

\* The current block is the one that the next item is lowered into.
Arrives(td, b) ==
    /\ b.current.id \in Made(b) <=> ComesBack(td)
    /\ ComesBack(td) => b.current.id = td[1].loop.test
    /\ td # << >> /\ td[1].op = "else" => b.current.id = td[1].end
    /\ First(td) => td[1].start = b.current.id
    /\ Starts(IF First(td) THEN Tail(td) ELSE td) \subseteq Made(b)
    /\ TestsMade(td, Made(b) \cup {b.current.id})

IsOpen(td, c) ==
    IF Between(td) THEN Closed(c.code)
    ELSE IF c.terminated THEN Closed(c.code) /\ Tolerates(td, 1)
    ELSE Open(c.code)

\* The last thing that is lowered leaves the function.
EndsAway(td) ==
    \E j \in 1 .. Len(td) :
        /\ td[j].op \in {"return", "leave"}
        /\ \A k \in j + 1 .. Len(td) : td[k].op = "close"
Closing(td, b) ==
    \/ b.current.terminated /\ \A k \in 1 .. Len(td) : td[k].op = "close"
    \/ EndsAway(td)
    \/ /\ Len(td) = 1 /\ td[1].op = "block" /\ IsBody(td[1].body, FALSE)
       /\ td[1].body # << >> /\ td[1].body[Len(td[1].body)].op = "return"

LoweringInv(td, b) ==
    /\ Todo(td, Len(b.yields), Len(b.defered), Numbers(b), Made(b))
    /\ Promised(td, Made(b)) = Free(b)
    /\ Arrives(td, b)
    /\ Building(b, Starts(td))
    /\ IsOpen(td, b.current)
    /\ Closing(td, b)

IInv ==
    IF phase = "lower" THEN LoweringInv(todo, builder)
                       ELSE BlocksWellFormed

-----------------------------------------------------------------------------
(* Sequences                                                               *)

\* A sequence over some set is one over its own elements.
LEMMA SequenceIs ==
  ASSUME NEW S, NEW q \in Seq(S)
  PROVE  IsSequence(q)
  BY SeqOfRange DEF IsSequence

\* The empty sequence is one.
LEMMA EmptyIsSequence == IsSequence(<< >>) /\ Len(<< >>) = 0
  BY EmptySeq, SequenceIs

\* What a sequence is indexed by, and when it is empty.
LEMMA LengthOf ==
  ASSUME NEW q, IsSequence(q)
  PROVE  Len(q) \in Nat /\ DOMAIN q = 1 .. Len(q) /\ (q = << >> <=> Len(q) = 0)
  <1>1. Len(q) \in Nat /\ DOMAIN q = 1 .. Len(q)
    BY LenProperties DEF IsSequence
  <1>2. q # << >> => Len(q) # 0
    BY EmptySeq DEF IsSequence
  <1>. QED
    BY <1>1, <1>2, EmptyIsSequence

\* Two sequences are over a common set.
LEMMA Together ==
  ASSUME NEW p, NEW q, IsSequence(p), IsSequence(q)
  PROVE  \E S : p \in Seq(S) /\ q \in Seq(S)
  <1>. DEFINE S == Range(p) \cup Range(q)
  <1>1. Range(p) \subseteq S /\ Range(q) \subseteq S
    OBVIOUS
  <1>2. p \in Seq(S) /\ q \in Seq(S)
    BY <1>1, SeqMonotonic DEF IsSequence
  <1>. QED
    BY <1>2

\* The elements of two sequences after each other.
LEMMA JoinIs ==
  ASSUME NEW p, NEW q, IsSequence(p), IsSequence(q)
  PROVE  /\ IsSequence(p \o q) /\ Len(p \o q) = Len(p) + Len(q)
         /\ \A i \in 1 .. Len(p) : (p \o q)[i] = p[i]
         /\ \A i \in 1 .. Len(q) : (p \o q)[Len(p) + i] = q[i]
         /\ \A i \in Len(p) + 1 .. Len(p) + Len(q) : (p \o q)[i] = q[i - Len(p)]
         /\ p = << >> => p \o q = q
  <1>1. PICK S : p \in Seq(S) /\ q \in Seq(S)
    BY Together
  <1>2. /\ p \o q \in Seq(S) /\ Len(p \o q) = Len(p) + Len(q)
        /\ \A i \in 1 .. Len(p) + Len(q) :
             (p \o q)[i] = IF i <= Len(p) THEN p[i] ELSE q[i - Len(p)]
    BY <1>1, ConcatProperties
  <1>3. Len(p) \in Nat /\ Len(q) \in Nat
    BY LengthOf
  <1>4. p = << >> => p \o q = q
    BY <1>1, ConcatEmptySeq
  <1>5. /\ \A i \in 1 .. Len(p) : (p \o q)[i] = p[i]
        /\ \A i \in 1 .. Len(q) : (p \o q)[Len(p) + i] = q[i]
        /\ \A i \in Len(p) + 1 .. Len(p) + Len(q) : (p \o q)[i] = q[i - Len(p)]
    BY <1>2, <1>3
  <1>6. IsSequence(p \o q)
    BY <1>2, SequenceIs
  <1>. QED
    BY <1>2, <1>4, <1>5, <1>6

\* A sequence of one.
LEMMA OneIs ==
  ASSUME NEW x
  PROVE  IsSequence(<<x>>) /\ Len(<<x>>) = 1 /\ <<x>>[1] = x
  <1>1. <<x>> \in Seq({x})
    OBVIOUS
  <1>. QED
    BY <1>1, SequenceIs

\* A sequence with one more element in front.
LEMMA ConsIs ==
  ASSUME NEW x, NEW td, IsSequence(td)
  PROVE  /\ IsSequence(Cons(x, td)) /\ Len(Cons(x, td)) = Len(td) + 1
         /\ Cons(x, td) # << >> /\ Cons(x, td)[1] = x
         /\ \A i \in 1 .. Len(td) : Cons(x, td)[i + 1] = td[i]
         /\ \A i \in 2 .. Len(td) + 1 : Cons(x, td)[i] = td[i - 1]
         /\ Len(td) \in Nat
  <1>1. IsSequence(<<x>>) /\ Len(<<x>>) = 1 /\ <<x>>[1] = x
    BY OneIs
  <1>2. Len(td) \in Nat
    BY LengthOf
  <1>3. /\ IsSequence(Cons(x, td)) /\ Len(Cons(x, td)) = 1 + Len(td)
        /\ \A i \in 1 .. 1 : Cons(x, td)[i] = <<x>>[i]
        /\ \A i \in 1 .. Len(td) : Cons(x, td)[1 + i] = td[i]
        /\ \A i \in 1 + 1 .. 1 + Len(td) : Cons(x, td)[i] = td[i - 1]
    <2>. HIDE <1>2
    <2>. QED
      BY <1>1, JoinIs DEF Cons
  <1>4. Cons(x, td) # << >>
    <2>1. Len(Cons(x, td)) # 0
      BY <1>2, <1>3
    <2>. QED
      BY <2>1, EmptyIsSequence
  <1>5. Cons(x, td)[1] = x
    BY <1>1, <1>3
  <1>. QED
    BY <1>2, <1>3, <1>4, <1>5

\* Taking the first element away gives the sequence back.
LEMMA TailOfCons ==
  ASSUME NEW x, NEW td, IsSequence(td)
  PROVE  Tail(Cons(x, td)) = td /\ Head(Cons(x, td)) = x
  <1>. DEFINE q == Cons(x, td)
  <1>1. /\ IsSequence(q) /\ Len(q) = Len(td) + 1 /\ q # << >> /\ q[1] = x
        /\ \A i \in 1 .. Len(td) : q[i + 1] = td[i]
        /\ Len(td) \in Nat
    BY ConsIs
  <1>. HIDE DEF q
  <1>2. q \in Seq(Range(q))
    BY <1>1 DEF IsSequence
  <1>3. Tail(q) \in Seq(Range(q)) /\ Len(Tail(q)) = Len(q) - 1
        /\ \A i \in 1 .. Len(Tail(q)) : Tail(q)[i] = q[i + 1]
    BY <1>1, <1>2, HeadTailProperties
  <1>4. Len(Tail(q)) = Len(td) /\ \A i \in 1 .. Len(Tail(q)) : Tail(q)[i] = td[i]
    BY <1>1, <1>3
  <1>5. PICK S : Tail(q) \in Seq(S) /\ td \in Seq(S)
    BY <1>3, SequenceIs, Together
  <1>6. Tail(q) = td
    BY <1>4, <1>5, SeqEqual
  <1>7. Head(q) = x
    BY <1>1, <1>2
  <1>. QED
    BY <1>6, <1>7 DEF q

\* A sequence that is not empty is its head in front of its tail.
LEMMA HeadAndTail ==
  ASSUME NEW td, IsSequence(td), td # << >>
  PROVE  /\ IsSequence(Tail(td)) /\ td = Cons(Head(td), Tail(td))
  <1>1. td \in Seq(Range(td))
    BY DEF IsSequence
  <1>2. /\ Tail(td) \in Seq(Range(td)) /\ Len(Tail(td)) = Len(td) - 1
        /\ \A i \in 1 .. Len(Tail(td)) : Tail(td)[i] = td[i + 1]
    BY <1>1, HeadTailProperties
  <1>3. IsSequence(Tail(td))
    BY <1>2, SequenceIs
  <1>a. PICK x, t : x = Head(td) /\ t = Tail(td)
    OBVIOUS
  <1>b. /\ IsSequence(t) /\ Len(t) = Len(td) - 1
        /\ \A i \in 1 .. Len(t) : t[i] = td[i + 1]
    BY <1>2, <1>3, <1>a
  <1>. DEFINE q == Cons(x, t)
  <1>4. /\ IsSequence(q) /\ Len(q) = Len(t) + 1 /\ q[1] = x
        /\ \A i \in 2 .. Len(t) + 1 : q[i] = t[i - 1]
    BY <1>b, ConsIs
  <1>. HIDE DEF q
  <1>5. Len(td) \in Nat \ {0} /\ x = td[1]
    BY <1>1, <1>a, LengthOf
  <1>6. Len(q) = Len(td) /\ \A i \in 1 .. Len(q) : q[i] = td[i]
    <2>1. Len(q) = Len(td)
      BY <1>b, <1>4, <1>5
    <2>2. ASSUME NEW i \in 1 .. Len(q) PROVE q[i] = td[i]
      <3>1. CASE i = 1
        BY <1>4, <1>5, <3>1
      <3>2. CASE i # 1
        <4>1. i \in 2 .. Len(t) + 1 /\ i - 1 \in 1 .. Len(t) /\ (i - 1) + 1 = i
          BY <1>b, <1>5, <2>1, <3>2
        <4>. QED
          BY <1>b, <1>4, <4>1
      <3>. QED
        BY <3>1, <3>2
    <2>. QED
      BY <2>1, <2>2
  <1>7. PICK S : q \in Seq(S) /\ td \in Seq(S)
    BY <1>4, Together
  <1>8. q = td
    BY <1>6, <1>7, SeqEqual
  <1>. QED
    BY <1>3, <1>8, <1>a DEF q

\* One or two items in front of the work.
LEMMA WorkIs ==
  ASSUME NEW td, IsSequence(td)
  PROVE  /\ << >> \o td = td
         /\ \A x : <<x>> \o td = Cons(x, td)
         /\ \A x, y : <<x, y>> \o td = Cons(x, Cons(y, td))
  <1>1. << >> \o td = td
    BY EmptyIsSequence, JoinIs
  <1>2. ASSUME NEW x, NEW y PROVE <<x, y>> \o td = Cons(x, Cons(y, td))
    <2>1. PICK S : <<x, y>> \in Seq(S) /\ td \in Seq(S)
      <3>1. <<x, y>> \in Seq({x, y})
        OBVIOUS
      <3>. QED
        BY <3>1, SequenceIs, Together
    <2>2. x \in S /\ y \in S
      <3>1. Len(<<x, y>>) = 2 /\ <<x, y>>[1] = x /\ <<x, y>>[2] = y
        OBVIOUS
      <3>2. <<x, y>>[1] \in S /\ <<x, y>>[2] \in S
        BY <2>1, <3>1, ElementOfSeq
      <3>. QED
        BY <3>1, <3>2
    <2>3. <<x>> \in Seq(S) /\ <<y>> \in Seq(S) /\ <<x>> \o <<y>> = <<x, y>>
      <3>1. <<x>> \in Seq(S) /\ <<y>> \in Seq(S) /\ <<x, y>> \in Seq(S)
        BY <2>2
      <3>2. /\ <<x>> \o <<y>> \in Seq(S) /\ Len(<<x>> \o <<y>>) = Len(<<x>>) + Len(<<y>>)
            /\ \A i \in 1 .. Len(<<x>>) + Len(<<y>>) : (<<x>> \o <<y>>)[i] =
                 IF i <= Len(<<x>>) THEN <<x>>[i] ELSE <<y>>[i - Len(<<x>>)]
        BY <3>1, ConcatProperties
      <3>. DEFINE xy == <<x>> \o <<y>>
      <3>3. Len(<<x>>) = 1 /\ <<x>>[1] = x /\ Len(<<y>>) = 1 /\ <<y>>[1] = y
        OBVIOUS
      <3>4. xy \in Seq(S) /\ Len(xy) = 2 /\ xy[1] = x /\ xy[2] = y
        BY <3>2, <3>3
      <3>5. Len(<<x, y>>) = 2 /\ <<x, y>>[1] = x /\ <<x, y>>[2] = y
        OBVIOUS
      <3>. HIDE DEF xy
      <3>6. \A i \in 1 .. Len(xy) : xy[i] = <<x, y>>[i]
        BY <3>4, <3>5
      <3>7. xy = <<x, y>>
        BY <3>1, <3>4, <3>5, <3>6, SeqEqual
      <3>. QED
        BY <3>1, <3>7 DEF xy
    <2>4. (<<x>> \o <<y>>) \o td = <<x>> \o (<<y>> \o td)
      BY <2>1, <2>3, ConcatAssociative
    <2>. QED
      BY <2>3, <2>4 DEF Cons
  <1>. QED
    BY <1>1, <1>2 DEF Cons

\* A body and one or two items in front of the work.
LEMMA BodyWorkIs ==
  ASSUME NEW body, NEW td, IsSequence(body), IsSequence(td)
  PROVE  /\ \A x : (body \o <<x>>) \o td = body \o Cons(x, td)
         /\ \A x, y : (body \o <<x, y>>) \o td = body \o Cons(x, Cons(y, td))
  <1>1. ASSUME NEW w, IsSequence(w) PROVE (body \o w) \o td = body \o (w \o td)
    <2>1. PICK S : body \in Seq(S) /\ w \in Seq(S)
      BY <1>1, Together
    <2>. DEFINE T == S \cup Range(td)
    <2>2. S \subseteq T /\ Range(td) \subseteq T
      OBVIOUS
    <2>3. body \in Seq(T) /\ w \in Seq(T) /\ td \in Seq(T)
      BY <2>1, <2>2, SeqMonotonic DEF IsSequence
    <2>. QED
      BY <2>3, ConcatAssociative
  <1>2. ASSUME NEW x PROVE (body \o <<x>>) \o td = body \o Cons(x, td)
    BY <1>1, OneIs DEF Cons
  <1>3. ASSUME NEW x, NEW y PROVE (body \o <<x, y>>) \o td = body \o Cons(x, Cons(y, td))
    <2>1. <<x, y>> \in Seq({x, y})
      OBVIOUS
    <2>2. (body \o <<x, y>>) \o td = body \o (<<x, y>> \o td)
      BY <1>1, <2>1, SequenceIs
    <2>3. <<x, y>> \o td = Cons(x, Cons(y, td))
      BY WorkIs
    <2>. QED
      BY <2>2, <2>3
  <1>. QED
    BY <1>2, <1>3
-----------------------------------------------------------------------------
(* An item in front of others                                              *)

StartOf(x) == IF x.op \in InSwitch THEN {x.start} ELSE {}
NoTest(td) == \A i \in 1 .. Len(td) : td[i].op # "test"

FitsFirst(x, td, n, nums) ==
    \E s \in BOOLEAN :
        /\ s => n > 0
        /\ Stays(x, s, nums) \/ (Goes(x, s, nums) /\ Tolerates(td, 1))

Joins(x, td, made) ==
    /\ EndsInTime(x, made, td = << >>)
    /\ td # << >> => Follows(x, td[1], made)
    /\ x.op \in Conditions \/ NoTest(td)
    /\ StartOf(x) \cap Starts(td) = {}
    /\ Promises(x, made) \cap Promised(td, made) = {}

\* What a list of one more item promises, and its starts.
LEMMA UnionCons ==
  ASSUME NEW x, NEW td, NEW made, IsSequence(td)
  PROVE  /\ Promised(Cons(x, td), made) = Promises(x, made) \cup Promised(td, made)
         /\ Starts(Cons(x, td)) = StartOf(x) \cup Starts(td)
  <1>. PICK q : q = Cons(x, td)
    OBVIOUS
  <1>1. /\ Len(q) = Len(td) + 1 /\ q[1] = x
        /\ \A i \in 1 .. Len(td) : q[i + 1] = td[i]
        /\ \A i \in 2 .. Len(td) + 1 : q[i] = td[i - 1]
        /\ Len(td) \in Nat
    BY ConsIs
  <1>2. 1 \in 1 .. Len(q) /\ \A i \in 1 .. Len(td) : i + 1 \in 1 .. Len(q)
    BY <1>1
  <1>3. \A i \in 1 .. Len(q) : i = 1 \/ (i - 1 \in 1 .. Len(td) /\ q[i] = td[i - 1])
    BY <1>1
  <1>4. Promised(q, made) = Promises(x, made) \cup Promised(td, made)
    <2>1. ASSUME NEW n PROVE n \in Promised(q, made) => n \in Promises(x, made) \cup Promised(td, made)
      BY <1>1, <1>3 DEF Promised
    <2>2. ASSUME NEW n PROVE n \in Promises(x, made) \cup Promised(td, made) => n \in Promised(q, made)
      BY <1>1, <1>2 DEF Promised
    <2>. QED
      BY <2>1, <2>2
  <1>5. Starts(q) = StartOf(x) \cup Starts(td)
    <2>1. ASSUME NEW n PROVE n \in Starts(q) => n \in StartOf(x) \cup Starts(td)
      BY <1>1, <1>3 DEF Starts, StartOf
    <2>2. ASSUME NEW n PROVE n \in StartOf(x) \cup Starts(td) => n \in Starts(q)
      BY <1>1, <1>2 DEF Starts, StartOf
    <2>. QED
      BY <2>1, <2>2
  <1>. QED
    BY <1>4, <1>5

\* The positions behind an item that is put in front move by one.
LEMMA ToleratesCons ==
  ASSUME NEW x, NEW td, IsSequence(td), NEW i \in 1 .. Len(td) + 1
  PROVE  Tolerates(Cons(x, td), i + 1) <=> Tolerates(td, i)
  <1>. PICK q : q = Cons(x, td)
    OBVIOUS
  <1>1. /\ Len(q) = Len(td) + 1
        /\ \A k \in 1 .. Len(td) : q[k + 1] = td[k]
        /\ \A k \in 2 .. Len(td) + 1 : q[k] = td[k - 1]
        /\ Len(td) \in Nat
    BY ConsIs
  <1>2. ASSUME Tolerates(q, i + 1) PROVE Tolerates(td, i)
    <2>1. PICK j \in i + 1 .. Len(q) + 1 :
            /\ j = Len(q) + 1 \/ q[j].op \in {"endBody", "caseEnd"}
            /\ \A k \in i + 1 .. j - 1 : q[k].op = "close"
      BY <1>2 DEF Tolerates
    <2>2. j - 1 \in i .. Len(td) + 1
      BY <1>1, <2>1
    <2>3. j - 1 = Len(td) + 1 \/ td[j - 1].op \in {"endBody", "caseEnd"}
      <3>1. CASE j = Len(q) + 1
        BY <1>1, <3>1
      <3>2. CASE j # Len(q) + 1
        <4>1. j \in 2 .. Len(td) + 1
          BY <1>1, <2>1, <3>2
        <4>2. q[j] = td[j - 1]
          BY <1>1, <4>1
        <4>. QED
          BY <2>1, <3>2, <4>2
      <3>. QED
        BY <3>1, <3>2
    <2>4. ASSUME NEW k \in i .. (j - 1) - 1 PROVE td[k].op = "close"
      <3>1. k + 1 \in i + 1 .. j - 1 /\ k \in 1 .. Len(td)
        BY <1>1, <2>1
      <3>. QED
        BY <1>1, <2>1, <3>1
    <2>. QED
      BY <2>2, <2>3, <2>4 DEF Tolerates
  <1>3. ASSUME Tolerates(td, i) PROVE Tolerates(q, i + 1)
    <2>1. PICK j \in i .. Len(td) + 1 :
            /\ j = Len(td) + 1 \/ td[j].op \in {"endBody", "caseEnd"}
            /\ \A k \in i .. j - 1 : td[k].op = "close"
      BY <1>3 DEF Tolerates
    <2>2. j + 1 \in i + 1 .. Len(q) + 1
      BY <1>1, <2>1
    <2>3. j + 1 = Len(q) + 1 \/ q[j + 1].op \in {"endBody", "caseEnd"}
      BY <1>1, <2>1
    <2>4. ASSUME NEW k \in i + 1 .. (j + 1) - 1 PROVE q[k].op = "close"
      <3>1. k - 1 \in i .. j - 1 /\ k \in 2 .. Len(td) + 1
        BY <1>1, <2>1
      <3>. QED
        BY <1>1, <2>1, <3>1
    <2>. QED
      BY <2>2, <2>3, <2>4 DEF Tolerates
  <1>. QED
    BY <1>2, <1>3

\* One counts one or none.
LEMMA OneIsNat ==
  ASSUME NEW x, NEW ops
  PROVE  One(x, ops) \in {0, 1}
  BY DEF One

\* An item in front adds to the depth at the front and to no other.
LEMMA DepthCons ==
  ASSUME NEW x, NEW td, NEW ops, NEW n \in Nat, NEW d, IsSequence(td), Depth(td, n, ops, d)
  PROVE  Depth(Cons(x, td), n + One(x, ops), ops,
               [i \in 1 .. Len(Cons(x, td)) + 1 |-> IF i = 1 THEN n + One(x, ops) ELSE d[i - 1]])
  <1>. PICK q : q = Cons(x, td)
    OBVIOUS
  <1>1. /\ Len(q) = Len(td) + 1 /\ q[1] = x
        /\ \A i \in 2 .. Len(td) + 1 : q[i] = td[i - 1]
        /\ Len(td) \in Nat
    BY ConsIs
  <1>2. /\ d \in [1 .. Len(td) + 1 -> Nat]
        /\ d[1] = n /\ d[Len(td) + 1] = 0
        /\ \A i \in 1 .. Len(td) : d[i] = d[i + 1] + One(td[i], ops)
    BY DEF Depth
  <1>3. PICK m : m = n + One(x, ops) /\ m \in Nat
    BY OneIsNat
  <1>4. PICK e : e = [i \in 1 .. Len(q) + 1 |-> IF i = 1 THEN m ELSE d[i - 1]]
    OBVIOUS
  <1>5. e \in [1 .. Len(q) + 1 -> Nat]
    <2>1. ASSUME NEW i \in 1 .. Len(q) + 1, i # 1 PROVE d[i - 1] \in Nat
      <3>1. i - 1 \in 1 .. Len(td) + 1
        BY <1>1, <2>1
      <3>. QED
        BY <1>2, <3>1
    <2>. QED
      BY <1>3, <1>4, <2>1
  <1>6. e[1] = m /\ e[Len(q) + 1] = 0
    BY <1>1, <1>2, <1>4
  <1>7. ASSUME NEW i \in 1 .. Len(q) PROVE e[i] = e[i + 1] + One(q[i], ops)
    <2>1. CASE i = 1
      <3>1. e[2] = d[1] /\ e[1] = m /\ q[1] = x
        BY <1>1, <1>4
      <3>. QED
        BY <1>2, <1>3, <2>1, <3>1
    <2>2. CASE i # 1
      <3>1. i - 1 \in 1 .. Len(td) /\ i \in 2 .. Len(td) + 1 /\ i + 1 \in 1 .. Len(q) + 1 /\ i + 1 # 1
            /\ (i + 1) - 1 = i /\ (i - 1) + 1 = i
        BY <1>1, <2>2
      <3>2. e[i] = d[i - 1] /\ e[i + 1] = d[i] /\ q[i] = td[i - 1]
        BY <1>1, <1>4, <2>2, <3>1
      <3>3. d[i - 1] = d[i] + One(td[i - 1], ops)
        BY <1>2, <3>1
      <3>. QED
        BY <3>2, <3>3
    <2>. QED
      BY <2>1, <2>2
  <1>8. Depth(q, m, ops, e)
    BY <1>5, <1>6, <1>7 DEF Depth
  <1>. QED
    BY <1>3, <1>4, <1>8

\* The item in front takes its own depth with it.
LEMMA DepthTail ==
  ASSUME NEW x, NEW td, NEW ops, NEW n, NEW d, IsSequence(td), Depth(Cons(x, td), n, ops, d)
  PROVE  /\ Depth(td, n - One(x, ops), ops, [i \in 1 .. Len(td) + 1 |-> d[i + 1]])
         /\ n \in Nat /\ n - One(x, ops) \in Nat
  <1>. PICK q : q = Cons(x, td)
    OBVIOUS
  <1>1. /\ Len(q) = Len(td) + 1 /\ q[1] = x
        /\ \A i \in 1 .. Len(td) : q[i + 1] = td[i]
        /\ Len(td) \in Nat
    BY ConsIs
  <1>2. /\ d \in [1 .. Len(q) + 1 -> Nat]
        /\ d[1] = n /\ d[Len(q) + 1] = 0
        /\ \A i \in 1 .. Len(q) : d[i] = d[i + 1] + One(q[i], ops)
    BY DEF Depth
  <1>3. PICK e : e = [i \in 1 .. Len(td) + 1 |-> d[i + 1]]
    OBVIOUS
  <1>4. e \in [1 .. Len(td) + 1 -> Nat]
    <2>1. ASSUME NEW i \in 1 .. Len(td) + 1 PROVE d[i + 1] \in Nat
      <3>1. i + 1 \in 1 .. Len(q) + 1
        BY <1>1
      <3>. QED
        BY <1>2, <3>1
    <2>. QED
      BY <1>3, <2>1
  <1>5. d[1] = d[2] + One(x, ops) /\ d[2] \in Nat /\ d[1] \in Nat
    <2>1. 1 \in 1 .. Len(q) /\ 1 + 1 = 2 /\ 2 \in 1 .. Len(q) + 1
      BY <1>1
    <2>. QED
      BY <1>1, <1>2, <2>1
  <1>6. e[1] = n - One(x, ops) /\ n \in Nat /\ n - One(x, ops) \in Nat
    <2>1. e[1] = d[2]
      BY <1>1, <1>3
    <2>2. One(x, ops) \in {0, 1}
      BY OneIsNat
    <2>3. PICK one \in {0, 1} : one = One(x, ops)
      BY <2>2
    <2>4. n = d[2] + one /\ d[2] \in Nat
      BY <1>2, <1>5, <2>3
    <2>5. n - one = d[2] /\ n \in Nat
      BY <2>4
    <2>. QED
      BY <1>5, <2>1, <2>3, <2>5
  <1>7. e[Len(td) + 1] = 0
    BY <1>1, <1>2, <1>3
  <1>8. ASSUME NEW i \in 1 .. Len(td) PROVE e[i] = e[i + 1] + One(td[i], ops)
    <2>1. i + 1 \in 1 .. Len(q) /\ i \in 1 .. Len(td) + 1 /\ i + 1 \in 1 .. Len(td) + 1
      BY <1>1
    <2>2. e[i] = d[i + 1] /\ e[i + 1] = d[(i + 1) + 1]
      BY <1>3, <2>1
    <2>3. d[i + 1] = d[(i + 1) + 1] + One(q[i + 1], ops)
      BY <1>2, <2>1
    <2>. QED
      BY <1>1, <2>2, <2>3
  <1>9. PICK m : m = n - One(x, ops)
    OBVIOUS
  <1>10. Depth(td, m, ops, e)
    BY <1>4, <1>6, <1>7, <1>8, <1>9 DEF Depth
  <1>. QED
    BY <1>3, <1>6, <1>9, <1>10

\* An item in front does not change how the ones behind it fit.
LEMMA FitsCons ==
  ASSUME NEW x, NEW td, NEW nums, IsSequence(td)
  PROVE  /\ \A n : Fits(Cons(x, td), 1, n, nums) <=> FitsFirst(x, td, n, nums)
         /\ \A n : \A i \in 1 .. Len(td) : Fits(Cons(x, td), i + 1, n, nums) <=> Fits(td, i, n, nums)
  <1>. PICK q : q = Cons(x, td)
    OBVIOUS
  <1>1. /\ Len(td) \in Nat /\ q[1] = x
        /\ \A i \in 1 .. Len(td) : q[i + 1] = td[i]
    BY ConsIs
  <1>2. \A i \in 1 .. Len(td) + 1 : Tolerates(q, i + 1) <=> Tolerates(td, i)
    BY ToleratesCons
  <1>3. ASSUME NEW n PROVE Fits(q, 1, n, nums) <=> FitsFirst(x, td, n, nums)
    <2>1. Tolerates(q, 1 + 1) <=> Tolerates(td, 1)
      BY <1>1, <1>2
    <2>. QED
      BY <1>1, <2>1 DEF Fits, FitsFirst
  <1>4. ASSUME NEW i \in 1 .. Len(td), NEW n
        PROVE  Fits(q, i + 1, n, nums) <=> Fits(td, i, n, nums)
    <2>1. Tolerates(q, (i + 1) + 1) <=> Tolerates(td, i + 1)
      <3>1. i + 1 \in 1 .. Len(td) + 1
        BY <1>1
      <3>. QED
        BY <1>2, <3>1
    <2>2. q[i + 1] = td[i]
      BY <1>1
    <2>. QED
      BY <2>1, <2>2 DEF Fits
  <1>. QED
    BY <1>3, <1>4

\* The item in front fits, and the ones behind it do as before.
LEMMA ItemsCons ==
  ASSUME NEW x, NEW td, NEW y \in Nat, NEW nums, IsSequence(td), Items(td, y, nums),
         FitsFirst(x, td, y + One(x, InSwitch), nums)
  PROVE  Items(Cons(x, td), y + One(x, InSwitch), nums)
  <1>. PICK q : q = Cons(x, td)
    OBVIOUS
  <1>1. Len(td) \in Nat /\ Len(q) = Len(td) + 1
    BY ConsIs
  <1>2. PICK d : Depth(td, y, InSwitch, d) /\ \A i \in 1 .. Len(td) : Fits(td, i, d[i], nums)
    BY DEF Items
  <1>3. PICK m : m = y + One(x, InSwitch)
    OBVIOUS
  <1>4. PICK e : e = [i \in 1 .. Len(q) + 1 |-> IF i = 1 THEN m ELSE d[i - 1]]
    OBVIOUS
  <1>5. Depth(q, m, InSwitch, e)
    BY <1>2, <1>3, <1>4, DepthCons
  <1>6. ASSUME NEW i \in 1 .. Len(q) PROVE Fits(q, i, e[i], nums)
    <2>1. CASE i = 1
      <3>1. e[1] = m
        BY <1>1, <1>4
      <3>2. FitsFirst(x, td, m, nums)
        BY <1>3
      <3>. QED
        BY <2>1, <3>1, <3>2, FitsCons
    <2>2. CASE i # 1
      <3>1. i - 1 \in 1 .. Len(td) /\ (i - 1) + 1 = i /\ i \in 1 .. Len(q) + 1
        BY <1>1, <2>2
      <3>2. e[i] = d[i - 1]
        BY <1>4, <2>2, <3>1
      <3>3. Fits(q, (i - 1) + 1, d[i - 1], nums) <=> Fits(td, i - 1, d[i - 1], nums)
        BY <3>1, FitsCons
      <3>. QED
        BY <1>2, <3>1, <3>2, <3>3
    <2>. QED
      BY <2>1, <2>2
  <1>. QED
    BY <1>3, <1>5, <1>6 DEF Items

\* What is left fits when the item in front is taken.
LEMMA ItemsTail ==
  ASSUME NEW x, NEW td, NEW y, NEW nums, IsSequence(td), Items(Cons(x, td), y, nums)
  PROVE  /\ Items(td, y - One(x, InSwitch), nums) /\ FitsFirst(x, td, y, nums)
         /\ y \in Nat /\ y - One(x, InSwitch) \in Nat
  <1>. PICK q : q = Cons(x, td)
    OBVIOUS
  <1>1. Len(td) \in Nat /\ Len(q) = Len(td) + 1
    BY ConsIs
  <1>2. PICK d : Depth(q, y, InSwitch, d) /\ \A i \in 1 .. Len(q) : Fits(q, i, d[i], nums)
    BY DEF Items
  <1>3. PICK m : m = y - One(x, InSwitch)
    OBVIOUS
  <1>4. PICK e : e = [i \in 1 .. Len(td) + 1 |-> d[i + 1]]
    OBVIOUS
  <1>5. Depth(td, m, InSwitch, e) /\ y \in Nat /\ m \in Nat
    BY <1>2, <1>3, <1>4, DepthTail
  <1>6. ASSUME NEW i \in 1 .. Len(td) PROVE Fits(td, i, e[i], nums)
    <2>1. i + 1 \in 1 .. Len(q) /\ i \in 1 .. Len(td) + 1
      BY <1>1
    <2>2. e[i] = d[i + 1] /\ Fits(q, i + 1, d[i + 1], nums)
      BY <1>2, <1>4, <2>1
    <2>. QED
      BY <2>2, FitsCons
  <1>7. FitsFirst(x, td, y, nums)
    <2>1. d[1] = y
      BY <1>2 DEF Depth
    <2>2. 1 \in 1 .. Len(q)
      BY <1>1
    <2>. QED
      BY <1>2, <2>1, <2>2, FitsCons
  <1>. QED
    BY <1>3, <1>5, <1>6, <1>7 DEF Items

\* The item in front may close a scope more.
LEMMA ScopesCons ==
  ASSUME NEW x, NEW td, NEW c \in Nat, IsSequence(td), Scopes(td, c)
  PROVE  Scopes(Cons(x, td), c + One(x, {"close"}))
  BY DepthCons DEF Scopes

\* What is left closes the other scopes.
LEMMA ScopesTail ==
  ASSUME NEW x, NEW td, NEW c, IsSequence(td), Scopes(Cons(x, td), c)
  PROVE  /\ Scopes(td, c - One(x, {"close"}))
         /\ c \in Nat /\ c - One(x, {"close"}) \in Nat
  BY DepthTail DEF Scopes

\* No two items promise the same block if the one in front promises new ones.
LEMMA SeparateCons ==
  ASSUME NEW x, NEW td, NEW made, IsSequence(td)
  PROVE  Separate(Cons(x, td), made) <=>
            Separate(td, made) /\ Promises(x, made) \cap Promised(td, made) = {}
  <1>. PICK q : q = Cons(x, td)
    OBVIOUS
  <1>1. /\ Len(q) = Len(td) + 1 /\ q[1] = x
        /\ \A i \in 1 .. Len(td) : q[i + 1] = td[i]
        /\ \A i \in 2 .. Len(td) + 1 : q[i] = td[i - 1]
        /\ Len(td) \in Nat
    BY ConsIs
  <1>2. ASSUME Separate(q, made)
        PROVE  Separate(td, made) /\ Promises(x, made) \cap Promised(td, made) = {}
    <2>1. ASSUME NEW i \in 1 .. Len(td), NEW j \in 1 .. Len(td), i # j
          PROVE  Promises(td[i], made) \cap Promises(td[j], made) = {}
      <3>1. i + 1 \in 1 .. Len(q) /\ j + 1 \in 1 .. Len(q) /\ i + 1 # j + 1
        BY <1>1, <2>1
      <3>2. q[i + 1] = td[i] /\ q[j + 1] = td[j]
        BY <1>1
      <3>. QED
        BY <1>2, <3>1, <3>2 DEF Separate
    <2>2. ASSUME NEW i \in 1 .. Len(td)
          PROVE  Promises(x, made) \cap Promises(td[i], made) = {}
      <3>1. i + 1 \in 1 .. Len(q) /\ 1 \in 1 .. Len(q) /\ i + 1 # 1
        BY <1>1
      <3>2. q[i + 1] = td[i]
        BY <1>1
      <3>. QED
        BY <1>1, <1>2, <3>1, <3>2 DEF Separate
    <2>. QED
      BY ZenonT(60), <2>1, <2>2 DEF Separate, Promised
  <1>3. ASSUME Separate(td, made), Promises(x, made) \cap Promised(td, made) = {}
        PROVE  Separate(q, made)
    <2>1. ASSUME NEW i \in 1 .. Len(td)
          PROVE  Promises(x, made) \cap Promises(td[i], made) = {}
      BY <1>3 DEF Promised
    <2>2. ASSUME NEW i \in 1 .. Len(q), NEW j \in 1 .. Len(q), i # j
          PROVE  Promises(q[i], made) \cap Promises(q[j], made) = {}
      <3>1. CASE i = 1
        <4>1. j - 1 \in 1 .. Len(td) /\ j \in 2 .. Len(td) + 1
          BY <1>1, <2>2, <3>1
        <4>. QED
          BY <1>1, <2>1, <3>1, <4>1
      <3>2. CASE j = 1
        <4>1. i - 1 \in 1 .. Len(td) /\ i \in 2 .. Len(td) + 1
          BY <1>1, <2>2, <3>2
        <4>. QED
          BY <1>1, <2>1, <3>2, <4>1
      <3>3. CASE i # 1 /\ j # 1
        <4>1. /\ i - 1 \in 1 .. Len(td) /\ i \in 2 .. Len(td) + 1
              /\ j - 1 \in 1 .. Len(td) /\ j \in 2 .. Len(td) + 1 /\ i - 1 # j - 1
          BY <1>1, <2>2, <3>3
        <4>2. q[i] = td[i - 1] /\ q[j] = td[j - 1]
          BY <1>1, <4>1
        <4>. QED
          BY <1>3, <4>1, <4>2 DEF Separate
      <3>. QED
        BY <3>1, <3>2, <3>3
    <2>. QED
      BY <2>2 DEF Separate
  <1>. QED
    BY <1>2, <1>3

\* No two switches start in the same block if the one in front does not.
LEMMA StartsDifferCons ==
  ASSUME NEW x, NEW td, IsSequence(td)
  PROVE  StartsDiffer(Cons(x, td)) <=> StartsDiffer(td) /\ StartOf(x) \cap Starts(td) = {}
  <1>. PICK q : q = Cons(x, td)
    OBVIOUS
  <1>1. /\ Len(q) = Len(td) + 1 /\ q[1] = x
        /\ \A i \in 1 .. Len(td) : q[i + 1] = td[i]
        /\ \A i \in 2 .. Len(td) + 1 : q[i] = td[i - 1]
        /\ Len(td) \in Nat
    BY ConsIs
  <1>2. ASSUME StartsDiffer(q) PROVE StartsDiffer(td) /\ StartOf(x) \cap Starts(td) = {}
    <2>1. ASSUME NEW i \in 1 .. Len(td), NEW j \in 1 .. Len(td),
                 td[i].op \in InSwitch, td[j].op \in InSwitch, td[i].start = td[j].start
          PROVE  i = j
      <3>1. i + 1 \in 1 .. Len(q) /\ j + 1 \in 1 .. Len(q)
        BY <1>1
      <3>2. q[i + 1] = td[i] /\ q[j + 1] = td[j]
        BY <1>1
      <3>3. i + 1 = j + 1
        BY <1>2, <2>1, <3>1, <3>2 DEF StartsDiffer
      <3>. QED
        BY <3>3
    <2>2. ASSUME NEW i \in 1 .. Len(td), x.op \in InSwitch, td[i].op \in InSwitch
          PROVE  x.start # td[i].start
      <3>1. i + 1 \in 1 .. Len(q) /\ 1 \in 1 .. Len(q) /\ i + 1 # 1
        BY <1>1
      <3>2. q[i + 1] = td[i]
        BY <1>1
      <3>. QED
        BY <1>1, <1>2, <2>2, <3>1, <3>2 DEF StartsDiffer
    <2>. QED
      BY <2>1, <2>2 DEF StartsDiffer, StartOf, Starts
  <1>3. ASSUME StartsDiffer(td), StartOf(x) \cap Starts(td) = {} PROVE StartsDiffer(q)
    <2>1. ASSUME NEW i \in 1 .. Len(td), x.op \in InSwitch, td[i].op \in InSwitch
          PROVE  x.start # td[i].start
      BY <1>3, <2>1 DEF StartOf, Starts
    <2>2. ASSUME NEW i \in 1 .. Len(q), NEW j \in 1 .. Len(q),
                 q[i].op \in InSwitch, q[j].op \in InSwitch, q[i].start = q[j].start
          PROVE  i = j
      <3>1. CASE i = 1 /\ j # 1
        <4>1. j - 1 \in 1 .. Len(td) /\ j \in 2 .. Len(td) + 1
          BY <1>1, <3>1
        <4>. QED
          BY <1>1, <2>1, <2>2, <3>1, <4>1
      <3>2. CASE j = 1 /\ i # 1
        <4>1. i - 1 \in 1 .. Len(td) /\ i \in 2 .. Len(td) + 1
          BY <1>1, <3>2
        <4>. QED
          BY <1>1, <2>1, <2>2, <3>2, <4>1
      <3>3. CASE i # 1 /\ j # 1
        <4>1. /\ i - 1 \in 1 .. Len(td) /\ i \in 2 .. Len(td) + 1
              /\ j - 1 \in 1 .. Len(td) /\ j \in 2 .. Len(td) + 1
          BY <1>1, <3>3
        <4>2. q[i] = td[i - 1] /\ q[j] = td[j - 1]
          BY <1>1, <4>1
        <4>3. i - 1 = j - 1
          BY <1>3, <2>2, <4>1, <4>2 DEF StartsDiffer
        <4>. QED
          BY <4>3
      <3>. QED
        BY <3>1, <3>2, <3>3
    <2>. QED
      BY <2>2 DEF StartsDiffer
  <1>. QED
    BY <1>2, <1>3

\* The order holds if it holds between the item in front and the next one.
LEMMA OrderedCons ==
  ASSUME NEW x, NEW td, NEW made, IsSequence(td)
  PROVE  Ordered(Cons(x, td), made) <=>
            /\ Ordered(td, made)
            /\ EndsInTime(x, made, td = << >>)
            /\ td # << >> => Follows(x, td[1], made)
            /\ x.op \in Conditions \/ NoTest(td)
  <1>. PICK q : q = Cons(x, td)
    OBVIOUS
  <1>1. /\ Len(q) = Len(td) + 1 /\ q[1] = x
        /\ \A i \in 1 .. Len(td) : q[i + 1] = td[i]
        /\ \A i \in 2 .. Len(td) + 1 : q[i] = td[i - 1]
        /\ Len(td) \in Nat
    BY ConsIs
  <1>2. td = << >> <=> Len(td) = 0
    BY LengthOf
  <1>3. ASSUME Ordered(q, made)
        PROVE  /\ Ordered(td, made)
               /\ EndsInTime(x, made, td = << >>)
               /\ td # << >> => Follows(x, td[1], made)
               /\ x.op \in Conditions \/ NoTest(td)
    <2>0. /\ \A i \in 1 .. Len(q) : EndsInTime(q[i], made, i = Len(q))
          /\ \A i \in 1 .. Len(q) - 1 : Follows(q[i], q[i + 1], made)
          /\ \A i \in 1 .. Len(q) : q[i].op = "test" => \A j \in 1 .. i - 1 : q[j].op \in Conditions
      BY <1>3 DEF Ordered
    <2>1. ASSUME NEW i \in 1 .. Len(td) PROVE EndsInTime(td[i], made, i = Len(td))
      <3>1. i + 1 \in 1 .. Len(q) /\ (i + 1 = Len(q) <=> i = Len(td)) /\ q[i + 1] = td[i]
        BY <1>1
      <3>2. EndsInTime(q[i + 1], made, i + 1 = Len(q))
        BY <2>0, <3>1
      <3>. QED
        BY <3>1, <3>2 DEF EndsInTime
    <2>2. ASSUME NEW i \in 1 .. Len(td) - 1 PROVE Follows(td[i], td[i + 1], made)
      <3>1. i + 1 \in 1 .. Len(q) - 1 /\ i \in 1 .. Len(td) /\ i + 1 \in 1 .. Len(td)
        BY <1>1
      <3>2. q[i + 1] = td[i] /\ q[(i + 1) + 1] = td[i + 1]
        BY <1>1, <3>1
      <3>3. Follows(q[i + 1], q[(i + 1) + 1], made)
        BY <2>0, <3>1
      <3>. QED
        BY <3>2, <3>3
    <2>3. ASSUME NEW i \in 1 .. Len(td), td[i].op = "test"
          PROVE  x.op \in Conditions /\ \A j \in 1 .. i - 1 : td[j].op \in Conditions
      <3>1. i + 1 \in 1 .. Len(q) /\ q[i + 1] = td[i]
        BY <1>1
      <3>2. \A j \in 1 .. (i + 1) - 1 : q[j].op \in Conditions
        BY <2>0, <2>3, <3>1
      <3>3. x.op \in Conditions
        <4>1. 1 \in 1 .. (i + 1) - 1
          OBVIOUS
        <4>. QED
          BY <1>1, <3>2, <4>1
      <3>4. ASSUME NEW j \in 1 .. i - 1 PROVE td[j].op \in Conditions
        <4>1. j + 1 \in 1 .. (i + 1) - 1 /\ j \in 1 .. Len(td)
          BY <1>1
        <4>. QED
          BY <1>1, <3>2, <4>1
      <3>. QED
        BY <3>3, <3>4
    <2>4. Ordered(td, made)
      BY <2>1, <2>2, <2>3 DEF Ordered
    <2>5. EndsInTime(x, made, td = << >>)
      <3>1. 1 \in 1 .. Len(q) /\ (1 = Len(q) <=> td = << >>)
        BY <1>1, <1>2
      <3>2. EndsInTime(q[1], made, 1 = Len(q))
        BY <2>0, <3>1
      <3>. QED
        BY <1>1, <3>1, <3>2 DEF EndsInTime
    <2>6. ASSUME td # << >> PROVE Follows(x, td[1], made)
      <3>1. 1 \in 1 .. Len(q) - 1 /\ 1 \in 1 .. Len(td)
        BY <1>1, <1>2, <2>6
      <3>2. q[1] = x /\ q[1 + 1] = td[1]
        BY <1>1, <3>1
      <3>. QED
        BY <2>0, <3>1, <3>2
    <2>7. x.op \in Conditions \/ NoTest(td)
      BY <2>3 DEF NoTest
    <2>. QED
      BY <2>4, <2>5, <2>6, <2>7
  <1>4. ASSUME Ordered(td, made),
               EndsInTime(x, made, td = << >>),
               td # << >> => Follows(x, td[1], made),
               x.op \in Conditions \/ NoTest(td)
        PROVE  Ordered(q, made)
    <2>0. /\ \A i \in 1 .. Len(td) : EndsInTime(td[i], made, i = Len(td))
          /\ \A i \in 1 .. Len(td) - 1 : Follows(td[i], td[i + 1], made)
          /\ \A i \in 1 .. Len(td) : td[i].op = "test" => \A j \in 1 .. i - 1 : td[j].op \in Conditions
      BY <1>4 DEF Ordered
    <2>1. ASSUME NEW i \in 1 .. Len(q) PROVE EndsInTime(q[i], made, i = Len(q))
      <3>1. CASE i = 1
        <4>1. 1 = Len(q) <=> td = << >>
          BY <1>1, <1>2
        <4>. QED
          BY <1>1, <1>4, <3>1, <4>1 DEF EndsInTime
      <3>2. CASE i # 1
        <4>1. i - 1 \in 1 .. Len(td) /\ i \in 2 .. Len(td) + 1 /\ (i - 1 = Len(td) <=> i = Len(q))
          BY <1>1, <3>2
        <4>2. EndsInTime(td[i - 1], made, i - 1 = Len(td)) /\ q[i] = td[i - 1]
          BY <1>1, <2>0, <4>1
        <4>. QED
          BY <4>1, <4>2 DEF EndsInTime
      <3>. QED
        BY <3>1, <3>2
    <2>2. ASSUME NEW i \in 1 .. Len(q) - 1 PROVE Follows(q[i], q[i + 1], made)
      <3>1. CASE i = 1
        <4>1. td # << >> /\ 1 \in 1 .. Len(td)
          BY <1>1, <1>2, <3>1
        <4>2. q[1 + 1] = td[1]
          BY <1>1, <4>1
        <4>. QED
          BY <1>1, <1>4, <3>1, <4>1, <4>2
      <3>2. CASE i # 1
        <4>1. i - 1 \in 1 .. Len(td) - 1 /\ i \in 2 .. Len(td) + 1 /\ i + 1 \in 2 .. Len(td) + 1
              /\ (i + 1) - 1 = i /\ (i - 1) + 1 = i
          BY <1>1, <3>2
        <4>2. q[i] = td[i - 1] /\ q[i + 1] = td[i]
          BY <1>1, <4>1
        <4>3. Follows(td[i - 1], td[(i - 1) + 1], made)
          BY <2>0, <4>1
        <4>. QED
          BY <4>1, <4>2, <4>3
      <3>. QED
        BY <3>1, <3>2
    <2>3. ASSUME NEW i \in 1 .. Len(q), q[i].op = "test", NEW j \in 1 .. i - 1
          PROVE  q[j].op \in Conditions
      <3>1. i - 1 \in 1 .. Len(td) /\ i \in 2 .. Len(td) + 1
        BY <1>1
      <3>2. td[i - 1].op = "test"
        BY <1>1, <2>3, <3>1
      <3>3. CASE j = 1
        BY <1>1, <1>4, <3>1, <3>2, <3>3 DEF NoTest
      <3>4. CASE j # 1
        <4>1. j - 1 \in 1 .. (i - 1) - 1 /\ j \in 2 .. Len(td) + 1
          BY <1>1, <3>4
        <4>. QED
          BY <1>1, <2>0, <3>1, <3>2, <4>1
      <3>. QED
        BY <3>3, <3>4
    <2>. QED
      BY <2>1, <2>2, <2>3 DEF Ordered
  <1>. QED
    BY <1>3, <1>4

\* A list of work is given one more item in front, and loses it again.
LEMMA TodoCons ==
  ASSUME NEW x, NEW td, NEW y \in Nat, NEW c \in Nat, NEW nums, NEW made,
         Todo(td, y, c, nums, made), Joins(x, td, made),
         FitsFirst(x, td, y + One(x, InSwitch), nums)
  PROVE  Todo(Cons(x, td), y + One(x, InSwitch), c + One(x, {"close"}), nums, made)
  <1>1. IsSequence(td) /\ IsSequence(Cons(x, td))
    BY ConsIs DEF Todo
  <1>2. Items(Cons(x, td), y + One(x, InSwitch), nums)
    BY <1>1, ItemsCons DEF Todo
  <1>3. Scopes(Cons(x, td), c + One(x, {"close"}))
    BY <1>1, ScopesCons DEF Todo
  <1>4. Separate(Cons(x, td), made) /\ StartsDiffer(Cons(x, td))
    BY <1>1, SeparateCons, StartsDifferCons DEF Todo, Joins
  <1>5. Ordered(Cons(x, td), made)
    BY <1>1, OrderedCons DEF Todo, Joins
  <1>. QED
    BY <1>1, <1>2, <1>3, <1>4, <1>5 DEF Todo

\* The same, the other way round.
LEMMA TodoTail ==
  ASSUME NEW x, NEW td, NEW y, NEW c, NEW nums, NEW made, IsSequence(td),
         Todo(Cons(x, td), y, c, nums, made)
  PROVE  /\ Todo(td, y - One(x, InSwitch), c - One(x, {"close"}), nums, made)
         /\ Joins(x, td, made) /\ FitsFirst(x, td, y, nums)
         /\ y \in Nat /\ y - One(x, InSwitch) \in Nat
         /\ c \in Nat /\ c - One(x, {"close"}) \in Nat
  <1>1. /\ Items(td, y - One(x, InSwitch), nums) /\ FitsFirst(x, td, y, nums)
        /\ y \in Nat /\ y - One(x, InSwitch) \in Nat
    BY ItemsTail DEF Todo
  <1>2. Scopes(td, c - One(x, {"close"})) /\ c \in Nat /\ c - One(x, {"close"}) \in Nat
    BY ScopesTail DEF Todo
  <1>3. /\ Separate(td, made) /\ StartsDiffer(td)
        /\ StartOf(x) \cap Starts(td) = {} /\ Promises(x, made) \cap Promised(td, made) = {}
    BY SeparateCons, StartsDifferCons DEF Todo
  <1>4. /\ Ordered(td, made) /\ EndsInTime(x, made, td = << >>)
        /\ td # << >> => Follows(x, td[1], made)
        /\ x.op \in Conditions \/ NoTest(td)
    BY OrderedCons DEF Todo
  <1>. QED
    BY <1>1, <1>2, <1>3, <1>4 DEF Todo, Joins

-----------------------------------------------------------------------------
(* A body in front of others                                               *)

\* A set of naturals with 0 that is closed under successor is all of them.
LEMMA Induction ==
  ASSUME NEW S \in SUBSET Nat, 0 \in S, \A n \in Nat : n \in S => n + 1 \in S
  PROVE  S = Nat
  <1>. DEFINE U == Nat \ S
              T == {0 .. m : m \in U}
              R == StrictSubsetOrdering(Nat)
  <1>. SUFFICES ASSUME U # {} PROVE FALSE
    OBVIOUS
  <1>1. IsWellFoundedOn(R, FiniteSubsetsOf(Nat))
    BY FS_StrictSubsetOrderingWellFounded
  <1>2. T \subseteq FiniteSubsetsOf(Nat)
    <2>1. ASSUME NEW m \in U PROVE 0 .. m \in FiniteSubsetsOf(Nat)
      <3>1. IsFiniteSet(0 .. m) /\ 0 .. m \subseteq Nat
        BY FS_Interval
      <3>. QED
        BY <3>1 DEF FiniteSubsetsOf
    <2>. QED
      BY <2>1
  <1>3. \A k, m \in U : k < m => <<0 .. k, 0 .. m>> \in R
    <2>. SUFFICES ASSUME NEW k \in U, NEW m \in U, k < m
                  PROVE  <<0 .. k, 0 .. m>> \in R
      OBVIOUS
    <2>1. 0 .. k \subseteq Nat /\ 0 .. m \subseteq Nat /\ 0 .. k \subseteq 0 .. m
      OBVIOUS
    <2>2. m \in 0 .. m /\ m \notin 0 .. k
      OBVIOUS
    <2>. QED
      BY <2>1, <2>2 DEF StrictSubsetOrdering
  <1>4. T # {}
    OBVIOUS
  <1>. HIDE DEF R
  <1>5. PICK x \in T : \A y \in T : ~(<<y, x>> \in R)
    <2>. HIDE DEF T
    <2>. QED
      BY <1>1, <1>2, <1>4, WFMin
  <1>6. PICK m \in U : x = 0 .. m
    BY <1>5
  <1>7. \A k \in U : ~(k < m)
    BY <1>3, <1>5, <1>6
  <1>8. m \in Nat \ {0} /\ m - 1 \in Nat /\ m - 1 < m /\ (m - 1) + 1 = m
    BY <1>6
  <1>9. m - 1 \in S
    BY <1>7, <1>8
  <1>. QED
    BY <1>6, <1>8, <1>9

\* Items that need nothing before them.
Ordinary(x) == x.op \notin {"else", "case", "values", "strings"} /\ ~WhileEnd(x)

\* Statements of a body; the last one may leave it.
Statements == {"call", "assert", "block", "defer", "if", "for", "switch",
               "return", "break", "continue", "yield"}
Statement(x, s, last) == IsOngoing(x, s) \/ (IsLeaving(x, s) /\ last)
Precedes(body, s, td) ==
    \A i \in 1 .. Len(body) :
        IsOngoing(body[i], s) \/ (IsLeaving(body[i], s) /\ i = Len(body) /\ Tolerates(td, 1))

\* What the items td keep with others in front of them.
Fronted(q, td, y, c, nums, made) ==
    /\ Todo(q, y, c, nums, made)
    /\ Promised(q, made) = Promised(td, made) /\ Starts(q) = Starts(td)
    /\ NoTest(td) => NoTest(q)
    /\ EndsAway(td) => EndsAway(q)
    /\ q # << >> /\ (td # << >> => Ordinary(td[1])) => Ordinary(q[1])

\* What every statement of a body has in common.
LEMMA StatementIs ==
  ASSUME NEW x, NEW s, IsOngoing(x, s) \/ IsLeaving(x, s)
  PROVE  /\ x.op \in Statements /\ Ordinary(x) /\ StartOf(x) = {}
         /\ \A made : Promises(x, made) = {}
         /\ One(x, InSwitch) = 0 /\ One(x, {"close"}) = 0
         /\ \A made, last : EndsInTime(x, made, last)
         /\ \A next, made : Ordinary(next) => Follows(x, next, made)
         /\ x.op # "test"
  <1>1. x.op \in Statements
    BY DEF IsOngoing, IsLeaving, Statements
  <1>2. Ordinary(x) /\ StartOf(x) = {} /\ x.op # "test"
    BY <1>1 DEF Statements, Ordinary, WhileEnd, StartOf, InSwitch
  <1>3. One(x, InSwitch) = 0 /\ One(x, {"close"}) = 0
    BY <1>1 DEF Statements, One, InSwitch
  <1>4. ASSUME NEW made PROVE Promises(x, made) = {}
    BY <1>1 DEF Statements, Promises, InSwitch
  <1>5. ASSUME NEW made, NEW last PROVE EndsInTime(x, made, last)
    BY <1>1 DEF Statements, EndsInTime, WhileEnd
  <1>6. ASSUME NEW next, NEW made, Ordinary(next) PROVE Follows(x, next, made)
    BY <1>1, <1>6 DEF Statements, Follows, Ordinary
  <1>. QED
    BY <1>1, <1>2, <1>3, <1>4, <1>5, <1>6

AllClose(td) == \A k \in 1 .. Len(td) : td[k].op = "close"

\* Whether the last item leaves the function, with one more item in front.
LEMMA EndsAwayCons ==
  ASSUME NEW x, NEW td, IsSequence(td)
  PROVE  EndsAway(Cons(x, td)) <=>
            \/ EndsAway(td)
            \/ x.op \in {"return", "leave"} /\ AllClose(td)
  <1>. PICK q : q = Cons(x, td)
    OBVIOUS
  <1>1. /\ Len(q) = Len(td) + 1 /\ q[1] = x
        /\ \A i \in 1 .. Len(td) : q[i + 1] = td[i]
        /\ \A i \in 2 .. Len(td) + 1 : q[i] = td[i - 1]
        /\ Len(td) \in Nat
    BY ConsIs
  <1>2. ASSUME EndsAway(q)
        PROVE  \/ EndsAway(td)
               \/ x.op \in {"return", "leave"} /\ AllClose(td)
    <2>1. PICK j \in 1 .. Len(q) :
            q[j].op \in {"return", "leave"} /\ \A k \in j + 1 .. Len(q) : q[k].op = "close"
      BY <1>2 DEF EndsAway
    <2>2. \A k \in j .. Len(td) : k \in 1 .. Len(td) => td[k].op = "close"
      <3>. SUFFICES ASSUME NEW k \in j .. Len(td), k \in 1 .. Len(td) PROVE td[k].op = "close"
        OBVIOUS
      <3>1. k + 1 \in j + 1 .. Len(q) /\ q[k + 1] = td[k]
        BY <1>1
      <3>. QED
        BY <2>1, <3>1
    <2>3. CASE j = 1
      BY <1>1, <2>1, <2>2, <2>3 DEF AllClose
    <2>4. CASE j # 1
      <3>1. j - 1 \in 1 .. Len(td) /\ j \in 2 .. Len(td) + 1
        BY <1>1, <2>4
      <3>2. td[j - 1].op \in {"return", "leave"}
        BY <1>1, <2>1, <3>1
      <3>3. \A k \in (j - 1) + 1 .. Len(td) : td[k].op = "close"
        BY <2>2, <3>1
      <3>. QED
        BY <3>1, <3>2, <3>3 DEF EndsAway
    <2>. QED
      BY <2>3, <2>4
  <1>3. ASSUME EndsAway(td) PROVE EndsAway(q)
    <2>1. PICK j \in 1 .. Len(td) :
            td[j].op \in {"return", "leave"} /\ \A k \in j + 1 .. Len(td) : td[k].op = "close"
      BY <1>3 DEF EndsAway
    <2>2. j + 1 \in 1 .. Len(q) /\ q[j + 1].op \in {"return", "leave"}
      BY <1>1, <2>1
    <2>3. ASSUME NEW k \in (j + 1) + 1 .. Len(q) PROVE q[k].op = "close"
      <3>1. k - 1 \in j + 1 .. Len(td) /\ k \in 2 .. Len(td) + 1
        BY <1>1
      <3>. QED
        BY <1>1, <2>1, <3>1
    <2>. QED
      BY <2>2, <2>3 DEF EndsAway
  <1>4. ASSUME x.op \in {"return", "leave"}, AllClose(td)
        PROVE  EndsAway(q)
    <2>1. 1 \in 1 .. Len(q)
      BY <1>1
    <2>2. ASSUME NEW k \in 1 + 1 .. Len(q) PROVE q[k].op = "close"
      <3>1. k - 1 \in 1 .. Len(td) /\ k \in 2 .. Len(td) + 1
        BY <1>1
      <3>. QED
        BY <1>1, <1>4, <3>1 DEF AllClose
    <2>. QED
      BY <1>1, <1>4, <2>1, <2>2 DEF EndsAway
  <1>. QED
    BY <1>2, <1>3, <1>4

\* An item in front that is no test of a loop.
LEMMA NoTestCons ==
  ASSUME NEW x, NEW td, IsSequence(td), x.op # "test", NoTest(td)
  PROVE  NoTest(Cons(x, td))
  <1>. PICK q : q = Cons(x, td)
    OBVIOUS
  <1>1. /\ Len(q) = Len(td) + 1 /\ q[1] = x
        /\ \A i \in 2 .. Len(td) + 1 : q[i] = td[i - 1]
        /\ Len(td) \in Nat
    BY ConsIs
  <1>2. ASSUME NEW i \in 1 .. Len(q) PROVE q[i].op # "test"
    <2>1. i = 1 \/ (i \in 2 .. Len(td) + 1 /\ i - 1 \in 1 .. Len(td))
      BY <1>1
    <2>. QED
      BY <1>1, <2>1 DEF NoTest
  <1>. QED
    BY <1>2 DEF NoTest

\* A statement can be put in front of work that it may precede.
LEMMA StatementInFront ==
  ASSUME NEW x, NEW q, NEW td, NEW y \in Nat, NEW c \in Nat, NEW nums, NEW made,
         Fronted(q, td, y, c, nums, made), NoTest(td), td # << >> => Ordinary(td[1]),
         NEW s \in BOOLEAN, s => y > 0,
         IsOngoing(x, s) \/ (IsLeaving(x, s) /\ Tolerates(q, 1))
  PROVE  Fronted(Cons(x, q), td, y, c, nums, made)
  <1>1. /\ StartOf(x) = {} /\ Promises(x, made) = {} /\ Ordinary(x)
        /\ One(x, InSwitch) = 0 /\ One(x, {"close"}) = 0
        /\ EndsInTime(x, made, q = << >>)
        /\ \A next : Ordinary(next) => Follows(x, next, made)
        /\ x.op # "test"
    BY StatementIs
  <1>2. IsSequence(q)
    BY DEF Fronted, Todo
  <1>3. Joins(x, q, made)
    BY <1>1 DEF Joins, Fronted
  <1>4. FitsFirst(x, q, y, nums)
    BY DEF FitsFirst, Stays, Goes
  <1>5. Todo(Cons(x, q), y, c, nums, made)
    <2>1. y + One(x, InSwitch) = y /\ c + One(x, {"close"}) = c
      BY <1>1
    <2>2. Todo(Cons(x, q), y + One(x, InSwitch), c + One(x, {"close"}), nums, made)
      BY <1>3, <1>4, <2>1, TodoCons DEF Fronted
    <2>. QED
      BY <2>1, <2>2
  <1>6. Promised(Cons(x, q), made) = Promised(td, made) /\ Starts(Cons(x, q)) = Starts(td)
    <2>1. Promised(q, made) = Promised(td, made) /\ Starts(q) = Starts(td)
      BY DEF Fronted
    <2>2. /\ Promised(Cons(x, q), made) = Promises(x, made) \cup Promised(q, made)
          /\ Starts(Cons(x, q)) = StartOf(x) \cup Starts(q)
      BY <1>2, UnionCons
    <2>. QED
      BY <1>1, <2>1, <2>2
  <1>7. NoTest(Cons(x, q))
    BY <1>1, <1>2, NoTestCons DEF Fronted
  <1>8. EndsAway(td) => EndsAway(Cons(x, q))
    BY <1>2, EndsAwayCons DEF Fronted
  <1>9. Ordinary(Cons(x, q)[1])
    BY <1>1, <1>2, ConsIs
  <1>. QED
    BY <1>5, <1>6, <1>7, <1>8, <1>9 DEF Fronted

\* So can a body, one statement after the other from its end.
LEMMA BodyInFront ==
  ASSUME NEW body, NEW td, NEW y \in Nat, NEW c \in Nat, NEW nums, NEW made,
         IsSequence(body), Todo(td, y, c, nums, made),
         NoTest(td), td # << >> => Ordinary(td[1]),
         NEW s \in BOOLEAN, s => y > 0, Precedes(body, s, td)
  PROVE  Fronted(body \o td, td, y, c, nums, made)
  <1>. DEFINE n == Len(body)
              Rest(k) == SubSeq(body, (n - k) + 1, n)
              Good == {k \in Nat : k <= n => Fronted(Rest(k) \o td, td, y, c, nums, made)}
  <1>1. n \in Nat /\ body \in Seq(Range(body)) /\ DOMAIN body = 1 .. n
    BY LengthOf DEF IsSequence
  <1>2. IsSequence(td)
    BY DEF Todo
  <1>3. 0 \in Good
    <2>1. Rest(0) = << >>
      BY <1>1, SubSeqEmpty
    <2>2. << >> \o td = td
      BY <1>2, WorkIs
    <2>3. Fronted(td, td, y, c, nums, made)
      BY DEF Fronted
    <2>. QED
      BY <1>1, <2>1, <2>2, <2>3
  <1>4. ASSUME NEW k \in Nat, k \in Good PROVE k + 1 \in Good
    <2>. SUFFICES ASSUME k + 1 <= n PROVE Fronted(Rest(k + 1) \o td, td, y, c, nums, made)
      OBVIOUS
    <2>1. PICK i : i = n - k /\ i \in 1 .. n /\ (n - (k + 1)) + 1 = i /\ (n - k) + 1 = i + 1 /\ n \in i .. n
      BY <1>1
    <2>2. PICK x : x = body[i]
      OBVIOUS
    <2>3. PICK r : r = Rest(k)
      OBVIOUS
    <2>4. Rest(k + 1) = <<x>> \o r
      <3>1. SubSeq(body, i, n) = <<body[i]>> \o SubSeq(body, i + 1, n)
        BY <1>1, <2>1, SubSeqRecursiveFirst
      <3>. QED
        BY <2>1, <2>2, <2>3, <3>1
    <2>5. IsSequence(r) /\ (i = n => r = << >>)
      <3>1. \A j \in i + 1 .. n : body[j] \in Range(body)
        BY <1>1, <2>1, ElementOfSeq
      <3>2. SubSeq(body, i + 1, n) \in Seq(Range(body))
        BY <1>1, <2>1, <3>1, SubSeqProperties
      <3>3. i = n => SubSeq(body, i + 1, n) = << >>
        BY <1>1, <2>1, SubSeqEmpty
      <3>. QED
        BY <2>1, <2>3, <3>2, <3>3, SequenceIs
    <2>6. Rest(k + 1) \o td = Cons(x, r \o td)
      <3>1. (<<x>> \o r) \o td = <<x>> \o (r \o td)
        <4>1. PICK S : <<x>> \in Seq(S) /\ r \in Seq(S)
          BY <2>5, OneIs, Together
        <4>. DEFINE T == S \cup Range(td)
        <4>2. S \subseteq T /\ Range(td) \subseteq T
          OBVIOUS
        <4>3. <<x>> \in Seq(T) /\ r \in Seq(T) /\ td \in Seq(T)
          BY <1>2, <4>1, <4>2, SeqMonotonic DEF IsSequence
        <4>. QED
          BY SMTT(60), <4>3, ConcatAssociative
      <3>. QED
        BY <2>4, <3>1 DEF Cons
    <2>7. Fronted(r \o td, td, y, c, nums, made)
      BY <1>1, <1>4, <2>1, <2>3
    <2>8. IsOngoing(x, s) \/ (IsLeaving(x, s) /\ Tolerates(r \o td, 1))
      <3>1. IsOngoing(x, s) \/ (IsLeaving(x, s) /\ i = Len(body) /\ Tolerates(td, 1))
        BY <2>1, <2>2 DEF Precedes
      <3>2. i = Len(body) => r \o td = td
        BY <1>2, <2>5, WorkIs
      <3>. QED
        BY <3>1, <3>2
    <2>9. Fronted(Cons(x, r \o td), td, y, c, nums, made)
      BY <2>7, <2>8, StatementInFront
    <2>. QED
      BY <2>6, <2>9
  <1>5. n \in Good
    <2>. HIDE DEF Good, n
    <2>1. Good \in SUBSET Nat
      BY DEF Good
    <2>2. Good = Nat
      BY <1>3, <1>4, <2>1, Induction
    <2>. QED
      BY <1>1, <2>2
  <1>6. Rest(n) = body
    <2>1. (n - n) + 1 = 1
      BY <1>1
    <2>. QED
      BY <1>1, <2>1, SubSeqFull
  <1>7. Fronted(Rest(n) \o td, td, y, c, nums, made)
    BY <1>1, <1>5
  <1>. HIDE DEF n, Rest, Good
  <1>. QED
    BY <1>6, <1>7

-----------------------------------------------------------------------------
(* More blocks are allocated and made                                      *)

\* An item fits still when there are more numbers.
LEMMA StaysMore ==
  ASSUME NEW i, NEW s \in BOOLEAN, NEW nums, NEW more, nums \subseteq more
  PROVE  /\ Stays(i, s, nums) => Stays(i, s, more)
         /\ Goes(i, s, nums) => Goes(i, s, more)
  <1>1. \A S : S \subseteq nums => S \subseteq more
    OBVIOUS
  <1>2. \A n : n \in nums => n \in more
    OBVIOUS
  <1>3. IsSwitch(i, nums) => IsSwitch(i, more)
    <2>1. i.blocks \in Seq(nums) => i.blocks \in Seq(more)
      BY SeqMonotonic
    <2>. QED
      BY <1>1, <2>1 DEF IsSwitch
  <1>4. ASSUME NEW loop PROVE IsLoop(loop, s, nums) => IsLoop(loop, s, more)
    BY <1>1 DEF IsLoop
  <1>5. Stays(i, s, nums) => Stays(i, s, more)
    <2>1. i.op = "endBody" /\ i.to \in nums => i.to \in more
      OBVIOUS
    <2>2. {i.block, i.end} \subseteq nums => {i.block, i.end} \subseteq more
      BY <1>1
    <2>3. {i.breakTo, i.continueTo} \subseteq nums => {i.breakTo, i.continueTo} \subseteq more
      BY <1>1
    <2>4. {i.true, i.true + 1, i.true + 2, i.true + 3} \subseteq nums =>
             {i.true, i.true + 1, i.true + 2, i.true + 3} \subseteq more
      BY <1>1
    <2>. QED
      BY <1>3, <1>4, <2>1, <2>2, <2>3, <2>4, Zenon DEF Stays
  <1>6. Goes(i, s, nums) => Goes(i, s, more)
    BY <1>1 DEF Goes
  <1>. QED
    BY <1>5, <1>6

\* An item promises the same when other blocks are made.
LEMMA PromisesStay ==
  ASSUME NEW i, NEW made, NEW new, Promises(i, made) \cap new = {}
  PROVE  Promises(i, made \cup new) = Promises(i, made)
  <1>1. CASE i.op = "endBody"
    <2>1. \A m : Promises(i, m) = {i.to} \ m
      BY <1>1 DEF Promises, InSwitch
    <2>2. Promises(i, made) = {i.to} \ made /\ Promises(i, made \cup new) = {i.to} \ (made \cup new)
      BY <2>1
    <2>. QED
      BY <2>2
  <1>2. CASE i.op # "endBody"
    <2>1. \A m1, m2 : Promises(i, m1) = Promises(i, m2)
      BY <1>2 DEF Promises, InSwitch
    <2>. QED
      BY <2>1
  <1>. QED
    BY <1>1, <1>2

Grows(td, nums, more, made, new) ==
    nums \subseteq more /\ Promised(td, made) \cap new = {}

\* Work stays in order when numbers are given and other blocks are made.
LEMMA TodoGrows ==
  ASSUME NEW td, NEW y, NEW c, NEW nums, NEW more, NEW made, NEW new,
         Todo(td, y, c, nums, made), Grows(td, nums, more, made, new)
  PROVE  /\ Todo(td, y, c, more, made \cup new)
         /\ Promised(td, made \cup new) = Promised(td, made)
  <1>1. \A i \in 1 .. Len(td) : Promises(td[i], made) \cap new = {}
    BY DEF Grows, Promised
  <1>2. \A i \in 1 .. Len(td) : Promises(td[i], made \cup new) = Promises(td[i], made)
    BY <1>1, PromisesStay
  <1>3. Promised(td, made \cup new) = Promised(td, made)
    BY <1>2 DEF Promised
  <1>4. Separate(td, made \cup new)
    BY <1>2 DEF Separate, Todo
  <1>5. Items(td, y, more)
    <2>1. PICK d : Depth(td, y, InSwitch, d) /\ \A i \in 1 .. Len(td) : Fits(td, i, d[i], nums)
      BY DEF Todo, Items
    <2>2. ASSUME NEW i \in 1 .. Len(td) PROVE Fits(td, i, d[i], more)
      <3>1. PICK s \in BOOLEAN :
              /\ s => d[i] > 0
              /\ Stays(td[i], s, nums) \/ (Goes(td[i], s, nums) /\ Tolerates(td, i + 1))
        BY <2>1 DEF Fits
      <3>2. Stays(td[i], s, more) \/ (Goes(td[i], s, more) /\ Tolerates(td, i + 1))
        BY <3>1, StaysMore DEF Grows
      <3>. QED
        BY <3>1, <3>2 DEF Fits
    <2>. QED
      BY <2>1, <2>2 DEF Items
  <1>6. Ordered(td, made \cup new)
    <2>0. /\ \A i \in 1 .. Len(td) : EndsInTime(td[i], made, i = Len(td))
          /\ \A i \in 1 .. Len(td) - 1 : Follows(td[i], td[i + 1], made)
          /\ \A i \in 1 .. Len(td) : td[i].op = "test" => \A j \in 1 .. i - 1 : td[j].op \in Conditions
      BY DEF Todo, Ordered
    <2>1. Len(td) \in Nat
      BY LengthOf DEF Todo
    <2>2. ASSUME NEW i \in 1 .. Len(td), td[i].op = "endBody", td[i].to \in made \cup new
          PROVE  td[i].to \in made
      <3>1. Promises(td[i], made) = {td[i].to} \ made
        BY <2>2 DEF Promises, InSwitch
      <3>. QED
        BY <1>1, <2>2, <3>1
    <2>3. ASSUME NEW i \in 1 .. Len(td) PROVE EndsInTime(td[i], made \cup new, i = Len(td))
      <3>1. EndsInTime(td[i], made, i = Len(td))
        BY <2>0
      <3>. QED
        BY <2>2, <3>1 DEF EndsInTime
    <2>4. ASSUME NEW i \in 1 .. Len(td) - 1 PROVE Follows(td[i], td[i + 1], made \cup new)
      <3>1. Follows(td[i], td[i + 1], made) /\ i \in 1 .. Len(td)
        BY <2>0, <2>1
      <3>. QED
        BY <2>2, <3>1 DEF Follows
    <2>. QED
      BY <2>0, <2>3, <2>4 DEF Ordered
  <1>. QED
    BY <1>3, <1>4, <1>5, <1>6 DEF Todo

-----------------------------------------------------------------------------
(* The operations of the builder                                           *)

Same(b, p) ==
    /\ p.yields = b.yields /\ p.defered = b.defered
    /\ p.breakTo = b.breakTo /\ p.continueTo = b.continueTo

\* A sequence with one more element at its end.
LEMMA AppendIs ==
  ASSUME NEW q, IsSequence(q), NEW x
  PROVE  /\ IsSequence(Append(q, x)) /\ Len(Append(q, x)) = Len(q) + 1
         /\ DOMAIN Append(q, x) = 1 .. Len(q) + 1 /\ DOMAIN q = 1 .. Len(q) /\ Len(q) \in Nat
         /\ \A i \in 1 .. Len(q) : Append(q, x)[i] = q[i]
         /\ Append(q, x)[Len(q) + 1] = x
         /\ Append(q, x) # << >>
  <1>. DEFINE S == Range(q) \cup {x}
  <1>1. Range(q) \subseteq S /\ x \in S
    OBVIOUS
  <1>2. q \in Seq(S)
    BY <1>1, SeqMonotonic DEF IsSequence
  <1>. HIDE DEF S
  <1>3. /\ Append(q, x) \in Seq(S) /\ Append(q, x) # << >> /\ Len(Append(q, x)) = Len(q) + 1
        /\ \A i \in 1 .. Len(q) : Append(q, x)[i] = q[i]
        /\ Append(q, x)[Len(q) + 1] = x
    BY <1>1, <1>2, AppendProperties
  <1>4. IsSequence(Append(q, x))
    BY <1>3, SequenceIs
  <1>5. DOMAIN Append(q, x) = 1 .. Len(q) + 1
    BY <1>3, <1>4, LengthOf
  <1>. QED
    BY <1>3, <1>4, <1>5, LengthOf

\* A block's code with one more instruction at its end.
LEMMA CodeAppend ==
  ASSUME NEW code, IsSequence(code), NEW i
  PROVE  /\ Open(code) /\ ~IsTerminator(i) => Open(Append(code, i))
         /\ Open(code) /\ IsTerminator(i) => Closed(Append(code, i))
         /\ \A nums : LeadTo(code, nums) /\ Targets(i) \subseteq nums => LeadTo(Append(code, i), nums)
  <1>. PICK q : q = Append(code, i)
    OBVIOUS
  <1>1. /\ Len(q) = Len(code) + 1 /\ DOMAIN q = 1 .. Len(code) + 1
        /\ DOMAIN code = 1 .. Len(code) /\ Len(code) \in Nat
        /\ \A k \in 1 .. Len(code) : q[k] = code[k]
        /\ q[Len(code) + 1] = i /\ q # << >>
    BY AppendIs
  <1>2. \A k \in DOMAIN q : (k \in DOMAIN code /\ q[k] = code[k]) \/ (k = Len(q) /\ q[k] = i)
    BY <1>1
  <1>3. Open(code) /\ ~IsTerminator(i) => Open(q)
    BY <1>2 DEF Open
  <1>4. ASSUME Open(code), IsTerminator(i) PROVE Closed(q)
    <2>1. ASSUME NEW k \in DOMAIN q PROVE IsTerminator(q[k]) <=> k = Len(q)
      <3>1. CASE k = Len(q)
        BY <1>1, <1>4, <3>1
      <3>2. CASE k # Len(q)
        BY <1>2, <1>4, <3>2 DEF Open
      <3>. QED
        BY <3>1, <3>2
    <2>. QED
      BY <1>1, <2>1 DEF Closed
  <1>5. ASSUME NEW nums, LeadTo(code, nums), Targets(i) \subseteq nums PROVE LeadTo(q, nums)
    BY <1>2, <1>5 DEF LeadTo
  <1>. QED
    BY <1>3, <1>4, <1>5

\* A new block is empty and open.
LEMMA NewBlockIs ==
  ASSUME NEW id
  PROVE  /\ IsBlock(NewBlock(id)) /\ NewBlock(id).id = id /\ NewBlock(id).code = << >>
         /\ NewBlock(id).terminated = FALSE /\ Open(NewBlock(id).code)
         /\ \A nums : LeadTo(NewBlock(id).code, nums)
  <1>1. IsSequence(<< >>)
    BY EmptyIsSequence
  <1>2. DOMAIN << >> = {}
    OBVIOUS
  <1>3. NewBlock(id).id = id /\ NewBlock(id).code = << >> /\ NewBlock(id).terminated = FALSE
    BY DEF NewBlock
  <1>4. IsBlock(NewBlock(id))
    BY <1>1, <1>3 DEF IsBlock, NewBlock
  <1>. QED
    BY <1>2, <1>3, <1>4 DEF Open, LeadTo

\* PushInstruction: one more instruction in the current block.
LEMMA PushIs ==
  ASSUME NEW b, NEW starts, NEW i, Building(b, starts), b.current.terminated = FALSE,
         Targets(i) \subseteq Numbers(b)
  PROVE  /\ Building(Push(b, i), starts) /\ Same(b, Push(b, i))
         /\ Made(Push(b, i)) = Made(b) /\ Push(b, i).lastBlock = b.lastBlock
         /\ Push(b, i).current.id = b.current.id
         /\ Push(b, i).current.terminated = FALSE
         /\ Push(b, i).current.code = Append(b.current.code, i)
         /\ Push(b, i).blocks = b.blocks
  <1>. PICK p : p = Push(b, i)
    OBVIOUS
  <1>. PICK c : c = [b.current EXCEPT !.code = Append(b.current.code, i)]
    OBVIOUS
  <1>1. IsBuilder(b) /\ IsBlock(b.current) /\ b.asserted = FALSE
    BY DEF Building
  <1>2. c.id = b.current.id /\ c.code = Append(b.current.code, i) /\ c.terminated = FALSE
        /\ c = [id |-> c.id, code |-> c.code, terminated |-> c.terminated]
    BY <1>1 DEF IsBlock
  <1>3. p = [b EXCEPT !.current = c, !.asserted = FALSE]
    BY <1>1 DEF Push
  <1>4. /\ p.current = c /\ p.blocks = b.blocks /\ p.asserted = FALSE /\ p.lastBlock = b.lastBlock
        /\ p.yields = b.yields /\ p.defered = b.defered
        /\ p.breakTo = b.breakTo /\ p.continueTo = b.continueTo
        /\ IsBuilder(p)
    BY <1>1, <1>3 DEF IsBuilder
  <1>6. IsSequence(Append(b.current.code, i))
    BY <1>1, AppendIs DEF IsBlock
  <1>7. IsBlock(c)
    BY <1>2, <1>6 DEF IsBlock
  <1>8. LeadTo(c.code, Numbers(b))
    BY <1>1, <1>2, CodeAppend DEF Building, IsBlock
  <1>9. Numbers(p) = Numbers(b) /\ Made(p) = Made(b) /\ Same(b, p)
    BY <1>4 DEF Numbers, Made, Same
  <1>10. Building(p, starts)
    BY <1>4, <1>2, <1>7, <1>8, <1>9 DEF Building
  <1>. QED
    BY <1>2, <1>4, <1>9, <1>10

\* Terminate: the current block is made and another one is opened.
LEMMA TerminateIs ==
  ASSUME NEW b, NEW starts, NEW to \in Numbers(b), Building(b, starts),
         b.current.id \notin Made(b),
         b.current.id \in starts => Open(b.current.code),
         b.current.id \notin starts => Closed(b.current.code)
  PROVE  /\ Building(Terminate(b, to), starts) /\ Same(b, Terminate(b, to))
         /\ Made(Terminate(b, to)) = Made(b) \cup {b.current.id}
         /\ Terminate(b, to).lastBlock = b.lastBlock
         /\ Terminate(b, to).current = NewBlock(to)
  <1>. PICK p : p = Terminate(b, to)
    OBVIOUS
  <1>. PICK c : c = [b.current EXCEPT !.terminated = TRUE]
    OBVIOUS
  <1>1. IsBuilder(b) /\ IsBlock(b.current) /\ b.asserted = FALSE /\ IsSequence(b.blocks)
    BY DEF Building
  <1>2. c.id = b.current.id /\ c.code = b.current.code /\ IsBlock(c)
    BY <1>1 DEF IsBlock
  <1>3. p = [b EXCEPT !.blocks = Append(b.blocks, c), !.current = NewBlock(to)]
    BY <1>1 DEF Terminate
  <1>4. /\ p.current = NewBlock(to) /\ p.blocks = Append(b.blocks, c)
        /\ p.asserted = FALSE /\ p.lastBlock = b.lastBlock
        /\ p.yields = b.yields /\ p.defered = b.defered
        /\ p.breakTo = b.breakTo /\ p.continueTo = b.continueTo
        /\ IsBuilder(p)
    BY <1>1, <1>3 DEF IsBuilder
  <1>5. Numbers(p) = Numbers(b) /\ Same(b, p)
    BY <1>4 DEF Numbers, Same
  <1>6. /\ IsSequence(p.blocks) /\ Len(p.blocks) = Len(b.blocks) + 1
        /\ DOMAIN p.blocks = 1 .. Len(b.blocks) + 1
        /\ DOMAIN b.blocks = 1 .. Len(b.blocks) /\ Len(b.blocks) \in Nat
        /\ \A k \in 1 .. Len(b.blocks) : p.blocks[k] = b.blocks[k]
        /\ p.blocks[Len(b.blocks) + 1] = c
    BY <1>1, <1>4, AppendIs
  <1>7. \A k \in DOMAIN p.blocks :
            (k \in DOMAIN b.blocks /\ p.blocks[k] = b.blocks[k])
            \/ (k = Len(b.blocks) + 1 /\ p.blocks[k] = c)
    BY <1>6
  <1>8. Made(p) = Made(b) \cup {b.current.id}
    <2>1. \A n : n \in Made(p) => n \in Made(b) \cup {c.id}
      BY ZenonT(60), <1>7 DEF Made
    <2>2. \A n : n \in Made(b) \cup {c.id} => n \in Made(p)
      <3>1. ASSUME NEW k \in DOMAIN b.blocks PROVE b.blocks[k].id \in Made(p)
        <4>1. k \in DOMAIN p.blocks /\ p.blocks[k] = b.blocks[k]
          BY <1>6
        <4>. QED
          BY <4>1 DEF Made
      <3>2. c.id \in Made(p)
        <4>1. Len(b.blocks) + 1 \in DOMAIN p.blocks
          BY <1>6
        <4>. QED
          BY <1>6, <4>1 DEF Made
      <3>. QED
        BY <3>1, <3>2 DEF Made
    <2>. QED
      BY <1>2, <2>1, <2>2
  <1>9. Differ(p.blocks)
    <2>1. ASSUME NEW j \in DOMAIN p.blocks, NEW k \in DOMAIN p.blocks,
                 p.blocks[j].id = p.blocks[k].id
          PROVE  j = k
      <3>1. \A m \in DOMAIN b.blocks : b.blocks[m].id # c.id
        BY <1>2 DEF Made
      <3>2. Differ(b.blocks)
        BY DEF Building
      <3>. QED
        BY ZenonT(60), <1>7, <2>1, <3>1, <3>2 DEF Differ
    <2>. QED
      BY <2>1 DEF Differ
  <1>10. \A k \in DOMAIN p.blocks : Finished(p.blocks[k], Numbers(b), starts)
    <2>1. Finished(c, Numbers(b), starts)
      BY <1>2 DEF Finished, Building
    <2>. QED
      BY <1>7, <2>1 DEF Building
  <1>11. /\ IsBlock(p.current) /\ p.current.id = to /\ LeadTo(p.current.code, Numbers(b))
    BY <1>4, NewBlockIs
  <1>12. Building(p, starts)
    BY <1>4, <1>5, <1>6, <1>9, <1>10, <1>11 DEF Building
  <1>. QED
    BY <1>4, <1>5, <1>8, <1>12

\* The other fields.
LEMMA BuildingWith ==
  ASSUME NEW b, NEW p, NEW starts, Building(b, starts), IsBuilder(p),
         p.blocks = b.blocks, p.asserted = b.asserted,
         p.lastBlock \in Nat, b.lastBlock <= p.lastBlock,
         IsBlock(p.current), p.current.id \in Numbers(p), LeadTo(p.current.code, Numbers(p)),
         p.breakTo \in Numbers(p), p.continueTo \in Numbers(p),
         p.yields \in Seq(Numbers(p)), p.defered \in Seq(Seq(Seq(Ongoing[FALSE])))
  PROVE  Building(p, starts) /\ Made(p) = Made(b)
  <1>1. b.lastBlock \in Nat \ {0}
    BY DEF Building
  <1>2. Numbers(b) \subseteq Numbers(p)
    BY <1>1 DEF Numbers
  <1>3. ASSUME NEW k \in DOMAIN b.blocks PROVE Finished(b.blocks[k], Numbers(p), starts)
    <2>1. Finished(b.blocks[k], Numbers(b), starts)
      BY DEF Building
    <2>2. LeadTo(b.blocks[k].code, Numbers(p))
      BY <1>2, <2>1 DEF Finished, LeadTo
    <2>. QED
      BY <1>2, <2>1, <2>2 DEF Finished
  <1>4. IsSequence(p.blocks) /\ Differ(p.blocks) /\ p.asserted = FALSE
    BY DEF Building
  <1>5. p.lastBlock \in Nat \ {0}
    BY <1>1
  <1>6. Made(p) = Made(b)
    BY DEF Made
  <1>. QED
    BY <1>3, <1>4, <1>5, <1>6 DEF Building

\* AllocateBlock: more numbers are given.
LEMMA AllocateIs ==
  ASSUME NEW b, NEW starts, Building(b, starts), NEW n \in Nat
  PROVE  /\ Building(AllocateBlocks(b, n), starts) /\ Same(b, AllocateBlocks(b, n))
         /\ Made(AllocateBlocks(b, n)) = Made(b)
         /\ AllocateBlocks(b, n).lastBlock = b.lastBlock + n
         /\ AllocateBlocks(b, n).current = b.current
         /\ Numbers(AllocateBlocks(b, n)) = 0 .. b.lastBlock + n - 1
         /\ Numbers(b) \subseteq Numbers(AllocateBlocks(b, n))
  <1>. PICK p : p = AllocateBlocks(b, n)
    OBVIOUS
  <1>1. /\ IsBuilder(p) /\ p.current = b.current /\ p.blocks = b.blocks
        /\ p.asserted = b.asserted /\ p.lastBlock = b.lastBlock + n
        /\ p.yields = b.yields /\ p.defered = b.defered
        /\ p.breakTo = b.breakTo /\ p.continueTo = b.continueTo
    BY DEF Building, IsBuilder, AllocateBlocks
  <1>2. b.lastBlock \in Nat \ {0}
    BY DEF Building
  <1>3. p.lastBlock \in Nat /\ b.lastBlock <= p.lastBlock
    BY <1>1, <1>2
  <1>4. Numbers(b) \subseteq Numbers(p) /\ Numbers(p) = 0 .. b.lastBlock + n - 1
    BY <1>1, <1>2 DEF Numbers
  <1>5. p.yields \in Seq(Numbers(p))
    BY <1>1, <1>4, SeqMonotonic DEF Building
  <1>6. /\ IsBlock(p.current) /\ p.current.id \in Numbers(p)
        /\ p.breakTo \in Numbers(p) /\ p.continueTo \in Numbers(p)
        /\ p.defered \in Seq(Seq(Seq(Ongoing[FALSE])))
    BY <1>1, <1>4 DEF Building
  <1>7. LeadTo(p.current.code, Numbers(p))
    BY <1>1, <1>4 DEF Building, LeadTo
  <1>8. Building(p, starts) /\ Made(p) = Made(b)
    BY <1>1, <1>3, <1>5, <1>6, <1>7, BuildingWith
  <1>. QED
    BY <1>1, <1>4, <1>8 DEF Same

\* A register is given.
LEMMA RegisterIs ==
  ASSUME NEW b, NEW starts, Building(b, starts)
  PROVE  /\ Building(AllocateRegister(b), starts) /\ Same(b, AllocateRegister(b))
         /\ Made(AllocateRegister(b)) = Made(b)
         /\ AllocateRegister(b).lastBlock = b.lastBlock
         /\ AllocateRegister(b).current = b.current
  <1>. PICK p : p = AllocateRegister(b)
    OBVIOUS
  <1>1. /\ IsBuilder(p) /\ p.current = b.current /\ p.blocks = b.blocks
        /\ p.asserted = b.asserted /\ p.lastBlock = b.lastBlock
        /\ p.yields = b.yields /\ p.defered = b.defered
        /\ p.breakTo = b.breakTo /\ p.continueTo = b.continueTo
    BY DEF Building, IsBuilder, AllocateRegister
  <1>2. Numbers(p) = Numbers(b)
    BY <1>1 DEF Numbers
  <1>3. Building(p, starts)
    BY <1>1, <1>2 DEF Building
  <1>. QED
    BY <1>1, <1>3 DEF Same, Made

\* The current block is another one.
LEMMA CurrentIs ==
  ASSUME NEW b, NEW starts, Building(b, starts), NEW id \in Numbers(b)
  PROVE  LET p == [b EXCEPT !.current = NewBlock(id)] IN
         /\ Building(p, starts) /\ Same(b, p)
         /\ Made(p) = Made(b) /\ p.lastBlock = b.lastBlock /\ p.current = NewBlock(id)
  <1>. PICK p : p = [b EXCEPT !.current = NewBlock(id)]
    OBVIOUS
  <1>1. /\ IsBuilder(p) /\ p.current = NewBlock(id) /\ p.blocks = b.blocks
        /\ p.asserted = b.asserted /\ p.lastBlock = b.lastBlock
        /\ p.yields = b.yields /\ p.defered = b.defered
        /\ p.breakTo = b.breakTo /\ p.continueTo = b.continueTo
    BY DEF Building, IsBuilder
  <1>2. Numbers(p) = Numbers(b)
    BY <1>1 DEF Numbers
  <1>3. IsBlock(p.current) /\ p.current.id = id /\ LeadTo(p.current.code, Numbers(p))
    BY <1>1, NewBlockIs
  <1>4. Building(p, starts)
    BY <1>1, <1>2, <1>3 DEF Building
  <1>. QED
    BY <1>1, <1>4 DEF Same, Made

\* The targets of break and continue are set.
LEMMA JumpsIs ==
  ASSUME NEW b, NEW starts, Building(b, starts), NEW m \in Numbers(b), NEW n \in Numbers(b)
  PROVE  LET p == [b EXCEPT !.breakTo = m, !.continueTo = n] IN
         /\ Building(p, starts) /\ p.yields = b.yields /\ p.defered = b.defered
         /\ Made(p) = Made(b) /\ p.lastBlock = b.lastBlock /\ p.current = b.current
  <1>. PICK p : p = [b EXCEPT !.breakTo = m, !.continueTo = n]
    OBVIOUS
  <1>1. /\ IsBuilder(p) /\ p.current = b.current /\ p.blocks = b.blocks
        /\ p.asserted = b.asserted /\ p.lastBlock = b.lastBlock
        /\ p.yields = b.yields /\ p.defered = b.defered
        /\ p.breakTo = m /\ p.continueTo = n
    BY DEF Building, IsBuilder
  <1>2. Numbers(p) = Numbers(b)
    BY <1>1 DEF Numbers
  <1>3. Building(p, starts)
    BY <1>1, <1>2 DEF Building
  <1>. QED
    BY <1>1, <1>3 DEF Made

\* A switch is opened or left.
LEMMA YieldsIs ==
  ASSUME NEW b, NEW starts, Building(b, starts), NEW ys \in Seq(Numbers(b))
  PROVE  LET p == [b EXCEPT !.yields = ys] IN
         /\ Building(p, starts) /\ p.yields = ys /\ p.defered = b.defered
         /\ Made(p) = Made(b) /\ p.lastBlock = b.lastBlock /\ p.current = b.current
  <1>. PICK p : p = [b EXCEPT !.yields = ys]
    OBVIOUS
  <1>1. /\ IsBuilder(p) /\ p.current = b.current /\ p.blocks = b.blocks
        /\ p.asserted = b.asserted /\ p.lastBlock = b.lastBlock
        /\ p.yields = ys /\ p.defered = b.defered
        /\ p.breakTo = b.breakTo /\ p.continueTo = b.continueTo
    BY DEF Building, IsBuilder
  <1>2. Numbers(p) = Numbers(b)
    BY <1>1 DEF Numbers
  <1>3. Building(p, starts)
    BY <1>1, <1>2 DEF Building
  <1>. QED
    BY <1>1, <1>3 DEF Made

\* The deferred bodies are changed.
LEMMA DeferedIs ==
  ASSUME NEW b, NEW starts, Building(b, starts), NEW ds \in Seq(Seq(Seq(Ongoing[FALSE])))
  PROVE  LET p == [b EXCEPT !.defered = ds] IN
         /\ Building(p, starts) /\ p.yields = b.yields /\ p.defered = ds
         /\ Made(p) = Made(b) /\ p.lastBlock = b.lastBlock /\ p.current = b.current
  <1>. PICK p : p = [b EXCEPT !.defered = ds]
    OBVIOUS
  <1>1. /\ IsBuilder(p) /\ p.current = b.current /\ p.blocks = b.blocks
        /\ p.asserted = b.asserted /\ p.lastBlock = b.lastBlock
        /\ p.yields = b.yields /\ p.defered = ds
        /\ p.breakTo = b.breakTo /\ p.continueTo = b.continueTo
    BY DEF Building, IsBuilder
  <1>2. Numbers(p) = Numbers(b)
    BY <1>1 DEF Numbers
  <1>3. Building(p, starts)
    BY <1>1, <1>2 DEF Building
  <1>. QED
    BY <1>1, <1>3 DEF Made

\* The instruction that ends the current block.
LEMMA PushLastIs ==
  ASSUME NEW b, NEW starts, NEW i, Building(b, starts), b.current.terminated = FALSE,
         Targets(i) \subseteq Numbers(b)
  PROVE  /\ Building(PushLast(b, i), starts) /\ Same(b, PushLast(b, i))
         /\ Made(PushLast(b, i)) = Made(b) /\ PushLast(b, i).lastBlock = b.lastBlock
         /\ PushLast(b, i).current.id = b.current.id
         /\ PushLast(b, i).current.terminated = TRUE
         /\ PushLast(b, i).current.code = Append(b.current.code, i)
  <1>. PICK q : q = Push(b, i)
    OBVIOUS
  <1>. PICK p : p = PushLast(b, i)
    OBVIOUS
  <1>. PICK c : c = [q.current EXCEPT !.terminated = TRUE]
    OBVIOUS
  <1>1. /\ Building(q, starts) /\ Same(b, q)
        /\ Made(q) = Made(b) /\ q.lastBlock = b.lastBlock
        /\ q.current.id = b.current.id
        /\ q.current.code = Append(b.current.code, i)
    BY ZenonT(60), PushIs
  <1>2. IsBlock(q.current)
    BY <1>1 DEF Building
  <1>3. IsBlock(c) /\ c.id = q.current.id /\ c.code = q.current.code /\ c.terminated = TRUE
    BY <1>2 DEF IsBlock
  <1>4. p = [q EXCEPT !.current = c]
    BY <1>1 DEF PushLast, Building, IsBuilder
  <1>5. /\ IsBuilder(p) /\ p.current = c /\ p.blocks = q.blocks
        /\ p.asserted = q.asserted /\ p.lastBlock = q.lastBlock
        /\ p.yields = q.yields /\ p.defered = q.defered
        /\ p.breakTo = q.breakTo /\ p.continueTo = q.continueTo
    BY <1>1, <1>4 DEF Building, IsBuilder
  <1>6. Numbers(p) = Numbers(q) /\ Made(p) = Made(q)
    BY <1>5 DEF Numbers, Made
  <1>7. Building(p, starts)
    BY <1>1, <1>3, <1>5, <1>6 DEF Building
  <1>. QED
    BY <1>1, <1>3, <1>5, <1>6, <1>7 DEF Same

\* A function on 1 .. m is a sequence of length m.
LEMMA FunctionIs ==
  ASSUME NEW S, NEW m \in Nat, NEW f \in [1 .. m -> S]
  PROVE  f \in Seq(S) /\ Len(f) = m
  OBVIOUS

\* The block that is appended to is one whose last instruction is left out.
LEMMA AppendToIs ==
  ASSUME NEW b, NEW starts, NEW i, NEW id \in starts, Building(b, starts),
         IsTerminator(i), Targets(i) \subseteq Numbers(b)
  PROVE  /\ Building(AppendTo(b, id, i), starts \ {id}) /\ Same(b, AppendTo(b, id, i))
         /\ Made(AppendTo(b, id, i)) = Made(b)
         /\ AppendTo(b, id, i).lastBlock = b.lastBlock
         /\ AppendTo(b, id, i).current = b.current
  <1>. PICK p : p = AppendTo(b, id, i)
    OBVIOUS
  <1>. PICK bs : bs = [k \in DOMAIN b.blocks |->
            IF b.blocks[k].id = id THEN [b.blocks[k] EXCEPT !.code = Append(@, i)]
                                   ELSE b.blocks[k]]
    OBVIOUS
  <1>1. IsBuilder(b) /\ IsSequence(b.blocks)
    BY DEF Building
  <1>2. p = [b EXCEPT !.blocks = bs]
    BY DEF AppendTo
  <1>3. /\ IsBuilder(p) /\ p.current = b.current /\ p.blocks = bs
        /\ p.asserted = b.asserted /\ p.lastBlock = b.lastBlock
        /\ p.yields = b.yields /\ p.defered = b.defered
        /\ p.breakTo = b.breakTo /\ p.continueTo = b.continueTo
    BY <1>1, <1>2 DEF IsBuilder
  <1>4. DOMAIN bs = DOMAIN b.blocks
    OBVIOUS
  <1>5. ASSUME NEW k \in DOMAIN b.blocks
        PROVE  bs[k].id = b.blocks[k].id /\ Finished(bs[k], Numbers(b), starts \ {id})
    <2>1. Finished(b.blocks[k], Numbers(b), starts)
      BY DEF Building
    <2>2. CASE b.blocks[k].id = id
      <3>1. PICK c : c = b.blocks[k]
        OBVIOUS
      <3>2. PICK e : e = [c EXCEPT !.code = Append(c.code, i)]
        OBVIOUS
      <3>3. bs[k] = e
        BY <2>2, <3>1, <3>2
      <3>4. IsBlock(c) /\ c.id = id /\ LeadTo(c.code, Numbers(b)) /\ Open(c.code) /\ id \in Numbers(b)
        BY <2>1, <2>2, <3>1 DEF Finished
      <3>5. e.id = id /\ e.code = Append(c.code, i) /\ e.terminated = c.terminated
            /\ e = [id |-> e.id, code |-> e.code, terminated |-> e.terminated]
        BY <3>2, <3>4 DEF IsBlock
      <3>6. IsSequence(c.code) /\ c.terminated \in BOOLEAN
        BY <3>4 DEF IsBlock
      <3>7. IsSequence(e.code) /\ Closed(e.code) /\ LeadTo(e.code, Numbers(b))
        BY <3>4, <3>5, <3>6, AppendIs, CodeAppend
      <3>8. Finished(e, Numbers(b), starts \ {id})
        BY <3>4, <3>5, <3>6, <3>7 DEF Finished, IsBlock
      <3>. QED
        BY <2>2, <3>3, <3>5, <3>8
    <2>3. CASE b.blocks[k].id # id
      <3>1. bs[k] = b.blocks[k]
        BY <2>3
      <3>. QED
        BY <2>1, <2>3, <3>1 DEF Finished
    <2>. QED
      BY <2>2, <2>3
  <1>6. IsSequence(bs)
    <2>1. Len(b.blocks) \in Nat /\ DOMAIN b.blocks = 1 .. Len(b.blocks)
      BY <1>1, LengthOf
    <2>. DEFINE S == {bs[k] : k \in DOMAIN bs}
    <2>2. bs \in [1 .. Len(b.blocks) -> S]
      BY <2>1
    <2>. HIDE DEF S
    <2>3. bs \in Seq(S)
      BY <2>1, <2>2, FunctionIs
    <2>. QED
      BY <2>3, SequenceIs
  <1>7. Differ(bs)
    BY <1>4, <1>5 DEF Building, Differ
  <1>8. Numbers(p) = Numbers(b)
    BY <1>3 DEF Numbers
  <1>9. Made(p) = Made(b)
    BY <1>3, <1>4, <1>5 DEF Made
  <1>10. Building(p, starts \ {id})
    BY <1>3, <1>4, <1>5, <1>6, <1>7, <1>8 DEF Building
  <1>. QED
    BY <1>3, <1>9, <1>10 DEF Same

-----------------------------------------------------------------------------
(* The deferred bodies                                                     *)

\* The function of FlattenSeq.
Flattens(f, qs, m) == f = [i \in 1 .. m |-> IF i = 1 THEN qs[i] ELSE f[i - 1] \o qs[i]]
Flat(qs, S, m) == \E f : Flattens(f, qs, m) /\ \A i \in 1 .. m : f[i] \in Seq(S)

Chained(f, qs, i) == f[i] = IF i = 1 THEN qs[i] ELSE f[i - 1] \o qs[i]

\* The function of FlattenSeq is one that chains.
LEMMA FlattensIs ==
  ASSUME NEW f, NEW qs, NEW m, Flattens(f, qs, m)
  PROVE  \A i \in 1 .. m : Chained(f, qs, i)
  <1>1. PICK g : g = [i \in 1 .. m |-> IF i = 1 THEN qs[i] ELSE f[i - 1] \o qs[i]]
    OBVIOUS
  <1>2. f = g
    BY <1>1 DEF Flattens
  <1>3. \A i \in 1 .. m : g[i] = IF i = 1 THEN qs[i] ELSE f[i - 1] \o qs[i]
    BY <1>1
  <1>. QED
    BY <1>2, <1>3 DEF Chained

\* Chaining the sequences up to some point stays over the set.
LEMMA FlattenSome ==
  ASSUME NEW S, NEW qs \in Seq(Seq(S)), NEW m \in Nat, m + 1 <= Len(qs), Flat(qs, S, m)
  PROVE  Flat(qs, S, m + 1)
  <1>1. Len(qs) \in Nat /\ \A i \in 1 .. Len(qs) : qs[i] \in Seq(S)
    BY ElementOfSeq
  <1>2. PICK f : Flattens(f, qs, m) /\ \A i \in 1 .. m : f[i] \in Seq(S)
    BY DEF Flat
  <1>3. PICK g : g = [i \in 1 .. m + 1 |-> IF i = 1 THEN qs[i] ELSE f[i - 1] \o qs[i]]
    OBVIOUS
  <1>4. \A i \in 1 .. m : Chained(f, qs, i)
    <2>1. Flattens(f, qs, m)
      BY <1>2
    <2>. QED
      BY <2>1, FlattensIs
  <1>5. \A i \in 1 .. m + 1 : g[i] = IF i = 1 THEN qs[i] ELSE f[i - 1] \o qs[i]
    BY <1>3
  <1>6. \A i \in 1 .. m : i \in 1 .. m + 1
    OBVIOUS
  <1>7. \A i \in 1 .. m : g[i] = f[i]
    BY <1>4, <1>5, <1>6 DEF Chained
  <1>8. \A i \in 1 .. m + 1 : i # 1 => i - 1 \in 1 .. m
    OBVIOUS
  <1>9. \A i \in 1 .. m + 1 : (IF i = 1 THEN qs[i] ELSE f[i - 1] \o qs[i])
                             = (IF i = 1 THEN qs[i] ELSE g[i - 1] \o qs[i])
    BY <1>7, <1>8
  <1>10. Flattens(g, qs, m + 1)
    BY <1>3, <1>9 DEF Flattens
  <1>11. ASSUME NEW i \in 1 .. m + 1 PROVE g[i] \in Seq(S)
    <2>1. qs[i] \in Seq(S)
      BY <1>1
    <2>2. CASE i = 1
      BY <1>5, <2>1, <2>2
    <2>3. CASE i # 1
      <3>1. g[i] = f[i - 1] \o qs[i] /\ f[i - 1] \in Seq(S)
        BY <1>2, <1>5, <1>8, <2>3
      <3>2. f[i - 1] \o qs[i] \in Seq(S)
        BY <2>1, <3>1, ConcatProperties
      <3>. QED
        BY <3>1, <3>2
    <2>. QED
      BY <2>2, <2>3
  <1>. QED
    BY <1>10, <1>11 DEF Flat

\* FlattenSeq of sequences over a set is one over it.
LEMMA FlattenIs ==
  ASSUME NEW S, NEW qs \in Seq(Seq(S))
  PROVE  FlattenSeq(qs) \in Seq(S)
  <1>. PICK n \in Nat : n = Len(qs)
    OBVIOUS
  <1>1. Flat(qs, S, n)
    <2>. DEFINE Good == {m \in Nat : m <= n => Flat(qs, S, m)}
    <2>1. 0 \in Good
      <3>1. PICK g : g = << >>
        OBVIOUS
      <3>2. Flattens(g, qs, 0) /\ \A i \in 1 .. 0 : g[i] \in Seq(S)
        BY <3>1 DEF Flattens
      <3>. QED
        BY <3>2 DEF Flat
    <2>2. \A m \in Nat : m \in Good => m + 1 \in Good
      <3>1. \A m \in Nat : m + 1 <= n => m <= n
        OBVIOUS
      <3>. QED
        BY <3>1, FlattenSome
    <2>3. Good \in SUBSET Nat
      OBVIOUS
    <2>. HIDE DEF Good
    <2>4. n \in Good
      BY <2>1, <2>2, <2>3, Induction
    <2>. QED
      BY <2>4 DEF Good
  <1>2. PICK f : Flattens(f, qs, n) /\ \A i \in 1 .. n : f[i] \in Seq(S)
    BY <1>1 DEF Flat
  <1>3. CASE n = 0
    <2>1. FlattenSeq(qs) = qs /\ qs = << >>
      BY <1>3, EmptySeq DEF FlattenSeq
    <2>. QED
      BY <2>1, EmptySeq
  <1>4. CASE n # 0
    <2>1. PICK flatten : flatten = CHOOSE g : Flattens(g, qs, n)
      OBVIOUS
    <2>2. FlattenSeq(qs) = flatten[n]
      BY <1>4, <2>1 DEF FlattenSeq, Flattens
    <2>3. Flattens(flatten, qs, n)
      BY <1>2, <2>1
    <2>4. \A i \in 1 .. n : Chained(flatten, qs, i)
      BY <2>3, FlattensIs
    <2>5. \A i \in 1 .. n : Chained(f, qs, i)
      BY <1>2, FlattensIs
    <2>6. \A i \in 1 .. n : flatten[i] = f[i]
      <3>. DEFINE Eq == {m \in Nat : \A i \in 1 .. m : i <= n => flatten[i] = f[i]}
      <3>1. 0 \in Eq
        OBVIOUS
      <3>2. ASSUME NEW m \in Nat, m \in Eq PROVE m + 1 \in Eq
        <4>1. ASSUME NEW i \in 1 .. m + 1, i <= n PROVE flatten[i] = f[i]
          <5>1. i \in 1 .. n /\ (i # 1 => (i - 1 \in 1 .. m /\ i - 1 <= n))
            BY <4>1
          <5>2. i # 1 => flatten[i - 1] = f[i - 1]
            BY <3>2, <5>1
          <5>. QED
            BY <2>4, <2>5, <5>1, <5>2 DEF Chained
        <4>. QED
          BY <4>1
      <3>3. Eq \in SUBSET Nat
        OBVIOUS
      <3>. HIDE DEF Eq
      <3>4. n \in Eq
        BY <3>1, <3>2, <3>3, Induction
      <3>. QED
        BY <3>4 DEF Eq
    <2>7. n \in 1 .. n
      BY <1>4
    <2>. QED
      BY <1>2, <2>2, <2>6, <2>7
  <1>. QED
    BY <1>3, <1>4

\* So is a sequence that is turned round.
LEMMA ReverseIs ==
  ASSUME NEW S, NEW q \in Seq(S)
  PROVE  Reverse(q) \in Seq(S) /\ Len(Reverse(q)) = Len(q)
  <1>1. Len(q) \in Nat
    OBVIOUS
  <1>2. ASSUME NEW i \in 1 .. Len(q) PROVE q[(Len(q) - i) + 1] \in S
    <2>1. (Len(q) - i) + 1 \in 1 .. Len(q)
      BY <1>1
    <2>. QED
      BY <2>1, ElementOfSeq
  <1>3. Reverse(q) \in [1 .. Len(q) -> S]
    BY <1>2 DEF Reverse
  <1>. QED
    BY <1>1, <1>3

\* The deferred bodies of a scope are statements.
LEMMA DeferedOfIs ==
  ASSUME NEW S, NEW scope \in Seq(Seq(S))
  PROVE  DeferedOf(scope) \in Seq(S)
  BY FlattenIs, ReverseIs DEF DeferedOf

\* Those of all scopes, which a return runs, are.
LEMMA AllDeferedIs ==
  ASSUME NEW S, NEW b, b.defered \in Seq(Seq(Seq(S)))
  PROVE  AllDefered(b) \in Seq(S)
  <1>. DEFINE qs == [i \in DOMAIN b.defered |-> DeferedOf(Reverse(b.defered)[i])]
  <1>1. Reverse(b.defered) \in Seq(Seq(Seq(S))) /\ Len(Reverse(b.defered)) = Len(b.defered)
    BY ReverseIs
  <1>2. DOMAIN b.defered = 1 .. Len(b.defered) /\ Len(b.defered) \in Nat
    OBVIOUS
  <1>3. ASSUME NEW i \in 1 .. Len(b.defered) PROVE DeferedOf(Reverse(b.defered)[i]) \in Seq(S)
    <2>1. Reverse(b.defered)[i] \in Seq(Seq(S))
      BY <1>1, ElementOfSeq
    <2>. QED
      BY <2>1, DeferedOfIs
  <1>4. qs \in [1 .. Len(b.defered) -> Seq(S)]
    BY <1>2, <1>3
  <1>. HIDE DEF qs
  <1>5. qs \in Seq(Seq(S))
    BY <1>2, <1>4, FunctionIs
  <1>6. FlattenSeq(qs) \in Seq(S)
    BY <1>5, FlattenIs
  <1>. QED
    BY <1>6 DEF AllDefered, qs

\* Those of the innermost scope are, and it can be left.
LEMMA InnermostIs ==
  ASSUME NEW S, NEW b, b.defered \in Seq(Seq(Seq(S)))
  PROVE  DeferedOf(Innermost(b)) \in Seq(S)
  <1>1. CASE b.defered = << >>
    <2>1. Innermost(b) = << >>
      BY <1>1 DEF Innermost
    <2>. QED
      BY <2>1, EmptySeq, DeferedOfIs
  <1>2. CASE b.defered # << >>
    <2>1. Len(b.defered) \in 1 .. Len(b.defered)
      BY <1>2, EmptySeq
    <2>2. Last(b.defered) \in Seq(Seq(S))
      BY <2>1, ElementOfSeq DEF Last
    <2>. QED
      BY <1>2, <2>2, DeferedOfIs DEF Innermost
  <1>. QED
    BY <1>1, <1>2

-----------------------------------------------------------------------------
(* One step of the lowering: an item is taken and others are put before the *)
(* rest.                                                                   *)

Calm(td) == NoTest(td) /\ (td # << >> => Ordinary(td[1]))
IsFirst(x) == x.op = "case" /\ x.k = 1
IsBetween(x) == x.op = "values" \/ (x.op = "case" /\ x.k > 1)

Work(q, y, c, nums, made, prom, starts) ==
    /\ Todo(q, y, c, nums, made)
    /\ Promised(q, made) = prom /\ Starts(q) = starts

\* What is known when x is taken.
Ready(x, rest, b) ==
    /\ IsSequence(rest)
    /\ Todo(rest, Len(b.yields) - One(x, InSwitch), Len(b.defered) - One(x, {"close"}),
            Numbers(b), Made(b))
    /\ Len(b.yields) \in Nat /\ Len(b.yields) - One(x, InSwitch) \in Nat
    /\ Len(b.defered) \in Nat /\ Len(b.defered) - One(x, {"close"}) \in Nat
    /\ Joins(x, rest, Made(b)) /\ FitsFirst(x, rest, Len(b.yields), Numbers(b))
    /\ Promises(x, Made(b)) \cup Promised(rest, Made(b)) = Free(b)
    /\ b.current.id \in Made(b) <=> WhileEnd(x)
    /\ WhileEnd(x) => b.current.id = x.loop.test
    /\ x.op = "else" => b.current.id = x.end
    /\ IsFirst(x) => x.start = b.current.id
    /\ ~IsFirst(x) => StartOf(x) \subseteq Made(b)
    /\ Starts(rest) \subseteq Made(b)
    /\ x.op = "test" /\ IsWhile(x.loop) => x.loop.test \in Made(b) \cup {b.current.id}
    /\ TestsMade(rest, Made(b) \cup {b.current.id})
    /\ Building(b, StartOf(x) \cup Starts(rest))

\* Whether the current block has its terminator.
Placed(x, rest, b) ==
    /\ IsBetween(x) => Closed(b.current.code)
    /\ ~IsBetween(x) /\ b.current.terminated =>
        /\ Closed(b.current.code)
        /\ x.op \in {"close", "endBody", "caseEnd"}
        /\ x.op = "close" => Tolerates(rest, 1)
    /\ ~IsBetween(x) /\ ~b.current.terminated => Open(b.current.code)

Ending(x, rest, b) ==
    \/ EndsAway(rest)
    \/ x.op \in {"return", "leave"} /\ AllClose(rest)
    \/ b.current.terminated /\ x.op = "close" /\ AllClose(rest)
    \/ /\ rest = << >> /\ x.op = "block" /\ IsBody(x.body, FALSE)
       /\ x.body # << >> /\ x.body[Len(x.body)].op = "return"

\* The tests of while loops are made, in the item in front and behind it.
LEMMA TestsCons ==
  ASSUME NEW x, NEW td, NEW made, IsSequence(td)
  PROVE  TestsMade(Cons(x, td), made) <=>
            /\ x.op = "test" /\ IsWhile(x.loop) => x.loop.test \in made
            /\ TestsMade(td, made)
  <1>. PICK q : q = Cons(x, td)
    OBVIOUS
  <1>1. /\ Len(q) = Len(td) + 1 /\ q[1] = x
        /\ \A i \in 1 .. Len(td) : q[i + 1] = td[i]
        /\ \A i \in 2 .. Len(td) + 1 : q[i] = td[i - 1]
        /\ Len(td) \in Nat
    BY ConsIs
  <1>2. ASSUME TestsMade(q, made)
        PROVE  /\ x.op = "test" /\ IsWhile(x.loop) => x.loop.test \in made
               /\ TestsMade(td, made)
    <2>1. 1 \in 1 .. Len(q)
      BY <1>1
    <2>2. x.op = "test" /\ IsWhile(x.loop) => x.loop.test \in made
      BY <1>1, <1>2, <2>1 DEF TestsMade
    <2>3. ASSUME NEW i \in 1 .. Len(td), td[i].op = "test", IsWhile(td[i].loop)
          PROVE  td[i].loop.test \in made
      <3>1. i + 1 \in 1 .. Len(q) /\ q[i + 1] = td[i]
        BY <1>1
      <3>. QED
        BY <1>2, <2>3, <3>1 DEF TestsMade
    <2>. QED
      BY <2>2, <2>3 DEF TestsMade
  <1>3. ASSUME x.op = "test" /\ IsWhile(x.loop) => x.loop.test \in made, TestsMade(td, made)
        PROVE  TestsMade(q, made)
    <2>1. ASSUME NEW i \in 1 .. Len(q), q[i].op = "test", IsWhile(q[i].loop)
          PROVE  q[i].loop.test \in made
      <3>1. CASE i = 1
        BY <1>1, <1>3, <2>1, <3>1
      <3>2. CASE i # 1
        <4>1. i - 1 \in 1 .. Len(td) /\ i \in 2 .. Len(td) + 1
          BY <1>1, <3>2
        <4>2. q[i] = td[i - 1]
          BY <1>1, <4>1
        <4>. QED
          BY <1>3, <2>1, <4>1, <4>2 DEF TestsMade
      <3>. QED
        BY <3>1, <3>2
    <2>. QED
      BY <2>1 DEF TestsMade
  <1>. QED
    BY <1>2, <1>3

\* What the item in front says of whether a terminator is minded.
LEMMA ToleratesFirst ==
  ASSUME NEW x, NEW td, IsSequence(td)
  PROVE  /\ Tolerates(Cons(x, td), 1) =>
              x.op \in {"endBody", "caseEnd"} \/ (x.op = "close" /\ Tolerates(td, 1))
         /\ x.op \in {"endBody", "caseEnd"} => Tolerates(Cons(x, td), 1)
         /\ x.op = "close" /\ Tolerates(td, 1) => Tolerates(Cons(x, td), 1)
         /\ td = << >> \/ AllClose(td) => Tolerates(td, 1)
  <1>. PICK q : q = Cons(x, td)
    OBVIOUS
  <1>1. /\ Len(q) = Len(td) + 1 /\ q[1] = x /\ Len(td) \in Nat
    BY ConsIs
  <1>2. Tolerates(q, 1 + 1) <=> Tolerates(td, 1)
    <2>1. 1 \in 1 .. Len(td) + 1
      BY <1>1
    <2>. QED
      BY <2>1, ToleratesCons
  <1>3. ASSUME Tolerates(q, 1)
        PROVE  x.op \in {"endBody", "caseEnd"} \/ (x.op = "close" /\ Tolerates(td, 1))
    <2>1. PICK j \in 1 .. Len(q) + 1 :
            /\ j = Len(q) + 1 \/ q[j].op \in {"endBody", "caseEnd"}
            /\ \A k \in 1 .. j - 1 : q[k].op = "close"
      BY <1>3 DEF Tolerates
    <2>2. CASE j = 1
      BY <1>1, <2>1, <2>2
    <2>3. CASE j # 1
      <3>1. 1 \in 1 .. j - 1 /\ j \in 1 + 1 .. Len(q) + 1 /\ \A k \in 1 + 1 .. j - 1 : k \in 1 .. j - 1
        BY <2>1, <2>3
      <3>2. Tolerates(q, 1 + 1)
        BY <2>1, <3>1 DEF Tolerates
      <3>3. x.op = "close"
        BY <1>1, <2>1, <3>1
      <3>. QED
        BY <1>2, <3>2, <3>3
    <2>. QED
      BY <2>2, <2>3
  <1>4. ASSUME x.op \in {"endBody", "caseEnd"} PROVE Tolerates(q, 1)
    <2>1. 1 \in 1 .. Len(q) + 1 /\ \A k \in 1 .. 1 - 1 : q[k].op = "close"
      BY <1>1
    <2>. QED
      BY <1>1, <1>4, <2>1 DEF Tolerates
  <1>5. ASSUME x.op = "close", Tolerates(td, 1) PROVE Tolerates(q, 1)
    <2>1. PICK j \in 1 + 1 .. Len(q) + 1 :
            /\ j = Len(q) + 1 \/ q[j].op \in {"endBody", "caseEnd"}
            /\ \A k \in 1 + 1 .. j - 1 : q[k].op = "close"
      BY <1>2, <1>5 DEF Tolerates
    <2>2. j \in 1 .. Len(q) + 1 /\ \A k \in 1 .. j - 1 : k = 1 \/ k \in 1 + 1 .. j - 1
      BY <1>1, <2>1
    <2>3. \A k \in 1 .. j - 1 : q[k].op = "close"
      BY <1>1, <1>5, <2>1, <2>2
    <2>. QED
      BY <2>1, <2>2, <2>3 DEF Tolerates
  <1>6. td = << >> \/ AllClose(td) => Tolerates(td, 1)
    <2>1. Len(td) + 1 \in 1 .. Len(td) + 1 /\ (Len(td) + 1) - 1 = Len(td)
      BY <1>1
    <2>2. td = << >> => Len(td) = 0
      BY EmptyIsSequence
    <2>. QED
      BY <1>1, <2>1, <2>2 DEF Tolerates, AllClose
  <1>. QED
    BY <1>3, <1>4, <1>5, <1>6

\* Only ends of scopes, with one more in front.
LEMMA AllCloseCons ==
  ASSUME NEW x, NEW td, IsSequence(td)
  PROVE  AllClose(Cons(x, td)) <=> x.op = "close" /\ AllClose(td)
  <1>. PICK q : q = Cons(x, td)
    OBVIOUS
  <1>1. /\ Len(q) = Len(td) + 1 /\ q[1] = x
        /\ \A i \in 1 .. Len(td) : q[i + 1] = td[i]
        /\ \A i \in 2 .. Len(td) + 1 : q[i] = td[i - 1]
        /\ Len(td) \in Nat
    BY ConsIs
  <1>2. 1 \in 1 .. Len(q) /\ \A i \in 1 .. Len(td) : i + 1 \in 1 .. Len(q)
    BY <1>1
  <1>3. \A i \in 1 .. Len(q) : i = 1 \/ (i - 1 \in 1 .. Len(td) /\ q[i] = td[i - 1])
    BY <1>1
  <1>4. AllClose(q) => x.op = "close" /\ AllClose(td)
    BY <1>1, <1>2 DEF AllClose
  <1>5. x.op = "close" /\ AllClose(td) => AllClose(q)
    BY <1>1, <1>3 DEF AllClose
  <1>. QED
    BY <1>4, <1>5

\* The invariant, taken apart at the item that is lowered.
LEMMA Opened ==
  ASSUME NEW td, NEW b, LoweringInv(td, b), td # << >>,
         NEW x, NEW rest, x = Head(td), rest = Tail(td)
  PROVE  Ready(x, rest, b) /\ Placed(x, rest, b) /\ Ending(x, rest, b)
  <1>1. IsSequence(rest) /\ td = Cons(x, rest)
    BY HeadAndTail DEF LoweringInv, Todo
  <1>2. td[1] = x /\ Len(td) = Len(rest) + 1 /\ Len(rest) \in Nat
    BY <1>1, ConsIs
  <1>3. /\ Todo(rest, Len(b.yields) - One(x, InSwitch), Len(b.defered) - One(x, {"close"}),
                Numbers(b), Made(b))
        /\ Len(b.yields) \in Nat /\ Len(b.yields) - One(x, InSwitch) \in Nat
        /\ Len(b.defered) \in Nat /\ Len(b.defered) - One(x, {"close"}) \in Nat
        /\ Joins(x, rest, Made(b)) /\ FitsFirst(x, rest, Len(b.yields), Numbers(b))
    BY <1>1, TodoTail DEF LoweringInv
  <1>4. /\ Promised(td, Made(b)) = Promises(x, Made(b)) \cup Promised(rest, Made(b))
        /\ Starts(td) = StartOf(x) \cup Starts(rest)
    BY <1>1, UnionCons
  <1>5. /\ Promises(x, Made(b)) \cup Promised(rest, Made(b)) = Free(b)
        /\ Building(b, StartOf(x) \cup Starts(rest))
    BY <1>4 DEF LoweringInv
  <1>6. /\ b.current.id \in Made(b) <=> WhileEnd(x)
        /\ WhileEnd(x) => b.current.id = x.loop.test
        /\ x.op = "else" => b.current.id = x.end
        /\ IsFirst(x) => x.start = b.current.id
    BY <1>2 DEF LoweringInv, Arrives, ComesBack, First, IsFirst
  <1>7. Starts(rest) \subseteq Made(b) /\ (~IsFirst(x) => StartOf(x) \subseteq Made(b))
    BY <1>2, <1>4 DEF LoweringInv, Arrives, First, IsFirst
  <1>8. /\ x.op = "test" /\ IsWhile(x.loop) => x.loop.test \in Made(b) \cup {b.current.id}
        /\ TestsMade(rest, Made(b) \cup {b.current.id})
    BY <1>1, TestsCons DEF LoweringInv, Arrives
  <1>9. Placed(x, rest, b)
    <2>1. Between(td) <=> IsBetween(x)
      BY <1>2 DEF Between, IsBetween
    <2>2. Tolerates(td, 1) =>
              x.op \in {"endBody", "caseEnd"} \/ (x.op = "close" /\ Tolerates(rest, 1))
      BY <1>1, ToleratesFirst
    <2>. QED
      BY <2>1, <2>2 DEF LoweringInv, IsOpen, Placed
  <1>10. Ending(x, rest, b)
    <2>1. CASE b.current.terminated /\ AllClose(td)
      BY <1>1, <2>1, AllCloseCons DEF Ending
    <2>2. CASE EndsAway(td)
      <3>1. EndsAway(rest) \/ (x.op \in {"return", "leave"} /\ AllClose(rest))
        BY <1>1, <2>2, EndsAwayCons
      <3>. QED
        BY <3>1 DEF Ending
    <2>3. CASE /\ Len(td) = 1 /\ td[1].op = "block" /\ IsBody(td[1].body, FALSE)
               /\ td[1].body # << >> /\ td[1].body[Len(td[1].body)].op = "return"
      <3>1. rest = << >>
        BY <1>1, <1>2, <2>3, LengthOf
      <3>. QED
        BY <1>2, <2>3, <3>1 DEF Ending
    <2>. QED
      BY <2>1, <2>2, <2>3 DEF LoweringInv, Closing, AllClose
  <1>11. Ready(x, rest, b)
    BY <1>1, <1>3, <1>5, <1>6, <1>7, <1>8 DEF Ready
  <1>. QED
    BY <1>9, <1>10, <1>11

\* An item that promises new blocks can be put in front of work.
LEMMA ItemInFront ==
  ASSUME NEW x, NEW q, NEW y \in Nat, NEW c \in Nat, NEW nums, NEW made, NEW prom, NEW starts,
         Work(q, y, c, nums, made, prom, starts),
         EndsInTime(x, made, q = << >>), q # << >> => Follows(x, q[1], made),
         x.op \in Conditions \/ NoTest(q), FitsFirst(x, q, y + One(x, InSwitch), nums),
         Promises(x, made) \cap prom = {}, StartOf(x) \cap starts = {}
  PROVE  /\ Work(Cons(x, q), y + One(x, InSwitch), c + One(x, {"close"}), nums, made,
                 prom \cup Promises(x, made), starts \cup StartOf(x))
         /\ IsSequence(Cons(x, q)) /\ IsSequence(q) /\ Cons(x, q) # << >> /\ Cons(x, q)[1] = x
         /\ x.op # "test" /\ NoTest(q) => NoTest(Cons(x, q))
         /\ EndsAway(q) => EndsAway(Cons(x, q))
  <1>1. IsSequence(q)
    BY DEF Work, Todo
  <1>2. Joins(x, q, made)
    BY DEF Joins, Work
  <1>4. Todo(Cons(x, q), y + One(x, InSwitch), c + One(x, {"close"}), nums, made)
    BY <1>2, TodoCons DEF Work
  <1>5. /\ Promised(Cons(x, q), made) = prom \cup Promises(x, made)
        /\ Starts(Cons(x, q)) = starts \cup StartOf(x)
    <2>1. Promised(q, made) = prom /\ Starts(q) = starts
      BY DEF Work
    <2>2. /\ Promised(Cons(x, q), made) = Promises(x, made) \cup Promised(q, made)
          /\ Starts(Cons(x, q)) = StartOf(x) \cup Starts(q)
      BY <1>1, UnionCons
    <2>. QED
      BY <2>1, <2>2
  <1>6. IsSequence(Cons(x, q)) /\ Cons(x, q) # << >> /\ Cons(x, q)[1] = x
    BY <1>1, ConsIs
  <1>7. x.op # "test" /\ NoTest(q) => NoTest(Cons(x, q))
    BY <1>1, NoTestCons
  <1>8. EndsAway(q) => EndsAway(Cons(x, q))
    BY <1>1, EndsAwayCons
  <1>9. Work(Cons(x, q), y + One(x, InSwitch), c + One(x, {"close"}), nums, made,
             prom \cup Promises(x, made), starts \cup StartOf(x))
    BY <1>4, <1>5 DEF Work
  <1>. QED
    BY <1>1, <1>6, <1>7, <1>8, <1>9

\* Items that promise nothing and need nothing behind them.
Plain == {"leave", "expr", "asserted", "then"}

\* A plain item promises nothing and counts for nothing.
LEMMA PlainIs ==
  ASSUME NEW x, x.op \in Plain \cup {"close"}
  PROVE  /\ Ordinary(x) /\ StartOf(x) = {} /\ x.op # "test"
         /\ \A made : Promises(x, made) = {}
         /\ One(x, InSwitch) = 0
         /\ \A made, last : EndsInTime(x, made, last)
         /\ \A next, made : Ordinary(next) => Follows(x, next, made)
  <1>1. Ordinary(x) /\ StartOf(x) = {} /\ x.op # "test"
    BY DEF Plain, Ordinary, WhileEnd, StartOf, InSwitch
  <1>2. One(x, InSwitch) = 0
    BY DEF Plain, One, InSwitch
  <1>3. ASSUME NEW made PROVE Promises(x, made) = {}
    BY DEF Plain, Promises, InSwitch
  <1>4. ASSUME NEW made, NEW last PROVE EndsInTime(x, made, last)
    BY DEF Plain, EndsInTime, WhileEnd
  <1>5. ASSUME NEW next, NEW made, Ordinary(next) PROVE Follows(x, next, made)
    BY <1>5 DEF Plain, Follows, Ordinary
  <1>. QED
    BY <1>1, <1>2, <1>3, <1>4, <1>5

\* It can be put in front of calm work.
LEMMA PlainInFront ==
  ASSUME NEW x, x.op \in Plain \cup {"close"},
         NEW q, NEW y \in Nat, NEW c \in Nat, NEW nums, NEW made, NEW prom, NEW starts,
         Work(q, y, c, nums, made, prom, starts), Calm(q),
         NEW s \in BOOLEAN, s => y > 0,
         Stays(x, s, nums) \/ (Goes(x, s, nums) /\ Tolerates(q, 1))
  PROVE  /\ Work(Cons(x, q), y, c + One(x, {"close"}), nums, made, prom, starts)
         /\ Calm(Cons(x, q)) /\ IsSequence(Cons(x, q)) /\ IsSequence(q)
         /\ EndsAway(q) => EndsAway(Cons(x, q))
  <1>1. /\ Ordinary(x) /\ StartOf(x) = {} /\ x.op # "test"
        /\ Promises(x, made) = {} /\ One(x, InSwitch) = 0
        /\ EndsInTime(x, made, q = << >>)
        /\ q # << >> => Follows(x, q[1], made)
    BY PlainIs DEF Calm
  <1>2. y + One(x, InSwitch) = y
    BY <1>1
  <1>3. /\ Work(Cons(x, q), y + One(x, InSwitch), c + One(x, {"close"}), nums, made,
                prom \cup Promises(x, made), starts \cup StartOf(x))
        /\ IsSequence(Cons(x, q)) /\ IsSequence(q) /\ Cons(x, q) # << >> /\ Cons(x, q)[1] = x
        /\ x.op # "test" /\ NoTest(q) => NoTest(Cons(x, q))
        /\ EndsAway(q) => EndsAway(Cons(x, q))
    <2>1. FitsFirst(x, q, y + One(x, InSwitch), nums)
      BY <1>2 DEF FitsFirst
    <2>2. Promises(x, made) \cap prom = {} /\ StartOf(x) \cap starts = {}
      BY <1>1
    <2>3. x.op \in Conditions \/ NoTest(q)
      BY DEF Calm
    <2>. HIDE <1>2
    <2>. QED
      BY <1>1, <2>1, <2>2, <2>3, ItemInFront
  <1>4. Work(Cons(x, q), y, c + One(x, {"close"}), nums, made, prom, starts)
    <2>1. prom \cup Promises(x, made) = prom /\ starts \cup StartOf(x) = starts
      BY <1>1
    <2>. QED
      BY <1>2, <1>3, <2>1
  <1>5. Calm(Cons(x, q))
    BY ZenonT(60), <1>1, <1>3 DEF Calm
  <1>. QED
    BY <1>3, <1>4, <1>5

\* A body may precede what tolerates a jump at its end.
LEMMA BodyPrecedes ==
  ASSUME NEW body, NEW s \in BOOLEAN, NEW q, IsBody(body, s), Tolerates(q, 1)
  PROVE  IsSequence(body) /\ Precedes(body, s, q)
  <1>1. body \in Seq(Ongoing[s] \cup Leaving[s])
    BY DEF IsBody
  <1>2. IsSequence(body) /\ DOMAIN body = 1 .. Len(body)
    BY ZenonT(60), <1>1, SequenceIs, LengthOf
  <1>3. ASSUME NEW i \in 1 .. Len(body)
        PROVE  IsOngoing(body[i], s) \/ (IsLeaving(body[i], s) /\ i = Len(body))
    <2>1. body[i] \in Ongoing[s] \cup Leaving[s]
      BY <1>1, ElementOfSeq
    <2>. QED
      BY ZenonT(60), <1>2, <2>1, LoweringAssumption DEF IsBody
  <1>. QED
    BY ZenonT(60), <1>2, <1>3 DEF Precedes

\* Statements that do not leave may precede anything.
LEMMA OngoingPrecedes ==
  ASSUME NEW body, NEW s \in BOOLEAN, NEW q, body \in Seq(Ongoing[s])
  PROVE  IsSequence(body) /\ Precedes(body, s, q)
  <1>1. ASSUME NEW i \in 1 .. Len(body) PROVE IsOngoing(body[i], s)
    <2>1. body[i] \in Ongoing[s]
      BY ElementOfSeq
    <2>. QED
      BY <2>1, LoweringAssumption
  <1>. QED
    BY <1>1, SequenceIs DEF Precedes

\* A body can be put in front of work.
LEMMA BodyWork ==
  ASSUME NEW body, NEW q, NEW y \in Nat, NEW c \in Nat, NEW nums, NEW made, NEW prom, NEW starts,
         Work(q, y, c, nums, made, prom, starts), Calm(q),
         IsSequence(body), NEW s \in BOOLEAN, s => y > 0, Precedes(body, s, q)
  PROVE  /\ Work(body \o q, y, c, nums, made, prom, starts) /\ Calm(body \o q)
         /\ EndsAway(q) => EndsAway(body \o q)
  <1>1. Fronted(body \o q, q, y, c, nums, made)
    BY BodyInFront DEF Work, Calm
  <1>2. Work(body \o q, y, c, nums, made, prom, starts)
    BY <1>1 DEF Fronted, Work
  <1>3. Calm(body \o q)
    BY <1>1 DEF Fronted, Calm
  <1>. QED
    BY <1>1, <1>2, <1>3 DEF Fronted

\* An item that is not the end of a body may have any ordinary one behind it.
LEMMA FollowsOrdinary ==
  ASSUME NEW x, NEW next, NEW made, Ordinary(next), ~(x.op = "endBody" /\ x.to \in made)
  PROVE  Follows(x, next, made)
  BY DEF Follows, Ordinary

\* What comes behind the item that is lowered.
LEMMA RestIs ==
  ASSUME NEW x, NEW rest, NEW b, Ready(x, rest, b)
  PROVE  /\ x.op # "endBody" /\ rest # << >> => Ordinary(rest[1])
         /\ x.op \notin Conditions => NoTest(rest)
         /\ x.op # "endBody" /\ x.op \notin Conditions => Calm(rest)
  <1>1. x.op # "endBody" /\ rest # << >> => Ordinary(rest[1])
    BY DEF Ready, Joins, Follows, Ordinary, Ends
  <1>2. x.op \notin Conditions => NoTest(rest)
    BY DEF Ready, Joins
  <1>. QED
    BY <1>1, <1>2 DEF Calm

\* The rest of the work when the step gives numbers and makes blocks.
LEMMA Grown ==
  ASSUME NEW x, NEW rest, NEW b, Ready(x, rest, b), NEW p, NEW new,
         Numbers(b) \subseteq Numbers(p), Made(p) = Made(b) \cup new, new \cap Free(b) = {}
  PROVE  Work(rest, Len(b.yields) - One(x, InSwitch), Len(b.defered) - One(x, {"close"}),
              Numbers(p), Made(p), Promised(rest, Made(b)), Starts(rest))
  <1>1. Promised(rest, Made(b)) \cap new = {}
    BY DEF Ready
  <1>2. Todo(rest, Len(b.yields) - One(x, InSwitch), Len(b.defered) - One(x, {"close"}),
             Numbers(b), Made(b))
    BY DEF Ready
  <1>3. /\ Todo(rest, Len(b.yields) - One(x, InSwitch), Len(b.defered) - One(x, {"close"}),
                Numbers(p), Made(b) \cup new)
        /\ Promised(rest, Made(b) \cup new) = Promised(rest, Made(b))
    <2>. PICK y, c, nums, more, made :
            /\ y = Len(b.yields) - One(x, InSwitch) /\ c = Len(b.defered) - One(x, {"close"})
            /\ nums = Numbers(b) /\ more = Numbers(p) /\ made = Made(b)
      OBVIOUS
    <2>1. Todo(rest, y, c, nums, made) /\ Grows(rest, nums, more, made, new)
      BY <1>1, <1>2 DEF Grows
    <2>2. Todo(rest, y, c, more, made \cup new) /\ Promised(rest, made \cup new) = Promised(rest, made)
      BY SMTT(60), <2>1, TodoGrows
    <2>. QED
      BY <2>2
  <1>. QED
    BY <1>3 DEF Work

\* Most steps go on in an open block.
LEMMA Lowered ==
  ASSUME NEW q, NEW p, NEW starts,
         Work(q, Len(p.yields), Len(p.defered), Numbers(p), Made(p), Free(p), starts), Calm(q),
         starts \subseteq Made(p), Building(p, starts), p.current.id \notin Made(p),
         p.current.terminated = FALSE, Open(p.current.code), EndsAway(q)
  PROVE  LoweringInv(q, p)
  <1>1. ~ComesBack(q) /\ ~First(q) /\ ~Between(q) /\ ~(q # << >> /\ q[1].op = "else")
    BY DEF Calm, Ordinary, ComesBack, First, Between
  <1>2. TestsMade(q, Made(p) \cup {p.current.id})
    BY DEF Calm, NoTest, TestsMade
  <1>3. Arrives(q, p)
    BY <1>1, <1>2 DEF Arrives, Work
  <1>4. IsOpen(q, p.current)
    BY <1>1 DEF IsOpen
  <1>5. Closing(q, p)
    BY DEF Closing
  <1>6. Building(p, Starts(q)) /\ Promised(q, Made(p)) = Free(p)
    BY DEF Work
  <1>. QED
    BY <1>3, <1>4, <1>5, <1>6 DEF LoweringInv, Work

-----------------------------------------------------------------------------
(* What is known of the item that is lowered                               *)

\* s: inside a switch.
Kind(x, s, rest, nums) ==
    /\ x.op \in {"leave", "return", "break", "continue", "yield"} => Tolerates(rest, 1)
    /\ x.op = "leave" => IsTerminator(x.to) /\ Targets(x.to) \subseteq nums
    /\ x.op = "yield" => s
    /\ x.op = "block" => x.body \in Seq(Ongoing[s]) \/ (IsBody(x.body, s) /\ Tolerates(rest, 1))
    /\ x.op = "defer" => x.body \in Seq(Ongoing[FALSE])
    /\ x.op = "if" => IsBody(x.then, s) /\ IsBody(x.else, s)
    /\ x.op = "for" => /\ IsBody(x.body, s)
                       /\ x.init \in Seq(Ongoing[s]) /\ x.incr \in Seq(Ongoing[s])
    /\ x.op = "switch" =>
        /\ Len(x.cases) \in Nat \ {0}
        /\ \A k \in 1 .. Len(x.cases) :
             x.cases[k].values \in Nat \ {0} /\ IsBody(x.cases[k].body, TRUE)
    /\ x.op = "endBody" => x.to \in nums
    /\ x.op = "then" => IsBody(x.node.then, s) /\ IsBody(x.node.else, s)
    /\ x.op = "else" =>
        IsBody(x.node.else, s) /\ {x.block, x.end} \subseteq nums /\ x.block # x.end
    /\ x.op \in {"head", "test", "next", "again"} => IsLoop(x.loop, s, nums)
    /\ x.op = "head" => ~IsWhile(x.loop)
    /\ x.op \in {"next", "again"} =>
        /\ x = [op |-> x.op, loop |-> x.loop, breakTo |-> x.breakTo, continueTo |-> x.continueTo]
        /\ {x.breakTo, x.continueTo} \subseteq nums
    /\ x.op \in {"right", "merge"} =>
        /\ x = [op |-> x.op, cond |-> x.cond, reg |-> x.reg, true |-> x.true]
        /\ {x.true, x.true + 1, x.true + 2, x.true + 3} \subseteq nums
    /\ x.op \in InSwitch \cup {"strings"} => IsSwitch(x, nums)

\* The item that is lowered is of a kind that fits where it stands.
LEMMA KindIs ==
  ASSUME NEW x, NEW rest, NEW n, NEW nums, FitsFirst(x, rest, n, nums)
  PROVE  \E s \in BOOLEAN : (s => n > 0) /\ Kind(x, s, rest, nums)
  <1>1. PICK s \in BOOLEAN :
            /\ s => n > 0
            /\ Stays(x, s, nums) \/ (Goes(x, s, nums) /\ Tolerates(rest, 1))
    BY DEF FitsFirst
  <1>2. CASE Goes(x, s, nums) /\ Tolerates(rest, 1)
    <2>1. CASE IsLeaving(x, s)
      <3>1. x.op \in {"return", "break", "continue", "yield", "block"}
        BY <2>1 DEF IsLeaving
      <3>2. Kind(x, s, rest, nums)
        BY <1>2, <2>1, <3>1, Zenon DEF IsLeaving, Kind, InSwitch
      <3>. QED
        BY <1>1, <3>2
    <2>2. CASE ~IsLeaving(x, s)
      <3>1. Kind(x, s, rest, nums)
        BY <1>2, <2>2 DEF Goes, Kind, InSwitch
      <3>. QED
        BY <1>1, <3>1
    <2>. QED
      BY <2>1, <2>2
  <1>3. CASE Stays(x, s, nums)
    <2>1. CASE IsOngoing(x, s)
      <3>1. x.op \in {"call", "assert", "block", "defer", "if", "for", "switch"}
        BY <2>1 DEF IsOngoing
      <3>2. Kind(x, s, rest, nums)
        BY <2>1, <3>1 DEF IsOngoing, Kind, InSwitch
      <3>. QED
        BY <1>1, <3>2
    <2>2. CASE ~IsOngoing(x, s)
      <3>1. x.op \in {"close", "expr", "asserted", "endBody", "then", "else", "head", "test",
                      "next", "again", "right", "merge"} \cup InSwitch \cup {"strings"}
        BY <1>3, <2>2 DEF Stays, InSwitch
      <3>2. Kind(x, s, rest, nums)
        BY <1>3, <2>2, <3>1 DEF Stays, Kind, InSwitch
      <3>. QED
        BY <1>1, <3>2
    <2>. QED
      BY <2>1, <2>2
  <1>. QED
    BY <1>1, <1>2, <1>3

-----------------------------------------------------------------------------
(* Steps of the builder in a block that is open                            *)

Below(last) == 0 .. last - 1
Leads(i, last) == Targets(i) \subseteq Below(last)

\* Which instructions end a block, and where they lead.
LEMMA InstructionIs ==
  ASSUME NEW i
  PROVE  /\ i.op \notin {"jmp", "if", "switch", "ret", "unreachable"} =>
                ~IsTerminator(i) /\ Targets(i) = {}
         /\ i.op \in {"ret", "unreachable"} =>
                IsTerminator(i) /\ Targets(i) = {} /\ \A last : Leads(i, last)
  BY DEF IsTerminator, Targets, Leads

\* A jump ends the block.
LEMMA JmpIs ==
  ASSUME NEW to
  PROVE  /\ IsTerminator(Jmp(to)) /\ Targets(Jmp(to)) = {to}
         /\ \A last : to \in Below(last) => Leads(Jmp(to), last)
  BY DEF IsTerminator, Targets, Jmp, Leads

\* So does a branch.
LEMMA BranchIs ==
  ASSUME NEW reg, NEW m, NEW n
  PROVE  /\ IsTerminator(Branch(reg, m, n)) /\ Targets(Branch(reg, m, n)) = {m, n}
         /\ \A last : m \in Below(last) /\ n \in Below(last) => Leads(Branch(reg, m, n), last)
  BY DEF IsTerminator, Targets, Branch, Leads

\* A store does not.
LEMMA StoreIs ==
  ASSUME NEW reg, NEW value
  PROVE  ~IsTerminator(Store(reg, value)) /\ Targets(Store(reg, value)) = {}
  BY DEF IsTerminator, Targets, Store

\* p comes from b: the block id is the current one, last the next number.
OpenAt(p, b, starts, id, made, last) ==
    /\ Building(p, starts) /\ Same(b, p)
    /\ p.current.id = id /\ p.current.terminated = FALSE /\ Open(p.current.code)
    /\ Made(p) = made /\ p.lastBlock = last /\ id \notin made
EndedAt(p, b, starts, id, made, last) ==
    /\ Building(p, starts) /\ Same(b, p)
    /\ p.current.id = id /\ p.current.terminated = TRUE /\ Closed(p.current.code)
    /\ Made(p) = made /\ p.lastBlock = last /\ id \notin made
\* The last instruction is pushed.
ClosedAt(p, b, starts, id, made, last) ==
    /\ Building(p, starts) /\ Same(b, p)
    /\ p.current.id = id /\ p.current.terminated = FALSE /\ Closed(p.current.code)
    /\ Made(p) = made /\ p.lastBlock = last /\ id \notin made

\* The numbers of a builder, all below the next one.
LEMMA Within ==
  ASSUME NEW b, NEW starts, Building(b, starts)
  PROVE  /\ b.lastBlock \in Nat \ {0} /\ Made(b) \subseteq Below(b.lastBlock)
         /\ b.current.id \in Below(b.lastBlock) /\ Numbers(b) = Below(b.lastBlock)
         /\ Free(b) = Below(b.lastBlock) \ (Made(b) \cup {b.current.id})
         /\ b.breakTo \in Numbers(b) /\ b.continueTo \in Numbers(b)
         /\ b.yields \in Seq(Numbers(b)) /\ b.defered \in Seq(Seq(Seq(Ongoing[FALSE])))
         /\ b.current.terminated \in BOOLEAN /\ IsSequence(b.current.code) /\ IsBuilder(b)
  <1>1. Made(b) \subseteq Numbers(b)
    BY DEF Building, Made, Finished
  <1>2. /\ b.lastBlock \in Nat \ {0} /\ b.current.id \in Numbers(b)
        /\ b.breakTo \in Numbers(b) /\ b.continueTo \in Numbers(b)
        /\ b.yields \in Seq(Numbers(b)) /\ b.defered \in Seq(Seq(Seq(Ongoing[FALSE])))
        /\ b.current.terminated \in BOOLEAN /\ IsSequence(b.current.code) /\ IsBuilder(b)
    BY DEF Building, IsBlock
  <1>3. Numbers(b) = Below(b.lastBlock)
    BY DEF Numbers, Below
  <1>. QED
    BY <1>1, <1>2, <1>3 DEF Free

\* An instruction in the middle of a block.
LEMMA PushAt ==
  ASSUME NEW p, NEW b, NEW starts, NEW id, NEW made, NEW last,
         OpenAt(p, b, starts, id, made, last), NEW i, ~IsTerminator(i), Targets(i) = {}
  PROVE  OpenAt(Push(p, i), b, starts, id, made, last)
  <1>0. Building(p, starts) /\ p.current.terminated = FALSE
    BY DEF OpenAt
  <1>1. IsSequence(p.current.code) /\ Targets(i) \subseteq Numbers(p)
    BY Within DEF OpenAt, Leads
  <1>2. Open(Append(p.current.code, i))
    BY <1>1, CodeAppend DEF OpenAt
  <1>3. /\ Building(Push(p, i), starts) /\ Same(p, Push(p, i))
        /\ Made(Push(p, i)) = Made(p) /\ Push(p, i).lastBlock = p.lastBlock
        /\ Push(p, i).current.id = p.current.id
        /\ Push(p, i).current.terminated = FALSE
        /\ Push(p, i).current.code = Append(p.current.code, i)
    BY ZenonT(60), <1>0, <1>1, PushIs
  <1>. QED
    BY <1>2, <1>3 DEF OpenAt, Same

\* Numbers are given for blocks to come.
LEMMA AllocateAt ==
  ASSUME NEW p, NEW b, NEW starts, NEW id, NEW made, NEW last,
         OpenAt(p, b, starts, id, made, last), NEW n \in Nat
  PROVE  OpenAt(AllocateBlocks(p, n), b, starts, id, made, last + n)
  BY AllocateIs DEF OpenAt, Same

\* A register is given while a block is open.
LEMMA RegisterAt ==
  ASSUME NEW p, NEW b, NEW starts, NEW id, NEW made, NEW last,
         OpenAt(p, b, starts, id, made, last)
  PROVE  OpenAt(AllocateRegister(p), b, starts, id, made, last)
  BY RegisterIs DEF OpenAt, Same

\* The instruction at the end of a block.
LEMMA LastAt ==
  ASSUME NEW p, NEW b, NEW starts, NEW id, NEW made, NEW last,
         OpenAt(p, b, starts, id, made, last), NEW i, IsTerminator(i),
         Leads(i, last)
  PROVE  EndedAt(PushLast(p, i), b, starts, id, made, last)
  <1>0. Building(p, starts) /\ p.current.terminated = FALSE
    BY DEF OpenAt
  <1>1. IsSequence(p.current.code) /\ Targets(i) \subseteq Numbers(p)
    BY Within DEF OpenAt, Leads
  <1>2. Closed(Append(p.current.code, i))
    BY <1>1, CodeAppend DEF OpenAt
  <1>3. /\ Building(PushLast(p, i), starts) /\ Same(p, PushLast(p, i))
        /\ Made(PushLast(p, i)) = Made(p) /\ PushLast(p, i).lastBlock = p.lastBlock
        /\ PushLast(p, i).current.id = p.current.id
        /\ PushLast(p, i).current.terminated = TRUE
        /\ PushLast(p, i).current.code = Append(p.current.code, i)
    BY <1>0, <1>1, PushLastIs
  <1>. QED
    BY <1>2, <1>3 DEF OpenAt, EndedAt, Same

\* The block is made, and another one is the current one.
LEMMA MadeAt ==
  ASSUME NEW p, NEW b, NEW starts, NEW id, NEW made, NEW last,
         Building(p, starts), Same(b, p), p.current.id = id, Made(p) = made, p.lastBlock = last,
         id \notin made, id \in starts => Open(p.current.code), id \notin starts => Closed(p.current.code),
         NEW to \in Below(last), to \notin made, to # id
  PROVE  OpenAt(Terminate(p, to), b, starts, to, made \cup {id}, last)
  <1>1. to \in Numbers(p)
    BY Within
  <1>2. /\ Building(Terminate(p, to), starts) /\ Same(p, Terminate(p, to))
        /\ Made(Terminate(p, to)) = made \cup {id}
        /\ Terminate(p, to).lastBlock = last
        /\ Terminate(p, to).current = NewBlock(to)
    BY <1>1, TerminateIs
  <1>3. /\ NewBlock(to).id = to /\ NewBlock(to).terminated = FALSE /\ Open(NewBlock(to).code)
    BY NewBlockIs
  <1>. QED
    BY <1>2, <1>3 DEF OpenAt, Same

\* Pushing an instruction that ends the block closes its code.
LEMMA PushTerminator ==
  ASSUME NEW p, NEW b, NEW starts, NEW id, NEW made, NEW last,
         OpenAt(p, b, starts, id, made, last), NEW i, IsTerminator(i),
         Leads(i, last)
  PROVE  ClosedAt(Push(p, i), b, starts, id, made, last)
  <1>0. Building(p, starts) /\ p.current.terminated = FALSE
    BY DEF OpenAt
  <1>1. IsSequence(p.current.code) /\ Targets(i) \subseteq Numbers(p)
    BY Within DEF OpenAt, Leads
  <1>2. Closed(Append(p.current.code, i))
    BY <1>1, CodeAppend DEF OpenAt
  <1>3. /\ Building(Push(p, i), starts) /\ Same(p, Push(p, i))
        /\ Made(Push(p, i)) = Made(p) /\ Push(p, i).lastBlock = p.lastBlock
        /\ Push(p, i).current.id = p.current.id
        /\ Push(p, i).current.terminated = FALSE
        /\ Push(p, i).current.code = Append(p.current.code, i)
    BY ZenonT(60), <1>0, <1>1, PushIs
  <1>. QED
    BY <1>2, <1>3 DEF OpenAt, ClosedAt, Same

\* The block is ended by an instruction, and another one is opened.
LEMMA CloseAt ==
  ASSUME NEW p, NEW b, NEW starts, NEW id, NEW made, NEW last,
         OpenAt(p, b, starts, id, made, last), id \notin starts,
         NEW i, IsTerminator(i), Leads(i, last),
         NEW to \in Below(last), to \notin made, to # id
  PROVE  OpenAt(Terminate(Push(p, i), to), b, starts, to, made \cup {id}, last)
  <1>1. ClosedAt(Push(p, i), b, starts, id, made, last)
    BY PushTerminator
  <1>. PICK q : q = Push(p, i)
    OBVIOUS
  <1>2. /\ Building(q, starts) /\ Same(b, q) /\ q.current.id = id
        /\ Made(q) = made /\ q.lastBlock = last /\ Closed(q.current.code) /\ id \notin made
    BY <1>1 DEF ClosedAt
  <1>. QED
    BY <1>2, MadeAt

-----------------------------------------------------------------------------
(* How a step begins and ends                                              *)

Given(x, rest, b) == Ready(x, rest, b) /\ Placed(x, rest, b) /\ Ending(x, rest, b)

\* A block that is open.
Enters(x) == ~IsBetween(x) /\ ~WhileEnd(x) /\ x.op \notin {"close", "endBody", "caseEnd"}

\* The step begins in an open block.
LEMMA Begins ==
  ASSUME NEW x, NEW rest, NEW b, Given(x, rest, b), Enters(x)
  PROVE  OpenAt(b, b, StartOf(x) \cup Starts(rest), b.current.id, Made(b), b.lastBlock)
  <1>1. Building(b, StartOf(x) \cup Starts(rest)) /\ b.current.id \notin Made(b)
    BY DEF Given, Ready, Enters
  <1>2. b.current.terminated \in BOOLEAN
    BY <1>1, Within
  <1>3. b.current.terminated = FALSE /\ Open(b.current.code)
    BY <1>2 DEF Given, Placed, Enters
  <1>. QED
    BY <1>1, <1>3 DEF OpenAt, Same

\* Work behind an item that does not leave still ends away.
LEMMA Leads0 ==
  ASSUME NEW x, NEW rest, NEW b, Given(x, rest, b),
         x.op \notin {"return", "leave", "close", "block"}
  PROVE  EndsAway(rest)
  BY DEF Given, Ending

\* More numbers are given, and blocks made, than the items behind x promise.
Later(x, b, made, last) ==
    /\ last \in Nat /\ b.lastBlock <= last /\ Made(b) \subseteq made
    /\ made \cap (Free(b) \ Promises(x, Made(b))) = {}

\* The rest of the work after the step's numbers and blocks.
LEMMA RestWork ==
  ASSUME NEW x, NEW rest, NEW b, Ready(x, rest, b), NEW made, NEW last, Later(x, b, made, last)
  PROVE  Work(rest, Len(b.yields) - One(x, InSwitch), Len(b.defered) - One(x, {"close"}),
              Below(last), made, Free(b) \ Promises(x, Made(b)), Starts(rest))
  <1>. PICK y, c, nums, more, was, new :
            /\ y = Len(b.yields) - One(x, InSwitch) /\ c = Len(b.defered) - One(x, {"close"})
            /\ nums = Numbers(b) /\ more = Below(last) /\ was = Made(b) /\ new = made \ Made(b)
    OBVIOUS
  <1>1. Promised(rest, was) = Free(b) \ Promises(x, was)
    BY DEF Ready, Joins
  <1>2. Todo(rest, y, c, nums, was)
    BY DEF Ready
  <1>3. nums \subseteq more
    <2>1. Building(b, StartOf(x) \cup Starts(rest))
      BY DEF Ready
    <2>2. b.lastBlock \in Nat \ {0} /\ Numbers(b) = Below(b.lastBlock)
      BY <2>1, Within
    <2>. QED
      BY <2>2 DEF Later, Below
  <1>4. Grows(rest, nums, more, was, new)
    BY <1>1, <1>3 DEF Grows, Later
  <1>5. Todo(rest, y, c, more, was \cup new) /\ Promised(rest, was \cup new) = Promised(rest, was)
    BY SMTT(60), <1>2, <1>4, TodoGrows
  <1>6. was \cup new = made
    BY DEF Later
  <1>7. Todo(rest, y, c, more, made) /\ Promised(rest, made) = Free(b) \ Promises(x, was)
    BY <1>1, <1>5, <1>6
  <1>. QED
    BY <1>7 DEF Work

\* The same, when no switch and no scope ends.
LEMMA RestGoesOn ==
  ASSUME NEW x, NEW rest, NEW b, Given(x, rest, b), NEW made, NEW last, Later(x, b, made, last),
         x.op \notin InSwitch, x.op # "close"
  PROVE  Work(rest, Len(b.yields), Len(b.defered),
              Below(last), made, Free(b) \ Promises(x, Made(b)), Starts(rest))
  <1>1. Len(b.yields) \in Nat /\ Len(b.defered) \in Nat
    BY DEF Given, Ready
  <1>2. One(x, InSwitch) = 0 /\ One(x, {"close"}) = 0
    BY DEF One
  <1>3. Len(b.yields) - One(x, InSwitch) = Len(b.yields)
        /\ Len(b.defered) - One(x, {"close"}) = Len(b.defered)
    BY <1>1, <1>2
  <1>4. Work(rest, Len(b.yields) - One(x, InSwitch), Len(b.defered) - One(x, {"close"}),
              Below(last), made, Free(b) \ Promises(x, Made(b)), Starts(rest))
    BY RestWork DEF Given
  <1>. QED
    BY <1>3, <1>4

Unmade(last, made, id) == Below(last) \ (made \cup {id})

\* A step that ends in an open block keeps the invariant.
LEMMA Done ==
  ASSUME NEW p, NEW b, NEW starts, NEW id, NEW made, NEW last,
         OpenAt(p, b, starts, id, made, last), starts \subseteq made, NEW q,
         Work(q, Len(b.yields), Len(b.defered), Below(last), made,
              Unmade(last, made, id), starts),
         Calm(q), EndsAway(q)
  PROVE  LoweringInv(q, p)
  <1>1. Made(p) = made /\ p.current.id = id /\ p.lastBlock = last /\ Building(p, starts)
        /\ p.yields = b.yields /\ p.defered = b.defered
        /\ p.current.terminated = FALSE /\ Open(p.current.code) /\ id \notin made
    BY DEF OpenAt, Same
  <1>2. Numbers(p) = Below(last) /\ Free(p) = Unmade(last, made, id)
    BY <1>1, Within DEF Unmade
  <1>3. Work(q, Len(p.yields), Len(p.defered), Numbers(p), Made(p), Free(p), starts)
    BY <1>1, <1>2
  <1>. QED
    BY <1>1, <1>3, Lowered

\* The step ends in a block that has its terminator.
LEMMA DoneLast ==
  ASSUME NEW p, NEW b, NEW starts, NEW id, NEW made, NEW last,
         EndedAt(p, b, starts, id, made, last), starts \subseteq made, NEW q,
         Work(q, Len(b.yields), Len(b.defered), Below(last), made,
              Unmade(last, made, id), starts),
         Calm(q), Tolerates(q, 1), EndsAway(q) \/ AllClose(q)
  PROVE  LoweringInv(q, p)
  <1>1. Made(p) = made /\ p.current.id = id /\ p.lastBlock = last /\ Building(p, starts)
        /\ p.yields = b.yields /\ p.defered = b.defered
        /\ p.current.terminated = TRUE /\ Closed(p.current.code) /\ id \notin made
    BY DEF EndedAt, Same
  <1>2. Numbers(p) = Below(last) /\ Free(p) = Unmade(last, made, id)
    BY <1>1, Within DEF Unmade
  <1>3. Work(q, Len(p.yields), Len(p.defered), Numbers(p), Made(p), Free(p), starts)
    BY <1>1, <1>2
  <1>4. ~ComesBack(q) /\ ~First(q) /\ ~Between(q) /\ ~(q # << >> /\ q[1].op = "else")
    BY DEF Calm, Ordinary, ComesBack, First, Between
  <1>5. TestsMade(q, Made(p) \cup {p.current.id})
    BY DEF Calm, NoTest, TestsMade
  <1>6. Arrives(q, p)
    BY <1>1, <1>3, <1>4, <1>5 DEF Arrives, Work
  <1>7. IsOpen(q, p.current)
    BY <1>1, <1>4 DEF IsOpen
  <1>8. Closing(q, p)
    BY <1>1 DEF Closing, AllClose
  <1>9. Building(p, Starts(q)) /\ Promised(q, Made(p)) = Free(p)
    BY <1>1, <1>3 DEF Work
  <1>. QED
    BY <1>3, <1>6, <1>7, <1>8, <1>9 DEF LoweringInv, Work

\* x can be put in front of q.
Links(x, q, y, nums, made, prom) ==
    /\ x.op \notin InSwitch /\ x.op # "close"
    /\ EndsInTime(x, made, q = << >>)
    /\ q # << >> => Follows(x, q[1], made)
    /\ x.op \in Conditions \/ NoTest(q)
    /\ \E s \in BOOLEAN : (s => y > 0) /\ Stays(x, s, nums)
    /\ Promises(x, made) \cap prom = {}

\* An item linked to the work behind it can be put in front.
LEMMA LinkInFront ==
  ASSUME NEW x, NEW q, NEW y \in Nat, NEW c \in Nat, NEW nums, NEW made, NEW prom, NEW starts,
         Work(q, y, c, nums, made, prom, starts), Links(x, q, y, nums, made, prom)
  PROVE  /\ Work(Cons(x, q), y, c, nums, made, prom \cup Promises(x, made), starts)
         /\ IsSequence(Cons(x, q)) /\ IsSequence(q) /\ Cons(x, q) # << >> /\ Cons(x, q)[1] = x
         /\ x.op # "test" /\ NoTest(q) => NoTest(Cons(x, q))
         /\ EndsAway(q) => EndsAway(Cons(x, q))
  <1>1. One(x, InSwitch) = 0 /\ One(x, {"close"}) = 0 /\ StartOf(x) = {}
    BY DEF One, StartOf, Links
  <1>2. y + One(x, InSwitch) = y /\ c + One(x, {"close"}) = c
    BY <1>1
  <1>3. FitsFirst(x, q, y + One(x, InSwitch), nums)
    BY <1>2 DEF FitsFirst, Links
  <1>4. StartOf(x) \cap starts = {} /\ starts \cup StartOf(x) = starts
    BY <1>1
  <1>5. /\ EndsInTime(x, made, q = << >>) /\ (q # << >> => Follows(x, q[1], made))
        /\ x.op \in Conditions \/ NoTest(q)
        /\ Promises(x, made) \cap prom = {}
    BY DEF Links
  <1>. HIDE <1>1, <1>2
  <1>6. /\ Work(Cons(x, q), y + One(x, InSwitch), c + One(x, {"close"}), nums, made,
                prom \cup Promises(x, made), starts \cup StartOf(x))
        /\ IsSequence(Cons(x, q)) /\ IsSequence(q) /\ Cons(x, q) # << >> /\ Cons(x, q)[1] = x
        /\ x.op # "test" /\ NoTest(q) => NoTest(Cons(x, q))
        /\ EndsAway(q) => EndsAway(Cons(x, q))
    BY <1>3, <1>4, <1>5, ItemInFront
  <1>. QED
    BY <1>2, <1>4, <1>6

\* The numbers that are given next.
Next4(last, n1, n2, n3, n4) ==
    /\ n1 = last + 1 /\ n2 = last + 2 /\ n3 = last + 3 /\ n4 = last + 4
    /\ n1 \in Nat /\ n2 \in Nat /\ n3 \in Nat /\ n4 \in Nat
    /\ last <= n1 /\ last <= n2 /\ last <= n3 /\ last <= n4
    /\ last \notin Below(last) /\ n1 \notin Below(last) /\ n2 \notin Below(last) /\ n3 \notin Below(last)
    /\ last # n1 /\ last # n2 /\ last # n3 /\ n1 # n2 /\ n1 # n3 /\ n2 # n3
    /\ Below(n1) = Below(last) \cup {last}
    /\ Below(n2) = Below(last) \cup {last, n1}
    /\ Below(n3) = Below(last) \cup {last, n1, n2}
    /\ Below(n4) = Below(last) \cup {last, n1, n2, n3}

\* The next four numbers are new.
LEMMA NextAre ==
  ASSUME NEW last \in Nat \ {0}
  PROVE  \E n1, n2, n3, n4 : Next4(last, n1, n2, n3, n4)
  <1>1. Next4(last, last + 1, last + 2, last + 3, last + 4)
    BY DEF Next4, Below
  <1>. QED
    BY <1>1

\* What a step has: id is the current block, own the blocks that x promises,
\* others those that the items behind it promise.
Stands(x, rest, b, id, made, last, y, c, starts, own, others) ==
    /\ OpenAt(b, b, starts, id, made, last) /\ starts \subseteq made /\ id \notin starts
    /\ starts = Starts(rest)
    /\ Made(b) = made /\ b.lastBlock = last /\ b.current.id = id
    /\ y = Len(b.yields) /\ c = Len(b.defered) /\ y \in Nat /\ c \in Nat
    /\ last \in Nat \ {0} /\ id \in Below(last) /\ made \subseteq Below(last) /\ id \notin made
    /\ own = Promises(x, made) /\ own \subseteq Unmade(last, made, id)
    /\ others = Unmade(last, made, id) \ own
    /\ IsSequence(rest) /\ (rest # << >> => Ordinary(rest[1]))
    /\ x.op \notin Conditions => Calm(rest)
    /\ x.op \notin {"return", "leave", "block"} => EndsAway(rest)

\* Every step has what Stands names.
LEMMA Stand ==
  ASSUME NEW x, NEW rest, NEW b, Given(x, rest, b), Enters(x), x.op \notin InSwitch
  PROVE  \E id, made, last, y, c, starts, own, others :
            Stands(x, rest, b, id, made, last, y, c, starts, own, others)
  <1>. PICK id, made, last, y, c, starts, own, others :
            /\ id = b.current.id /\ made = Made(b) /\ last = b.lastBlock
            /\ y = Len(b.yields) /\ c = Len(b.defered) /\ starts = Starts(rest)
            /\ own = Promises(x, made) /\ others = Free(b) \ own
    OBVIOUS
  <1>1. StartOf(x) = {} /\ StartOf(x) \cup Starts(rest) = starts
    BY DEF StartOf
  <1>2. OpenAt(b, b, starts, id, made, last)
    BY <1>1, Begins
  <1>3. starts \subseteq made /\ y \in Nat /\ c \in Nat /\ IsSequence(rest)
    BY DEF Given, Ready
  <1>4. Building(b, starts) /\ id \notin made
    BY <1>2 DEF OpenAt
  <1>5. /\ last \in Nat \ {0} /\ id \in Below(last) /\ made \subseteq Below(last)
        /\ Free(b) = Unmade(last, made, id)
    BY <1>4, Within DEF Unmade
  <1>6. own \subseteq Free(b)
    BY DEF Given, Ready
  <1>7. (rest # << >> => Ordinary(rest[1])) /\ (x.op \notin Conditions => Calm(rest))
    BY RestIs DEF Given, Enters
  <1>8. x.op \notin {"return", "leave", "block"} => EndsAway(rest)
    BY Leads0 DEF Enters
  <1>9. Stands(x, rest, b, id, made, last, y, c, starts, own, others)
    BY <1>2, <1>3, <1>4, <1>5, <1>6, <1>7, <1>8 DEF Stands
  <1>. QED
    BY <1>9

\* The kind of the item, with the numbers that are given.
LEMMA KindAt ==
  ASSUME NEW x, NEW rest, NEW b, Given(x, rest, b)
  PROVE  \E s \in BOOLEAN :
            (s => Len(b.yields) > 0) /\ Kind(x, s, rest, Below(b.lastBlock))
  <1>1. Numbers(b) = Below(b.lastBlock)
    BY DEF Numbers, Below
  <1>2. FitsFirst(x, rest, Len(b.yields), Numbers(b))
    BY DEF Given, Ready
  <1>3. \E s \in BOOLEAN : (s => Len(b.yields) > 0) /\ Kind(x, s, rest, Numbers(b))
    BY <1>2, KindIs
  <1>. QED
    BY <1>1, <1>3

\* What is given and made until the items behind come.
Beyond(made, last, others, more, end) ==
    /\ end \in Nat /\ last <= end /\ made \subseteq more /\ more \cap others = {}

\* The rest of the work once the step's blocks are given and made.
LEMMA RestOf ==
  ASSUME NEW x, NEW rest, NEW b, Given(x, rest, b), x.op \notin InSwitch, x.op # "close",
         NEW id, NEW made, NEW last, NEW y, NEW c, NEW starts, NEW own, NEW others,
         Stands(x, rest, b, id, made, last, y, c, starts, own, others),
         NEW more, NEW end, Beyond(made, last, others, more, end)
  PROVE  Work(rest, y, c, Below(end), more, others, starts)
  <1>1. /\ Made(b) = made /\ b.lastBlock = last /\ y = Len(b.yields) /\ c = Len(b.defered)
        /\ Building(b, starts)
    BY DEF Stands, OpenAt
  <1>2. Free(b) = Unmade(last, made, id)
    BY <1>1, Within DEF Stands, Unmade
  <1>3. Free(b) \ Promises(x, Made(b)) = others
    BY <1>1, <1>2 DEF Stands
  <1>4. Later(x, b, more, end)
    BY <1>1, <1>3 DEF Later, Beyond
  <1>5. Work(rest, Len(b.yields), Len(b.defered),
              Below(end), more, Free(b) \ Promises(x, Made(b)), Starts(rest))
    BY <1>4, RestGoesOn
  <1>6. Starts(rest) = starts
    BY DEF Stands
  <1>. QED
    BY <1>1, <1>3, <1>5, <1>6
=============================================================================
