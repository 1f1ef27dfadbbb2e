--------------------------- MODULE LoweringProofs ---------------------------
(***************************************************************************)
(* The basic blocks of every function body that the checker accepts are    *)
(* well formed, whatever statements it has inside each other. One lemma    *)
(* for every item that BuildIRFunctionLevel meets says that lowering it    *)
(* keeps LoweringInv; the two theorems at the end combine them.            *)
(***************************************************************************)
EXTENDS LoweringItems

-----------------------------------------------------------------------------
(* The steps: statements                                                   *)

\* Statements and plain items begin in an open block and promise nothing.
LEMMA QuietIs ==
  ASSUME NEW x, x.op \in Statements \cup Plain
  PROVE  /\ Enters(x) /\ x.op \notin InSwitch /\ x.op # "close"
         /\ \A made : Promises(x, made) = {}
  BY DEF Statements, Plain, Enters, IsBetween, WhileEnd, InSwitch, Promises

\* No block is made and no number given.
LEMMA Kept ==
  ASSUME NEW x, NEW rest, NEW b, Given(x, rest, b), x.op \in Statements \cup Plain,
         NEW id, NEW made, NEW last, NEW y, NEW c, NEW starts, NEW own, NEW others,
         Stands(x, rest, b, id, made, last, y, c, starts, own, others)
  PROVE  Work(rest, y, c, Below(last), made, Unmade(last, made, id), starts)
  <1>1. x.op \notin InSwitch /\ x.op # "close" /\ Promises(x, made) = {}
    BY QuietIs
  <1>2. Beyond(made, last, others, made, last) /\ others = Unmade(last, made, id)
    BY <1>1 DEF Stands, Beyond, Unmade
  <1>3. Work(rest, y, c, Below(last), made, others, starts)
    BY <1>1, <1>2, RestOf
  <1>. QED
    BY <1>2, <1>3

\* LowerCall keeps the invariant: one instruction.
LEMMA CallStep ==
  ASSUME NEW x, NEW rest, NEW b, Given(x, rest, b), x.op = "call",
         NEW i, ~IsTerminator(i), Targets(i) = {}
  PROVE  LoweringInv(rest, Push(b, i))
  <1>1. x.op \in Statements \cup Plain /\ Enters(x) /\ x.op \notin InSwitch
    BY QuietIs DEF Statements
  <1>. PICK id, made, last, y, c, starts, own, others :
            Stands(x, rest, b, id, made, last, y, c, starts, own, others)
    BY <1>1, Stand
  <1>2. /\ OpenAt(b, b, starts, id, made, last) /\ starts \subseteq made
        /\ y = Len(b.yields) /\ c = Len(b.defered) /\ Calm(rest) /\ EndsAway(rest)
    BY DEF Stands, Conditions
  <1>3. OpenAt(Push(b, i), b, starts, id, made, last)
    BY <1>2, PushAt
  <1>4. Work(rest, y, c, Below(last), made, Unmade(last, made, id), starts)
    BY <1>1, Kept
  <1>. QED
    BY <1>2, <1>3, <1>4, Done

\* Leave does: a jump or a return ends the block.
LEMMA LeaveStep ==
  ASSUME NEW x, NEW rest, NEW b, Given(x, rest, b), x.op = "leave"
  PROVE  LoweringInv(rest, PushLast(b, x.to))
  <1>1. x.op \in Statements \cup Plain /\ Enters(x) /\ x.op \notin InSwitch
    BY QuietIs DEF Plain
  <1>. PICK id, made, last, y, c, starts, own, others :
            Stands(x, rest, b, id, made, last, y, c, starts, own, others)
    BY <1>1, Stand
  <1>2. /\ OpenAt(b, b, starts, id, made, last) /\ starts \subseteq made
        /\ y = Len(b.yields) /\ c = Len(b.defered) /\ Calm(rest) /\ last = b.lastBlock
    BY DEF Stands, Conditions
  <1>3. PICK s \in BOOLEAN : Kind(x, s, rest, Below(last))
    BY <1>2, KindAt
  <1>4. IsTerminator(x.to) /\ Leads(x.to, last) /\ Tolerates(rest, 1)
    BY <1>3 DEF Kind, Leads
  <1>5. EndedAt(PushLast(b, x.to), b, starts, id, made, last)
    BY <1>2, <1>4, LastAt
  <1>6. Work(rest, y, c, Below(last), made, Unmade(last, made, id), starts)
    BY <1>1, Kept
  <1>7. EndsAway(rest) \/ AllClose(rest)
    BY DEF Given, Ending
  <1>. QED
    BY <1>2, <1>4, <1>5, <1>6, <1>7, DoneLast

\* LowerYield does: a jump to the end of the innermost switch.
LEMMA YieldStep ==
  ASSUME NEW x, NEW rest, NEW b, Given(x, rest, b), x.op = "yield"
  PROVE  LoweringInv(rest, PushLast(b, Jmp(Last(b.yields))))
  <1>1. x.op \in Statements \cup Plain /\ Enters(x) /\ x.op \notin InSwitch
    BY QuietIs DEF Statements
  <1>. PICK id, made, last, y, c, starts, own, others :
            Stands(x, rest, b, id, made, last, y, c, starts, own, others)
    BY <1>1, Stand
  <1>2. /\ OpenAt(b, b, starts, id, made, last) /\ starts \subseteq made
        /\ y = Len(b.yields) /\ c = Len(b.defered) /\ Calm(rest) /\ last = b.lastBlock
        /\ EndsAway(rest)
    BY DEF Stands, Conditions
  <1>3. Tolerates(rest, 1) /\ Len(b.yields) > 0
    <2>1. PICK s \in BOOLEAN :
             (s => Len(b.yields) > 0) /\ Kind(x, s, rest, Below(last))
      BY <1>2, KindAt
    <2>. QED
      BY <2>1 DEF Kind
  <1>4. IsTerminator(Jmp(Last(b.yields))) /\ Leads(Jmp(Last(b.yields)), last)
    <2>1. b.yields \in Seq(Numbers(b)) /\ Numbers(b) = Below(last)
      BY <1>2, Within DEF OpenAt
    <2>2. Len(b.yields) \in 1 .. Len(b.yields)
      BY <1>3, <2>1
    <2>3. Last(b.yields) \in Below(last)
      BY <2>1, <2>2, ElementOfSeq DEF Last
    <2>. QED
      BY <2>3, JmpIs
  <1>5. EndedAt(PushLast(b, Jmp(Last(b.yields))), b, starts, id, made, last)
    BY <1>2, <1>4, LastAt
  <1>6. Work(rest, y, c, Below(last), made, Unmade(last, made, id), starts)
    BY <1>1, Kept
  <1>. QED
    BY <1>2, <1>3, <1>5, <1>6, DoneLast

\* A body and one item in front of the work.
LEMMA BodyThen ==
  ASSUME NEW body, NEW td, IsSequence(body), IsSequence(td), NEW x
  PROVE  (body \o <<x>>) \o td = body \o Cons(x, td)
  <1>1. \A z : (body \o <<z>>) \o td = body \o Cons(z, td)
    BY BodyWorkIs
  <1>. QED
    BY <1>1

\* Deferred bodies run before the function or the body is left.
LEMMA DeferedRun ==
  ASSUME NEW x, NEW rest, NEW b, Given(x, rest, b), x.op \in {"return", "break", "continue"},
         NEW id, NEW made, NEW last, NEW y, NEW c, NEW starts, NEW own, NEW others,
         Stands(x, rest, b, id, made, last, y, c, starts, own, others),
         NEW p, OpenAt(p, b, starts, id, made, last),
         NEW body \in Seq(Ongoing[FALSE]), NEW to, IsTerminator(to), Leads(to, last)
  PROVE  LoweringInv((body \o <<[op |-> "leave", to |-> to]>>) \o rest, p)
  <1>. PICK e : e = [op |-> "leave", to |-> to]
    OBVIOUS
  <1>1. x.op \in Statements \cup Plain /\ e.op \in Plain \cup {"close"}
    BY DEF Statements, Plain
  <1>2. Work(rest, y, c, Below(last), made, Unmade(last, made, id), starts)
    BY <1>1, Kept
  <1>3. /\ Calm(rest) /\ starts \subseteq made /\ y \in Nat /\ c \in Nat /\ IsSequence(rest)
        /\ y = Len(b.yields) /\ c = Len(b.defered) /\ last = b.lastBlock
    BY DEF Stands, Conditions
  <1>4. Tolerates(rest, 1)
    <2>1. PICK s \in BOOLEAN : Kind(x, s, rest, Below(last))
      BY <1>3, KindAt
    <2>. QED
      BY <2>1 DEF Kind
  <1>5. Goes(e, FALSE, Below(last))
    BY DEF Goes, Leads
  <1>6. /\ Work(Cons(e, rest), y, c + One(e, {"close"}), Below(last), made,
                Unmade(last, made, id), starts)
        /\ Calm(Cons(e, rest))
    BY <1>1, <1>2, <1>3, <1>4, <1>5, PlainInFront
  <1>7. Work(Cons(e, rest), y, c, Below(last), made, Unmade(last, made, id), starts)
    <2>1. One(e, {"close"}) = 0
      BY DEF One
    <2>2. c + One(e, {"close"}) = c
      BY <1>3, <2>1
    <2>. QED
      BY <1>6, <2>2
  <1>8. EndsAway(Cons(e, rest))
    <2>1. EndsAway(rest) \/ AllClose(rest)
      BY DEF Given, Ending
    <2>2. e.op = "leave"
      OBVIOUS
    <2>. QED
      BY <1>3, <2>1, <2>2, EndsAwayCons
  <1>9. IsSequence(body) /\ Precedes(body, FALSE, Cons(e, rest))
    BY OngoingPrecedes
  <1>10. /\ Work(body \o Cons(e, rest), y, c, Below(last), made,
                 Unmade(last, made, id), starts)
         /\ Calm(body \o Cons(e, rest)) /\ EndsAway(body \o Cons(e, rest))
    BY <1>3, <1>6, <1>7, <1>8, <1>9, BodyWork
  <1>11. (body \o <<e>>) \o rest = body \o Cons(e, rest)
    BY <1>3, <1>9, BodyThen
  <1>. QED
    BY <1>3, <1>10, <1>11, Done

\* LowerReturn keeps the invariant: the deferred bodies run, then the function is left.
LEMMA ReturnStep ==
  ASSUME NEW x, NEW rest, NEW b, Given(x, rest, b), x.op = "return"
  PROVE  LoweringInv((AllDefered(b) \o <<[op |-> "leave", to |-> [op |-> "ret"]]>>) \o rest,
                     IF x.value THEN Push(b, [op |-> "call", name |-> "value"]) ELSE b)
  <1>1. Enters(x) /\ x.op \notin InSwitch
    BY QuietIs DEF Statements
  <1>. PICK id, made, last, y, c, starts, own, others :
            Stands(x, rest, b, id, made, last, y, c, starts, own, others)
    BY <1>1, Stand
  <1>. PICK p : p = IF x.value THEN Push(b, [op |-> "call", name |-> "value"]) ELSE b
    OBVIOUS
  <1>2. OpenAt(b, b, starts, id, made, last)
    BY DEF Stands
  <1>3. OpenAt(p, b, starts, id, made, last)
    <2>. PICK i : i = [op |-> "call", name |-> "value"]
      OBVIOUS
    <2>1. ~IsTerminator(i) /\ Targets(i) = {}
      BY InstructionIs
    <2>2. OpenAt(Push(b, i), b, starts, id, made, last)
      BY <1>2, <2>1, PushAt
    <2>. QED
      BY <1>2, <2>2
  <1>4. AllDefered(b) \in Seq(Ongoing[FALSE])
    BY <1>2, Within, AllDeferedIs DEF OpenAt
  <1>. PICK to : to = [op |-> "ret"]
    OBVIOUS
  <1>5. IsTerminator(to) /\ Leads(to, last)
    BY InstructionIs
  <1>. QED
    BY <1>3, <1>4, <1>5, DeferedRun

\* LowerBreak and LowerContinue do: the innermost scope's deferred bodies run first.
LEMMA BreakStep ==
  ASSUME NEW x, NEW rest, NEW b, Given(x, rest, b), x.op \in {"break", "continue"},
         NEW to \in {b.breakTo, b.continueTo}
  PROVE  LoweringInv((DeferedOf(Innermost(b)) \o <<[op |-> "leave", to |-> Jmp(to)]>>) \o rest, b)
  <1>1. Enters(x) /\ x.op \notin InSwitch
    BY QuietIs DEF Statements
  <1>. PICK id, made, last, y, c, starts, own, others :
            Stands(x, rest, b, id, made, last, y, c, starts, own, others)
    BY <1>1, Stand
  <1>2. OpenAt(b, b, starts, id, made, last) /\ last = b.lastBlock
    BY DEF Stands
  <1>3. DeferedOf(Innermost(b)) \in Seq(Ongoing[FALSE]) /\ to \in Below(last)
    BY <1>2, Within, InnermostIs DEF OpenAt
  <1>4. IsTerminator(Jmp(to)) /\ Leads(Jmp(to), last)
    BY <1>3, JmpIs
  <1>. QED
    BY <1>2, <1>3, <1>4, DeferedRun

\* Appending an element of the set.
LEMMA AppendIn ==
  ASSUME NEW S, NEW q \in Seq(S), NEW e \in S
  PROVE  Append(q, e) \in Seq(S) /\ Len(Append(q, e)) = Len(q) + 1
  BY AppendProperties

\* All but the last element, and the last one.
LEMMA FrontIs ==
  ASSUME NEW S, NEW q \in Seq(S), Len(q) # 0
  PROVE  /\ Front(q) \in Seq(S) /\ Len(Front(q)) = Len(q) - 1
         /\ Last(q) \in S
  <1>1. Len(q) \in Nat \ {0} /\ Len(q) - 1 \in Int /\ 1 \in Int
    BY LenProperties
  <1>2. \A i \in 1 .. Len(q) - 1 : q[i] \in S
    BY <1>1, ElementOfSeq
  <1>3. SubSeq(q, 1, Len(q) - 1) \in Seq(S)
    BY <1>1, <1>2, SubSeqProperties
  <1>4. Len(SubSeq(q, 1, Len(q) - 1)) = IF 1 <= Len(q) - 1 THEN (Len(q) - 1) - 1 + 1 ELSE 0
    BY <1>1, <1>2, SubSeqProperties
  <1>5. Len(SubSeq(q, 1, Len(q) - 1)) = Len(q) - 1
    <2>. PICK n, m : n = Len(q) /\ m = Len(SubSeq(q, 1, Len(q) - 1))
      OBVIOUS
    <2>1. n \in Nat \ {0} /\ m = IF 1 <= n - 1 THEN (n - 1) - 1 + 1 ELSE 0
      BY <1>1, <1>4
    <2>2. m = n - 1
      BY <2>1
    <2>. QED
      BY <2>2
  <1>6. q[Len(q)] \in S
    BY <1>1, ElementOfSeq
  <1>. QED
    BY <1>3, <1>5, <1>6 DEF Front, Last

\* A body that ends in a return leaves the function.
LEMMA ReturnsAtEnd ==
  ASSUME NEW body, NEW td, IsSequence(body), IsSequence(td), body # << >>,
         body[Len(body)].op = "return", AllClose(td)
  PROVE  EndsAway(body \o td)
  <1>. PICK q : q = body \o td
    OBVIOUS
  <1>1. /\ Len(q) = Len(body) + Len(td)
        /\ \A i \in 1 .. Len(body) : q[i] = body[i]
        /\ \A i \in Len(body) + 1 .. Len(body) + Len(td) : q[i] = td[i - Len(body)]
    BY JoinIs
  <1>2. Len(body) \in Nat \ {0} /\ Len(td) \in Nat
    BY LengthOf
  <1>3. Len(body) \in 1 .. Len(q) /\ q[Len(body)].op = "return"
    BY <1>1, <1>2
  <1>4. ASSUME NEW k \in Len(body) + 1 .. Len(q) PROVE q[k].op = "close"
    <2>1. k - Len(body) \in 1 .. Len(td) /\ q[k] = td[k - Len(body)]
      BY <1>1, <1>2
    <2>. QED
      BY <2>1 DEF AllClose
  <1>. QED
    BY <1>3, <1>4 DEF EndsAway

\* The deferred bodies may change while a block is open.
LEMMA ScopeOpens ==
  ASSUME NEW b, NEW id, NEW made, NEW last, NEW starts, OpenAt(b, b, starts, id, made, last),
         NEW ds \in Seq(Seq(Seq(Ongoing[FALSE]))), NEW p, p = [b EXCEPT !.defered = ds]
  PROVE  OpenAt(p, p, starts, id, made, last)
  <1>1. /\ Building(p, starts) /\ p.yields = b.yields /\ p.defered = ds
        /\ Made(p) = Made(b) /\ p.lastBlock = b.lastBlock /\ p.current = b.current
    BY DeferedIs DEF OpenAt
  <1>. QED
    BY <1>1 DEF OpenAt, Same

\* OpenScope keeps the invariant: a block's body and the end of its scope.
LEMMA BlockStep ==
  ASSUME NEW x, NEW rest, NEW b, Given(x, rest, b), x.op = "block",
         NEW i, ~IsTerminator(i), Targets(i) = {}
  PROVE  LoweringInv((x.body \o <<CloseScope>>) \o rest,
                     [Push(b, i) EXCEPT !.defered = Append(@, << >>)])
  <1>1. x.op \in Statements \cup Plain /\ Enters(x) /\ x.op \notin InSwitch
    BY QuietIs DEF Statements
  <1>. PICK id, made, last, y, c, starts, own, others :
            Stands(x, rest, b, id, made, last, y, c, starts, own, others)
    BY <1>1, Stand
  <1>2. /\ OpenAt(b, b, starts, id, made, last) /\ starts \subseteq made
        /\ y = Len(b.yields) /\ c = Len(b.defered) /\ Calm(rest) /\ last = b.lastBlock
        /\ y \in Nat /\ c \in Nat /\ IsSequence(rest)
    BY DEF Stands, Conditions
  <1>. PICK p1 : p1 = Push(b, i)
    OBVIOUS
  <1>. PICK ds : ds = Append(b.defered, << >>)
    OBVIOUS
  <1>. PICK p : p = [p1 EXCEPT !.defered = Append(@, << >>)]
    OBVIOUS
  <1>3. OpenAt(p1, b, starts, id, made, last)
    BY <1>2, PushAt
  <1>4. OpenAt(p1, p1, starts, id, made, last) /\ p1.yields = b.yields /\ p1.defered = b.defered
    BY <1>3 DEF OpenAt, Same
  <1>5. ds \in Seq(Seq(Seq(Ongoing[FALSE]))) /\ Len(ds) = c + 1
    <2>. PICK S, t, d : S = Seq(Seq(Ongoing[FALSE])) /\ t = << >> /\ d = b.defered
      OBVIOUS
    <2>1. d \in Seq(S)
      BY <1>2, Within DEF OpenAt
    <2>2. t \in S
      BY EmptySeq
    <2>3. Append(d, t) \in Seq(S) /\ Len(Append(d, t)) = Len(d) + 1
      BY <2>1, <2>2, AppendIn
    <2>. QED
      BY <1>2, <2>3
  <1>6. p = [p1 EXCEPT !.defered = ds]
    BY <1>4
  <1>7. /\ OpenAt(p, p, starts, id, made, last)
        /\ p.yields = p1.yields /\ p.defered = ds
    <2>1. OpenAt(p, p, starts, id, made, last)
      BY <1>4, <1>5, <1>6, ScopeOpens
    <2>2. p.yields = p1.yields /\ p.defered = ds
      BY <1>4, <1>6, Within DEF OpenAt, IsBuilder
    <2>. QED
      BY <2>1, <2>2
  <1>8. Work(rest, y, c, Below(last), made, Unmade(last, made, id), starts)
    BY <1>1, Kept
  <1>. PICK e : e = CloseScope
    OBVIOUS
  <1>9. e.op = "close" /\ One(e, {"close"}) = 1
    BY DEF CloseScope, One
  <1>10. PICK s \in BOOLEAN : (s => y > 0) /\ Kind(x, s, rest, Below(last))
    BY <1>2, KindAt
  <1>. PICK q : q = Cons(e, rest)
    OBVIOUS
  <1>11. Work(q, y, c + 1, Below(last), made, Unmade(last, made, id), starts) /\ Calm(q)
         /\ IsSequence(q)
    <2>1. Stays(e, s, Below(last))
      BY <1>9 DEF Stays
    <2>2. /\ Work(q, y, c + One(e, {"close"}), Below(last), made,
                  Unmade(last, made, id), starts)
          /\ Calm(q) /\ IsSequence(q)
      BY <1>2, <1>8, <1>9, <1>10, <2>1, PlainInFront
    <2>. QED
      BY <1>9, <2>2
  <1>12. IsSequence(x.body) /\ Precedes(x.body, s, q)
    <2>1. CASE x.body \in Seq(Ongoing[s])
      BY <2>1, OngoingPrecedes
    <2>2. CASE IsBody(x.body, s) /\ Tolerates(rest, 1)
      <3>1. Tolerates(q, 1)
        BY <1>2, <1>9, <2>2, ToleratesFirst
      <3>. QED
        BY <2>2, <3>1, BodyPrecedes
    <2>. QED
      BY <1>10, <2>1, <2>2 DEF Kind
  <1>13. /\ Work(x.body \o q, y, c + 1, Below(last), made,
                 Unmade(last, made, id), starts)
         /\ Calm(x.body \o q) /\ (EndsAway(q) => EndsAway(x.body \o q))
    <2>1. c + 1 \in Nat
      BY <1>2
    <2>. QED
      BY <1>2, <1>10, <1>11, <1>12, <2>1, BodyWork
  <1>14. EndsAway(x.body \o q)
    <2>1. CASE EndsAway(rest)
      BY <1>2, <1>13, <2>1, EndsAwayCons
    <2>2. CASE rest = << >> /\ x.body # << >> /\ x.body[Len(x.body)].op = "return"
      <3>1. AllClose(rest)
        BY <2>2, EmptyIsSequence DEF AllClose
      <3>2. AllClose(q)
        BY <1>2, <1>9, <3>1, AllCloseCons
      <3>. QED
        BY <1>11, <1>12, <2>2, <3>2, ReturnsAtEnd
    <2>. QED
      BY <2>1, <2>2 DEF Given, Ending
  <1>15. (x.body \o <<e>>) \o rest = x.body \o q
    BY ZenonT(60), <1>2, <1>12, BodyThen
  <1>16. LoweringInv(x.body \o q, p)
    <2>1. Len(p.yields) = y /\ Len(p.defered) = c + 1
      BY <1>2, <1>4, <1>5, <1>7
    <2>2. Work(x.body \o q, Len(p.yields), Len(p.defered), Below(last), made,
               Unmade(last, made, id), starts)
      BY <1>13, <2>1
    <2>. QED
      BY <1>2, <1>7, <1>13, <1>14, <2>2, Done
  <1>. QED
    BY <1>15, <1>16

\* ScopeEnds does: the scope's deferred bodies run if the block is not left.
LEMMA CloseStep ==
  ASSUME NEW x, NEW rest, NEW b, Given(x, rest, b), x.op = "close"
  PROVE  LoweringInv((IF b.current.terminated THEN << >> ELSE DeferedOf(Last(b.defered))) \o rest,
                     [b EXCEPT !.defered = Front(@)])
  <1>0. PICK id, made, last, y, c, starts, ds, p :
            /\ id = b.current.id /\ made = Made(b) /\ last = b.lastBlock /\ y = Len(b.yields)
            /\ c = Len(b.defered) - 1 /\ starts = Starts(rest) /\ ds = Front(b.defered)
            /\ p = [b EXCEPT !.defered = Front(@)]
    OBVIOUS
  <1>1. /\ One(x, {"close"}) = 1 /\ One(x, InSwitch) = 0 /\ StartOf(x) = {}
        /\ Promises(x, made) = {} /\ x.op # "endBody" /\ x.op \notin Conditions
        /\ ~WhileEnd(x) /\ ~IsBetween(x)
    BY <1>0 DEF One, InSwitch, StartOf, Promises, Conditions, WhileEnd, IsBetween
  <1>2. /\ Building(b, starts) /\ id \notin made /\ starts \subseteq made /\ IsSequence(rest)
        /\ Len(b.yields) \in Nat /\ Len(b.defered) \in Nat /\ Len(b.defered) - One(x, {"close"}) \in Nat
    <2>1. StartOf(x) \cup Starts(rest) = starts
      BY <1>0, <1>1
    <2>. QED
      BY <1>0, <1>1, <2>1 DEF Given, Ready
  <1>3. y \in Nat /\ c \in Nat /\ Len(b.defered) # 0
    BY <1>0, <1>1, <1>2
  <1>4. /\ last \in Nat \ {0} /\ Free(b) = Unmade(last, made, id)
        /\ b.defered \in Seq(Seq(Seq(Ongoing[FALSE])))
        /\ b.current.terminated \in BOOLEAN /\ IsBuilder(b)
    BY <1>0, <1>2, Within DEF Unmade
  <1>5. /\ ds \in Seq(Seq(Seq(Ongoing[FALSE]))) /\ Len(ds) = c
        /\ Last(b.defered) \in Seq(Seq(Ongoing[FALSE]))
    BY <1>0, <1>3, <1>4, FrontIs
  <1>6. p = [b EXCEPT !.defered = ds]
    BY <1>0
  <1>7. /\ Building(p, starts) /\ p.yields = b.yields /\ p.defered = ds
        /\ Made(p) = made /\ p.lastBlock = last /\ p.current = b.current
    <2>1. /\ Building(p, starts) /\ p.yields = b.yields
          /\ Made(p) = Made(b) /\ p.lastBlock = b.lastBlock /\ p.current = b.current
      BY <1>2, <1>5, <1>6, DeferedIs
    <2>2. p.defered = ds
      BY <1>4, <1>6 DEF IsBuilder
    <2>. QED
      BY <1>0, <2>1, <2>2
  <1>8. Work(rest, y, c, Below(last), made, Unmade(last, made, id), starts) /\ Calm(rest)
    <2>1. Later(x, b, made, last)
      BY <1>0, <1>1, <1>4 DEF Later, Unmade
    <2>2. Work(rest, Len(b.yields) - One(x, InSwitch), Len(b.defered) - One(x, {"close"}),
              Below(last), made, Free(b) \ Promises(x, Made(b)), Starts(rest))
      BY <2>1, RestWork DEF Given
    <2>3. /\ Len(b.yields) - One(x, InSwitch) = y /\ Len(b.defered) - One(x, {"close"}) = c
          /\ Free(b) \ Promises(x, Made(b)) = Unmade(last, made, id)
      BY <1>0, <1>1, <1>2, <1>4
    <2>4. Calm(rest)
      BY <1>1, RestIs DEF Given
    <2>. QED
      BY <1>0, <2>2, <2>3, <2>4
  <1>9. Len(p.yields) = y /\ Len(p.defered) = c
    BY <1>0, <1>5, <1>7
  <1>10. CASE b.current.terminated
    <2>1. EndedAt(p, p, starts, id, made, last)
      BY <1>0, <1>1, <1>2, <1>4, <1>7, <1>10 DEF EndedAt, Same, Given, Placed
    <2>2. Tolerates(rest, 1) /\ (EndsAway(rest) \/ AllClose(rest))
      BY <1>1, <1>10 DEF Given, Placed, Ending
    <2>3. Work(rest, Len(p.yields), Len(p.defered), Below(last), made,
               Unmade(last, made, id), starts)
      BY <1>8, <1>9
    <2>4. LoweringInv(rest, p)
      BY <1>2, <1>8, <2>1, <2>2, <2>3, DoneLast
    <2>. QED
      BY <1>0, <1>2, <1>10, <2>4, WorkIs
  <1>11. CASE ~b.current.terminated
    <2>. PICK body : body = DeferedOf(Last(b.defered))
      OBVIOUS
    <2>1. OpenAt(p, p, starts, id, made, last)
      BY <1>0, <1>1, <1>2, <1>4, <1>7, <1>11 DEF OpenAt, Same, Given, Placed
    <2>2. EndsAway(rest)
      BY <1>11 DEF Given, Ending
    <2>3. body \in Seq(Ongoing[FALSE])
      BY <1>5, DeferedOfIs
    <2>4. IsSequence(body) /\ Precedes(body, FALSE, rest)
      BY <2>3, OngoingPrecedes
    <2>5. /\ Work(body \o rest, y, c, Below(last), made,
                 Unmade(last, made, id), starts)
          /\ Calm(body \o rest) /\ EndsAway(body \o rest)
      BY <1>3, <1>8, <2>2, <2>4, BodyWork
    <2>6. Work(body \o rest, Len(p.yields), Len(p.defered), Below(last), made,
               Unmade(last, made, id), starts)
      BY <1>9, <2>5
    <2>7. LoweringInv(body \o rest, p)
      BY <1>2, <2>1, <2>5, <2>6, Done
    <2>. QED
      BY <1>0, <1>11, <2>7
  <1>. QED
    BY <1>10, <1>11

\* LowerDefer does: the body waits in the innermost scope.
LEMMA DeferStep ==
  ASSUME NEW x, NEW rest, NEW b, Given(x, rest, b), x.op = "defer"
  PROVE  LoweringInv(rest, [b EXCEPT !.defered[Len(b.defered)] = Append(@, x.body)])
  <1>1. x.op \in Statements \cup Plain /\ Enters(x) /\ x.op \notin InSwitch
    BY QuietIs DEF Statements
  <1>. PICK id, made, last, y, c, starts, own, others :
            Stands(x, rest, b, id, made, last, y, c, starts, own, others)
    BY <1>1, Stand
  <1>2. /\ OpenAt(b, b, starts, id, made, last) /\ starts \subseteq made
        /\ y = Len(b.yields) /\ c = Len(b.defered) /\ Calm(rest) /\ last = b.lastBlock
        /\ y \in Nat /\ c \in Nat /\ EndsAway(rest)
    BY DEF Stands, Conditions
  <1>3. PICK S : S = Seq(Seq(Ongoing[FALSE]))
    OBVIOUS
  <1>. PICK d, p : d = b.defered /\ p = [b EXCEPT !.defered[Len(b.defered)] = Append(@, x.body)]
    OBVIOUS
  <1>a. PICK ds : ds = [d EXCEPT ![c] = Append(@, x.body)]
    OBVIOUS
  <1>4. d \in Seq(S) /\ IsBuilder(b)
    BY <1>2, <1>3, Within DEF OpenAt
  <1>5. x.body \in Seq(Ongoing[FALSE])
    <2>1. PICK s \in BOOLEAN : Kind(x, s, rest, Below(last))
      BY <1>2, KindAt
    <2>. QED
      BY <2>1 DEF Kind
  <1>6. ds \in Seq(S) /\ Len(ds) = c
    <2>1. d \in [1 .. c -> S]
      BY <1>2, <1>4, LenProperties
    <2>2. ASSUME c \in 1 .. c PROVE Append(d[c], x.body) \in S
      <3>1. d[c] \in S
        BY <2>1, <2>2
      <3>2. d[c] \in Seq(Seq(Ongoing[FALSE]))
        BY <1>3, <3>1
      <3>. HIDE <1>3
      <3>3. Append(d[c], x.body) \in Seq(Seq(Ongoing[FALSE]))
        BY <1>5, <3>2, AppendIn
      <3>. QED
        BY <1>3, <3>3
    <2>3. ds \in [1 .. c -> S]
      BY <1>a, <2>1, <2>2
    <2>4. c \in Nat
      BY <1>2
    <2>. HIDE <1>2
    <2>. QED
      BY <2>3, <2>4, FunctionIs
  <1>7. p = [b EXCEPT !.defered = ds]
    BY <1>2, <1>a
  <1>8. OpenAt(p, p, starts, id, made, last) /\ p.yields = b.yields /\ p.defered = ds
    <2>1. OpenAt(p, p, starts, id, made, last)
      BY <1>2, <1>3, <1>6, <1>7, ScopeOpens
    <2>2. p.yields = b.yields /\ p.defered = ds
      BY <1>4, <1>7 DEF IsBuilder
    <2>. QED
      BY <2>1, <2>2
  <1>9. Work(rest, y, c, Below(last), made, Unmade(last, made, id), starts)
    BY <1>1, Kept
  <1>10. Work(rest, Len(p.yields), Len(p.defered), Below(last), made,
              Unmade(last, made, id), starts)
    BY <1>2, <1>6, <1>8, <1>9
  <1>11. LoweringInv(rest, p)
    BY <1>2, <1>8, <1>10, Done
  <1>. QED
    BY <1>11

-----------------------------------------------------------------------------
(* The steps: branches                                                     *)

\* Two items in front of the work.
LEMMA PairWork ==
  ASSUME NEW td, IsSequence(td), NEW x, NEW y
  PROVE  <<x, y>> \o td = Cons(x, Cons(y, td))
  <1>1. \A u, v : <<u, v>> \o td = Cons(u, Cons(v, td))
    BY WorkIs
  <1>. QED
    BY <1>1

\* One item in front of it.
LEMMA SingleWork ==
  ASSUME NEW td, IsSequence(td), NEW x
  PROVE  <<x>> \o td = Cons(x, td)
  <1>1. \A u : <<u>> \o td = Cons(u, td)
    BY WorkIs
  <1>. QED
    BY <1>1

\* A plain item that fits, in front of calm work.
LEMMA PlainOne ==
  ASSUME NEW x, x.op \in Plain, NEW q, NEW y \in Nat, NEW c \in Nat, NEW nums, NEW made, NEW prom,
         NEW starts, Work(q, y, c, nums, made, prom, starts), Calm(q),
         NEW s \in BOOLEAN, s => y > 0, Stays(x, s, nums)
  PROVE  /\ Work(Cons(x, q), y, c, nums, made, prom, starts)
         /\ Calm(Cons(x, q)) /\ IsSequence(Cons(x, q)) /\ IsSequence(q)
         /\ EndsAway(q) => EndsAway(Cons(x, q))
  <1>1. /\ Work(Cons(x, q), y, c + One(x, {"close"}), nums, made, prom, starts)
        /\ Calm(Cons(x, q)) /\ IsSequence(Cons(x, q)) /\ IsSequence(q)
        /\ EndsAway(q) => EndsAway(Cons(x, q))
    BY PlainInFront
  <1>2. One(x, {"close"}) = 0
    BY DEF One, Plain
  <1>3. c + One(x, {"close"}) = c
    BY <1>2
  <1>. QED
    BY <1>1, <1>3

\* The item that evaluates a condition.
LEMMA EvaluateIs ==
  ASSUME NEW cond, NEW reg
  PROVE  /\ Evaluate(cond, reg).op = "expr" /\ Evaluate(cond, reg).cond = cond
         /\ \A s, nums : Stays(Evaluate(cond, reg), s, nums)
  BY DEF Evaluate, Stays

\* A condition is evaluated, and x goes on as e.
LEMMA ConditionStep ==
  ASSUME NEW x, NEW rest, NEW b, Given(x, rest, b), x.op \in {"assert", "if"},
         NEW cond, NEW reg, NEW e, e.op \in {"asserted", "then"},
         \A s \in BOOLEAN : \A nums : Kind(x, s, rest, nums) => Stays(e, s, nums)
  PROVE  LoweringInv(<<Evaluate(cond, reg), e>> \o rest, AllocateRegister(b))
  <1>1. x.op \in Statements \cup Plain /\ Enters(x) /\ x.op \notin InSwitch
    BY QuietIs DEF Statements
  <1>. PICK id, made, last, y, c, starts, own, others :
            Stands(x, rest, b, id, made, last, y, c, starts, own, others)
    BY <1>1, Stand
  <1>2. /\ OpenAt(b, b, starts, id, made, last) /\ starts \subseteq made
        /\ y = Len(b.yields) /\ c = Len(b.defered) /\ Calm(rest) /\ EndsAway(rest)
        /\ y \in Nat /\ c \in Nat /\ last = b.lastBlock /\ IsSequence(rest)
    BY DEF Stands, Conditions
  <1>3. OpenAt(AllocateRegister(b), b, starts, id, made, last)
    BY <1>2, RegisterAt
  <1>4. Work(rest, y, c, Below(last), made, Unmade(last, made, id), starts)
    BY <1>1, Kept
  <1>5. PICK s \in BOOLEAN : (s => y > 0) /\ Kind(x, s, rest, Below(last))
    BY <1>2, KindAt
  <1>. PICK v : v = Evaluate(cond, reg)
    OBVIOUS
  <1>6. v.op \in Plain /\ e.op \in Plain /\ Stays(v, s, Below(last)) /\ Stays(e, s, Below(last))
    BY <1>5, EvaluateIs DEF Plain
  <1>7. /\ Work(Cons(e, rest), y, c, Below(last), made, Unmade(last, made, id), starts)
        /\ Calm(Cons(e, rest)) /\ EndsAway(Cons(e, rest))
    BY <1>2, <1>4, <1>5, <1>6, PlainOne
  <1>. PICK q : q = Cons(v, Cons(e, rest))
    OBVIOUS
  <1>8. /\ Work(q, y, c, Below(last), made, Unmade(last, made, id), starts)
        /\ Calm(q) /\ EndsAway(q)
    BY <1>2, <1>5, <1>6, <1>7, PlainOne
  <1>9. <<v, e>> \o rest = q
    BY <1>2, PairWork
  <1>10. LoweringInv(q, AllocateRegister(b))
    BY <1>2, <1>3, <1>8, Done
  <1>. QED
    BY <1>9, <1>10

\* LowerAssert keeps the invariant.
LEMMA AssertStep ==
  ASSUME NEW x, NEW rest, NEW b, Given(x, rest, b), x.op = "assert"
  PROVE  LoweringInv(<<Evaluate(x.cond, b.lastRegister),
                       [op |-> "asserted", reg |-> b.lastRegister]>> \o rest, AllocateRegister(b))
  <1>. PICK e : e = [op |-> "asserted", reg |-> b.lastRegister]
    OBVIOUS
  <1>1. e.op = "asserted" /\ \A s, nums : Stays(e, s, nums)
    BY DEF Stays
  <1>. QED
    BY <1>1, ConditionStep

\* LowerIf does.
LEMMA IfStep ==
  ASSUME NEW x, NEW rest, NEW b, Given(x, rest, b), x.op = "if"
  PROVE  LoweringInv(<<Evaluate(x.cond, b.lastRegister),
                       [op |-> "then", node |-> x, reg |-> b.lastRegister]>> \o rest,
                     AllocateRegister(b))
  <1>. PICK e : e = [op |-> "then", node |-> x, reg |-> b.lastRegister]
    OBVIOUS
  <1>1. e.op = "then" /\ e.node = x
    OBVIOUS
  <1>2. \A s \in BOOLEAN : \A nums : Kind(x, s, rest, nums) => Stays(e, s, nums)
    BY <1>1 DEF Kind, Stays
  <1>. QED
    BY <1>1, <1>2, ConditionStep

\* BuildAssertExpr does: the failing block ends, the other goes on.
LEMMA AssertedStep ==
  ASSUME NEW x, NEW rest, NEW b, Given(x, rest, b), x.op = "asserted",
         NEW i, i.op = "unreachable"
  PROVE  LET l == b.lastBlock
             p == Push(AllocateBlocks(b, 2), Branch(x.reg, l + 1, l))
         IN  LoweringInv(rest, Terminate(Push(Terminate(p, l), i), l + 1))
  <1>1. x.op \in Statements \cup Plain /\ Enters(x) /\ x.op \notin InSwitch /\ x.op # "close"
        /\ \A m : Promises(x, m) = {}
    BY QuietIs DEF Plain
  <1>. PICK id, made, last, y, c, starts, own, others :
            Stands(x, rest, b, id, made, last, y, c, starts, own, others)
    BY <1>1, Stand
  <1>2. /\ OpenAt(b, b, starts, id, made, last) /\ starts \subseteq made /\ id \notin starts
        /\ y = Len(b.yields) /\ c = Len(b.defered) /\ Calm(rest) /\ EndsAway(rest)
        /\ last = b.lastBlock /\ id \in Below(last)
        /\ made \subseteq Below(last) /\ others = Unmade(last, made, id)
    BY <1>1 DEF Stands, Conditions
  <1>a. PICK after, end, n3, n4 : Next4(last, after, end, n3, n4)
    BY NextAre DEF Stands
  <1>3. /\ last \in Below(end) /\ after \in Below(end)
        /\ last \notin Below(last) /\ after \notin Below(last) /\ after # last
        /\ Below(end) = Below(last) \cup {last, after} /\ end \in Nat /\ last <= end
    BY <1>a DEF Next4
  <1>4. OpenAt(AllocateBlocks(b, 2), b, starts, id, made, end)
    <2>1. end = last + 2
      BY <1>a DEF Next4
    <2>. QED
      BY <1>2, <2>1, AllocateAt
  <1>b. PICK j, p1 : j = Branch(x.reg, after, last) /\ p1 = AllocateBlocks(b, 2)
    OBVIOUS
  <1>5. IsTerminator(j) /\ Leads(j, end)
    BY <1>3, <1>b, BranchIs
  <1>6. last \notin made /\ last # id /\ last \notin starts /\ after \notin made \cup {id}
    BY <1>2, <1>3
  <1>c. PICK p2, more : p2 = Terminate(Push(p1, j), last) /\ more = made \cup {id}
    OBVIOUS
  <1>7. OpenAt(p2, b, starts, last, more, end)
    BY <1>2, <1>3, <1>4, <1>5, <1>6, <1>b, <1>c, CloseAt
  <1>8. IsTerminator(i) /\ Leads(i, end)
    BY InstructionIs
  <1>d. PICK p3, all : p3 = Terminate(Push(p2, i), after) /\ all = more \cup {last}
    OBVIOUS
  <1>9. OpenAt(p3, b, starts, after, all, end)
    BY <1>3, <1>6, <1>7, <1>8, <1>c, <1>d, CloseAt
  <1>10. made \subseteq all /\ all \cap others = {} /\ starts \subseteq all
         /\ others = Unmade(end, all, after)
    BY <1>2, <1>3, <1>6, <1>c, <1>d DEF Unmade
  <1>11. Work(rest, y, c, Below(end), all, others, starts)
    <2>1. Beyond(made, last, others, all, end)
      BY <1>3, <1>10 DEF Beyond
    <2>. QED
      BY <1>1, <2>1, RestOf
  <1>12. LoweringInv(rest, p3)
    BY <1>2, <1>9, <1>10, <1>11, Done
  <1>13. after = b.lastBlock + 1
    BY <1>2, <1>a DEF Next4
  <1>. QED
    BY <1>2, <1>12, <1>13, <1>b, <1>c, <1>d

\* The block id may be made already; then a while loop's end comes next.
OpenOn(p, b, starts, id, made, last) ==
    /\ Building(p, starts) /\ Same(b, p)
    /\ p.current.id = id /\ p.current.terminated = FALSE /\ Open(p.current.code)
    /\ Made(p) = made /\ p.lastBlock = last
Suits(q, id, made) ==
    /\ id \in made <=> ComesBack(q)
    /\ ComesBack(q) => id = q[1].loop.test
    /\ q # << >> /\ q[1].op = "else" => id = q[1].end
    /\ ~First(q) /\ ~Between(q)
    /\ TestsMade(q, made \cup {id})

\* A step that ends in a block that may be made keeps the invariant.
LEMMA DoneOn ==
  ASSUME NEW p, NEW b, NEW starts, NEW id, NEW made, NEW last,
         OpenOn(p, b, starts, id, made, last), starts \subseteq made, NEW q,
         Work(q, Len(b.yields), Len(b.defered), Below(last), made,
              Unmade(last, made, id), starts),
         Suits(q, id, made), EndsAway(q)
  PROVE  LoweringInv(q, p)
  <1>1. Made(p) = made /\ p.current.id = id /\ p.lastBlock = last /\ Building(p, starts)
        /\ p.yields = b.yields /\ p.defered = b.defered
        /\ p.current.terminated = FALSE /\ Open(p.current.code)
    BY DEF OpenOn, Same
  <1>2. Numbers(p) = Below(last) /\ Free(p) = Unmade(last, made, id)
    BY <1>1, Within DEF Unmade
  <1>3. Work(q, Len(p.yields), Len(p.defered), Numbers(p), Made(p), Free(p), starts)
    BY <1>1, <1>2
  <1>4. Arrives(q, p)
    <2>1. Starts(q) = starts
      BY DEF Work
    <2>. QED
      BY <1>1, <2>1 DEF Arrives, Suits
  <1>5. IsOpen(q, p.current)
    BY <1>1 DEF IsOpen, Suits
  <1>6. Closing(q, p)
    BY DEF Closing
  <1>7. Building(p, Starts(q)) /\ Promised(q, Made(p)) = Free(p)
    BY <1>1, <1>3 DEF Work
  <1>. QED
    BY <1>3, <1>4, <1>5, <1>6, <1>7 DEF LoweringInv, Work

\* The current block is given up for another one.
LEMMA ReturnTo ==
  ASSUME NEW p, NEW b, NEW starts, NEW id, NEW made, NEW last,
         Building(p, starts), Same(b, p), p.current.id = id, Made(p) = made, p.lastBlock = last,
         id \notin made, id \notin starts, Closed(p.current.code), NEW to \in Below(last)
  PROVE  OpenOn(Terminate(p, to), b, starts, to, made \cup {id}, last)
  <1>1. to \in Numbers(p)
    BY Within
  <1>2. /\ Building(Terminate(p, to), starts) /\ Same(p, Terminate(p, to))
        /\ Made(Terminate(p, to)) = made \cup {id}
        /\ Terminate(p, to).lastBlock = last
        /\ Terminate(p, to).current = NewBlock(to)
    BY <1>1, TerminateIs
  <1>3. /\ NewBlock(to).id = to /\ NewBlock(to).terminated = FALSE /\ Open(NewBlock(to).code)
    BY NewBlockIs
  <1>. QED
    BY <1>2, <1>3 DEF OpenOn, Same

\* BodyEnds keeps the invariant: the body jumps to where it leads if it is not left.
LEMMA BodyEndStep ==
  ASSUME NEW x, NEW rest, NEW b, Given(x, rest, b), x.op = "endBody"
  PROVE  LoweringInv(rest, Terminate(IF b.current.terminated THEN b ELSE Push(b, Jmp(x.to)), x.to))
  <1>0. PICK id, made, last, y, c, starts, to :
            /\ id = b.current.id /\ made = Made(b) /\ last = b.lastBlock /\ y = Len(b.yields)
            /\ c = Len(b.defered) /\ starts = Starts(rest) /\ to = x.to
    OBVIOUS
  <1>1. /\ StartOf(x) = {} /\ Promises(x, made) = {to} \ made /\ x.op \notin Conditions
        /\ ~WhileEnd(x) /\ ~IsBetween(x) /\ x.op \notin InSwitch /\ x.op # "close"
    BY <1>0 DEF InSwitch, StartOf, Promises, Conditions, WhileEnd, IsBetween
  <1>2. /\ Building(b, starts) /\ id \notin made /\ starts \subseteq made /\ IsSequence(rest)
        /\ {to} \ made \subseteq Free(b)
        /\ EndsInTime(x, made, rest = << >>) /\ (rest # << >> => Follows(x, rest[1], made))
    <2>1. StartOf(x) \cup Starts(rest) = starts
      BY <1>0, <1>1
    <2>. QED
      BY <1>0, <1>1, <2>1 DEF Given, Ready, Joins
  <1>3. /\ Free(b) = Unmade(last, made, id) /\ b.current.terminated \in BOOLEAN
        /\ Numbers(b) = Below(last) /\ id \in Below(last) /\ made \subseteq Below(last)
        /\ last \in Nat
    BY <1>0, <1>2, Within DEF Unmade
  <1>4. to \in Below(last) /\ id \notin starts /\ (to \in made \/ to # id)
    <2>1. PICK s \in BOOLEAN : Kind(x, s, rest, Below(b.lastBlock))
      BY KindAt
    <2>. QED
      BY <1>0, <1>2, <1>3, <2>1 DEF Kind, Unmade
  <1>a. PICK p1, p, all :
            /\ p1 = IF b.current.terminated THEN b ELSE Push(b, Jmp(x.to))
            /\ p = Terminate(p1, x.to) /\ all = made \cup {id}
    OBVIOUS
  <1>5. /\ Building(p1, starts) /\ Same(b, p1) /\ p1.current.id = id
        /\ Made(p1) = made /\ p1.lastBlock = last /\ Closed(p1.current.code)
    <2>1. CASE b.current.terminated
      BY <1>0, <1>1, <1>2, <1>a, <2>1 DEF Given, Placed, Same
    <2>2. CASE ~b.current.terminated
      <3>1. OpenAt(b, b, starts, id, made, last)
        BY <1>0, <1>1, <1>2, <1>3, <2>2 DEF Given, Placed, OpenAt, Same
      <3>2. IsTerminator(Jmp(to)) /\ Leads(Jmp(to), last)
        BY <1>4, JmpIs
      <3>3. ClosedAt(Push(b, Jmp(to)), b, starts, id, made, last)
        BY <3>1, <3>2, PushTerminator
      <3>. QED
        BY <1>0, <1>a, <2>2, <3>3 DEF ClosedAt
    <2>. QED
      BY <2>1, <2>2
  <1>6. OpenOn(p, b, starts, to, all, last)
    <2>1. OpenOn(Terminate(p1, to), b, starts, to, made \cup {id}, last)
      BY <1>2, <1>4, <1>5, ReturnTo
    <2>. QED
      BY <1>0, <1>a, <2>1
  <1>7. Work(rest, y, c, Below(last), all, Free(b) \ ({to} \ made), starts)
    <2>1. Later(x, b, all, last)
      BY <1>0, <1>1, <1>3, <1>a DEF Later, Unmade
    <2>2. Work(rest, Len(b.yields), Len(b.defered),
              Below(last), all, Free(b) \ Promises(x, Made(b)), Starts(rest))
      BY <1>1, <2>1, RestGoesOn
    <2>. QED
      BY <1>0, <1>1, <2>2
  <1>8. Free(b) \ ({to} \ made) = Unmade(last, all, to)
    BY <1>3, <1>a DEF Unmade
  <1>9. Suits(rest, to, all)
    <2>1. NoTest(rest)
      BY <1>1, RestIs DEF Given
    <2>2. TestsMade(rest, all \cup {to})
      BY <2>1 DEF NoTest, TestsMade
    <2>3. rest # << >> /\ rest[1].op = "else" => to = rest[1].end
      BY <1>0, <1>2 DEF Follows, Ends
    <2>4. ComesBack(rest) => to = rest[1].loop.test
      BY <1>0, <1>2 DEF Follows, Ends, ComesBack
    <2>5. ~First(rest) /\ ~Between(rest)
      BY <1>2 DEF Follows, First, Between
    <2>6. to \in all => ComesBack(rest)
      <3>1. to \in all => to \in made
        BY <1>4, <1>a
      <3>. QED
        BY <1>0, <1>2, <3>1 DEF Follows, ComesBack, EndsInTime
    <2>7. ComesBack(rest) => to \in all
      <3>. SUFFICES ASSUME ComesBack(rest) PROVE to \in all
        OBVIOUS
      <3>1. Ordered(rest, made)
        BY <1>0 DEF Given, Ready, Todo
      <3>2. 1 \in 1 .. Len(rest)
        BY <1>2, LengthOf DEF ComesBack
      <3>3. EndsInTime(rest[1], made, 1 = Len(rest))
        BY <3>1, <3>2 DEF Ordered
      <3>4. rest[1].loop.test \in made
        BY <3>3 DEF EndsInTime, ComesBack
      <3>. QED
        BY <1>a, <2>4, <3>4
    <2>. QED
      BY <2>2, <2>3, <2>4, <2>5, <2>6, <2>7 DEF Suits
  <1>10. EndsAway(rest)
    BY Leads0
  <1>11. Work(rest, Len(b.yields), Len(b.defered), Below(last), all,
              Unmade(last, all, to), starts)
    BY <1>0, <1>7, <1>8
  <1>12. LoweringInv(rest, p)
    <2>1. starts \subseteq all
      BY <1>2, <1>a
    <2>. QED
      BY <1>6, <1>9, <1>10, <1>11, <2>1, DoneOn
  <1>. QED
    BY <1>12, <1>a

\* A body, two more items and the rest.
BodyAndTwo(body, x, y, td) == (body \o <<x, y>>) \o td

\* A body and two items in front of the work.
LEMMA BodyThenTwo ==
  ASSUME NEW body, NEW td, IsSequence(body), IsSequence(td), NEW x, NEW y
  PROVE  BodyAndTwo(body, x, y, td) = body \o Cons(x, Cons(y, td))
  <1>1. \A u, v : (body \o <<u, v>>) \o td = body \o Cons(u, Cons(v, td))
    BY SMTT(60), BodyWorkIs
  <1>. QED
    BY <1>1 DEF BodyAndTwo

\* What comes behind the end of a body that leads to the block to.
Meets(q, to, made) ==
    /\ to \in made => q # << >> /\ WhileEnd(q[1])
    /\ q # << >> =>
        /\ q[1].op = "else" => q[1].end = to
        /\ WhileEnd(q[1]) => q[1].loop.test = to
        /\ q[1].op \notin {"case", "values", "strings"}

\* No other item promises it.
Unclaimed(to, made, prom) == ({to} \ made) \cap prom = {}

\* The end of a body can be put in front of what it meets.
LEMMA EndInFront ==
  ASSUME NEW to, NEW q, NEW y \in Nat, NEW c \in Nat, NEW nums, NEW made, NEW prom, NEW starts,
         Work(q, y, c, nums, made, prom, starts), NoTest(q), Meets(q, to, made),
         to \in nums, Unclaimed(to, made, prom)
  PROVE  /\ Work(Cons(EndBody(to), q), y, c, nums, made, prom \cup ({to} \ made), starts)
         /\ Calm(Cons(EndBody(to), q)) /\ Tolerates(Cons(EndBody(to), q), 1)
         /\ IsSequence(Cons(EndBody(to), q))
         /\ EndsAway(q) => EndsAway(Cons(EndBody(to), q))
  <1>. PICK x : x = EndBody(to)
    OBVIOUS
  <1>1. x.op = "endBody" /\ x.to = to
    BY DEF EndBody
  <1>2. /\ x.op \notin InSwitch /\ x.op # "close" /\ x.op # "test" /\ x.op \notin Conditions
        /\ Ordinary(x) /\ ~WhileEnd(x) /\ Promises(x, made) = {to} \ made
    BY <1>1 DEF InSwitch, Conditions, Ordinary, WhileEnd, Promises
  <1>3. EndsInTime(x, made, q = << >>)
    BY <1>1, <1>2 DEF EndsInTime, Meets
  <1>4. q # << >> => Follows(x, q[1], made)
    BY <1>1 DEF Follows, Meets, Ends
  <1>5. Stays(x, FALSE, nums)
    BY <1>1 DEF Stays
  <1>6. /\ Work(Cons(x, q), y, c, nums, made, prom \cup Promises(x, made), starts)
        /\ IsSequence(Cons(x, q)) /\ IsSequence(q) /\ Cons(x, q) # << >> /\ Cons(x, q)[1] = x
        /\ x.op # "test" /\ NoTest(q) => NoTest(Cons(x, q))
        /\ EndsAway(q) => EndsAway(Cons(x, q))
    <2>1. Links(x, q, y, nums, made, prom)
      BY <1>2, <1>3, <1>4, <1>5 DEF Links, Unclaimed
    <2>. QED
      BY <2>1, LinkInFront
  <1>7. Calm(Cons(x, q))
    BY <1>2, <1>6 DEF Calm
  <1>8. Tolerates(Cons(x, q), 1)
    BY <1>1, <1>6, ToleratesFirst
  <1>. QED
    BY <1>2, <1>6, <1>7, <1>8

\* LowerThen keeps the invariant: three blocks, the first branch comes next.
LEMMA ThenStep ==
  ASSUME NEW x, NEW rest, NEW b, Given(x, rest, b), x.op = "then"
  PROVE  LET l == b.lastBlock
             branch == Push(AllocateBlocks(b, 3), Branch(x.reg, l, l + 1))
         IN  LoweringInv((x.node.then \o
                           <<EndBody(l + 2),
                             [op |-> "else", node |-> x.node, block |-> l + 1, end |-> l + 2]>>)
                              \o rest,
                         Terminate(branch, l))
  <1>1. x.op \in Statements \cup Plain /\ Enters(x) /\ x.op \notin InSwitch /\ x.op # "close"
        /\ \A m : Promises(x, m) = {}
    BY QuietIs DEF Plain
  <1>. PICK id, made, last, y, c, starts, own, others :
            Stands(x, rest, b, id, made, last, y, c, starts, own, others)
    BY <1>1, Stand
  <1>2. /\ OpenAt(b, b, starts, id, made, last) /\ starts \subseteq made /\ id \notin starts
        /\ y = Len(b.yields) /\ c = Len(b.defered) /\ Calm(rest) /\ EndsAway(rest)
        /\ y \in Nat /\ c \in Nat
        /\ last = b.lastBlock /\ id \in Below(last) /\ IsSequence(rest)
        /\ made \subseteq Below(last) /\ others = Unmade(last, made, id)
    BY <1>1 DEF Stands, Conditions
  <1>a. PICK else, end, n3, n4 : Next4(last, else, end, n3, n4)
    BY NextAre DEF Stands
  <1>b. PICK more : more = made \cup {id}
    OBVIOUS
  <1>3. /\ last \in Below(n3) /\ else \in Below(n3) /\ end \in Below(n3)
        /\ n3 \in Nat /\ last <= n3 /\ else # end
    BY <1>a DEF Next4
  <1>4. /\ last \notin more /\ end \notin more /\ last # id /\ last \notin made
        /\ else \notin others /\ end \notin others
        /\ Unmade(n3, more, last) = (others \cup {else}) \cup ({end} \ more)
    BY SMTT(60), <1>2, <1>a, <1>b DEF Next4, Unmade
  <1>5. OpenAt(AllocateBlocks(b, 3), b, starts, id, made, n3)
    <2>1. n3 = last + 3
      BY <1>a DEF Next4
    <2>. QED
      BY <1>2, <2>1, AllocateAt
  <1>c. PICK j, p : j = Branch(x.reg, last, else) /\ p = Terminate(Push(AllocateBlocks(b, 3), j), last)
    OBVIOUS
  <1>6. OpenAt(p, b, starts, last, more, n3)
    <2>1. IsTerminator(j) /\ Leads(j, n3)
      BY <1>3, <1>c, BranchIs
    <2>. QED
      BY <1>2, <1>3, <1>4, <1>5, <1>b, <1>c, <2>1, CloseAt
  <1>7. Work(rest, y, c, Below(n3), more, others, starts)
    <2>1. Beyond(made, last, others, more, n3)
      BY <1>2, <1>3, <1>b DEF Beyond, Unmade
    <2>. QED
      BY <1>1, <2>1, RestOf
  <1>d. PICK s \in BOOLEAN : (s => y > 0) /\ Kind(x, s, rest, Below(last))
    BY <1>2, KindAt
  <1>8. IsBody(x.node.then, s) /\ IsBody(x.node.else, s)
    BY <1>d DEF Kind
  <1>e. PICK e : e = [op |-> "else", node |-> x.node, block |-> else, end |-> end]
    OBVIOUS
  <1>9. /\ e.op = "else" /\ e.node = x.node /\ e.block = else /\ e.end = end
        /\ e.op \notin InSwitch /\ e.op # "close" /\ e.op # "test" /\ ~WhileEnd(e)
        /\ e.op # "endBody" /\ Promises(e, more) = {else}
    BY <1>e DEF InSwitch, Promises, WhileEnd
  <1>10. /\ Work(Cons(e, rest), y, c, Below(n3), more, others \cup {else}, starts)
         /\ IsSequence(Cons(e, rest)) /\ Cons(e, rest) # << >> /\ Cons(e, rest)[1] = e
         /\ NoTest(Cons(e, rest)) /\ EndsAway(Cons(e, rest))
    <2>1. EndsInTime(e, more, rest = << >>)
      BY <1>9 DEF EndsInTime
    <2>2. rest # << >> => Follows(e, rest[1], more)
      BY <1>2, <1>9, FollowsOrdinary DEF Calm
    <2>3. Stays(e, s, Below(n3))
      BY <1>3, <1>8, <1>9 DEF Stays
    <2>4. Promises(e, more) \cap others = {} /\ NoTest(rest)
      BY <1>2, <1>4, <1>9 DEF Calm
    <2>5. Links(e, rest, y, Below(n3), more, others)
      BY <1>9, <1>d, <2>1, <2>2, <2>3, <2>4 DEF Links
    <2>6. /\ Work(Cons(e, rest), y, c, Below(n3), more, others \cup Promises(e, more), starts)
          /\ IsSequence(Cons(e, rest)) /\ Cons(e, rest) # << >> /\ Cons(e, rest)[1] = e
          /\ e.op # "test" /\ NoTest(rest) => NoTest(Cons(e, rest))
          /\ EndsAway(rest) => EndsAway(Cons(e, rest))
      BY <1>2, <1>7, <2>5, LinkInFront
    <2>. QED
      BY <1>2, <1>9, <2>4, <2>6
  <1>f. PICK q : q = Cons(e, rest)
    OBVIOUS
  <1>11. Meets(q, end, more)
    BY <1>4, <1>9, <1>10, <1>f DEF Meets
  <1>12. /\ Work(Cons(EndBody(end), q), y, c, Below(n3), more, Unmade(n3, more, last), starts)
         /\ Calm(Cons(EndBody(end), q)) /\ Tolerates(Cons(EndBody(end), q), 1)
         /\ IsSequence(Cons(EndBody(end), q)) /\ EndsAway(Cons(EndBody(end), q))
    <2>1. Unclaimed(end, more, others \cup {else})
      BY <1>3, <1>4 DEF Unclaimed
    <2>2. /\ Work(Cons(EndBody(end), q), y, c, Below(n3), more,
                  (others \cup {else}) \cup ({end} \ more), starts)
          /\ Calm(Cons(EndBody(end), q)) /\ Tolerates(Cons(EndBody(end), q), 1)
          /\ IsSequence(Cons(EndBody(end), q))
          /\ EndsAway(q) => EndsAway(Cons(EndBody(end), q))
      BY <1>2, <1>3, <1>10, <1>11, <1>f, <2>1, EndInFront
    <2>. QED
      BY <1>4, <1>10, <1>f, <2>2
  <1>g. PICK u, w, body : u = EndBody(end) /\ w = Cons(u, q) /\ body = x.node.then
    OBVIOUS
  <1>13. IsSequence(body) /\ Precedes(body, s, w)
    BY <1>8, <1>12, <1>g, BodyPrecedes
  <1>14. /\ Work(body \o w, y, c, Below(n3), more, Unmade(n3, more, last), starts)
         /\ Calm(body \o w) /\ EndsAway(body \o w)
    BY <1>2, <1>12, <1>13, <1>d, <1>g, BodyWork
  <1>15. LoweringInv(body \o w, p)
    <2>1. starts \subseteq more
      BY <1>2, <1>b
    <2>. QED
      BY <1>2, <1>6, <1>14, <2>1, Done
  <1>16. BodyAndTwo(body, u, e, rest) = body \o w
    <2>1. BodyAndTwo(body, u, e, rest) = body \o Cons(u, Cons(e, rest))
      <3>1. IsSequence(body) /\ IsSequence(rest)
        BY <1>2, <1>13
      <3>. QED
        BY <3>1, BodyThenTwo
    <2>. QED
      BY <1>f, <1>g, <2>1
  <1>17. else = b.lastBlock + 1 /\ end = b.lastBlock + 2
    BY <1>2, <1>a DEF Next4
  <1>18. LoweringInv((body \o <<u, e>>) \o rest, p)
    BY <1>15, <1>16 DEF BodyAndTwo
  <1>. QED
    BY <1>2, <1>17, <1>18, <1>c, <1>e, <1>g

\* A body and its end can be put in front of what the end meets.
LEMMA BodyToEnd ==
  ASSUME NEW body, NEW to, NEW q, NEW y \in Nat, NEW c \in Nat, NEW nums, NEW made, NEW prom,
         NEW starts, Work(q, y, c, nums, made, prom, starts), NoTest(q), Meets(q, to, made),
         to \in nums, Unclaimed(to, made, prom),
         NEW s \in BOOLEAN, s => y > 0, IsBody(body, s)
  PROVE  /\ Work(body \o Cons(EndBody(to), q), y, c, nums, made, prom \cup ({to} \ made), starts)
         /\ Calm(body \o Cons(EndBody(to), q)) /\ IsSequence(body)
         /\ EndsAway(q) => EndsAway(body \o Cons(EndBody(to), q))
  <1>1. /\ Work(Cons(EndBody(to), q), y, c, nums, made, prom \cup ({to} \ made), starts)
        /\ Calm(Cons(EndBody(to), q)) /\ Tolerates(Cons(EndBody(to), q), 1)
        /\ IsSequence(Cons(EndBody(to), q))
        /\ EndsAway(q) => EndsAway(Cons(EndBody(to), q))
    BY EndInFront
  <1>. PICK w, all : w = Cons(EndBody(to), q) /\ all = prom \cup ({to} \ made)
    OBVIOUS
  <1>2. IsSequence(body) /\ Precedes(body, s, w)
    BY <1>1, BodyPrecedes
  <1>3. /\ Work(body \o w, y, c, nums, made, all, starts) /\ Calm(body \o w)
        /\ EndsAway(w) => EndsAway(body \o w)
    BY <1>1, <1>2, BodyWork
  <1>. QED
    BY <1>1, <1>2, <1>3

\* The block that is opened is another one.
LEMMA CurrentAt ==
  ASSUME NEW b, NEW starts, NEW made, NEW last, Building(b, starts), Made(b) = made,
         b.lastBlock = last, NEW id \in Below(last), id \notin made,
         NEW p, p = [b EXCEPT !.current = NewBlock(id)]
  PROVE  OpenAt(p, b, starts, id, made, last)
  <1>1. id \in Numbers(b)
    BY Within
  <1>2. /\ Building(p, starts) /\ Same(b, p)
        /\ Made(p) = Made(b) /\ p.lastBlock = b.lastBlock /\ p.current = NewBlock(id)
    BY <1>1, CurrentIs
  <1>3. /\ NewBlock(id).id = id /\ NewBlock(id).terminated = FALSE /\ Open(NewBlock(id).code)
    BY NewBlockIs
  <1>. QED
    BY <1>2, <1>3 DEF OpenAt

\* An ordinary item can follow the end of a body that leads to a new block.
LEMMA OrdinaryMeets ==
  ASSUME NEW q, NEW to, NEW made, to \notin made, q # << >> => Ordinary(q[1])
  PROVE  Meets(q, to, made)
  BY DEF Meets, Ordinary

\* LowerElse keeps the invariant: the second branch, if there is one.
LEMMA ElseStep ==
  ASSUME NEW x, NEW rest, NEW b, Given(x, rest, b), x.op = "else"
  PROVE  LET p == [b EXCEPT !.current = NewBlock(x.block)] IN
         /\ x.node.else = << >> => LoweringInv(rest, Terminate(Push(p, Jmp(x.end)), x.end))
         /\ LoweringInv((x.node.else \o <<EndBody(x.end)>>) \o rest, p)
  <1>1. /\ Enters(x) /\ x.op \notin InSwitch /\ x.op # "close" /\ x.op \notin Conditions
        /\ \A m : Promises(x, m) = {x.block}
    BY DEF Enters, IsBetween, WhileEnd, InSwitch, Conditions, Promises
  <1>. PICK id, made, last, y, c, starts, own, others :
            Stands(x, rest, b, id, made, last, y, c, starts, own, others)
    BY <1>1, Stand
  <1>2. /\ OpenAt(b, b, starts, id, made, last) /\ starts \subseteq made /\ id \notin starts
        /\ y = Len(b.yields) /\ c = Len(b.defered) /\ Calm(rest) /\ EndsAway(rest)
        /\ y \in Nat /\ c \in Nat
        /\ last = b.lastBlock /\ id \in Below(last) /\ IsSequence(rest) /\ last \in Nat
        /\ made \subseteq Below(last) /\ id \notin made
        /\ own = {x.block} /\ own \subseteq Unmade(last, made, id)
        /\ others = Unmade(last, made, id) \ own
        /\ id = b.current.id /\ made = Made(b)
        /\ (rest # << >> => Ordinary(rest[1]))
    BY <1>1 DEF Stands
  <1>3. x.end = id
    BY <1>2 DEF Given, Ready
  <1>a. PICK block, p : block = x.block /\ p = [b EXCEPT !.current = NewBlock(x.block)]
    OBVIOUS
  <1>4. /\ block \in Below(last) /\ block \notin made /\ block # id /\ block \notin starts
    BY <1>2, <1>a DEF Unmade
  <1>5. OpenAt(p, b, starts, block, made, last)
    <2>1. Building(b, starts)
      BY <1>2 DEF OpenAt
    <2>. QED
      BY <1>2, <1>4, <1>a, <2>1, CurrentAt
  <1>6. ASSUME x.node.else = << >> PROVE LoweringInv(rest, Terminate(Push(p, Jmp(id)), id))
    <2>1. IsTerminator(Jmp(id)) /\ Leads(Jmp(id), last)
      BY <1>2, JmpIs
    <2>a. PICK j, all : j = Jmp(id) /\ all = made \cup {block}
      OBVIOUS
    <2>2. OpenAt(Terminate(Push(p, j), id), b, starts, id, all, last)
      BY <1>2, <1>4, <1>5, <2>1, <2>a, CloseAt
    <2>3. others = Unmade(last, all, id) /\ starts \subseteq all
      BY <1>2, <1>a, <2>a DEF Unmade
    <2>4. Work(rest, y, c, Below(last), all, others, starts)
      <3>1. Beyond(made, last, others, all, last)
        BY <1>2, <1>a, <2>a DEF Beyond, Unmade
      <3>. QED
        BY <1>1, <3>1, RestOf
    <2>5. Work(rest, Len(b.yields), Len(b.defered), Below(last), all, Unmade(last, all, id), starts)
      BY <1>2, <2>3, <2>4
    <2>6. LoweringInv(rest, Terminate(Push(p, j), id))
      BY <1>2, <2>2, <2>3, <2>5, Done
    <2>. QED
      BY <2>6, <2>a
  <1>7. LoweringInv((x.node.else \o <<EndBody(id)>>) \o rest, p)
    <2>1. Work(rest, y, c, Below(last), made, others, starts)
      <3>1. Beyond(made, last, others, made, last)
        BY <1>2, <1>a DEF Beyond, Unmade
      <3>. QED
        BY <1>1, <3>1, RestOf
    <2>2. NoTest(rest) /\ Meets(rest, id, made)
      BY <1>2, OrdinaryMeets DEF Calm
    <2>3. /\ Unclaimed(id, made, others)
          /\ Unmade(last, made, block) = others \cup ({id} \ made)
      BY <1>2, <1>4, <1>a DEF Unmade, Unclaimed
    <2>a. PICK s \in BOOLEAN : (s => y > 0) /\ Kind(x, s, rest, Below(last))
      BY <1>2, KindAt
    <2>b. PICK body, u, w : body = x.node.else /\ u = EndBody(id) /\ w = Cons(EndBody(id), rest)
      OBVIOUS
    <2>4. IsBody(body, s)
      BY <2>a, <2>b DEF Kind
    <2>5. /\ Work(body \o Cons(EndBody(id), rest), y, c, Below(last), made,
                  others \cup ({id} \ made), starts)
          /\ Calm(body \o Cons(EndBody(id), rest)) /\ IsSequence(body)
          /\ EndsAway(rest) => EndsAway(body \o Cons(EndBody(id), rest))
      <3>1. y \in Nat /\ c \in Nat /\ id \in Below(last) /\ (s => y > 0)
        BY <1>2, <2>a
      <3>2. Unclaimed(id, made, others)
        BY <2>3
      <3>. QED
        BY <2>1, <2>2, <3>2, <2>4, <3>1, BodyToEnd
    <2>6. /\ Work(body \o w, y, c, Below(last), made, Unmade(last, made, block), starts)
          /\ Calm(body \o w) /\ EndsAway(body \o w)
      BY <1>2, <2>3, <2>5, <2>b
    <2>7. (body \o <<u>>) \o rest = body \o w
      <3>1. IsSequence(body) /\ IsSequence(rest)
        BY <1>2, <2>5
      <3>2. (body \o <<u>>) \o rest = body \o Cons(u, rest)
        BY <3>1, BodyThen
      <3>. QED
        BY <2>b, <3>2
    <2>8. LoweringInv(body \o w, p)
      BY <1>2, <1>5, <2>6, Done
    <2>. QED
      BY <2>7, <2>8, <2>b
  <1>. QED
    BY <1>3, <1>6, <1>7, <1>a

-----------------------------------------------------------------------------
(* The steps: loops                                                        *)

\* What the test of a loop promises, and when the item can be put in front.
LoopBlocks(loop) == {loop.body, loop.next, loop.end} \ {loop.test}
LoopAt(loop, y, nums, made, prom) ==
    /\ \E s \in BOOLEAN : (s => y > 0) /\ IsLoop(loop, s, nums)
    /\ loop.test \notin made /\ LoopBlocks(loop) \cap prom = {}

\* The test of a loop, in front of work without one.
LEMMA OneTestIn ==
  ASSUME NEW t, t.op = "test", NEW td, IsSequence(td), NoTest(td), NEW made, t.loop.test \in made
  PROVE  TestsMade(Cons(t, td), made)
  <1>1. TestsMade(td, made)
    BY DEF NoTest, TestsMade
  <1>. QED
    BY <1>1, TestsCons

IsTest(t, loop) == t = [op |-> "test", loop |-> loop]

\* The test of a loop can be put in front of calm work.
LEMMA TestFirst ==
  ASSUME NEW loop, NEW rest, NEW y \in Nat, NEW c \in Nat, NEW nums, NEW made, NEW prom, NEW starts,
         Work(rest, y, c, nums, made, prom, starts), Calm(rest), LoopAt(loop, y, nums, made, prom),
         NEW t, IsTest(t, loop)
  PROVE  /\ Work(Cons(t, rest), y, c, nums, made, prom \cup LoopBlocks(loop), starts)
         /\ Suits(Cons(t, rest), loop.test, made)
         /\ EndsAway(rest) => EndsAway(Cons(t, rest))
         /\ IsSequence(Cons(t, rest)) /\ Cons(t, rest) # << >> /\ Cons(t, rest)[1] = t
         /\ TestsMade(Cons(t, rest), made \cup {loop.test})
  <1>1. /\ t.op = "test" /\ t.loop = loop /\ t.op \notin InSwitch /\ t.op # "close"
        /\ t.op # "endBody" /\ t.op # "else" /\ ~WhileEnd(t) /\ t.op # "case" /\ t.op # "values"
    BY DEF InSwitch, WhileEnd, IsTest
  <1>2. Promises(t, made) = LoopBlocks(loop)
    BY <1>1 DEF Promises, LoopBlocks
  <1>3. Links(t, rest, y, nums, made, prom)
    <2>1. EndsInTime(t, made, rest = << >>)
      BY <1>1 DEF EndsInTime
    <2>2. rest # << >> => Follows(t, rest[1], made)
      BY <1>1, FollowsOrdinary DEF Calm
    <2>3. \E s \in BOOLEAN : (s => y > 0) /\ Stays(t, s, nums)
      BY <1>1 DEF LoopAt, Stays
    <2>4. Promises(t, made) \cap prom = {} /\ NoTest(rest)
      BY <1>2 DEF LoopAt, Calm
    <2>. QED
      BY <1>1, <2>1, <2>2, <2>3, <2>4 DEF Links
  <1>4. /\ Work(Cons(t, rest), y, c, nums, made, prom \cup Promises(t, made), starts)
        /\ IsSequence(Cons(t, rest)) /\ IsSequence(rest)
        /\ Cons(t, rest) # << >> /\ Cons(t, rest)[1] = t
        /\ EndsAway(rest) => EndsAway(Cons(t, rest))
    BY <1>3, LinkInFront
  <1>5. TestsMade(Cons(t, rest), made \cup {loop.test})
    BY <1>1, <1>4, OneTestIn DEF Calm
  <1>6. Suits(Cons(t, rest), loop.test, made)
    <2>1. loop.test \notin made
      BY DEF LoopAt
    <2>2. ~ComesBack(Cons(t, rest)) /\ ~First(Cons(t, rest)) /\ ~Between(Cons(t, rest))
      BY <1>1, <1>4 DEF ComesBack, First, Between
    <2>. QED
      BY <1>1, <1>4, <1>5, <2>1, <2>2 DEF Suits
  <1>. QED
    BY <1>2, <1>4, <1>5, <1>6

\* q: the condition, if there is one, then t and the rest.
IsTested(q, node, reg, t, rest) == q = (Condition(node, reg) \o <<t>>) \o rest

\* So can its condition in front of it.
LEMMA TestInFront ==
  ASSUME NEW loop, NEW rest, NEW y \in Nat, NEW c \in Nat, NEW nums, NEW made, NEW prom, NEW starts,
         Work(rest, y, c, nums, made, prom, starts), Calm(rest), IsSequence(rest),
         LoopAt(loop, y, nums, made, prom),
         NEW t, IsTest(t, loop), NEW node, NEW reg,
         NEW q, IsTested(q, node, reg, t, rest)
  PROVE  /\ Work(q, y, c, nums, made, prom \cup LoopBlocks(loop), starts)
         /\ Suits(q, loop.test, made)
         /\ EndsAway(rest) => EndsAway(q)
  <1>0. /\ Work(Cons(t, rest), y, c, nums, made, prom \cup LoopBlocks(loop), starts)
        /\ Suits(Cons(t, rest), loop.test, made)
        /\ EndsAway(rest) => EndsAway(Cons(t, rest))
        /\ IsSequence(Cons(t, rest)) /\ Cons(t, rest) # << >> /\ Cons(t, rest)[1] = t
        /\ TestsMade(Cons(t, rest), made \cup {loop.test})
    BY TestFirst
  <1>. PICK r, all : r = Cons(t, rest) /\ all = prom \cup LoopBlocks(loop)
    OBVIOUS
  <1>1. /\ Work(r, y, c, nums, made, all, starts)
        /\ Suits(r, loop.test, made)
        /\ EndsAway(rest) => EndsAway(r)
        /\ IsSequence(r) /\ r # << >> /\ r[1] = t
        /\ TestsMade(r, made \cup {loop.test})
    BY <1>0
  <1>a. q = (Condition(node, reg) \o <<t>>) \o rest
    BY DEF IsTested
  <1>2. CASE node.cond = << >>
    <2>1. Condition(node, reg) = << >>
      BY <1>2 DEF Condition
    <2>2. << >> \o <<t>> = <<t>>
      BY OneIs, WorkIs
    <2>3. <<t>> \o rest = r
      BY SingleWork
    <2>. QED
      BY <1>1, <1>a, <2>1, <2>2, <2>3
  <1>3. CASE node.cond # << >>
    <2>. PICK v : v = Evaluate(node.cond[1], reg)
      OBVIOUS
    <2>1. Condition(node, reg) = <<v>>
      BY <1>3 DEF Condition
    <2>2. v.op = "expr" /\ Stays(v, FALSE, nums)
      BY EvaluateIs
    <2>3. /\ v.op \notin InSwitch /\ v.op # "close" /\ v.op # "endBody" /\ v.op # "test"
          /\ v.op # "else" /\ ~WhileEnd(v) /\ v.op # "case" /\ v.op # "values"
          /\ v.op \in Conditions /\ Promises(v, made) = {}
      BY <2>2 DEF InSwitch, WhileEnd, Conditions, Promises
    <2>4. Links(v, r, y, nums, made, all)
      <3>1. EndsInTime(v, made, r = << >>)
        BY <2>3 DEF EndsInTime
      <3>2. Ordinary(r[1])
        BY <1>1 DEF Ordinary, WhileEnd, IsTest
      <3>3. r # << >> => Follows(v, r[1], made)
        BY <2>3, <3>2, FollowsOrdinary
      <3>4. \E s \in BOOLEAN : (s => y > 0) /\ Stays(v, s, nums)
        BY <2>2
      <3>. QED
        BY <2>3, <3>1, <3>3, <3>4 DEF Links
    <2>5. /\ Work(Cons(v, r), y, c, nums, made, all \cup Promises(v, made), starts)
          /\ Cons(v, r) # << >> /\ Cons(v, r)[1] = v
          /\ EndsAway(r) => EndsAway(Cons(v, r))
      BY <1>1, <2>4, LinkInFront
    <2>6. all \cup Promises(v, made) = all
      BY <2>3
    <2>7. Suits(Cons(v, r), loop.test, made)
      <3>1. loop.test \notin made
        BY DEF LoopAt
      <3>2. ~ComesBack(Cons(v, r)) /\ ~First(Cons(v, r)) /\ ~Between(Cons(v, r))
        BY <2>3, <2>5 DEF ComesBack, First, Between
      <3>3. TestsMade(Cons(v, r), made \cup {loop.test})
        BY <1>1, <2>3, TestsCons
      <3>. QED
        BY <2>3, <2>5, <3>1, <3>2, <3>3 DEF Suits
    <2>8. (<<v>> \o <<t>>) \o rest = Cons(v, r)
      <3>1. IsSequence(<<v>>)
        BY OneIs
      <3>2. (<<v>> \o <<t>>) \o rest = <<v>> \o Cons(t, rest)
        BY <3>1, BodyThen
      <3>3. <<v>> \o r = Cons(v, r)
        BY <1>1, SingleWork
      <3>. QED
        BY <3>2, <3>3
    <2>. QED
      BY <1>1, <1>a, <2>1, <2>5, <2>6, <2>7, <2>8
  <1>. QED
    BY <1>2, <1>3

\* BuildIRForLoopWhile keeps the invariant: the test's block is made before the body.
LEMMA WhileStep ==
  ASSUME NEW x, NEW rest, NEW b, Given(x, rest, b), x.op = "for"
  PROVE  LET l == b.lastBlock
             loop == [node |-> x, reg |-> b.lastRegister, test |-> l, body |-> l + 1,
                      next |-> l, end |-> l + 2]
             p == AllocateRegister(AllocateBlocks(b, 3))
         IN  LoweringInv((Condition(x, loop.reg) \o <<[op |-> "test", loop |-> loop]>>) \o rest,
                         Terminate(Push(p, Jmp(l)), l))
  <1>1. x.op \in Statements \cup Plain /\ Enters(x) /\ x.op \notin InSwitch /\ x.op # "close"
        /\ \A m : Promises(x, m) = {}
    BY QuietIs DEF Statements
  <1>. PICK id, made, last, y, c, starts, own, others :
            Stands(x, rest, b, id, made, last, y, c, starts, own, others)
    BY <1>1, Stand
  <1>2. /\ OpenAt(b, b, starts, id, made, last) /\ starts \subseteq made /\ id \notin starts
        /\ y = Len(b.yields) /\ c = Len(b.defered) /\ Calm(rest) /\ EndsAway(rest)
        /\ y \in Nat /\ c \in Nat
        /\ last = b.lastBlock /\ id \in Below(last) /\ IsSequence(rest)
        /\ made \subseteq Below(last) /\ others = Unmade(last, made, id)
    BY <1>1 DEF Stands, Conditions
  <1>a. PICK body, end, n3, n4 : Next4(last, body, end, n3, n4)
    BY NextAre DEF Stands
  <1>b. PICK more : more = made \cup {id}
    OBVIOUS
  <1>3. /\ last \in Below(n3) /\ body \in Below(n3) /\ end \in Below(n3)
        /\ n3 \in Nat /\ last <= n3 /\ last # body /\ last # end /\ body # end
    BY <1>a DEF Next4
  <1>4. /\ last \notin more /\ last # id /\ last \notin made
        /\ body \notin others /\ end \notin others
        /\ Unmade(n3, more, last) = others \cup {body, end}
    BY <1>2, <1>a, <1>b DEF Next4, Unmade
  <1>c. PICK p : p = AllocateRegister(AllocateBlocks(b, 3))
    OBVIOUS
  <1>5. OpenAt(p, b, starts, id, made, n3)
    <2>1. n3 = last + 3
      BY <1>a DEF Next4
    <2>2. OpenAt(AllocateBlocks(b, 3), b, starts, id, made, n3)
      BY <1>2, <2>1, AllocateAt
    <2>. QED
      BY <1>c, <2>2, RegisterAt
  <1>d. PICK j, r : j = Jmp(last) /\ r = Terminate(Push(p, j), last)
    OBVIOUS
  <1>6. OpenAt(r, b, starts, last, more, n3)
    <2>1. IsTerminator(j) /\ Leads(j, n3)
      BY <1>3, <1>d, JmpIs
    <2>. QED
      BY <1>2, <1>3, <1>4, <1>5, <1>b, <1>d, <2>1, CloseAt
  <1>7. Work(rest, y, c, Below(n3), more, others, starts)
    <2>1. Beyond(made, last, others, more, n3)
      BY <1>2, <1>3, <1>b DEF Beyond, Unmade
    <2>. QED
      BY <1>1, <2>1, RestOf
  <1>e. PICK loop, t :
            /\ loop = [node |-> x, reg |-> b.lastRegister, test |-> last, body |-> body,
                       next |-> last, end |-> end]
            /\ t = [op |-> "test", loop |-> loop]
    OBVIOUS
  <1>8. /\ loop.node = x /\ loop.test = last /\ loop.body = body
        /\ loop.next = last /\ loop.end = end
    BY <1>e
  <1>9. LoopBlocks(loop) = {body, end}
    BY <1>3, <1>8 DEF LoopBlocks
  <1>10. LoopAt(loop, y, Below(n3), more, others)
    <2>1. PICK s \in BOOLEAN : (s => y > 0) /\ Kind(x, s, rest, Below(last))
      BY <1>2, KindAt
    <2>2. IsLoop(loop, s, Below(n3))
      BY <1>3, <1>8, <2>1 DEF IsLoop, Kind
    <2>3. LoopBlocks(loop) \cap others = {}
      BY <1>4, <1>9
    <2>. QED
      BY <1>4, <1>8, <2>1, <2>2, <2>3 DEF LoopAt
  <1>f. PICK q : q = (Condition(x, b.lastRegister) \o <<t>>) \o rest
    OBVIOUS
  <1>11. /\ Work(q, y, c, Below(n3), more, others \cup LoopBlocks(loop), starts)
         /\ Suits(q, loop.test, more)
         /\ EndsAway(rest) => EndsAway(q)
    <2>1. y \in Nat /\ c \in Nat /\ Calm(rest) /\ IsSequence(rest)
      BY <1>2
    <2>2. IsTest(t, loop)
      BY <1>e DEF IsTest
    <2>3. IsTested(q, x, b.lastRegister, t, rest)
      BY <1>f DEF IsTested
    <2>. QED
      BY <1>7, <1>10, <2>1, <2>2, <2>3, TestInFront
  <1>12. LoweringInv(q, r)
    <2>1. OpenOn(r, b, starts, last, more, n3) /\ starts \subseteq more
      BY <1>2, <1>6, <1>b DEF OpenAt, OpenOn
    <2>2. Work(q, Len(b.yields), Len(b.defered), Below(n3), more, Unmade(n3, more, last), starts)
      BY <1>2, <1>4, <1>9, <1>11
    <2>3. Suits(q, last, more) /\ EndsAway(q)
      BY <1>2, <1>8, <1>11
    <2>. QED
      BY <2>1, <2>2, <2>3, DoneOn
  <1>13. body = b.lastBlock + 1 /\ end = b.lastBlock + 2
    BY <1>2, <1>a DEF Next4
  <1>14. loop.reg = b.lastRegister
    BY <1>e
  <1>. QED
    BY <1>2, <1>12, <1>13, <1>14, <1>c, <1>d, <1>e, <1>f

\* BuildIRForLoopCStyle and BuildIRForIt do: four blocks, then the head of the loop.
LEMMA ForStep ==
  ASSUME NEW x, NEW rest, NEW b, Given(x, rest, b), x.op = "for"
  PROVE  LET l == b.lastBlock
             loop == [node |-> x, reg |-> b.lastRegister, test |-> l, body |-> l + 1,
                      next |-> l + 2, end |-> l + 3]
         IN  LoweringInv((x.init \o <<[op |-> "head", loop |-> loop]>>) \o rest,
                         AllocateRegister(AllocateBlocks(b, 4)))
  <1>1. x.op \in Statements \cup Plain /\ Enters(x) /\ x.op \notin InSwitch /\ x.op # "close"
        /\ \A m : Promises(x, m) = {}
    BY QuietIs DEF Statements
  <1>. PICK id, made, last, y, c, starts, own, others :
            Stands(x, rest, b, id, made, last, y, c, starts, own, others)
    BY <1>1, Stand
  <1>2. /\ OpenAt(b, b, starts, id, made, last) /\ starts \subseteq made /\ id \notin starts
        /\ y = Len(b.yields) /\ c = Len(b.defered) /\ Calm(rest) /\ EndsAway(rest)
        /\ y \in Nat /\ c \in Nat
        /\ last = b.lastBlock /\ id \in Below(last) /\ IsSequence(rest)
        /\ made \subseteq Below(last) /\ others = Unmade(last, made, id)
    BY <1>1 DEF Stands, Conditions
  <1>a. PICK body, next, end, n4 : Next4(last, body, next, end, n4)
    BY NextAre DEF Stands
  <1>3. /\ last \in Below(n4) /\ body \in Below(n4) /\ next \in Below(n4) /\ end \in Below(n4)
        /\ n4 \in Nat /\ last <= n4
        /\ last # body /\ last # next /\ last # end /\ body # end /\ next # body /\ next # end
    BY <1>a DEF Next4
  <1>4. /\ last \notin others /\ body \notin others /\ next \notin others /\ end \notin others
        /\ Unmade(n4, made, id) = others \cup {last, body, next, end}
    BY <1>2, <1>a DEF Next4, Unmade
  <1>b. PICK p : p = AllocateRegister(AllocateBlocks(b, 4))
    OBVIOUS
  <1>5. OpenAt(p, b, starts, id, made, n4)
    <2>1. n4 = last + 4
      BY <1>a DEF Next4
    <2>2. OpenAt(AllocateBlocks(b, 4), b, starts, id, made, n4)
      BY <1>2, <2>1, AllocateAt
    <2>. QED
      BY <1>b, <2>2, RegisterAt
  <1>6. Work(rest, y, c, Below(n4), made, others, starts)
    <2>1. Beyond(made, last, others, made, n4)
      BY <1>2, <1>3 DEF Beyond, Unmade
    <2>. QED
      BY <1>1, <2>1, RestOf
  <1>c. PICK loop, h :
            /\ loop = [node |-> x, reg |-> b.lastRegister, test |-> last, body |-> body,
                       next |-> next, end |-> end]
            /\ h = [op |-> "head", loop |-> loop]
    OBVIOUS
  <1>7. /\ loop.node = x /\ loop.test = last /\ loop.body = body
        /\ loop.next = next /\ loop.end = end
    BY <1>c
  <1>8. /\ h.op = "head" /\ h.loop = loop /\ h.op \notin InSwitch /\ h.op # "close"
        /\ h.op # "test" /\ h.op # "endBody" /\ Ordinary(h) /\ ~WhileEnd(h)
        /\ Promises(h, made) = {last, body, next, end}
    BY <1>7, <1>c DEF InSwitch, Ordinary, WhileEnd, Promises
  <1>d. PICK s \in BOOLEAN : (s => y > 0) /\ Kind(x, s, rest, Below(last))
    BY <1>2, KindAt
  <1>9. Links(h, rest, y, Below(n4), made, others)
    <2>1. EndsInTime(h, made, rest = << >>)
      BY <1>8 DEF EndsInTime
    <2>2. rest # << >> => Follows(h, rest[1], made)
      BY <1>2, <1>8, FollowsOrdinary DEF Calm
    <2>3. Stays(h, s, Below(n4))
      <3>1. IsLoop(loop, s, Below(n4)) /\ ~IsWhile(loop)
        BY <1>3, <1>7, <1>d DEF IsLoop, IsWhile, Kind
      <3>. QED
        BY <1>8, <3>1 DEF Stays
    <2>4. Promises(h, made) \cap others = {} /\ NoTest(rest)
      BY <1>2, <1>4, <1>8 DEF Calm
    <2>. QED
      BY <1>8, <1>d, <2>1, <2>2, <2>3, <2>4 DEF Links
  <1>10. /\ Work(Cons(h, rest), y, c, Below(n4), made, others \cup Promises(h, made), starts)
         /\ IsSequence(Cons(h, rest)) /\ Cons(h, rest) # << >> /\ Cons(h, rest)[1] = h
         /\ h.op # "test" /\ NoTest(rest) => NoTest(Cons(h, rest))
         /\ EndsAway(rest) => EndsAway(Cons(h, rest))
    BY <1>2, <1>6, <1>9, LinkInFront
  <1>e. PICK w, init : w = Cons(h, rest) /\ init = x.init
    OBVIOUS
  <1>11. /\ Work(w, y, c, Below(n4), made, Unmade(n4, made, id), starts)
         /\ Calm(w) /\ EndsAway(w)
    <2>1. Calm(w)
      BY <1>2, <1>8, <1>10, <1>e DEF Calm
    <2>. QED
      BY <1>2, <1>4, <1>8, <1>10, <1>e, <2>1
  <1>12. IsSequence(init) /\ Precedes(init, s, w)
    <2>1. init \in Seq(Ongoing[s])
      BY <1>d, <1>e DEF Kind
    <2>. QED
      BY <2>1, OngoingPrecedes
  <1>13. /\ Work(init \o w, y, c, Below(n4), made, Unmade(n4, made, id), starts)
         /\ Calm(init \o w) /\ EndsAway(init \o w)
    BY <1>2, <1>11, <1>12, <1>d, BodyWork
  <1>14. LoweringInv(init \o w, p)
    BY <1>2, <1>5, <1>13, Done
  <1>15. (init \o <<h>>) \o rest = init \o w
    <2>1. IsSequence(init) /\ IsSequence(rest)
      BY <1>2, <1>12
    <2>2. (init \o <<h>>) \o rest = init \o Cons(h, rest)
      BY <2>1, BodyThen
    <2>. QED
      BY <1>e, <2>2
  <1>16. body = b.lastBlock + 1 /\ next = b.lastBlock + 2 /\ end = b.lastBlock + 3
    BY <1>2, <1>a DEF Next4
  <1>. QED
    BY <1>2, <1>14, <1>15, <1>16, <1>b, <1>c, <1>e

\* LoopHead does: the test's block is opened.
LEMMA HeadStep ==
  ASSUME NEW x, NEW rest, NEW b, Given(x, rest, b), x.op = "head"
  PROVE  LoweringInv((Condition(x.loop.node, x.loop.reg) \o <<[op |-> "test", loop |-> x.loop]>>)
                        \o rest,
                     Terminate(Push(b, Jmp(x.loop.test)), x.loop.test))
  <1>1. /\ Enters(x) /\ x.op \notin InSwitch /\ x.op # "close" /\ x.op \notin Conditions
        /\ \A m : Promises(x, m) = {x.loop.test, x.loop.body, x.loop.next, x.loop.end}
    BY DEF Enters, IsBetween, WhileEnd, InSwitch, Conditions, Promises
  <1>. PICK id, made, last, y, c, starts, own, others :
            Stands(x, rest, b, id, made, last, y, c, starts, own, others)
    BY <1>1, Stand
  <1>a. PICK loop, test : loop = x.loop /\ test = loop.test
    OBVIOUS
  <1>2. /\ OpenAt(b, b, starts, id, made, last) /\ starts \subseteq made /\ id \notin starts
        /\ y = Len(b.yields) /\ c = Len(b.defered) /\ Calm(rest) /\ EndsAway(rest)
        /\ y \in Nat /\ c \in Nat
        /\ last = b.lastBlock /\ id \in Below(last) /\ IsSequence(rest) /\ last \in Nat
        /\ made \subseteq Below(last) /\ id \notin made
        /\ own = {test, loop.body, loop.next, loop.end} /\ own \subseteq Unmade(last, made, id)
        /\ others = Unmade(last, made, id) \ own
    BY <1>1, <1>a DEF Stands
  <1>b. PICK more : more = made \cup {id}
    OBVIOUS
  <1>c. PICK s \in BOOLEAN : (s => y > 0) /\ Kind(x, s, rest, Below(last))
    BY <1>2, KindAt
  <1>3. IsLoop(loop, s, Below(last)) /\ ~IsWhile(loop)
    BY <1>a, <1>c DEF Kind
  <1>4. /\ test \in Below(last) /\ test \notin more /\ test \notin made /\ test # id
        /\ LoopBlocks(loop) \cap others = {}
        /\ Unmade(last, more, test) = others \cup LoopBlocks(loop)
    BY <1>2, <1>3, <1>a, <1>b DEF Unmade, LoopBlocks, IsLoop, IsWhile
  <1>d. PICK j, r : j = Jmp(test) /\ r = Terminate(Push(b, j), test)
    OBVIOUS
  <1>5. OpenAt(r, b, starts, test, more, last)
    <2>1. IsTerminator(j) /\ Leads(j, last)
      BY <1>4, <1>d, JmpIs
    <2>. QED
      BY <1>2, <1>4, <1>b, <1>d, <2>1, CloseAt
  <1>6. Work(rest, y, c, Below(last), more, others, starts)
    <2>1. Beyond(made, last, others, more, last)
      BY <1>2, <1>b DEF Beyond, Unmade
    <2>. QED
      BY <1>1, <2>1, RestOf
  <1>7. LoopAt(loop, y, Below(last), more, others)
    BY <1>3, <1>4, <1>a, <1>c DEF LoopAt
  <1>e. PICK node, reg, t, q :
            /\ node = loop.node /\ reg = loop.reg
            /\ t = [op |-> "test", loop |-> loop] /\ q = (Condition(node, reg) \o <<t>>) \o rest
    OBVIOUS
  <1>8. /\ Work(q, y, c, Below(last), more, others \cup LoopBlocks(loop), starts)
        /\ Suits(q, loop.test, more)
        /\ EndsAway(rest) => EndsAway(q)
    <2>1. y \in Nat /\ c \in Nat /\ Calm(rest) /\ IsSequence(rest)
      BY <1>2
    <2>2. IsTest(t, loop)
      BY <1>e DEF IsTest
    <2>3. IsTested(q, node, reg, t, rest)
      BY <1>e DEF IsTested
    <2>. QED
      BY <1>6, <1>7, <2>1, <2>2, <2>3, TestInFront
  <1>9. LoweringInv(q, r)
    <2>1. OpenOn(r, b, starts, test, more, last) /\ starts \subseteq more
      BY <1>2, <1>5, <1>b DEF OpenAt, OpenOn
    <2>2. Work(q, Len(b.yields), Len(b.defered), Below(last), more, Unmade(last, more, test), starts)
      BY <1>2, <1>4, <1>8
    <2>3. Suits(q, test, more) /\ EndsAway(q)
      BY <1>2, <1>8, <1>a
    <2>. QED
      BY <2>1, <2>2, <2>3, DoneOn
  <1>. QED
    BY <1>9, <1>a, <1>d, <1>e

\* Only the open scopes and switches are the same.
Kin(b, p) == p.yields = b.yields /\ p.defered = b.defered

\* The targets of break and continue are set in an open block.
LEMMA JumpsAt ==
  ASSUME NEW r, NEW b, NEW starts, NEW id, NEW made, NEW last,
         OpenAt(r, b, starts, id, made, last), NEW m \in Below(last), NEW n \in Below(last),
         NEW p, p = [r EXCEPT !.breakTo = m, !.continueTo = n]
  PROVE  OpenAt(p, p, starts, id, made, last) /\ Kin(b, p)
  <1>1. Building(r, starts) /\ Same(b, r) /\ r.lastBlock = last
    BY DEF OpenAt
  <1>2. m \in Numbers(r) /\ n \in Numbers(r)
    BY <1>1, Within
  <1>3. /\ Building(p, starts) /\ p.yields = r.yields /\ p.defered = r.defered
        /\ Made(p) = Made(r) /\ p.lastBlock = r.lastBlock /\ p.current = r.current
    BY ZenonT(60), <1>1, <1>2, JumpsIs
  <1>. QED
    BY <1>1, <1>3 DEF OpenAt, Same, Kin

\* A step after which other blocks are the targets of break and continue.
LEMMA DoneKin ==
  ASSUME NEW p, NEW b, NEW starts, NEW id, NEW made, NEW last,
         OpenAt(p, p, starts, id, made, last), Kin(b, p), starts \subseteq made, NEW q,
         Work(q, Len(b.yields), Len(b.defered), Below(last), made,
              Unmade(last, made, id), starts),
         Calm(q), EndsAway(q)
  PROVE  LoweringInv(q, p)
  <1>1. Work(q, Len(p.yields), Len(p.defered), Below(last), made, Unmade(last, made, id), starts)
    BY DEF Kin
  <1>. QED
    BY <1>1, Done

\* The item at which the body of a loop ends.
IsNext(n, s, nums, made, prom) ==
    /\ n.op \in {"next", "again"} /\ IsLoop(n.loop, s, nums)
    /\ n = [op |-> n.op, loop |-> n.loop, breakTo |-> n.breakTo, continueTo |-> n.continueTo]
    /\ {n.breakTo, n.continueTo} \subseteq nums
    /\ n.loop.end \notin prom
    /\ WhileEnd(n) => n.loop.test \in made

\* The item at the end of a loop's body can be put in front of calm work.
LEMMA NextIn ==
  ASSUME NEW n, NEW s \in BOOLEAN, NEW nums, NEW made, NEW prom, IsNext(n, s, nums, made, prom),
         NEW y, s => y > 0, NEW rest, Calm(rest)
  PROVE  Links(n, rest, y, nums, made, prom)
  <1>1. n.op \notin InSwitch /\ n.op # "close" /\ n.op # "endBody" /\ n.op # "else"
    BY DEF InSwitch, IsNext
  <1>2. Promises(n, made) = {n.loop.end}
    BY <1>1 DEF Promises, IsNext
  <1>3. EndsInTime(n, made, rest = << >>)
    BY <1>1 DEF EndsInTime, IsNext
  <1>4. rest # << >> => Follows(n, rest[1], made)
    BY <1>1, FollowsOrdinary DEF Calm
  <1>5. Stays(n, s, nums)
    BY DEF Stays, IsNext
  <1>. QED
    BY <1>1, <1>2, <1>3, <1>4, <1>5 DEF Links, Calm, IsNext

\* LoopTest keeps the invariant: the branch into the body, and the body.
LEMMA TestStep ==
  ASSUME NEW x, NEW rest, NEW b, Given(x, rest, b), x.op = "test",
         NEW i, i \in {Jmp(x.loop.body), Branch(x.loop.reg, x.loop.body, x.loop.end)}
  PROVE  LoweringInv((x.loop.node.body \o
                        <<EndBody(x.loop.next),
                          [op |-> "next", loop |-> x.loop, breakTo |-> b.breakTo,
                           continueTo |-> b.continueTo]>>) \o rest,
                     [Terminate(Push(b, i), x.loop.body) EXCEPT !.breakTo = x.loop.end,
                                                                !.continueTo = x.loop.next])
  <1>1. /\ Enters(x) /\ x.op \notin InSwitch /\ x.op # "close" /\ x.op \notin Conditions
        /\ \A m : Promises(x, m) = LoopBlocks(x.loop)
    BY DEF Enters, IsBetween, WhileEnd, InSwitch, Conditions, Promises, LoopBlocks
  <1>. PICK id, made, last, y, c, starts, own, others :
            Stands(x, rest, b, id, made, last, y, c, starts, own, others)
    BY <1>1, Stand
  <1>a. PICK loop, body, next, end :
            loop = x.loop /\ body = loop.body /\ next = loop.next /\ end = loop.end
    OBVIOUS
  <1>2. /\ OpenAt(b, b, starts, id, made, last) /\ starts \subseteq made /\ id \notin starts
        /\ y = Len(b.yields) /\ c = Len(b.defered) /\ Calm(rest) /\ EndsAway(rest)
        /\ y \in Nat /\ c \in Nat
        /\ last = b.lastBlock /\ id \in Below(last) /\ IsSequence(rest) /\ last \in Nat
        /\ made \subseteq Below(last) /\ id \notin made /\ made = Made(b) /\ id = b.current.id
        /\ own = LoopBlocks(loop) /\ own \subseteq Unmade(last, made, id)
        /\ others = Unmade(last, made, id) \ own
    BY <1>1, <1>a DEF Stands
  <1>b. PICK more : more = made \cup {id}
    OBVIOUS
  <1>c. PICK s \in BOOLEAN : (s => y > 0) /\ Kind(x, s, rest, Below(last))
    BY <1>2, KindAt
  <1>3. IsLoop(loop, s, Below(last))
    BY <1>a, <1>c DEF Kind
  <1>4. IsWhile(loop) => loop.test \in more
    BY <1>2, <1>a, <1>b DEF Given, Ready
  <1>5. /\ body \in Below(last) /\ next \in Below(last) /\ end \in Below(last)
        /\ body # loop.test /\ end # loop.test /\ body # end /\ next # body /\ next # end
        /\ (next \in more <=> IsWhile(loop))
        /\ body \notin more /\ end \notin more /\ body # id /\ body \notin made
    <2>1. /\ {body, next, end} \subseteq Below(last)
          /\ body # loop.test /\ end # loop.test /\ body # end /\ next # body /\ next # end
      BY <1>3, <1>a DEF IsLoop
    <2>2. body \notin more /\ end \notin more /\ (next # loop.test => next \notin more)
      BY <1>2, <1>a, <1>b, <2>1 DEF LoopBlocks, Unmade
    <2>3. next \in more <=> IsWhile(loop)
      BY <1>4, <1>a, <2>2 DEF IsWhile
    <2>. QED
      BY <1>b, <2>1, <2>2, <2>3
  <1>6. /\ end \notin others /\ next \notin others \cup {end}
        /\ Unmade(last, more, body) = (others \cup {end}) \cup ({next} \ more)
    <2>1. own = {body, next, end} \ {loop.test}
      BY <1>2, <1>a DEF LoopBlocks
    <2>2. IsWhile(loop) <=> next = loop.test
      BY <1>a DEF IsWhile
    <2>. QED
      BY <1>2, <1>5, <1>b, <2>1, <2>2 DEF Unmade
  <1>d. PICK r, p : /\ r = Terminate(Push(b, i), body)
                    /\ p = [r EXCEPT !.breakTo = end, !.continueTo = next]
    OBVIOUS
  <1>7. OpenAt(r, b, starts, body, more, last)
    <2>1. CASE i = Jmp(body)
      <3>1. IsTerminator(i) /\ Leads(i, last)
        BY <1>5, <2>1, JmpIs
      <3>. QED
        BY <1>2, <1>5, <1>b, <1>d, <3>1, CloseAt
    <2>2. CASE i = Branch(x.loop.reg, body, end)
      <3>1. IsTerminator(i) /\ Leads(i, last)
        BY <1>5, <2>2, BranchIs
      <3>. QED
        BY <1>2, <1>5, <1>b, <1>d, <3>1, CloseAt
    <2>. QED
      BY <1>a, <2>1, <2>2
  <1>8. OpenAt(p, p, starts, body, more, last) /\ Kin(b, p)
    BY <1>5, <1>7, <1>d, JumpsAt
  <1>9. Work(rest, y, c, Below(last), more, others, starts)
    <2>1. Beyond(made, last, others, more, last)
      BY <1>2, <1>b DEF Beyond, Unmade
    <2>. QED
      BY <1>1, <2>1, RestOf
  <1>e. PICK n : n = [op |-> "next", loop |-> loop, breakTo |-> b.breakTo,
                      continueTo |-> b.continueTo]
    OBVIOUS
  <1>10. /\ n.op = "next" /\ n.loop = loop /\ n.op # "else" /\ n.op # "test"
         /\ n.breakTo = b.breakTo /\ n.continueTo = b.continueTo
         /\ (WhileEnd(n) <=> IsWhile(loop)) /\ Promises(n, more) = {end}
    BY <1>a, <1>e DEF WhileEnd, Promises, InSwitch
  <1>11. Links(n, rest, y, Below(last), more, others)
    <2>1. n = [op |-> n.op, loop |-> n.loop, breakTo |-> n.breakTo, continueTo |-> n.continueTo]
      BY <1>10, <1>e
    <2>2. {n.breakTo, n.continueTo} \subseteq Below(last)
      <3>1. Building(b, starts)
        BY <1>2 DEF OpenAt
      <3>. QED
        BY <1>2, <1>10, <3>1, Within
    <2>3. n.op \in {"next", "again"} /\ IsLoop(n.loop, s, Below(last)) /\ n.loop.end \notin others
          /\ (WhileEnd(n) => n.loop.test \in more)
      BY <1>3, <1>4, <1>6, <1>10, <1>a
    <2>4. IsNext(n, s, Below(last), more, others)
      BY <2>1, <2>2, <2>3 DEF IsNext
    <2>5. Calm(rest) /\ (s => y > 0)
      BY <1>2, <1>c
    <2>. QED
      BY <2>4, <2>5, NextIn
  <1>12. /\ Work(Cons(n, rest), y, c, Below(last), more, others \cup Promises(n, more), starts)
         /\ IsSequence(Cons(n, rest)) /\ Cons(n, rest) # << >> /\ Cons(n, rest)[1] = n
         /\ n.op # "test" /\ NoTest(rest) => NoTest(Cons(n, rest))
         /\ EndsAway(rest) => EndsAway(Cons(n, rest))
    BY <1>2, <1>9, <1>11, LinkInFront
  <1>f. PICK q, u, w, stats : /\ q = Cons(n, rest) /\ u = EndBody(next) /\ w = Cons(u, q)
                              /\ stats = loop.node.body
    OBVIOUS
  <1>13. /\ Work(q, y, c, Below(last), more, others \cup {end}, starts) /\ NoTest(q) /\ EndsAway(q)
    BY <1>2, <1>10, <1>12, <1>f DEF Calm
  <1>14. Meets(q, next, more)
    <2>1. q # << >> /\ q[1] = n /\ n.op \notin {"case", "values", "strings"}
      BY <1>10, <1>12, <1>f
    <2>2. next \in more => WhileEnd(n)
      BY <1>5, <1>10
    <2>3. WhileEnd(n) => n.loop.test = next
      BY <1>10, <1>a DEF IsWhile
    <2>. QED
      BY <1>10, <2>1, <2>2, <2>3 DEF Meets
  <1>15. /\ Work(stats \o Cons(EndBody(next), q), y, c, Below(last), more,
                 (others \cup {end}) \cup ({next} \ more), starts)
         /\ Calm(stats \o Cons(EndBody(next), q)) /\ IsSequence(stats)
         /\ EndsAway(q) => EndsAway(stats \o Cons(EndBody(next), q))
    <2>1. y \in Nat /\ c \in Nat /\ next \in Below(last) /\ (s => y > 0)
      BY <1>2, <1>5, <1>c
    <2>2. Unclaimed(next, more, others \cup {end})
      BY <1>6 DEF Unclaimed
    <2>3. IsBody(stats, s)
      BY <1>3, <1>f DEF IsLoop
    <2>4. Work(q, y, c, Below(last), more, others \cup {end}, starts) /\ NoTest(q)
      BY <1>13
    <2>. QED
      BY <1>14, <2>1, <2>2, <2>3, <2>4, BodyToEnd
  <1>16. LoweringInv(stats \o w, p)
    <2>1. Work(stats \o w, Len(b.yields), Len(b.defered), Below(last), more,
               Unmade(last, more, body), starts)
      BY <1>2, <1>6, <1>15, <1>f
    <2>2. Calm(stats \o w) /\ EndsAway(stats \o w) /\ starts \subseteq more
      BY <1>2, <1>13, <1>15, <1>b, <1>f
    <2>. QED
      BY <1>8, <2>1, <2>2, DoneKin
  <1>17. BodyAndTwo(stats, u, n, rest) = stats \o w
    <2>1. IsSequence(stats) /\ IsSequence(rest)
      BY <1>2, <1>15
    <2>2. BodyAndTwo(stats, u, n, rest) = stats \o Cons(u, Cons(n, rest))
      BY <2>1, BodyThenTwo
    <2>. QED
      BY <1>f, <2>2
  <1>18. LoweringInv((stats \o <<u, n>>) \o rest, p)
    BY <1>16, <1>17 DEF BodyAndTwo
  <1>. QED
    BY <1>18, <1>a, <1>d, <1>e, <1>f

\* The targets of the outer loop come back.
LEMMA LoopEndAt ==
  ASSUME NEW r, NEW b, NEW starts, NEW made, NEW last, NEW end, NEW was, Building(r, starts),
         Same(b, r), Made(r) = made, r.lastBlock = last, end \in Below(last), end \notin made,
         was.breakTo \in Below(last), was.continueTo \in Below(last),
         NEW p, p = LoopEnd(r, end, was)
  PROVE  OpenAt(p, p, starts, end, made, last) /\ Kin(b, p)
  <1>1. r = [current |-> r.current, blocks |-> r.blocks, defered |-> r.defered,
             yields |-> r.yields, breakTo |-> r.breakTo, continueTo |-> r.continueTo,
             lastBlock |-> r.lastBlock, lastRegister |-> r.lastRegister,
             asserted |-> r.asserted]
    BY DEF Building, IsBuilder
  <1>a. PICK c, m, n : c = NewBlock(end) /\ m = was.breakTo /\ n = was.continueTo
    OBVIOUS
  <1>2. p = [current |-> c, blocks |-> r.blocks, defered |-> r.defered, yields |-> r.yields,
             breakTo |-> m, continueTo |-> n, lastBlock |-> r.lastBlock,
             lastRegister |-> r.lastRegister, asserted |-> r.asserted]
    <2>1. p = [r EXCEPT !.current = c, !.breakTo = m, !.continueTo = n]
      BY <1>a DEF LoopEnd
    <2>. QED
      BY <1>1, <2>1
  <1>3. /\ p.current = c /\ p.blocks = r.blocks /\ p.defered = r.defered /\ p.yields = r.yields
        /\ p.breakTo = m /\ p.continueTo = n /\ p.lastBlock = r.lastBlock
        /\ p.asserted = r.asserted /\ IsBuilder(p)
    BY <1>2 DEF IsBuilder
  <1>4. /\ Numbers(r) = Below(last) /\ last \in Nat
        /\ r.yields \in Seq(Numbers(r)) /\ r.defered \in Seq(Seq(Seq(Ongoing[FALSE])))
    BY Within
  <1>5. Numbers(p) = Numbers(r) /\ last <= last
    BY <1>3, <1>4 DEF Numbers
  <1>6. /\ IsBlock(c) /\ c.id = end /\ c.terminated = FALSE /\ Open(c.code)
        /\ LeadTo(c.code, Numbers(p))
    BY <1>a, NewBlockIs
  <1>7. Building(p, starts) /\ Made(p) = Made(r)
    <2>1. /\ p.lastBlock \in Nat /\ r.lastBlock <= p.lastBlock
          /\ p.blocks = r.blocks /\ p.asserted = r.asserted /\ IsBuilder(p)
      BY <1>3, <1>4, <1>5
    <2>2. /\ IsBlock(p.current) /\ p.current.id \in Numbers(p) /\ LeadTo(p.current.code, Numbers(p))
          /\ p.breakTo \in Numbers(p) /\ p.continueTo \in Numbers(p)
          /\ p.yields \in Seq(Numbers(p)) /\ p.defered \in Seq(Seq(Seq(Ongoing[FALSE])))
      BY <1>3, <1>4, <1>5, <1>6, <1>a
    <2>. QED
      BY <2>1, <2>2, BuildingWith
  <1>. QED
    BY <1>3, <1>6, <1>7 DEF OpenAt, Kin, Same

\* WhileEnds keeps the invariant: the block that the body's end left is thrown away.
LEMMA WhileEndStep ==
  ASSUME NEW x, NEW rest, NEW b, Given(x, rest, b), x.op = "next", IsWhile(x.loop)
  PROVE  LoweringInv(rest, LoopEnd(b, x.loop.end, x))
  <1>1. /\ WhileEnd(x) /\ x.op \notin InSwitch /\ x.op # "close" /\ x.op \notin Conditions
        /\ x.op # "endBody"
    BY DEF WhileEnd, InSwitch, Conditions
  <1>a. PICK id, made, last, starts, end :
            /\ id = b.current.id /\ made = Made(b) /\ last = b.lastBlock
            /\ starts = Starts(rest) /\ end = x.loop.end
    OBVIOUS
  <1>2. StartOf(x) = {} /\ Promises(x, made) = {end}
    BY <1>1, <1>a DEF StartOf, Promises
  <1>3. /\ Building(b, starts) /\ id \in made /\ starts \subseteq made
        /\ end \in Free(b) /\ Calm(rest)
    <2>1. StartOf(x) \cup Starts(rest) = starts
      BY <1>2, <1>a
    <2>2. Calm(rest)
      BY <1>1, RestIs DEF Given
    <2>. QED
      BY <1>1, <1>2, <1>a, <2>1, <2>2 DEF Given, Ready
  <1>4. /\ Free(b) = Unmade(last, made, id) /\ last \in Nat
        /\ end \in Below(last) /\ end \notin made
        /\ Free(b) \ {end} = Unmade(last, made, end)
    <2>1. Free(b) = Unmade(last, made, id) /\ last \in Nat
      BY <1>3, <1>a, Within DEF Unmade
    <2>. QED
      BY <1>3, <2>1 DEF Unmade
  <1>5. Work(rest, Len(b.yields), Len(b.defered), Below(last), made, Unmade(last, made, end), starts)
    <2>1. Later(x, b, made, last)
      BY <1>2, <1>4, <1>a DEF Later, Unmade
    <2>2. Work(rest, Len(b.yields), Len(b.defered),
               Below(last), made, Free(b) \ Promises(x, Made(b)), Starts(rest))
      BY <1>1, <2>1, RestGoesOn
    <2>. QED
      BY <1>2, <1>4, <1>a, <2>2
  <1>6. PICK p : p = LoopEnd(b, end, x)
    OBVIOUS
  <1>7. OpenAt(p, p, starts, end, made, last) /\ Kin(b, p)
    <2>1. x.breakTo \in Below(last) /\ x.continueTo \in Below(last)
      <3>1. PICK s \in BOOLEAN : (s => Len(b.yields) > 0) /\ Kind(x, s, rest, Below(b.lastBlock))
        BY KindAt
      <3>. QED
        BY <1>a, <3>1 DEF Kind
    <2>2. Same(b, b)
      BY DEF Same
    <2>. QED
      BY <1>3, <1>4, <1>6, <1>a, <2>1, <2>2, LoopEndAt
  <1>8. EndsAway(rest)
    BY Leads0
  <1>9. LoweringInv(rest, p)
    BY <1>3, <1>5, <1>7, <1>8, DoneKin
  <1>. QED
    BY <1>6, <1>9, <1>a

\* LoopNext does: the increments, then the jump back.
LEMMA NextStep ==
  ASSUME NEW x, NEW rest, NEW b, Given(x, rest, b), x.op = "next", ~IsWhile(x.loop)
  PROVE  LoweringInv((x.loop.node.incr \o <<[x EXCEPT !.op = "again"]>>) \o rest, b)
  <1>1. /\ Enters(x) /\ x.op \notin InSwitch /\ x.op # "close" /\ x.op \notin Conditions
        /\ \A m : Promises(x, m) = {x.loop.end}
    BY DEF Enters, IsBetween, WhileEnd, InSwitch, Conditions, Promises
  <1>. PICK id, made, last, y, c, starts, own, others :
            Stands(x, rest, b, id, made, last, y, c, starts, own, others)
    BY <1>1, Stand
  <1>a. PICK loop, end : loop = x.loop /\ end = loop.end
    OBVIOUS
  <1>2. /\ OpenAt(b, b, starts, id, made, last) /\ starts \subseteq made
        /\ y = Len(b.yields) /\ c = Len(b.defered) /\ Calm(rest) /\ EndsAway(rest)
        /\ y \in Nat /\ c \in Nat /\ last \in Nat
        /\ last = b.lastBlock /\ IsSequence(rest)
        /\ own = {end} /\ own \subseteq Unmade(last, made, id)
        /\ others = Unmade(last, made, id) \ own
    BY <1>1, <1>a DEF Stands
  <1>3. Work(rest, y, c, Below(last), made, others, starts)
    <2>1. Beyond(made, last, others, made, last)
      BY <1>2 DEF Beyond, Unmade
    <2>. QED
      BY <1>1, <2>1, RestOf
  <1>4. Unmade(last, made, id) = others \cup {end} /\ end \notin others
    BY <1>2
  <1>c. PICK s \in BOOLEAN : (s => y > 0) /\ Kind(x, s, rest, Below(last))
    BY <1>2, KindAt
  <1>5. /\ x = [op |-> x.op, loop |-> x.loop, breakTo |-> x.breakTo, continueTo |-> x.continueTo]
        /\ {x.breakTo, x.continueTo} \subseteq Below(last) /\ IsLoop(loop, s, Below(last))
    BY <1>a, <1>c DEF Kind
  <1>e. PICK n : n = [x EXCEPT !.op = "again"]
    OBVIOUS
  <1>6. /\ n.op = "again" /\ n.loop = loop /\ n.breakTo = x.breakTo /\ n.continueTo = x.continueTo
        /\ n = [op |-> n.op, loop |-> n.loop, breakTo |-> n.breakTo, continueTo |-> n.continueTo]
    BY <1>5, <1>a, <1>e
  <1>7. ~WhileEnd(n) /\ Ordinary(n) /\ Promises(n, made) = {end} /\ n.op # "test"
    BY <1>6, <1>a DEF WhileEnd, Ordinary, Promises, InSwitch
  <1>8. Links(n, rest, y, Below(last), made, others)
    <2>1. IsNext(n, s, Below(last), made, others)
      BY <1>4, <1>5, <1>6, <1>7, <1>a DEF IsNext
    <2>2. Calm(rest) /\ (s => y > 0)
      BY <1>2, <1>c
    <2>. QED
      BY <2>1, <2>2, NextIn
  <1>9. /\ Work(Cons(n, rest), y, c, Below(last), made, others \cup Promises(n, made), starts)
        /\ IsSequence(Cons(n, rest)) /\ Cons(n, rest) # << >> /\ Cons(n, rest)[1] = n
        /\ n.op # "test" /\ NoTest(rest) => NoTest(Cons(n, rest))
        /\ EndsAway(rest) => EndsAway(Cons(n, rest))
    BY <1>2, <1>3, <1>8, LinkInFront
  <1>f. PICK w, incr : w = Cons(n, rest) /\ incr = loop.node.incr
    OBVIOUS
  <1>10. /\ Work(w, y, c, Below(last), made, Unmade(last, made, id), starts)
         /\ Calm(w) /\ EndsAway(w)
    <2>1. Calm(w)
      BY <1>2, <1>7, <1>9, <1>f DEF Calm
    <2>. QED
      BY <1>2, <1>4, <1>7, <1>9, <1>f, <2>1
  <1>11. IsSequence(incr) /\ Precedes(incr, s, w)
    <2>1. incr \in Seq(Ongoing[s])
      BY <1>5, <1>f DEF IsLoop
    <2>. QED
      BY <2>1, OngoingPrecedes
  <1>12. /\ Work(incr \o w, y, c, Below(last), made, Unmade(last, made, id), starts)
         /\ Calm(incr \o w) /\ EndsAway(incr \o w)
    BY <1>2, <1>10, <1>11, <1>c, BodyWork
  <1>13. LoweringInv(incr \o w, b)
    BY <1>2, <1>12, Done
  <1>14. (incr \o <<n>>) \o rest = incr \o w
    <2>1. IsSequence(incr) /\ IsSequence(rest)
      BY <1>2, <1>11
    <2>2. (incr \o <<n>>) \o rest = incr \o Cons(n, rest)
      BY <2>1, BodyThen
    <2>. QED
      BY <1>f, <2>2
  <1>. QED
    BY <1>13, <1>14, <1>a, <1>e, <1>f

\* LoopAgain does: the jump to the test.
LEMMA AgainStep ==
  ASSUME NEW x, NEW rest, NEW b, Given(x, rest, b), x.op = "again"
  PROVE  LoweringInv(rest, LoopEnd(Terminate(Push(b, Jmp(x.loop.test)), x.loop.end), x.loop.end, x))
  <1>1. /\ Enters(x) /\ x.op \notin InSwitch /\ x.op # "close" /\ x.op \notin Conditions
        /\ \A m : Promises(x, m) = {x.loop.end}
    BY DEF Enters, IsBetween, WhileEnd, InSwitch, Conditions, Promises
  <1>. PICK id, made, last, y, c, starts, own, others :
            Stands(x, rest, b, id, made, last, y, c, starts, own, others)
    BY <1>1, Stand
  <1>a. PICK loop, end, test : loop = x.loop /\ end = loop.end /\ test = loop.test
    OBVIOUS
  <1>2. /\ OpenAt(b, b, starts, id, made, last) /\ starts \subseteq made /\ id \notin starts
        /\ y = Len(b.yields) /\ c = Len(b.defered) /\ Calm(rest) /\ EndsAway(rest)
        /\ last = b.lastBlock /\ last \in Nat
        /\ own = {end} /\ own \subseteq Unmade(last, made, id)
        /\ others = Unmade(last, made, id) \ own
    BY <1>1, <1>a DEF Stands
  <1>b. PICK more : more = made \cup {id}
    OBVIOUS
  <1>c. PICK s \in BOOLEAN : (s => y > 0) /\ Kind(x, s, rest, Below(last))
    BY <1>2, KindAt
  <1>3. /\ x.breakTo \in Below(last) /\ x.continueTo \in Below(last)
        /\ test \in Below(last) /\ end \in Below(last)
    BY <1>a, <1>c DEF Kind, IsLoop
  <1>4. /\ end \notin more /\ end \notin made /\ end # id
        /\ others = Unmade(last, more, end) /\ starts \subseteq more
    BY <1>2, <1>b DEF Unmade
  <1>d. PICK j, r : j = Jmp(test) /\ r = Terminate(Push(b, j), end)
    OBVIOUS
  <1>5. OpenAt(r, b, starts, end, more, last)
    <2>1. IsTerminator(j) /\ Leads(j, last)
      BY <1>3, <1>d, JmpIs
    <2>. QED
      BY <1>2, <1>3, <1>4, <1>b, <1>d, <2>1, CloseAt
  <1>e. PICK p : p = LoopEnd(r, end, x)
    OBVIOUS
  <1>6. OpenAt(p, p, starts, end, more, last) /\ Kin(b, p)
    <2>1. Building(r, starts) /\ Same(b, r) /\ Made(r) = more /\ r.lastBlock = last
      BY <1>5 DEF OpenAt
    <2>. QED
      BY <1>3, <1>4, <1>e, <2>1, LoopEndAt
  <1>7. Work(rest, Len(b.yields), Len(b.defered), Below(last), more, Unmade(last, more, end), starts)
    <2>1. Beyond(made, last, others, more, last)
      BY <1>2, <1>b DEF Beyond, Unmade
    <2>2. Work(rest, y, c, Below(last), more, others, starts)
      BY <1>1, <2>1, RestOf
    <2>. QED
      BY <1>2, <1>4, <2>2
  <1>8. LoweringInv(rest, p)
    BY <1>2, <1>4, <1>6, <1>7, DoneKin
  <1>. QED
    BY <1>8, <1>a, <1>d, <1>e

-----------------------------------------------------------------------------
(* The steps: conditions                                                   *)

\* Ordinary work suits a block that is not made.
LEMMA OrdinarySuits ==
  ASSUME NEW q, q # << >> => Ordinary(q[1]), NEW id, NEW made, id \notin made,
         TestsMade(q, made \cup {id})
  PROVE  Suits(q, id, made)
  BY DEF Suits, Ordinary, ComesBack, First, Between

\* The tests behind x are made as they were.
LEMMA TestsStay ==
  ASSUME NEW x, NEW rest, NEW b, Given(x, rest, b), NEW id, NEW made, NEW last, NEW y, NEW c,
         NEW starts, NEW own, NEW others,
         Stands(x, rest, b, id, made, last, y, c, starts, own, others), NEW all,
         made \cup {id} \subseteq all
  PROVE  TestsMade(rest, all)
  <1>1. TestsMade(rest, made \cup {id})
    BY DEF Stands, Given, Ready
  <1>. QED
    BY <1>1 DEF TestsMade

\* The item of a condition can be put in front.
Chosen(e, y, nums, made, prom) ==
    /\ e.op \in Conditions
    /\ \E s \in BOOLEAN : (s => y > 0) /\ Stays(e, s, nums)
    /\ Promises(e, made) \cap prom = {}

\* The item of a condition, in front of work.
LEMMA ConditionFirst ==
  ASSUME NEW e, NEW q, NEW y \in Nat, NEW c \in Nat, NEW nums, NEW made, NEW prom, NEW starts,
         Work(q, y, c, nums, made, prom, starts), IsSequence(q), q # << >> => Ordinary(q[1]),
         Chosen(e, y, nums, made, prom), NEW all, TestsMade(q, all)
  PROVE  /\ Work(Cons(e, q), y, c, nums, made, prom \cup Promises(e, made), starts)
         /\ IsSequence(Cons(e, q)) /\ TestsMade(Cons(e, q), all)
         /\ Cons(e, q) # << >> /\ Cons(e, q)[1] = e /\ Ordinary(e)
         /\ EndsAway(q) => EndsAway(Cons(e, q))
  <1>1. /\ e.op \notin InSwitch /\ e.op # "close" /\ e.op # "endBody" /\ e.op # "test"
        /\ Ordinary(e) /\ ~WhileEnd(e)
    BY DEF Chosen, Conditions, InSwitch, Ordinary, WhileEnd
  <1>2. Links(e, q, y, nums, made, prom)
    <2>1. EndsInTime(e, made, q = << >>)
      BY <1>1 DEF EndsInTime
    <2>2. q # << >> => Follows(e, q[1], made)
      BY <1>1, FollowsOrdinary
    <2>. QED
      BY <1>1, <2>1, <2>2 DEF Links, Chosen
  <1>3. /\ Work(Cons(e, q), y, c, nums, made, prom \cup Promises(e, made), starts)
        /\ IsSequence(Cons(e, q)) /\ Cons(e, q) # << >> /\ Cons(e, q)[1] = e
        /\ EndsAway(q) => EndsAway(Cons(e, q))
    BY <1>2, LinkInFront
  <1>4. TestsMade(Cons(e, q), all)
    BY <1>1, TestsCons
  <1>. QED
    BY <1>1, <1>3, <1>4

\* The evaluation of an operand, in front of it.
LEMMA EvaluateFirst ==
  ASSUME NEW cond, NEW reg, NEW v, v = Evaluate(cond, reg), NEW q, NEW y \in Nat, NEW c \in Nat,
         NEW nums, NEW made, NEW prom, NEW starts,
         Work(q, y, c, nums, made, prom, starts), IsSequence(q), q # << >> => Ordinary(q[1]),
         NEW id, id \notin made, TestsMade(q, made \cup {id})
  PROVE  /\ Work(Cons(v, q), y, c, nums, made, prom, starts)
         /\ Suits(Cons(v, q), id, made)
         /\ EndsAway(q) => EndsAway(Cons(v, q))
  <1>1. v.op = "expr" /\ Stays(v, FALSE, nums)
    BY EvaluateIs
  <1>2. Promises(v, made) = {}
    BY <1>1 DEF Promises, InSwitch
  <1>3. Chosen(v, y, nums, made, prom)
    BY <1>1, <1>2 DEF Chosen, Conditions
  <1>. PICK all : all = made \cup {id}
    OBVIOUS
  <1>4. /\ Work(Cons(v, q), y, c, nums, made, prom \cup Promises(v, made), starts)
        /\ IsSequence(Cons(v, q)) /\ TestsMade(Cons(v, q), all)
        /\ Cons(v, q) # << >> /\ Cons(v, q)[1] = v /\ Ordinary(v)
        /\ EndsAway(q) => EndsAway(Cons(v, q))
    BY <1>3, ConditionFirst
  <1>5. prom \cup Promises(v, made) = prom
    BY <1>2
  <1>6. Suits(Cons(v, q), id, made)
    BY <1>4, OrdinarySuits
  <1>. QED
    BY <1>4, <1>5, <1>6

\* LowerAtom keeps the invariant.
LEMMA AtomStep ==
  ASSUME NEW x, NEW rest, NEW b, Given(x, rest, b), x.op = "expr",
         NEW i, ~IsTerminator(i), Targets(i) = {}
  PROVE  LoweringInv(rest, Push(b, i))
  <1>1. x.op \in Statements \cup Plain /\ Enters(x) /\ x.op \notin InSwitch /\ x.op # "close"
    BY QuietIs DEF Plain
  <1>. PICK id, made, last, y, c, starts, own, others :
            Stands(x, rest, b, id, made, last, y, c, starts, own, others)
    BY <1>1, Stand
  <1>2. /\ OpenAt(b, b, starts, id, made, last) /\ starts \subseteq made /\ id \notin made
        /\ y = Len(b.yields) /\ c = Len(b.defered) /\ EndsAway(rest)
        /\ (rest # << >> => Ordinary(rest[1]))
    BY DEF Stands
  <1>3. OpenAt(Push(b, i), b, starts, id, made, last)
    BY <1>2, PushAt
  <1>4. Work(rest, y, c, Below(last), made, Unmade(last, made, id), starts)
    BY <1>1, Kept
  <1>5. Suits(rest, id, made)
    <2>1. TestsMade(rest, made \cup {id})
      BY TestsStay
    <2>. QED
      BY <1>2, <2>1, OrdinarySuits
  <1>6. OpenOn(Push(b, i), b, starts, id, made, last)
    BY <1>3 DEF OpenAt, OpenOn
  <1>7. Work(rest, Len(b.yields), Len(b.defered), Below(last), made, Unmade(last, made, id), starts)
    BY <1>2, <1>4
  <1>. QED
    BY <1>2, <1>5, <1>6, <1>7, DoneOn

\* LowerLeft does: four blocks are given, the left operand comes first.
LEMMA LeftStep ==
  ASSUME NEW x, NEW rest, NEW b, Given(x, rest, b), x.op = "expr"
  PROVE  LoweringInv(<<Evaluate(x.cond.left, x.reg),
                       [op |-> "right", cond |-> x.cond, reg |-> x.reg, true |-> b.lastBlock]>>
                        \o rest, AllocateBlocks(b, 4))
  <1>1. x.op \in Statements \cup Plain /\ Enters(x) /\ x.op \notin InSwitch /\ x.op # "close"
        /\ \A m : Promises(x, m) = {}
    BY QuietIs DEF Plain
  <1>. PICK id, made, last, y, c, starts, own, others :
            Stands(x, rest, b, id, made, last, y, c, starts, own, others)
    BY <1>1, Stand
  <1>2. /\ OpenAt(b, b, starts, id, made, last) /\ starts \subseteq made /\ id \notin made
        /\ y = Len(b.yields) /\ c = Len(b.defered) /\ EndsAway(rest)
        /\ y \in Nat /\ c \in Nat /\ id \in Below(last) /\ made \subseteq Below(last)
        /\ (rest # << >> => Ordinary(rest[1])) /\ last = b.lastBlock /\ IsSequence(rest)
        /\ others = Unmade(last, made, id)
    BY <1>1 DEF Stands
  <1>a. PICK n1, n2, n3, n4 : Next4(last, n1, n2, n3, n4)
    BY NextAre DEF Stands
  <1>3. /\ {last, n1, n2, n3} \subseteq Below(n4) /\ n4 \in Nat /\ last <= n4
        /\ n1 = last + 1 /\ n2 = last + 2 /\ n3 = last + 3 /\ n4 = last + 4
    BY <1>a DEF Next4
  <1>4. /\ {last, n1, n2, n3} \cap others = {}
        /\ Unmade(n4, made, id) = others \cup {last, n1, n2, n3}
    BY SMTT(60), <1>2, <1>a DEF Next4, Unmade
  <1>5. OpenAt(AllocateBlocks(b, 4), b, starts, id, made, n4)
    BY <1>2, <1>3, AllocateAt
  <1>6. Work(rest, y, c, Below(n4), made, others, starts)
    <2>1. Beyond(made, last, others, made, n4)
      BY <1>2, <1>3 DEF Beyond, Unmade
    <2>. QED
      BY <1>1, <2>1, RestOf
  <1>b. PICK e, v : /\ e = [op |-> "right", cond |-> x.cond, reg |-> x.reg, true |-> last]
                    /\ v = Evaluate(x.cond.left, x.reg)
    OBVIOUS
  <1>7. /\ e.op = "right" /\ e.true = last
        /\ e = [op |-> e.op, cond |-> e.cond, reg |-> e.reg, true |-> e.true]
    BY <1>b
  <1>8. Promises(e, made) = {last, n1, n2, n3}
    BY <1>3, <1>7 DEF Promises, InSwitch
  <1>9. Chosen(e, y, Below(n4), made, others)
    <2>1. Stays(e, FALSE, Below(n4))
      BY <1>3, <1>7 DEF Stays
    <2>. QED
      BY <1>4, <1>7, <1>8, <2>1 DEF Chosen, Conditions
  <1>c. PICK all, q, w : all = made \cup {id} /\ q = Cons(e, rest) /\ w = Cons(v, q)
    OBVIOUS
  <1>10. /\ Work(Cons(e, rest), y, c, Below(n4), made, others \cup Promises(e, made), starts)
         /\ IsSequence(Cons(e, rest)) /\ TestsMade(Cons(e, rest), all)
         /\ Cons(e, rest) # << >> /\ Cons(e, rest)[1] = e /\ Ordinary(e)
         /\ EndsAway(rest) => EndsAway(Cons(e, rest))
    <2>1. TestsMade(rest, all)
      BY <1>c, TestsStay
    <2>2. y \in Nat /\ c \in Nat /\ (rest # << >> => Ordinary(rest[1])) /\ IsSequence(rest)
      BY <1>2
    <2>. QED
      BY <1>6, <1>9, <2>1, <2>2, ConditionFirst
  <1>11. /\ Work(q, y, c, Below(n4), made, Unmade(n4, made, id), starts)
         /\ IsSequence(q) /\ TestsMade(q, made \cup {id}) /\ (q # << >> => Ordinary(q[1]))
         /\ EndsAway(q)
    BY <1>2, <1>4, <1>8, <1>10, <1>c
  <1>12. /\ Work(w, y, c, Below(n4), made, Unmade(n4, made, id), starts)
         /\ Suits(w, id, made)
         /\ EndsAway(q) => EndsAway(w)
    <2>1. y \in Nat /\ c \in Nat /\ id \notin made /\ v = Evaluate(x.cond.left, x.reg)
      BY <1>2, <1>b
    <2>2. /\ Work(Cons(v, q), y, c, Below(n4), made, Unmade(n4, made, id), starts)
          /\ Suits(Cons(v, q), id, made)
          /\ EndsAway(q) => EndsAway(Cons(v, q))
      BY <1>11, <2>1, EvaluateFirst
    <2>. QED
      BY <1>c, <2>2
  <1>13. LoweringInv(w, AllocateBlocks(b, 4))
    <2>1. OpenOn(AllocateBlocks(b, 4), b, starts, id, made, n4)
      BY <1>5 DEF OpenAt, OpenOn
    <2>2. Work(w, Len(b.yields), Len(b.defered), Below(n4), made, Unmade(n4, made, id), starts)
      BY <1>2, <1>12
    <2>. QED
      BY <1>2, <1>11, <1>12, <2>1, <2>2, DoneOn
  <1>14. <<v, e>> \o rest = w
    BY <1>2, <1>c, PairWork
  <1>. QED
    BY <1>2, <1>13, <1>14, <1>b

\* The four blocks of a condition that x is at, t and the next three.
LEMMA FourBlocks ==
  ASSUME NEW x, NEW rest, NEW b, Given(x, rest, b), x.op \in {"right", "merge"}
  PROVE  \E t, n1, n2, n3 :
            /\ t = x.true /\ n1 = x.true + 1 /\ n2 = x.true + 2 /\ n3 = x.true + 3
            /\ {t, n1, n2, n3} \subseteq Below(b.lastBlock)
            /\ t # n1 /\ t # n2 /\ t # n3 /\ n1 # n2 /\ n1 # n3 /\ n2 # n3
            /\ x = [op |-> x.op, cond |-> x.cond, reg |-> x.reg, true |-> t]
  <1>1. PICK s \in BOOLEAN : Kind(x, s, rest, Below(b.lastBlock))
    BY KindAt
  <1>2. /\ x = [op |-> x.op, cond |-> x.cond, reg |-> x.reg, true |-> x.true]
        /\ {x.true, x.true + 1, x.true + 2, x.true + 3} \subseteq Below(b.lastBlock)
    BY <1>1 DEF Kind
  <1>3. x.true \in Int
    BY <1>2 DEF Below
  <1>4. PICK t : t = x.true
    OBVIOUS
  <1>5. t # t + 1 /\ t # t + 2 /\ t # t + 3 /\ t + 1 # t + 2 /\ t + 1 # t + 3 /\ t + 2 # t + 3
    BY <1>3, <1>4
  <1>. QED
    BY <1>2, <1>4, <1>5

\* LowerRight does: the left operand decides, or the right one is evaluated.
LEMMA RightStep ==
  ASSUME NEW x, NEW rest, NEW b, Given(x, rest, b), x.op = "right",
         NEW i, i \in {Branch(x.reg, x.true + 2, x.true + 1), Branch(x.reg, x.true, x.true + 2)}
  PROVE  LoweringInv(<<Evaluate(x.cond.right, x.reg), [x EXCEPT !.op = "merge"]>> \o rest,
                     Terminate(Push(b, i), x.true + 2))
  <1>1. /\ Enters(x) /\ x.op \notin InSwitch /\ x.op # "close"
        /\ \A m : Promises(x, m) = {x.true, x.true + 1, x.true + 2, x.true + 3}
    BY DEF Enters, IsBetween, WhileEnd, InSwitch, Promises
  <1>. PICK id, made, last, y, c, starts, own, others :
            Stands(x, rest, b, id, made, last, y, c, starts, own, others)
    BY <1>1, Stand
  <1>a. PICK t, n1, n2, n3 :
            /\ t = x.true /\ n1 = x.true + 1 /\ n2 = x.true + 2 /\ n3 = x.true + 3
            /\ {t, n1, n2, n3} \subseteq Below(b.lastBlock)
            /\ t # n1 /\ t # n2 /\ t # n3 /\ n1 # n2 /\ n1 # n3 /\ n2 # n3
            /\ x = [op |-> x.op, cond |-> x.cond, reg |-> x.reg, true |-> t]
    BY FourBlocks
  <1>2. /\ OpenAt(b, b, starts, id, made, last) /\ starts \subseteq made /\ id \notin made
        /\ id \notin starts
        /\ y = Len(b.yields) /\ c = Len(b.defered) /\ EndsAway(rest)
        /\ y \in Nat /\ c \in Nat /\ id \in Below(last) /\ made \subseteq Below(last)
        /\ (rest # << >> => Ordinary(rest[1])) /\ last = b.lastBlock /\ IsSequence(rest)
        /\ last \in Nat
        /\ own = {t, n1, n2, n3} /\ own \subseteq Unmade(last, made, id)
        /\ others = Unmade(last, made, id) \ own
    BY <1>1, <1>a DEF Stands
  <1>b. PICK more : more = made \cup {id}
    OBVIOUS
  <1>3. /\ {t, n1, n2, n3} \subseteq Below(last) /\ {t, n1, n2, n3} \cap more = {}
        /\ n2 \notin more /\ n2 # id /\ n2 \notin made /\ starts \subseteq more
        /\ {t, n1, n3} \cap others = {}
        /\ Unmade(last, more, n2) = others \cup {t, n1, n3}
    BY <1>2, <1>a, <1>b DEF Unmade
  <1>c. PICK r : r = Terminate(Push(b, i), n2)
    OBVIOUS
  <1>4. OpenAt(r, b, starts, n2, more, last)
    <2>0. t \in Below(last) /\ n1 \in Below(last) /\ n2 \in Below(last)
      BY <1>3
    <2>1. CASE i = Branch(x.reg, n2, n1)
      <3>1. IsTerminator(i) /\ Leads(i, last)
        BY <2>0, <2>1, BranchIs
      <3>. QED
        BY <1>2, <1>3, <1>b, <1>c, <2>0, <3>1, CloseAt
    <2>2. CASE i = Branch(x.reg, t, n2)
      <3>1. IsTerminator(i) /\ Leads(i, last)
        BY <2>0, <2>2, BranchIs
      <3>. QED
        BY <1>2, <1>3, <1>b, <1>c, <2>0, <3>1, CloseAt
    <2>. QED
      BY <1>a, <2>1, <2>2
  <1>5. Work(rest, y, c, Below(last), more, others, starts)
    <2>1. Beyond(made, last, others, more, last)
      BY <1>2, <1>b DEF Beyond, Unmade
    <2>. QED
      BY <1>1, <2>1, RestOf
  <1>d. PICK e, v : e = [x EXCEPT !.op = "merge"] /\ v = Evaluate(x.cond.right, x.reg)
    OBVIOUS
  <1>6. /\ e.op = "merge" /\ e.true = t
        /\ e = [op |-> e.op, cond |-> e.cond, reg |-> e.reg, true |-> e.true]
    BY <1>a, <1>d
  <1>7. Promises(e, more) = {t, n1, n3}
    BY <1>6, <1>a DEF Promises, InSwitch
  <1>8. Chosen(e, y, Below(last), more, others)
    <2>1. Stays(e, FALSE, Below(last))
      BY <1>3, <1>6, <1>a DEF Stays
    <2>. QED
      BY <1>3, <1>6, <1>7, <2>1 DEF Chosen, Conditions
  <1>e. PICK all, q, w : all = more \cup {n2} /\ q = Cons(e, rest) /\ w = Cons(v, q)
    OBVIOUS
  <1>9. /\ Work(Cons(e, rest), y, c, Below(last), more, others \cup Promises(e, more), starts)
        /\ IsSequence(Cons(e, rest)) /\ TestsMade(Cons(e, rest), all)
        /\ Cons(e, rest) # << >> /\ Cons(e, rest)[1] = e /\ Ordinary(e)
        /\ EndsAway(rest) => EndsAway(Cons(e, rest))
    <2>1. TestsMade(rest, all)
      <3>1. made \cup {id} \subseteq all
        BY <1>b, <1>e
      <3>. QED
        BY <3>1, TestsStay
    <2>2. y \in Nat /\ c \in Nat /\ (rest # << >> => Ordinary(rest[1])) /\ IsSequence(rest)
      BY <1>2
    <2>. QED
      BY <1>5, <1>8, <2>1, <2>2, ConditionFirst
  <1>10. /\ Work(q, y, c, Below(last), more, Unmade(last, more, n2), starts)
         /\ IsSequence(q) /\ TestsMade(q, more \cup {n2}) /\ (q # << >> => Ordinary(q[1]))
         /\ EndsAway(q)
    BY <1>2, <1>3, <1>7, <1>9, <1>e
  <1>11. /\ Work(w, y, c, Below(last), more, Unmade(last, more, n2), starts)
         /\ Suits(w, n2, more)
         /\ EndsAway(q) => EndsAway(w)
    <2>1. y \in Nat /\ c \in Nat /\ n2 \notin more /\ v = Evaluate(x.cond.right, x.reg)
      BY <1>2, <1>3, <1>d
    <2>2. /\ Work(Cons(v, q), y, c, Below(last), more, Unmade(last, more, n2), starts)
          /\ Suits(Cons(v, q), n2, more)
          /\ EndsAway(q) => EndsAway(Cons(v, q))
      BY <1>10, <2>1, EvaluateFirst
    <2>. QED
      BY <1>e, <2>2
  <1>12. LoweringInv(w, r)
    <2>1. OpenOn(r, b, starts, n2, more, last)
      BY <1>4 DEF OpenAt, OpenOn
    <2>2. Work(w, Len(b.yields), Len(b.defered), Below(last), more, Unmade(last, more, n2), starts)
      BY <1>2, <1>11
    <2>. QED
      BY <1>3, <1>10, <1>11, <2>1, <2>2, DoneOn
  <1>13. <<v, e>> \o rest = w
    BY <1>2, <1>e, PairWork
  <1>. QED
    BY <1>12, <1>13, <1>a, <1>c, <1>d

\* The result is stored, and the block jumps to where the operands meet.
LEMMA ResultAt ==
  ASSUME NEW p, NEW b, NEW starts, NEW id, NEW made, NEW last,
         OpenAt(p, b, starts, id, made, last), id \notin starts, NEW reg, NEW value,
         NEW after \in Below(last), NEW to \in Below(last), to \notin made, to # id
  PROVE  OpenAt(Terminate(Push(Push(p, Store(reg, value)), Jmp(after)), to), b, starts, to,
                made \cup {id}, last)
  <1>1. OpenAt(Push(p, Store(reg, value)), b, starts, id, made, last)
    BY StoreIs, PushAt
  <1>. PICK r, j : r = Push(p, Store(reg, value)) /\ j = Jmp(after)
    OBVIOUS
  <1>2. IsTerminator(j) /\ Leads(j, last)
    BY JmpIs
  <1>. QED
    BY <1>1, <1>2, CloseAt

\* Merge keeps the invariant: all four blocks are made.
LEMMA MergeStep ==
  ASSUME NEW x, NEW rest, NEW b, Given(x, rest, b), x.op = "merge"
  PROVE  LET false == x.true + 1
             after == x.true + 3
             Result(p, value) == Push(Push(p, Store(x.reg, value)), Jmp(after))
             true == Terminate(Push(b, Branch(x.reg, x.true, false)), x.true)
         IN  LoweringInv(rest, Terminate(Result(Terminate(Result(true, 1), false), 0), after))
  <1>1. /\ Enters(x) /\ x.op \notin InSwitch /\ x.op # "close"
        /\ \A m : Promises(x, m) = {x.true, x.true + 1, x.true + 3}
    BY DEF Enters, IsBetween, WhileEnd, InSwitch, Promises
  <1>. PICK id, made, last, y, c, starts, own, others :
            Stands(x, rest, b, id, made, last, y, c, starts, own, others)
    BY <1>1, Stand
  <1>a. PICK t, n1, n2, n3 :
            /\ t = x.true /\ n1 = x.true + 1 /\ n2 = x.true + 2 /\ n3 = x.true + 3
            /\ {t, n1, n2, n3} \subseteq Below(b.lastBlock)
            /\ t # n1 /\ t # n2 /\ t # n3 /\ n1 # n2 /\ n1 # n3 /\ n2 # n3
            /\ x = [op |-> x.op, cond |-> x.cond, reg |-> x.reg, true |-> t]
    BY FourBlocks
  <1>2. /\ OpenAt(b, b, starts, id, made, last) /\ starts \subseteq made /\ id \notin made
        /\ id \notin starts
        /\ y = Len(b.yields) /\ c = Len(b.defered) /\ EndsAway(rest)
        /\ (rest # << >> => Ordinary(rest[1])) /\ last = b.lastBlock
        /\ last \in Nat
        /\ own = {t, n1, n3} /\ own \subseteq Unmade(last, made, id)
        /\ others = Unmade(last, made, id) \ own
    BY <1>1, <1>a DEF Stands
  <1>3. /\ t \in Below(last) /\ n1 \in Below(last) /\ n3 \in Below(last)
        /\ t \notin made \cup {id} /\ n1 \notin made \cup {id} /\ n3 \notin made \cup {id}
    BY <1>2, <1>a DEF Unmade
  <1>4. t \notin starts /\ n1 \notin starts
    BY <1>2, <1>3
  <1>b. PICK i, p1, m1 : /\ i = Branch(x.reg, t, n1) /\ m1 = made \cup {id}
                         /\ p1 = Terminate(Push(b, i), t)
    OBVIOUS
  <1>5. OpenAt(p1, b, starts, t, m1, last)
    <2>1. IsTerminator(i) /\ Leads(i, last)
      BY <1>3, <1>b, BranchIs
    <2>2. t \notin made /\ t # id
      BY <1>3
    <2>. QED
      BY <1>2, <1>3, <1>b, <2>1, <2>2, CloseAt
  <1>c. PICK p2, m2 : /\ p2 = Terminate(Push(Push(p1, Store(x.reg, 1)), Jmp(n3)), n1)
                      /\ m2 = m1 \cup {t}
    OBVIOUS
  <1>6. OpenAt(p2, b, starts, n1, m2, last)
    <2>1. n1 \notin m1 /\ n1 # t
      BY <1>3, <1>a, <1>b
    <2>. QED
      BY <1>3, <1>4, <1>5, <1>c, <2>1, ResultAt
  <1>d. PICK p3, m3 : /\ p3 = Terminate(Push(Push(p2, Store(x.reg, 0)), Jmp(n3)), n3)
                      /\ m3 = m2 \cup {n1}
    OBVIOUS
  <1>7. OpenAt(p3, b, starts, n3, m3, last)
    <2>1. n3 \notin m2 /\ n3 # n1
      BY <1>3, <1>a, <1>b, <1>c
    <2>. QED
      BY <1>3, <1>4, <1>6, <1>d, <2>1, ResultAt
  <1>8. /\ others = Unmade(last, m3, n3) /\ starts \subseteq m3 /\ made \cup {id} \subseteq m3
        /\ n3 \notin m3 /\ m3 \cap others = {}
    BY <1>2, <1>3, <1>a, <1>b, <1>c, <1>d DEF Unmade
  <1>9. Work(rest, y, c, Below(last), m3, others, starts)
    <2>1. Beyond(made, last, others, m3, last)
      BY <1>2, <1>8 DEF Beyond
    <2>. QED
      BY <1>1, <2>1, RestOf
  <1>10. Suits(rest, n3, m3)
    <2>e. PICK all : all = m3 \cup {n3}
      OBVIOUS
    <2>1. made \cup {id} \subseteq all
      BY <1>8, <2>e
    <2>2. TestsMade(rest, all)
      BY <2>1, TestsStay
    <2>. QED
      BY <1>2, <1>8, <2>2, <2>e, OrdinarySuits
  <1>11. LoweringInv(rest, p3)
    <2>1. OpenOn(p3, b, starts, n3, m3, last)
      BY <1>7 DEF OpenAt, OpenOn
    <2>2. Work(rest, Len(b.yields), Len(b.defered), Below(last), m3, Unmade(last, m3, n3), starts)
      BY <1>2, <1>8, <1>9
    <2>. QED
      BY <1>2, <1>8, <1>10, <2>1, <2>2, DoneOn
  <1>. QED
    BY <1>11, <1>a, <1>b, <1>c, <1>d

-----------------------------------------------------------------------------
(* The steps: switches                                                     *)

\* The item of a switch can be put in front.
CaseAt(e, nums, prom, starts) ==
    /\ e.op \in InSwitch /\ IsSwitch(e, nums)
    /\ e.after \notin prom /\ e.start \notin starts

\* The item of a switch can be put in front of calm work.
LEMMA CaseInFront ==
  ASSUME NEW e, NEW q, NEW y \in Nat, NEW c \in Nat, NEW nums, NEW made, NEW prom, NEW starts,
         Work(q, y, c, nums, made, prom, starts), Calm(q), CaseAt(e, nums, prom, starts)
  PROVE  /\ Work(Cons(e, q), y + 1, c, nums, made, prom \cup {e.after}, starts \cup {e.start})
         /\ IsSequence(Cons(e, q)) /\ Cons(e, q) # << >> /\ Cons(e, q)[1] = e
         /\ NoTest(Cons(e, q))
         /\ EndsAway(q) => EndsAway(Cons(e, q))
  <1>1. /\ e.op \in InSwitch /\ e.op # "close" /\ e.op # "endBody" /\ e.op # "test"
        /\ e.op # "next"
    BY DEF CaseAt, InSwitch
  <1>2. StartOf(e) = {e.start} /\ Promises(e, made) = {e.after}
    BY <1>1 DEF StartOf, Promises, InSwitch
  <1>3. One(e, InSwitch) = 1 /\ One(e, {"close"}) = 0
    BY <1>1 DEF One
  <1>4. EndsInTime(e, made, q = << >>)
    BY <1>1 DEF EndsInTime, WhileEnd
  <1>5. q # << >> => Follows(e, q[1], made)
    BY <1>1, FollowsOrdinary DEF Calm
  <1>6. FitsFirst(e, q, y + One(e, InSwitch), nums)
    <2>. PICK s \in BOOLEAN : s = FALSE
      OBVIOUS
    <2>1. Stays(e, s, nums)
      BY <1>1 DEF Stays, CaseAt
    <2>. QED
      BY <2>1 DEF FitsFirst
  <1>7. Promises(e, made) \cap prom = {} /\ StartOf(e) \cap starts = {} /\ NoTest(q)
    BY <1>2 DEF CaseAt, Calm
  <1>8. c + One(e, {"close"}) = c /\ y + One(e, InSwitch) = y + 1
    BY <1>3
  <1>. HIDE <1>3
  <1>9. /\ Work(Cons(e, q), y + One(e, InSwitch), c + One(e, {"close"}), nums, made,
                prom \cup Promises(e, made), starts \cup StartOf(e))
        /\ IsSequence(Cons(e, q)) /\ IsSequence(q) /\ Cons(e, q) # << >> /\ Cons(e, q)[1] = e
        /\ e.op # "test" /\ NoTest(q) => NoTest(Cons(e, q))
        /\ EndsAway(q) => EndsAway(Cons(e, q))
    BY <1>4, <1>5, <1>6, <1>7, ItemInFront
  <1>. QED
    BY <1>1, <1>2, <1>7, <1>8, <1>9

\* One more block is left for the instruction of a switch.
LEMMA BuildingMore ==
  ASSUME NEW b, NEW starts, Building(b, starts), NEW id, id \notin Made(b)
  PROVE  Building(b, starts \cup {id})
  <1>1. \A k \in DOMAIN b.blocks : b.blocks[k].id # id
    BY DEF Made
  <1>2. \A k \in DOMAIN b.blocks : Finished(b.blocks[k], Numbers(b), starts \cup {id})
    BY <1>1 DEF Building, Finished
  <1>. QED
    BY <1>2 DEF Building

Wider(b, p) == Len(p.yields) = Len(b.yields) + 1 /\ p.defered = b.defered
Yielding(p, r, after) == p = [r EXCEPT !.yields = Append(@, after)]

\* A switch is opened in an open block.
LEMMA YieldsAt ==
  ASSUME NEW r, NEW b, NEW starts, NEW id, NEW made, NEW last,
         OpenAt(r, b, starts, id, made, last), NEW after \in Below(last),
         NEW p, Yielding(p, r, after)
  PROVE  OpenAt(p, p, starts, id, made, last) /\ Wider(b, p)
  <1>1. Building(r, starts) /\ Same(b, r) /\ r.lastBlock = last
    BY DEF OpenAt
  <1>2. r.yields \in Seq(Numbers(r)) /\ Numbers(r) = Below(last)
    BY <1>1, Within
  <1>a. PICK ys : ys = Append(r.yields, after)
    OBVIOUS
  <1>3. ys \in Seq(Numbers(r)) /\ Len(ys) = Len(r.yields) + 1
    BY <1>2, <1>a, AppendIn
  <1>4. p = [r EXCEPT !.yields = ys]
    BY <1>a DEF Yielding
  <1>5. LET g == [r EXCEPT !.yields = ys] IN
        /\ Building(g, starts) /\ g.yields = ys /\ g.defered = r.defered
        /\ Made(g) = Made(r) /\ g.lastBlock = r.lastBlock /\ g.current = r.current
    BY <1>1, <1>3, YieldsIs
  <1>6. /\ Building(p, starts) /\ p.yields = ys /\ p.defered = r.defered
        /\ Made(p) = Made(r) /\ p.lastBlock = r.lastBlock /\ p.current = r.current
    BY <1>4, <1>5
  <1>. QED
    BY <1>1, <1>3, <1>6 DEF OpenAt, Same, Wider

\* The first item of a switch comes next: the current block is its start.
Begun(q, e, id, rest, made) ==
    /\ e.op = "case" /\ e.k = 1 /\ e.start = id /\ IsSequence(rest) /\ q = Cons(e, rest)
    /\ Starts(rest) \subseteq made

\* A step after which the first case comes next keeps the invariant.
LEMMA DoneFirst ==
  ASSUME NEW p, NEW starts, NEW id, NEW made, NEW last, OpenAt(p, p, starts, id, made, last),
         NEW q, NEW e, NEW rest, Begun(q, e, id, rest, made),
         Work(q, Len(p.yields), Len(p.defered), Below(last), made, Unmade(last, made, id), starts),
         NoTest(q), EndsAway(q)
  PROVE  LoweringInv(q, p)
  <1>1. Made(p) = made /\ p.current.id = id /\ p.lastBlock = last /\ Building(p, starts)
        /\ p.current.terminated = FALSE /\ Open(p.current.code) /\ id \notin made
    BY DEF OpenAt
  <1>2. Numbers(p) = Below(last) /\ Free(p) = Unmade(last, made, id)
    BY <1>1, Within DEF Unmade
  <1>3. Work(q, Len(p.yields), Len(p.defered), Numbers(p), Made(p), Free(p), starts)
    BY <1>1, <1>2
  <1>4. q # << >> /\ q[1] = e /\ Tail(q) = rest
    BY ConsIs, TailOfCons DEF Begun
  <1>5. ~ComesBack(q) /\ First(q) /\ ~Between(q)
    BY <1>4 DEF ComesBack, First, Between, WhileEnd, Begun
  <1>6. Arrives(q, p)
    <2>1. TestsMade(q, Made(p) \cup {p.current.id})
      BY DEF NoTest, TestsMade
    <2>. QED
      BY <1>1, <1>4, <1>5, <2>1 DEF Arrives, Begun
  <1>7. IsOpen(q, p.current)
    BY <1>1, <1>5 DEF IsOpen
  <1>8. Closing(q, p)
    BY DEF Closing
  <1>9. Building(p, Starts(q)) /\ Promised(q, Made(p)) = Free(p)
    BY <1>1, <1>3 DEF Work
  <1>. QED
    BY <1>3, <1>6, <1>7, <1>8, <1>9 DEF LoweringInv, Work

\* LowerSwitch keeps the invariant.
LEMMA SwitchStep ==
  ASSUME NEW x, NEW rest, NEW b, Given(x, rest, b), x.op = "switch",
         NEW i, ~IsTerminator(i), Targets(i) = {}
  PROVE  LoweringInv(<<[op |-> "case", node |-> x, k |-> 1, reg |-> b.lastRegister,
                        after |-> b.lastBlock, start |-> b.current.id, blocks |-> << >>,
                        default |-> 0, to |-> b.lastBlock, left |-> 0]>> \o rest,
                     [AllocateBlocks(AllocateRegister(Push(b, i)), 1) EXCEPT
                        !.yields = Append(@, b.lastBlock)])
  <1>1. x.op \in Statements \cup Plain /\ Enters(x) /\ x.op \notin InSwitch /\ x.op # "close"
        /\ \A m : Promises(x, m) = {}
    BY QuietIs DEF Statements
  <1>. PICK id, made, last, y, c, starts, own, others :
            Stands(x, rest, b, id, made, last, y, c, starts, own, others)
    BY <1>1, Stand
  <1>2. /\ OpenAt(b, b, starts, id, made, last) /\ starts \subseteq made /\ id \notin starts
        /\ y = Len(b.yields) /\ c = Len(b.defered) /\ Calm(rest) /\ EndsAway(rest)
        /\ y \in Nat /\ c \in Nat /\ id \notin made /\ id = b.current.id
        /\ last = b.lastBlock /\ id \in Below(last) /\ IsSequence(rest)
        /\ made \subseteq Below(last) /\ others = Unmade(last, made, id)
        /\ starts = Starts(rest)
    BY <1>1 DEF Stands, Conditions
  <1>a. PICK n1, n2, n3, n4 : Next4(last, n1, n2, n3, n4)
    BY NextAre DEF Stands
  <1>3. /\ last \in Below(n1) /\ id \in Below(n1) /\ n1 \in Nat /\ last <= n1 /\ n1 = last + 1
    BY <1>2, <1>a DEF Next4
  <1>4. last \notin others /\ Unmade(n1, made, id) = others \cup {last}
    BY <1>2, <1>a DEF Next4, Unmade
  <1>b. PICK r : r = AllocateBlocks(AllocateRegister(Push(b, i)), 1)
    OBVIOUS
  <1>c. PICK p, all : p = [r EXCEPT !.yields = Append(@, last)] /\ all = starts \cup {id}
    OBVIOUS
  <1>5. OpenAt(r, b, starts, id, made, n1)
    <2>1. OpenAt(Push(b, i), b, starts, id, made, last)
      BY <1>2, PushAt
    <2>2. OpenAt(AllocateRegister(Push(b, i)), b, starts, id, made, last)
      BY <2>1, RegisterAt
    <2>3. OpenAt(r, b, starts, id, made, last + 1)
      BY <1>b, <2>2, AllocateAt
    <2>. QED
      BY <1>3, <2>3
  <1>6. /\ OpenAt(p, p, all, id, made, n1)
        /\ Len(p.yields) = y + 1 /\ Len(p.defered) = c
    <2>0. Yielding(p, r, last)
      BY <1>c DEF Yielding
    <2>1. OpenAt(p, p, starts, id, made, n1) /\ Wider(b, p)
      BY <1>3, <1>5, <2>0, YieldsAt
    <2>2. Building(p, all)
      BY <1>2, <1>c, <2>1, BuildingMore DEF OpenAt
    <2>. QED
      BY <1>2, <2>1, <2>2 DEF OpenAt, Wider
  <1>7. Work(rest, y, c, Below(n1), made, others, starts)
    <2>1. Beyond(made, last, others, made, n1)
      BY <1>2, <1>3 DEF Beyond, Unmade
    <2>. QED
      BY <1>1, <2>1, RestOf
  <1>d. PICK e : e = [op |-> "case", node |-> x, k |-> 1, reg |-> b.lastRegister,
                      after |-> last, start |-> id, blocks |-> << >>,
                      default |-> 0, to |-> last, left |-> 0]
    OBVIOUS
  <1>8. /\ e.op = "case" /\ e.node = x /\ e.k = 1 /\ e.after = last /\ e.start = id
        /\ e.blocks = << >> /\ e.default = 0 /\ e.to = last /\ e.left = 0 /\ e.op \in InSwitch
        /\ e = [op |-> e.op, node |-> e.node, k |-> e.k, reg |-> e.reg, after |-> e.after,
                start |-> e.start, blocks |-> e.blocks, default |-> e.default, to |-> e.to,
                left |-> e.left]
    BY <1>d DEF InSwitch
  <1>9. CaseAt(e, Below(n1), others, starts)
    <2>1. PICK s \in BOOLEAN : (s => y > 0) /\ Kind(x, s, rest, Below(last))
      BY <1>2, KindAt
    <2>2. /\ Len(x.cases) \in Nat \ {0}
          /\ \A k \in 1 .. Len(x.cases) :
               x.cases[k].values \in Nat \ {0} /\ IsBody(x.cases[k].body, TRUE)
      BY <2>1 DEF Kind
    <2>3. e.blocks \in Seq(Below(n1)) /\ Len(e.blocks) = 0
      BY <1>8
    <2>4. IsSwitch(e, Below(n1))
      <3>1. {e.after, e.start, e.to} \subseteq Below(n1)
        BY <1>3, <1>8
      <3>2. e.k \in Nat \ {0} /\ e.left \in Nat /\ e.default \in 0 .. Len(e.blocks)
        BY <1>8, <2>3
      <3>3. /\ e.op \in {"caseEnd", "values"} => e.blocks # << >>
            /\ e.op = "case" /\ e.k > 1 => e.blocks # << >>
            /\ e.op = "strings" => e.k <= Len(e.blocks)
        BY <1>8
      <3>4. /\ Len(e.node.cases) \in Nat \ {0}
            /\ \A k \in 1 .. Len(e.node.cases) :
                e.node.cases[k].values \in Nat \ {0} /\ IsBody(e.node.cases[k].body, TRUE)
        BY <1>8, <2>2
      <3>. QED
        BY <1>8, <2>3, <3>1, <3>2, <3>3, <3>4 DEF IsSwitch
    <2>. QED
      BY <1>2, <1>4, <1>8, <2>4 DEF CaseAt
  <1>e. PICK q : q = Cons(e, rest)
    OBVIOUS
  <1>10. /\ Work(Cons(e, rest), y + 1, c, Below(n1), made, others \cup {e.after}, starts \cup {e.start})
         /\ IsSequence(Cons(e, rest)) /\ Cons(e, rest) # << >> /\ Cons(e, rest)[1] = e
         /\ NoTest(Cons(e, rest))
         /\ EndsAway(rest) => EndsAway(Cons(e, rest))
    BY <1>2, <1>7, <1>9, CaseInFront
  <1>11. LoweringInv(q, p)
    <2>1. Work(q, Len(p.yields), Len(p.defered), Below(n1), made, Unmade(n1, made, id), all)
      BY <1>4, <1>6, <1>8, <1>10, <1>c, <1>e
    <2>2. NoTest(q) /\ EndsAway(q)
      BY <1>2, <1>10, <1>e
    <2>3. Begun(q, e, id, rest, made)
      BY <1>2, <1>8, <1>e DEF Begun
    <2>. QED
      BY <1>6, <2>1, <2>2, <2>3, DoneFirst
  <1>12. <<e>> \o rest = q
    BY <1>2, <1>e, SingleWork
  <1>. QED
    BY <1>2, <1>11, <1>12, <1>b, <1>c, <1>d

\* What a step of a switch has; the switch itself is the innermost one.
InCase(x, rest, b, id, made, last, y, c, starts, others) ==
    /\ Building(b, starts \cup {x.start}) /\ starts = Starts(rest) /\ starts \subseteq made
    /\ x.start \notin starts
    /\ id = b.current.id /\ made = Made(b) /\ last = b.lastBlock /\ last \in Nat \ {0}
    /\ id \in Below(last) /\ id \notin made /\ made \subseteq Below(last)
    /\ y \in Nat /\ Len(b.yields) = y + 1 /\ c = Len(b.defered) /\ c \in Nat
    /\ IsSequence(rest) /\ Calm(rest) /\ EndsAway(rest) /\ IsSwitch(x, Below(last))
    /\ x.after \in Unmade(last, made, id) /\ others = Unmade(last, made, id) \ {x.after}
    /\ IsFirst(x) => x.start = id
    /\ ~IsFirst(x) => x.start \in made

\* Every step of a switch has what InCase names.
LEMMA InCaseIs ==
  ASSUME NEW x, NEW rest, NEW b, Given(x, rest, b), x.op \in InSwitch
  PROVE  \E id, made, last, y, c, starts, others :
            InCase(x, rest, b, id, made, last, y, c, starts, others)
  <1>a. PICK id, made, last, c, starts :
            /\ id = b.current.id /\ made = Made(b) /\ last = b.lastBlock
            /\ c = Len(b.defered) /\ starts = Starts(rest)
    OBVIOUS
  <1>b. PICK y : y = Len(b.yields) - 1
    OBVIOUS
  <1>1. /\ StartOf(x) = {x.start} /\ Promises(x, made) = {x.after} /\ ~WhileEnd(x)
        /\ x.op # "endBody" /\ x.op \notin Conditions
        /\ x.op # "return" /\ x.op # "leave" /\ x.op # "close" /\ x.op # "block"
    BY DEF StartOf, Promises, InSwitch, WhileEnd, Conditions
  <1>2. One(x, InSwitch) = 1 /\ One(x, {"close"}) = 0
    BY <1>1 DEF One
  <1>3. /\ IsSequence(rest) /\ Joins(x, rest, made) /\ FitsFirst(x, rest, Len(b.yields), Numbers(b))
        /\ Len(b.yields) \in Nat /\ Len(b.yields) - One(x, InSwitch) \in Nat
        /\ Len(b.defered) \in Nat
        /\ Promises(x, made) \cup Promised(rest, made) = Free(b) /\ id \notin made
        /\ (IsFirst(x) => x.start = id)
        /\ (~IsFirst(x) => StartOf(x) \subseteq made) /\ starts \subseteq made
        /\ Building(b, StartOf(x) \cup starts)
    BY <1>1, <1>a DEF Given, Ready
  <1>4. StartOf(x) \cup starts = starts \cup {x.start}
    BY <1>1
  <1>5. Building(b, starts \cup {x.start})
    BY <1>3, <1>4
  <1>6. y \in Nat /\ Len(b.yields) = y + 1
    <2>. PICK n : n = Len(b.yields)
      OBVIOUS
    <2>1. n \in Nat /\ n - 1 \in Nat /\ y = n - 1
      BY <1>2, <1>3, <1>b
    <2>2. n = y + 1
      BY <2>1
    <2>. QED
      BY <2>1, <2>2
  <1>7. /\ Free(b) = Unmade(last, made, id) /\ last \in Nat \ {0}
        /\ id \in Below(last) /\ made \subseteq Below(last) /\ Numbers(b) = Below(last)
    BY <1>5, <1>a, Within DEF Unmade
  <1>8. x.start \notin starts
    BY <1>1, <1>3, <1>a DEF Joins
  <1>9. Calm(rest) /\ EndsAway(rest)
    BY <1>1, RestIs, Leads0 DEF Given
  <1>10. IsSwitch(x, Below(last))
    <2>1. PICK s \in BOOLEAN : Kind(x, s, rest, Below(last))
      BY <1>a, KindAt
    <2>. QED
      BY <2>1 DEF Kind
  <1>11. InCase(x, rest, b, id, made, last, y, c, starts, Unmade(last, made, id) \ {x.after})
    BY <1>1, <1>3, <1>5, <1>6, <1>7, <1>8, <1>9, <1>10, <1>a DEF InCase
  <1>. QED
    BY <1>11

\* The rest of the work after a step of a switch.
LEMMA RestOfCase ==
  ASSUME NEW x, NEW rest, NEW b, Given(x, rest, b), x.op \in InSwitch,
         NEW id, NEW made, NEW last, NEW y, NEW c, NEW starts, NEW others,
         InCase(x, rest, b, id, made, last, y, c, starts, others),
         NEW more, NEW end, Beyond(made, last, others, more, end)
  PROVE  Work(rest, y, c, Below(end), more, others, starts)
  <1>1. /\ Promises(x, made) = {x.after} /\ x.op # "close"
    BY DEF Promises, InSwitch
  <1>2. One(x, InSwitch) = 1 /\ One(x, {"close"}) = 0
    BY <1>1 DEF One
  <1>3. /\ Building(b, starts \cup {x.start}) /\ starts = Starts(rest)
        /\ id = b.current.id /\ made = Made(b) /\ last = b.lastBlock
        /\ y \in Nat /\ Len(b.yields) = y + 1 /\ c = Len(b.defered) /\ c \in Nat
        /\ others = Unmade(last, made, id) \ {x.after}
    BY DEF InCase
  <1>4. Len(b.yields) - One(x, InSwitch) = y /\ Len(b.defered) - One(x, {"close"}) = c
    BY <1>2, <1>3
  <1>5. Free(b) = Unmade(last, made, id)
    BY <1>3, Within DEF Unmade
  <1>6. Free(b) \ Promises(x, Made(b)) = others
    BY <1>1, <1>3, <1>5
  <1>7. Later(x, b, more, end)
    BY <1>3, <1>6 DEF Later, Beyond
  <1>8. Work(rest, Len(b.yields) - One(x, InSwitch), Len(b.defered) - One(x, {"close"}),
             Below(end), more, Free(b) \ Promises(x, Made(b)), Starts(rest))
    BY <1>7, RestWork DEF Given
  <1>. QED
    BY <1>3, <1>4, <1>6, <1>8

\* One more block of a switch.
LEMMA BlocksMore ==
  ASSUME NEW q, NEW last \in Nat, NEW n \in Nat, last <= n, q \in Seq(Below(last))
  PROVE  q \in Seq(Below(n))
  <1>1. Len(q) \in Nat /\ q \in [1 .. Len(q) -> Below(last)]
    BY LenProperties
  <1>2. Below(last) \subseteq Below(n)
    BY DEF Below
  <1>3. q \in [1 .. Len(q) -> Below(n)]
    BY <1>1, <1>2
  <1>. QED
    BY <1>1, <1>3, FunctionIs

\* The next number is that of a case's block, or of a jump to one; the block
\* that was current is made.
NextBlock(x, b, id, made, last, starts, others, all, more, end) ==
    /\ OpenAt(Terminate(AllocateBlocks(b, 1), last), b, all, last, more, end)
    /\ more = made \cup {id} /\ all = starts \cup {x.start} /\ all \subseteq more
    /\ end \in Nat /\ last \in Below(end) /\ last <= end /\ Below(last) \subseteq Below(end)
    /\ last # id /\ last \notin made
    /\ Unmade(end, more, last) = others \cup {x.after} /\ x.after \notin others
    /\ Beyond(made, last, others, more, end)

\* The current block ends, and the one of a case is opened.
LEMMA BlockOfCase ==
  ASSUME NEW x, NEW rest, NEW b, Given(x, rest, b), x.op \in {"case", "values"},
         NEW id, NEW made, NEW last, NEW y, NEW c, NEW starts, NEW others,
         InCase(x, rest, b, id, made, last, y, c, starts, others)
  PROVE  \E all, more, end : NextBlock(x, b, id, made, last, starts, others, all, more, end)
  <1>2. /\ Building(b, starts \cup {x.start}) /\ starts \subseteq made
        /\ x.start \notin starts
        /\ id = b.current.id /\ made = Made(b) /\ last = b.lastBlock /\ last \in Nat \ {0}
        /\ id \in Below(last) /\ id \notin made /\ made \subseteq Below(last)
        /\ y \in Nat /\ Len(b.yields) = y + 1 /\ c = Len(b.defered) /\ c \in Nat
        /\ IsSequence(rest) /\ Calm(rest) /\ EndsAway(rest) /\ IsSwitch(x, Below(last))
        /\ x.after \in Unmade(last, made, id) /\ others = Unmade(last, made, id) \ {x.after}
        /\ (IsFirst(x) => x.start = id) /\ (~IsFirst(x) => x.start \in made)
    BY DEF InCase
  <1>a. PICK n1, n2, n3, n4 : Next4(last, n1, n2, n3, n4)
    BY <1>2, NextAre
  <1>b. PICK more, all : more = made \cup {id} /\ all = starts \cup {x.start}
    OBVIOUS
  <1>3. /\ last \in Below(n1) /\ n1 \in Nat /\ last <= n1 /\ n1 = last + 1
        /\ last # id /\ last \notin made /\ Below(last) \subseteq Below(n1)
    BY <1>2, <1>a DEF Next4
  <1>4. Unmade(n1, more, last) = others \cup {x.after} /\ x.after \notin others
        /\ all \subseteq more
    <2>1. Below(n1) = Below(last) \cup {last} /\ last \notin Below(last)
      BY <1>a DEF Next4
    <2>2. Unmade(n1, more, last) = Unmade(last, made, id)
      BY <1>b, <2>1 DEF Unmade
    <2>3. x.start \in more
      BY <1>2, <1>b
    <2>. QED
      BY <1>2, <1>b, <2>2, <2>3
  <1>5. /\ (id \in all => Open(b.current.code)) /\ (id \notin all => Closed(b.current.code))
    <2>1. CASE IsFirst(x)
      <3>1. ~IsBetween(x) /\ id \in all
        BY <1>2, <1>b, <2>1 DEF IsFirst, IsBetween
      <3>2. b.current.terminated \in BOOLEAN
        BY <1>2, Within
      <3>3. Open(b.current.code)
        BY <3>1, <3>2 DEF Given, Placed
      <3>. QED
        BY <3>1, <3>3
    <2>2. CASE ~IsFirst(x)
      <3>1. x.k \in Nat \ {0}
        BY <1>2 DEF IsSwitch
      <3>2. IsBetween(x)
        BY <2>2, <3>1 DEF IsFirst, IsBetween
      <3>3. Closed(b.current.code)
        BY <3>2 DEF Given, Placed
      <3>4. id \notin all
        BY <1>2, <1>b, <2>2
      <3>. QED
        BY <3>3, <3>4
    <2>. QED
      BY <2>1, <2>2
  <1>c. PICK p1, p : p1 = AllocateBlocks(b, 1) /\ p = Terminate(p1, last)
    OBVIOUS
  <1>6. OpenAt(p, b, all, last, more, n1)
    <2>1. /\ Building(p1, all) /\ Same(b, p1) /\ Made(p1) = Made(b)
          /\ p1.lastBlock = b.lastBlock + 1 /\ p1.current = b.current
      BY <1>2, <1>b, <1>c, AllocateIs
    <2>2. p1.current.id = id /\ Made(p1) = made /\ p1.lastBlock = n1
          /\ (id \in all => Open(p1.current.code)) /\ (id \notin all => Closed(p1.current.code))
      BY <1>2, <1>3, <1>5, <2>1
    <2>3. OpenAt(Terminate(p1, last), b, all, last, made \cup {id}, n1)
      BY <1>2, <1>3, <2>1, <2>2, MadeAt
    <2>. QED
      BY <1>b, <1>c, <2>3
  <1>7. Beyond(made, last, others, more, n1)
    BY <1>2, <1>3, <1>b DEF Beyond, Unmade
  <1>8. OpenAt(Terminate(AllocateBlocks(b, 1), last), b, all, last, more, n1)
    BY <1>6, <1>c
  <1>9. NextBlock(x, b, id, made, last, starts, others, all, more, n1)
    BY ZenonT(60), <1>3, <1>4, <1>7, <1>8, <1>b DEF NextBlock
  <1>. QED
    BY <1>9

\* LowerCase keeps the invariant: the case's block and its body.
LEMMA CaseStep ==
  ASSUME NEW x, NEW rest, NEW b, Given(x, rest, b), x.op = "case", x.k <= Len(x.node.cases)
  PROVE  LET case == x.node.cases[x.k]
             id == b.lastBlock
         IN  LoweringInv((case.body \o
                <<[x EXCEPT !.op = "caseEnd", !.blocks = Append(@, id),
                            !.default = IF case.default THEN Len(x.blocks) + 1 ELSE @,
                            !.to = id, !.left = case.values - 1]>>) \o rest,
                Terminate(AllocateBlocks(b, 1), id))
  <1>1. x.op \in InSwitch /\ x.op # "close"
    BY DEF InSwitch
  <1>. PICK id, made, last, y, c, starts, others :
            InCase(x, rest, b, id, made, last, y, c, starts, others)
    BY <1>1, InCaseIs
  <1>2. /\ Building(b, starts \cup {x.start}) /\ starts \subseteq made
        /\ x.start \notin starts
        /\ id = b.current.id /\ made = Made(b) /\ last = b.lastBlock /\ last \in Nat \ {0}
        /\ id \in Below(last) /\ id \notin made /\ made \subseteq Below(last)
        /\ y \in Nat /\ Len(b.yields) = y + 1 /\ c = Len(b.defered) /\ c \in Nat
        /\ IsSequence(rest) /\ Calm(rest) /\ EndsAway(rest) /\ IsSwitch(x, Below(last))
        /\ x.after \in Unmade(last, made, id) /\ others = Unmade(last, made, id) \ {x.after}
        /\ (IsFirst(x) => x.start = id) /\ (~IsFirst(x) => x.start \in made)
    BY DEF InCase
  <1>a. PICK all, more, n1 : NextBlock(x, b, id, made, last, starts, others, all, more, n1)
    BY BlockOfCase
  <1>c. PICK p : p = Terminate(AllocateBlocks(b, 1), last)
    OBVIOUS
  <1>3. /\ last \in Below(n1) /\ n1 \in Nat /\ last <= n1 /\ Below(last) \subseteq Below(n1)
        /\ all = starts \cup {x.start} /\ Beyond(made, last, others, more, n1)
    BY <1>a DEF NextBlock
  <1>4. Unmade(n1, more, last) = others \cup {x.after} /\ x.after \notin others
        /\ all \subseteq more
    BY <1>a DEF NextBlock
  <1>6. OpenAt(p, b, all, last, more, n1)
    BY <1>a, <1>c DEF NextBlock
  <1>7. Work(rest, y, c, Below(n1), more, others, starts)
    BY <1>1, <1>3, RestOfCase
  <1>d. PICK case : case = x.node.cases[x.k]
    OBVIOUS
  <1>8. case.values \in Nat \ {0} /\ IsBody(case.body, TRUE)
    <2>1. x.k \in 1 .. Len(x.node.cases)
      BY <1>2 DEF IsSwitch
    <2>. QED
      BY <1>2, <1>d, <2>1 DEF IsSwitch
  <1>e. PICK e : e = [x EXCEPT !.op = "caseEnd", !.blocks = Append(@, last),
                            !.default = IF case.default THEN Len(x.blocks) + 1 ELSE @,
                            !.to = last, !.left = case.values - 1]
    OBVIOUS
  <1>9. /\ e.op = "caseEnd" /\ e.node = x.node /\ e.k = x.k /\ e.after = x.after
        /\ e.start = x.start /\ e.blocks = Append(x.blocks, last)
        /\ e.default = (IF case.default THEN Len(x.blocks) + 1 ELSE x.default)
        /\ e.to = last /\ e.left = case.values - 1
        /\ e = [op |-> e.op, node |-> e.node, k |-> e.k, reg |-> e.reg, after |-> e.after,
                start |-> e.start, blocks |-> e.blocks, default |-> e.default, to |-> e.to,
                left |-> e.left]
    <2>1. x = [op |-> x.op, node |-> x.node, k |-> x.k, reg |-> x.reg, after |-> x.after,
               start |-> x.start, blocks |-> x.blocks, default |-> x.default, to |-> x.to,
               left |-> x.left]
      BY <1>2 DEF IsSwitch
    <2>. QED
      BY <1>e, <2>1
  <1>10. CaseAt(e, Below(n1), others, starts)
    <2>1. x.blocks \in Seq(Below(n1)) /\ x.default \in 0 .. Len(x.blocks)
      BY <1>2, <1>3, BlocksMore DEF IsSwitch
    <2>2. /\ e.blocks \in Seq(Below(n1)) /\ Len(e.blocks) = Len(x.blocks) + 1
          /\ Len(x.blocks) \in Nat
      BY <1>3, <1>9, <2>1, AppendIn, LenProperties
    <2>3. e.blocks # << >>
      BY <2>1, <2>2
    <2>4. {e.after, e.start, e.to} \subseteq Below(n1)
      BY <1>2, <1>3, <1>9 DEF IsSwitch
    <2>5. e.default \in 0 .. Len(e.blocks)
      BY <1>9, <2>1, <2>2
    <2>6. e.k \in Nat \ {0} /\ e.left \in Nat
      BY SMTT(60), <1>2, <1>8, <1>9 DEF IsSwitch
    <2>7. /\ Len(e.node.cases) \in Nat \ {0}
          /\ \A k \in 1 .. Len(e.node.cases) :
               e.node.cases[k].values \in Nat \ {0} /\ IsBody(e.node.cases[k].body, TRUE)
      BY <1>2, <1>9 DEF IsSwitch
    <2>8. IsSwitch(e, Below(n1))
      BY <1>9, <2>2, <2>3, <2>4, <2>5, <2>6, <2>7 DEF IsSwitch
    <2>. QED
      BY <1>2, <1>4, <1>9, <2>8 DEF CaseAt, InSwitch
  <1>11. /\ Work(Cons(e, rest), y + 1, c, Below(n1), more, others \cup {e.after},
                 starts \cup {e.start})
         /\ IsSequence(Cons(e, rest)) /\ Cons(e, rest) # << >> /\ Cons(e, rest)[1] = e
         /\ NoTest(Cons(e, rest))
         /\ EndsAway(rest) => EndsAway(Cons(e, rest))
    BY <1>2, <1>7, <1>10, CaseInFront
  <1>f. PICK w, body, m : w = Cons(e, rest) /\ body = case.body /\ m = y + 1
    OBVIOUS
  <1>12. /\ Work(w, m, c, Below(n1), more, Unmade(n1, more, last), all)
         /\ Calm(w) /\ EndsAway(w) /\ IsSequence(w)
    <2>1. Ordinary(e)
      BY <1>9 DEF Ordinary, WhileEnd
    <2>2. starts \cup {e.start} = all
      BY <1>3, <1>9
    <2>3. Calm(w)
      BY <1>11, <1>f, <2>1 DEF Calm
    <2>. QED
      BY <1>2, <1>4, <1>9, <1>11, <1>f, <2>2, <2>3
  <1>13. Tolerates(w, 1)
    BY <1>2, <1>9, <1>f, ToleratesFirst
  <1>g. PICK s \in BOOLEAN : s = TRUE
    OBVIOUS
  <1>14. IsSequence(body) /\ Precedes(body, s, w)
    <2>1. IsBody(body, s)
      BY <1>8, <1>f, <1>g
    <2>. QED
      BY <1>13, <2>1, BodyPrecedes
  <1>15. /\ Work(body \o w, m, c, Below(n1), more, Unmade(n1, more, last), all)
         /\ Calm(body \o w) /\ EndsAway(body \o w)
    <2>1. m \in Nat /\ c \in Nat /\ (s => m > 0)
      BY <1>2, <1>f
    <2>. QED
      BY <1>12, <1>14, <2>1, BodyWork
  <1>16. LoweringInv(body \o w, p)
    <2>1. Work(body \o w, Len(b.yields), Len(b.defered), Below(n1), more,
               Unmade(n1, more, last), all)
      BY <1>2, <1>15, <1>f
    <2>. QED
      BY <1>4, <1>6, <1>15, <2>1, Done
  <1>17. (body \o <<e>>) \o rest = body \o w
    <2>1. IsSequence(body) /\ IsSequence(rest)
      BY <1>2, <1>14
    <2>2. (body \o <<e>>) \o rest = body \o Cons(e, rest)
      BY <2>1, BodyThen
    <2>. QED
      BY <1>f, <2>2
  <1>. QED
    BY ZenonT(60), <1>2, <1>16, <1>17, <1>c, <1>d, <1>e, <1>f

\* The last instruction of the block is in place, and the next case of a
\* switch, or another value of this one, comes next.
ShutAt(p, b, starts, id, made, last) ==
    /\ Building(p, starts) /\ Same(b, p) /\ p.current.id = id /\ Closed(p.current.code)
    /\ Made(p) = made /\ p.lastBlock = last /\ id \notin made

\* A step that ends between two cases keeps the invariant.
LEMMA DoneBetween ==
  ASSUME NEW p, NEW b, NEW starts, NEW id, NEW made, NEW last,
         ShutAt(p, b, starts, id, made, last), starts \subseteq made, NEW q,
         Work(q, Len(b.yields), Len(b.defered), Below(last), made,
              Unmade(last, made, id), starts),
         Between(q), NoTest(q), EndsAway(q)
  PROVE  LoweringInv(q, p)
  <1>1. Made(p) = made /\ p.current.id = id /\ p.lastBlock = last /\ Building(p, starts)
        /\ p.yields = b.yields /\ p.defered = b.defered
        /\ Closed(p.current.code) /\ id \notin made
    BY DEF ShutAt, Same
  <1>2. Numbers(p) = Below(last) /\ Free(p) = Unmade(last, made, id)
    BY <1>1, Within DEF Unmade
  <1>3. Work(q, Len(p.yields), Len(p.defered), Numbers(p), Made(p), Free(p), starts)
    BY <1>1, <1>2
  <1>4. q # << >> /\ ~ComesBack(q) /\ ~First(q) /\ q[1].op # "else"
    BY DEF Between, ComesBack, First, WhileEnd
  <1>5. Arrives(q, p)
    <2>1. Starts(q) = starts
      BY DEF Work
    <2>2. TestsMade(q, Made(p) \cup {p.current.id})
      BY DEF NoTest, TestsMade
    <2>. QED
      BY <1>1, <1>4, <2>1, <2>2 DEF Arrives
  <1>6. IsOpen(q, p.current)
    BY <1>1 DEF IsOpen
  <1>7. Closing(q, p)
    BY DEF Closing
  <1>8. Building(p, Starts(q)) /\ Promised(q, Made(p)) = Free(p)
    BY <1>1, <1>3 DEF Work
  <1>. QED
    BY <1>3, <1>5, <1>6, <1>7, <1>8 DEF LoweringInv, Work

\* The item e takes the place of x, and stands between two blocks.
LEMMA BetweenStep ==
  ASSUME NEW x, NEW rest, NEW b, Given(x, rest, b), x.op \in InSwitch,
         NEW id, NEW made, NEW last, NEW y, NEW c, NEW starts, NEW others,
         InCase(x, rest, b, id, made, last, y, c, starts, others),
         NEW p, NEW all, NEW to, NEW more, NEW end, ShutAt(p, b, all, to, more, end),
         Beyond(made, last, others, more, end),
         all = starts \cup {x.start}, x.start \in more,
         Unmade(end, more, to) = others \cup {x.after},
         NEW e, IsSwitch(e, Below(end)), e.after = x.after, e.start = x.start,
         e.op = "values" \/ (e.op = "case" /\ e.k > 1)
  PROVE  LoweringInv(<<e>> \o rest, p)
  <1>1. /\ starts \subseteq made /\ x.start \notin starts /\ x.after \notin others
        /\ y \in Nat /\ Len(b.yields) = y + 1 /\ c = Len(b.defered) /\ c \in Nat
        /\ IsSequence(rest) /\ Calm(rest) /\ EndsAway(rest)
    BY DEF InCase
  <1>2. Work(rest, y, c, Below(end), more, others, starts)
    BY RestOfCase
  <1>3. CaseAt(e, Below(end), others, starts)
    BY <1>1 DEF CaseAt, InSwitch
  <1>4. /\ Work(Cons(e, rest), y + 1, c, Below(end), more, others \cup {e.after},
                starts \cup {e.start})
        /\ IsSequence(Cons(e, rest)) /\ Cons(e, rest) # << >> /\ Cons(e, rest)[1] = e
        /\ NoTest(Cons(e, rest))
        /\ EndsAway(rest) => EndsAway(Cons(e, rest))
    BY <1>1, <1>2, <1>3, CaseInFront
  <1>a. PICK q : q = Cons(e, rest)
    OBVIOUS
  <1>5. /\ Work(q, Len(b.yields), Len(b.defered), Below(end), more, Unmade(end, more, to), all)
        /\ NoTest(q) /\ EndsAway(q)
    BY <1>1, <1>4, <1>a
  <1>6. Between(q)
    BY <1>4, <1>a DEF Between
  <1>7. all \subseteq more
    BY <1>1 DEF Beyond
  <1>8. LoweringInv(q, p)
    BY <1>5, <1>6, <1>7, DoneBetween
  <1>9. <<e>> \o rest = q
    BY <1>1, <1>a, SingleWork
  <1>. QED
    BY <1>8, <1>9

\* CaseEnds keeps the invariant: the jump behind the switch ends the case.
LEMMA CaseEndStep ==
  ASSUME NEW x, NEW rest, NEW b, Given(x, rest, b), x.op = "caseEnd"
  PROVE  LoweringInv(<<[x EXCEPT !.op = "values"]>> \o rest,
                     IF b.current.terminated THEN b ELSE Push(b, Jmp(x.after)))
  <1>1. x.op \in InSwitch /\ ~IsBetween(x) /\ ~IsFirst(x)
    BY DEF InSwitch, IsBetween, IsFirst
  <1>. PICK id, made, last, y, c, starts, others :
            InCase(x, rest, b, id, made, last, y, c, starts, others)
    BY <1>1, InCaseIs
  <1>2. /\ Building(b, starts \cup {x.start}) /\ x.start \in made
        /\ id = b.current.id /\ made = Made(b) /\ last = b.lastBlock /\ last \in Nat
        /\ id \notin made /\ made \subseteq Below(last)
        /\ IsSwitch(x, Below(last))
        /\ x.after \in Unmade(last, made, id) /\ others = Unmade(last, made, id) \ {x.after}
    BY <1>1 DEF InCase
  <1>a. PICK all, p : /\ all = starts \cup {x.start}
                      /\ p = IF b.current.terminated THEN b ELSE Push(b, Jmp(x.after))
    OBVIOUS
  <1>3. ShutAt(p, b, all, id, made, last)
    <2>0. b.current.terminated \in BOOLEAN
      BY <1>2, Within
    <2>1. CASE b.current.terminated
      <3>1. Closed(b.current.code)
        BY <1>1, <2>1 DEF Given, Placed
      <3>. QED
        BY <1>2, <1>a, <2>1, <3>1 DEF ShutAt, Same
    <2>2. CASE ~b.current.terminated
      <3>1. Open(b.current.code)
        BY <1>1, <2>2 DEF Given, Placed
      <3>2. OpenAt(b, b, all, id, made, last)
        BY <1>2, <1>a, <2>0, <2>2, <3>1 DEF OpenAt, Same
      <3>3. PICK j : j = Jmp(x.after)
        OBVIOUS
      <3>4. IsTerminator(j) /\ Leads(j, last)
        <4>1. x.after \in Below(last)
          BY <1>2 DEF Unmade
        <4>. QED
          BY <3>3, <4>1, JmpIs
      <3>5. ClosedAt(Push(b, j), b, all, id, made, last)
        BY <3>2, <3>4, PushTerminator
      <3>. QED
        BY <1>a, <2>2, <3>3, <3>5 DEF ClosedAt, ShutAt
    <2>. QED
      BY <2>1, <2>2
  <1>b. PICK e : e = [x EXCEPT !.op = "values"]
    OBVIOUS
  <1>4. /\ e.op = "values" /\ e.node = x.node /\ e.k = x.k /\ e.after = x.after
        /\ e.start = x.start /\ e.blocks = x.blocks /\ e.default = x.default
        /\ e.to = x.to /\ e.left = x.left
        /\ e = [op |-> e.op, node |-> e.node, k |-> e.k, reg |-> e.reg, after |-> e.after,
                start |-> e.start, blocks |-> e.blocks, default |-> e.default, to |-> e.to,
                left |-> e.left]
    <2>1. x = [op |-> x.op, node |-> x.node, k |-> x.k, reg |-> x.reg, after |-> x.after,
               start |-> x.start, blocks |-> x.blocks, default |-> x.default, to |-> x.to,
               left |-> x.left]
      BY <1>2 DEF IsSwitch
    <2>. QED
      BY <1>b, <2>1
  <1>5. IsSwitch(e, Below(last))
    BY <1>2, <1>4 DEF IsSwitch
  <1>6. Beyond(made, last, others, made, last) /\ Unmade(last, made, id) = others \cup {x.after}
    BY <1>2 DEF Beyond, Unmade
  <1>7. LoweringInv(<<e>> \o rest, p)
    BY ZenonT(60), <1>1, <1>2, <1>3, <1>4, <1>5, <1>6, <1>a, BetweenStep
  <1>. QED
    BY <1>7, <1>a, <1>b

\* NextCase does.
LEMMA NextCaseStep ==
  ASSUME NEW x, NEW rest, NEW b, Given(x, rest, b), x.op = "values"
  PROVE  LoweringInv(<<[x EXCEPT !.op = "case", !.k = @ + 1]>> \o rest, b)
  <1>1. x.op \in InSwitch /\ IsBetween(x) /\ ~IsFirst(x)
    BY DEF InSwitch, IsBetween, IsFirst
  <1>. PICK id, made, last, y, c, starts, others :
            InCase(x, rest, b, id, made, last, y, c, starts, others)
    BY <1>1, InCaseIs
  <1>2. /\ Building(b, starts \cup {x.start}) /\ x.start \in made
        /\ id = b.current.id /\ made = Made(b) /\ last = b.lastBlock /\ last \in Nat
        /\ id \notin made /\ made \subseteq Below(last)
        /\ IsSwitch(x, Below(last))
        /\ x.after \in Unmade(last, made, id) /\ others = Unmade(last, made, id) \ {x.after}
    BY <1>1 DEF InCase
  <1>a. PICK all : all = starts \cup {x.start}
    OBVIOUS
  <1>3. ShutAt(b, b, all, id, made, last)
    <2>1. Closed(b.current.code)
      BY <1>1 DEF Given, Placed
    <2>. QED
      BY <1>2, <1>a, <2>1 DEF ShutAt, Same
  <1>b. PICK e : e = [x EXCEPT !.op = "case", !.k = @ + 1]
    OBVIOUS
  <1>4. /\ e.op = "case" /\ e.node = x.node /\ e.k = x.k + 1 /\ e.after = x.after
        /\ e.start = x.start /\ e.blocks = x.blocks /\ e.default = x.default
        /\ e.to = x.to /\ e.left = x.left
        /\ e = [op |-> e.op, node |-> e.node, k |-> e.k, reg |-> e.reg, after |-> e.after,
                start |-> e.start, blocks |-> e.blocks, default |-> e.default, to |-> e.to,
                left |-> e.left]
    <2>1. x = [op |-> x.op, node |-> x.node, k |-> x.k, reg |-> x.reg, after |-> x.after,
               start |-> x.start, blocks |-> x.blocks, default |-> x.default, to |-> x.to,
               left |-> x.left]
      BY <1>2 DEF IsSwitch
    <2>. QED
      BY <1>b, <2>1
  <1>5. IsSwitch(e, Below(last)) /\ e.k > 1
    <2>1. x.k \in Nat \ {0} /\ x.blocks # << >>
      BY <1>2 DEF IsSwitch
    <2>2. e.k \in Nat \ {0} /\ e.k > 1
      BY <1>4, <2>1
    <2>. QED
      BY <1>2, <1>4, <2>1, <2>2 DEF IsSwitch
  <1>6. Beyond(made, last, others, made, last) /\ Unmade(last, made, id) = others \cup {x.after}
    BY <1>2 DEF Beyond, Unmade
  <1>7. LoweringInv(<<e>> \o rest, b)
    BY ZenonT(60), <1>1, <1>2, <1>3, <1>4, <1>5, <1>6, <1>a, BetweenStep
  <1>. QED
    BY <1>7, <1>b

\* Another value of the case: a block that jumps to the case's block.
LEMMA OtherValueStep ==
  ASSUME NEW x, NEW rest, NEW b, Given(x, rest, b), x.op = "values", x.left > 0
  PROVE  LoweringInv(<<[x EXCEPT !.left = @ - 1, !.blocks = Append(@, b.lastBlock)]>> \o rest,
                     Fallthrough(b, x.to))
  <1>1. x.op \in InSwitch /\ ~IsFirst(x)
    BY DEF InSwitch, IsFirst
  <1>. PICK id, made, last, y, c, starts, others :
            InCase(x, rest, b, id, made, last, y, c, starts, others)
    BY <1>1, InCaseIs
  <1>2. /\ last = b.lastBlock /\ last \in Nat /\ x.start \in made
        /\ IsSwitch(x, Below(last))
    BY <1>1 DEF InCase
  <1>a. PICK all, more, end : NextBlock(x, b, id, made, last, starts, others, all, more, end)
    BY BlockOfCase
  <1>3. /\ last \in Below(end) /\ end \in Nat /\ last <= end /\ Below(last) \subseteq Below(end)
        /\ all = starts \cup {x.start} /\ Beyond(made, last, others, more, end)
        /\ Unmade(end, more, last) = others \cup {x.after} /\ more = made \cup {id}
    BY <1>a DEF NextBlock
  <1>b. PICK r, j : r = Terminate(AllocateBlocks(b, 1), last) /\ j = Jmp(x.to)
    OBVIOUS
  <1>4. OpenAt(r, b, all, last, more, end)
    BY <1>a, <1>b DEF NextBlock
  <1>5. ShutAt(Push(r, j), b, all, last, more, end)
    <2>1. x.to \in Below(end)
      BY <1>2, <1>3 DEF IsSwitch
    <2>2. IsTerminator(j) /\ Leads(j, end)
      BY <1>b, <2>1, JmpIs
    <2>3. ClosedAt(Push(r, j), b, all, last, more, end)
      BY <1>4, <2>2, PushTerminator
    <2>. QED
      BY <2>3 DEF ClosedAt, ShutAt
  <1>c. PICK e : e = [x EXCEPT !.left = @ - 1, !.blocks = Append(@, last)]
    OBVIOUS
  <1>6. /\ e.op = "values" /\ e.node = x.node /\ e.k = x.k /\ e.after = x.after
        /\ e.start = x.start /\ e.blocks = Append(x.blocks, last) /\ e.default = x.default
        /\ e.to = x.to /\ e.left = x.left - 1
        /\ e = [op |-> e.op, node |-> e.node, k |-> e.k, reg |-> e.reg, after |-> e.after,
                start |-> e.start, blocks |-> e.blocks, default |-> e.default, to |-> e.to,
                left |-> e.left]
    <2>1. x = [op |-> x.op, node |-> x.node, k |-> x.k, reg |-> x.reg, after |-> x.after,
               start |-> x.start, blocks |-> x.blocks, default |-> x.default, to |-> x.to,
               left |-> x.left]
      BY <1>2 DEF IsSwitch
    <2>. QED
      BY <1>c, <2>1
  <1>7. IsSwitch(e, Below(end))
    <2>1. x.blocks \in Seq(Below(end)) /\ x.default \in 0 .. Len(x.blocks)
      BY <1>2, <1>3, BlocksMore DEF IsSwitch
    <2>2. /\ e.blocks \in Seq(Below(end)) /\ Len(e.blocks) = Len(x.blocks) + 1
          /\ Len(x.blocks) \in Nat
      BY <1>3, <1>6, <2>1, AppendIn, LenProperties
    <2>3. e.blocks # << >>
      BY <2>1, <2>2
    <2>4. {e.after, e.start, e.to} \subseteq Below(end)
      BY <1>2, <1>3, <1>6 DEF IsSwitch
    <2>5. e.default \in 0 .. Len(e.blocks)
      BY <1>6, <2>1, <2>2
    <2>6. e.k \in Nat \ {0}
      BY <1>2, <1>6 DEF IsSwitch
    <2>7. e.left \in Nat
      <3>1. x.left \in Nat
        BY <1>2 DEF IsSwitch
      <3>. QED
        BY <1>6, <3>1
    <2>8. /\ Len(e.node.cases) \in Nat \ {0}
          /\ \A k \in 1 .. Len(e.node.cases) :
               e.node.cases[k].values \in Nat \ {0} /\ IsBody(e.node.cases[k].body, TRUE)
      BY <1>2, <1>6 DEF IsSwitch
    <2>. QED
      BY <1>6, <2>2, <2>3, <2>4, <2>5, <2>6, <2>7, <2>8 DEF IsSwitch
  <1>8. LoweringInv(<<e>> \o rest, Push(r, j))
    <2>1. x.start \in more
      BY <1>2, <1>3
    <2>2. e.after = x.after /\ e.start = x.start /\ e.op = "values"
      BY <1>6
    <2>. QED
      BY <1>1, <1>3, <1>5, <1>7, <2>1, <2>2, BetweenStep
  <1>9. Push(r, j) = Fallthrough(b, x.to)
    BY <1>2, <1>b DEF Fallthrough
  <1>. QED
    BY <1>2, <1>8, <1>9, <1>c

-----------------------------------------------------------------------------
(* The end of a switch                                                     *)

\* All cases are lowered, the last jump's block is made; start waits for the switch.
Waits(p, b, start, after, made, last, y, starts) ==
    /\ Building(p, starts \cup {start}) /\ Len(p.yields) = y /\ p.defered = b.defered
    /\ p.lastBlock = last /\ Made(p) = made /\ p.current = NewBlock(after)
    /\ after \notin made /\ start \notin starts

AtEnd(p, x, rest, b, made, last, y, c, starts, others) ==
    /\ Waits(p, b, x.start, x.after, made, last, y, starts)
    /\ last = b.lastBlock /\ last \in Nat \ {0} /\ made \subseteq Below(last)
    /\ x.after \in Below(last) /\ starts \cup {x.start} \subseteq made
    /\ others = Unmade(last, made, x.after)
    /\ \A end \in Nat : last <= end => Work(rest, y, c, Below(end), made, others, starts)
    /\ c = Len(b.defered) /\ y \in Nat /\ c \in Nat
    /\ IsSequence(rest) /\ Calm(rest) /\ EndsAway(rest) /\ IsSwitch(x, Below(last))
    /\ x.k > 1

\* What is known when the last case is lowered.
LEMMA CasesEnd ==
  ASSUME NEW x, NEW rest, NEW b, Given(x, rest, b), x.op = "case", x.k > Len(x.node.cases)
  PROVE  \E made, last, y, c, starts, others :
            AtEnd(Terminate([b EXCEPT !.yields = Front(@)], x.after), x, rest, b,
                  made, last, y, c, starts, others)
  <1>1. x.op \in InSwitch
    BY DEF InSwitch
  <1>. PICK id, made, last, y, c, starts, others :
            InCase(x, rest, b, id, made, last, y, c, starts, others)
    BY <1>1, InCaseIs
  <1>2. /\ Building(b, starts \cup {x.start}) /\ starts \subseteq made /\ x.start \notin starts
        /\ id = b.current.id /\ made = Made(b) /\ last = b.lastBlock /\ last \in Nat \ {0}
        /\ id \in Below(last) /\ id \notin made /\ made \subseteq Below(last)
        /\ y \in Nat /\ Len(b.yields) = y + 1 /\ c = Len(b.defered) /\ c \in Nat
        /\ IsSequence(rest) /\ Calm(rest) /\ EndsAway(rest) /\ IsSwitch(x, Below(last))
        /\ x.after \in Unmade(last, made, id) /\ others = Unmade(last, made, id) \ {x.after}
        /\ (~IsFirst(x) => x.start \in made)
    BY DEF InCase
  <1>3. x.k > 1 /\ IsBetween(x) /\ ~IsFirst(x)
    <2>1. x.k > 1
      BY <1>2 DEF IsSwitch
    <2>. QED
      BY <2>1 DEF IsBetween, IsFirst
  <1>4. Closed(b.current.code) /\ x.start \in made
    BY <1>2, <1>3 DEF Given, Placed
  <1>a. PICK all, more : all = starts \cup {x.start} /\ more = made \cup {id}
    OBVIOUS
  <1>b. PICK ys : ys = Front(b.yields)
    OBVIOUS
  <1>c. PICK r : r = [b EXCEPT !.yields = ys]
    OBVIOUS
  <1>5. ys \in Seq(Numbers(b)) /\ Len(ys) = y
    <2>1. b.yields \in Seq(Numbers(b))
      BY <1>2, Within
    <2>2. Len(b.yields) # 0
      BY <1>2
    <2>3. Front(b.yields) \in Seq(Numbers(b)) /\ Len(Front(b.yields)) = Len(b.yields) - 1
      BY <2>1, <2>2, FrontIs
    <2>. QED
      BY <1>2, <1>b, <2>3
  <1>6. /\ Building(r, all) /\ r.yields = ys /\ r.defered = b.defered
        /\ Made(r) = made /\ r.lastBlock = last /\ r.current = b.current
    <2>1. LET p == [b EXCEPT !.yields = ys] IN
          /\ Building(p, all) /\ p.yields = ys /\ p.defered = b.defered
          /\ Made(p) = Made(b) /\ p.lastBlock = b.lastBlock /\ p.current = b.current
      BY <1>2, <1>5, <1>a, YieldsIs
    <2>. QED
      BY <1>2, <1>c, <2>1
  <1>7. id \notin all /\ x.after \in Below(last) /\ x.after # id /\ x.after \notin made
    BY <1>2, <1>4, <1>a DEF Unmade
  <1>d. PICK p : p = Terminate(r, x.after)
    OBVIOUS
  <1>8. /\ Building(p, all) /\ Same(r, p) /\ Made(p) = more /\ p.lastBlock = last
        /\ p.current = NewBlock(x.after)
    <2>1. x.after \in Numbers(r)
      BY <1>6, <1>7, Within
    <2>2. /\ r.current.id \notin Made(r) /\ r.current.id \notin all
          /\ Closed(r.current.code) /\ r.current.id = id
      BY <1>2, <1>4, <1>6, <1>7
    <2>3. /\ Building(Terminate(r, x.after), all) /\ Same(r, Terminate(r, x.after))
          /\ Made(Terminate(r, x.after)) = Made(r) \cup {r.current.id}
          /\ Terminate(r, x.after).lastBlock = r.lastBlock
          /\ Terminate(r, x.after).current = NewBlock(x.after)
      BY <1>6, <2>1, <2>2, TerminateIs
    <2>. QED
      BY <1>6, <1>a, <1>d, <2>2, <2>3
  <1>9. others = Unmade(last, more, x.after)
    BY <1>2, <1>a, <1>7 DEF Unmade
  <1>10. \A end \in Nat : last <= end => Work(rest, y, c, Below(end), more, others, starts)
    <2>. SUFFICES ASSUME NEW end \in Nat, last <= end
                  PROVE  Work(rest, y, c, Below(end), more, others, starts)
      OBVIOUS
    <2>1. Beyond(made, last, others, more, end)
      BY <1>2, <1>a DEF Beyond, Unmade
    <2>. QED
      BY <1>1, <2>1, RestOfCase
  <1>11. p.yields = ys /\ p.defered = b.defered
    BY <1>6, <1>8 DEF Same
  <1>12. all \subseteq more /\ more \subseteq Below(last) /\ x.after \notin more
    BY <1>2, <1>4, <1>7, <1>a
  <1>13. Waits(p, b, x.start, x.after, more, last, y, starts)
    BY <1>2, <1>5, <1>8, <1>11, <1>12, <1>a DEF Waits
  <1>14. AtEnd(p, x, rest, b, more, last, y, c, starts, others)
    BY <1>2, <1>3, <1>7, <1>9, <1>10, <1>12, <1>13, <1>a DEF AtEnd
  <1>15. p = Terminate([b EXCEPT !.yields = Front(@)], x.after)
    BY <1>b, <1>c, <1>d
  <1>. QED
    BY <1>14, <1>15

\* The switch is ended with the instruction i at the end of its block.
LEMMA SwitchEnds ==
  ASSUME NEW p, NEW b, NEW start, NEW after, NEW made, NEW last, NEW y, NEW starts,
         Waits(p, b, start, after, made, last, y, starts),
         NEW i, IsTerminator(i), Leads(i, last)
  PROVE  /\ OpenAt(AppendTo(p, start, i), AppendTo(p, start, i), starts, after, made, last)
         /\ Len(AppendTo(p, start, i).yields) = y /\ AppendTo(p, start, i).defered = b.defered
  <1>a. PICK id, all, r : id = start /\ all = starts \cup {start} /\ r = AppendTo(p, start, i)
    OBVIOUS
  <1>1. /\ Building(p, all) /\ Len(p.yields) = y /\ p.defered = b.defered
        /\ p.lastBlock = last /\ Made(p) = made /\ p.current = NewBlock(after)
        /\ after \notin made /\ id \notin starts
    BY <1>a DEF Waits
  <1>2. id \in all /\ all \ {id} = starts
    BY <1>1, <1>a
  <1>3. Targets(i) \subseteq Numbers(p)
    BY <1>1, Within DEF Leads
  <1>4. /\ Building(AppendTo(p, id, i), all \ {id}) /\ Same(p, AppendTo(p, id, i))
        /\ Made(AppendTo(p, id, i)) = Made(p)
        /\ AppendTo(p, id, i).lastBlock = p.lastBlock
        /\ AppendTo(p, id, i).current = p.current
    BY ZenonT(60), <1>1, <1>2, <1>3, AppendToIs
  <1>5. /\ Building(r, starts) /\ Same(p, r) /\ Made(r) = made /\ r.lastBlock = last
        /\ r.current = NewBlock(after)
    BY <1>1, <1>2, <1>4, <1>a
  <1>6. /\ NewBlock(after).id = after /\ NewBlock(after).terminated = FALSE
        /\ Open(NewBlock(after).code)
    BY NewBlockIs
  <1>7. OpenAt(r, r, starts, after, made, last)
    BY <1>1, <1>5, <1>6 DEF OpenAt, Same
  <1>8. Len(r.yields) = y /\ r.defered = b.defered
    BY <1>1, <1>5 DEF Same
  <1>. QED
    BY <1>7, <1>8, <1>a

\* BuildIRIntMatch keeps the invariant: the switch ends its first block.
LEMMA IntMatchStep ==
  ASSUME NEW x, NEW rest, NEW b, Given(x, rest, b), x.op = "case", x.k > Len(x.node.cases)
  PROVE  LoweringInv(rest,
            AppendTo(Terminate([b EXCEPT !.yields = Front(@)], x.after), x.start,
                     [op |-> "switch", reg |-> x.reg, cases |-> x.blocks,
                      default |-> x.default, after |-> x.after]))
  <1>a. PICK p : p = Terminate([b EXCEPT !.yields = Front(@)], x.after)
    OBVIOUS
  <1>b. PICK made, last, y, c, starts, others :
            AtEnd(p, x, rest, b, made, last, y, c, starts, others)
    BY <1>a, CasesEnd
  <1>1. /\ x.after \in Below(last) /\ IsSwitch(x, Below(last))
        /\ others = Unmade(last, made, x.after) /\ starts \subseteq made
        /\ Work(rest, y, c, Below(last), made, others, starts)
        /\ c = Len(b.defered) /\ Calm(rest) /\ EndsAway(rest)
        /\ Waits(p, b, x.start, x.after, made, last, y, starts)
    BY <1>b DEF AtEnd
  <1>c. PICK i : i = [op |-> "switch", reg |-> x.reg, cases |-> x.blocks,
                      default |-> x.default, after |-> x.after]
    OBVIOUS
  <1>2. IsTerminator(i) /\ Leads(i, last)
    <2>1. i.op = "switch" /\ i.cases = x.blocks /\ i.after = x.after
      BY <1>c
    <2>2. Targets(i) = {i.cases[k] : k \in DOMAIN i.cases} \cup {i.after}
      BY <2>1 DEF Targets
    <2>3. x.blocks \in Seq(Below(last))
      BY <1>1 DEF IsSwitch
    <2>4. \A k \in DOMAIN x.blocks : x.blocks[k] \in Below(last)
      BY <2>3, LenProperties
    <2>5. Targets(i) \subseteq Below(last)
      BY <1>1, <2>1, <2>2, <2>4
    <2>. QED
      BY <2>1, <2>5 DEF Leads, IsTerminator
  <1>d. PICK r : r = AppendTo(p, x.start, i)
    OBVIOUS
  <1>3. /\ OpenAt(r, r, starts, x.after, made, last)
        /\ Len(r.yields) = y /\ r.defered = b.defered
    BY <1>1, <1>2, <1>d, SwitchEnds
  <1>4. Work(rest, Len(r.yields), Len(r.defered), Below(last), made,
             Unmade(last, made, x.after), starts)
    BY <1>1, <1>3
  <1>5. LoweringInv(rest, r)
    BY <1>1, <1>3, <1>4, Done
  <1>. QED
    BY <1>5, <1>a, <1>c, <1>d

\* The comparisons of a match on strings, before one of them.
LEMMA ComparesInFront ==
  ASSUME NEW e, e.op = "strings",
         NEW q, NEW y \in Nat, NEW c \in Nat, NEW nums, NEW made, NEW prom, NEW starts,
         Work(q, y, c, nums, made, prom, starts), Calm(q), IsSwitch(e, nums), e.after \notin prom,
         NEW id, id \notin made
  PROVE  /\ Work(Cons(e, q), y, c, nums, made, prom \cup {e.after}, starts)
         /\ Suits(Cons(e, q), id, made) /\ IsSequence(q)
         /\ EndsAway(q) => EndsAway(Cons(e, q))
  <1>1. Promises(e, made) = {e.after}
    BY DEF Promises, InSwitch
  <1>2. EndsInTime(e, made, q = << >>) /\ e.op # "endBody" /\ ~WhileEnd(e)
    BY DEF EndsInTime, WhileEnd
  <1>3. q # << >> => Follows(e, q[1], made)
    BY <1>2, FollowsOrdinary DEF Calm
  <1>4. \E s \in BOOLEAN : (s => y > 0) /\ Stays(e, s, nums)
    <2>1. Stays(e, FALSE, nums)
      BY DEF Stays
    <2>. QED
      BY <2>1
  <1>5. Links(e, q, y, nums, made, prom)
    BY <1>1, <1>2, <1>3, <1>4 DEF Links, InSwitch, Calm
  <1>6. /\ Work(Cons(e, q), y, c, nums, made, prom \cup Promises(e, made), starts)
        /\ IsSequence(q) /\ Cons(e, q) # << >> /\ Cons(e, q)[1] = e
        /\ NoTest(Cons(e, q)) /\ (EndsAway(q) => EndsAway(Cons(e, q)))
    BY <1>5, LinkInFront DEF Calm
  <1>7. Suits(Cons(e, q), id, made)
    <2>1. ~ComesBack(Cons(e, q)) /\ ~First(Cons(e, q)) /\ ~Between(Cons(e, q))
      BY <1>2, <1>6 DEF ComesBack, First, Between
    <2>2. TestsMade(Cons(e, q), made \cup {id})
      BY <1>6 DEF NoTest, TestsMade
    <2>. QED
      BY <1>6, <2>1, <2>2 DEF Suits
  <1>. QED
    BY <1>1, <1>6, <1>7

\* BuildIRStringMatch does: the switch's first block jumps to the comparisons.
LEMMA StringMatchStep ==
  ASSUME NEW x, NEW rest, NEW b, Given(x, rest, b), x.op = "case", x.k > Len(x.node.cases)
  PROVE  LET p == Terminate([b EXCEPT !.yields = Front(@)], x.after)
             r == AppendTo(AllocateBlocks(p, 1), x.start, Jmp(b.lastBlock))
         IN  LoweringInv(<<[x EXCEPT !.op = "strings", !.k = 1]>> \o rest,
                         [r EXCEPT !.current = NewBlock(b.lastBlock)])
  <1>a. PICK p : p = Terminate([b EXCEPT !.yields = Front(@)], x.after)
    OBVIOUS
  <1>b. PICK made, last, y, c, starts, others :
            AtEnd(p, x, rest, b, made, last, y, c, starts, others)
    BY <1>a, CasesEnd
  <1>1. /\ last = b.lastBlock /\ last \in Nat \ {0} /\ made \subseteq Below(last)
        /\ x.after \in Below(last) /\ IsSwitch(x, Below(last)) /\ x.k > 1
        /\ others = Unmade(last, made, x.after) /\ starts \subseteq made
        /\ c = Len(b.defered) /\ y \in Nat /\ c \in Nat
        /\ IsSequence(rest) /\ Calm(rest) /\ EndsAway(rest)
        /\ Waits(p, b, x.start, x.after, made, last, y, starts)
    BY <1>b DEF AtEnd
  <1>c. PICK n1, n2, n3, n4 : Next4(last, n1, n2, n3, n4)
    BY <1>1, NextAre
  <1>2. /\ last \in Below(n1) /\ n1 \in Nat /\ last <= n1 /\ n1 = last + 1 /\ last \notin made
        /\ Below(last) \subseteq Below(n1)
        /\ Unmade(n1, made, last) = others \cup {x.after} /\ x.after \notin others
    <2>1. /\ Below(n1) = Below(last) \cup {last} /\ last \notin Below(last)
          /\ n1 \in Nat /\ last <= n1 /\ n1 = last + 1
      BY <1>c DEF Next4
    <2>2. x.after \notin made
      BY <1>1 DEF Waits
    <2>. QED
      BY <1>1, <2>1, <2>2 DEF Unmade
  <1>3. Work(rest, y, c, Below(n1), made, others, starts)
    BY <1>b, <1>2 DEF AtEnd
  <1>d. PICK p1 : p1 = AllocateBlocks(p, 1)
    OBVIOUS
  <1>4. Waits(p1, b, x.start, x.after, made, n1, y, starts)
    <2>1. PICK all : all = starts \cup {x.start}
      OBVIOUS
    <2>2. /\ Building(p, all) /\ Len(p.yields) = y /\ p.defered = b.defered
          /\ p.lastBlock = last /\ Made(p) = made /\ p.current = NewBlock(x.after)
          /\ x.after \notin made /\ x.start \notin starts
      BY <1>1, <2>1 DEF Waits
    <2>3. /\ Building(p1, all) /\ Same(p, p1) /\ Made(p1) = Made(p)
          /\ p1.lastBlock = p.lastBlock + 1 /\ p1.current = p.current
      BY <1>d, <2>2, AllocateIs
    <2>4. p1.lastBlock = n1 /\ p1.yields = p.yields /\ p1.defered = p.defered
      BY <1>2, <2>2, <2>3 DEF Same
    <2>. QED
      BY <2>1, <2>2, <2>3, <2>4 DEF Waits
  <1>e. PICK j : j = Jmp(last)
    OBVIOUS
  <1>f. PICK r : r = AppendTo(p1, x.start, j)
    OBVIOUS
  <1>5. /\ OpenAt(r, r, starts, x.after, made, n1)
        /\ Len(r.yields) = y /\ r.defered = b.defered
    <2>1. IsTerminator(j) /\ Leads(j, n1)
      BY <1>2, <1>e, JmpIs
    <2>. QED
      BY <1>4, <1>f, <2>1, SwitchEnds
  <1>g. PICK u : u = [r EXCEPT !.current = NewBlock(last)]
    OBVIOUS
  <1>6. OpenOn(u, r, starts, last, made, n1)
    <2>1. Building(r, starts) /\ Made(r) = made /\ r.lastBlock = n1
      BY <1>5 DEF OpenAt
    <2>2. OpenAt(u, r, starts, last, made, n1)
      BY <1>2, <1>g, <2>1, CurrentAt
    <2>. QED
      BY <2>2 DEF OpenAt, OpenOn
  <1>h. PICK e : e = [x EXCEPT !.op = "strings", !.k = 1]
    OBVIOUS
  <1>7. /\ e.op = "strings" /\ e.node = x.node /\ e.k = 1 /\ e.after = x.after
        /\ e.start = x.start /\ e.blocks = x.blocks /\ e.default = x.default
        /\ e.to = x.to /\ e.left = x.left
        /\ e = [op |-> e.op, node |-> e.node, k |-> e.k, reg |-> e.reg, after |-> e.after,
                start |-> e.start, blocks |-> e.blocks, default |-> e.default, to |-> e.to,
                left |-> e.left]
    <2>1. x = [op |-> x.op, node |-> x.node, k |-> x.k, reg |-> x.reg, after |-> x.after,
               start |-> x.start, blocks |-> x.blocks, default |-> x.default, to |-> x.to,
               left |-> x.left]
      BY <1>1 DEF IsSwitch
    <2>. QED
      BY <1>h, <2>1
  <1>8. IsSwitch(e, Below(n1))
    <2>1. e.blocks \in Seq(Below(n1))
      BY <1>1, <1>2, <1>7, BlocksMore DEF IsSwitch
    <2>2. {e.after, e.start, e.to} \subseteq Below(n1)
      BY <1>1, <1>2, <1>7 DEF IsSwitch
    <2>3. x.blocks # << >> /\ x.blocks \in Seq(Below(last))
      BY <1>1 DEF IsSwitch
    <2>4. e.k <= Len(e.blocks)
      <3>1. Len(x.blocks) \in Nat /\ Len(x.blocks) # 0
        BY <2>3, LenProperties, EmptySeq
      <3>. QED
        BY <1>7, <3>1
    <2>5. e.k \in Nat \ {0} /\ e.left \in Nat /\ e.default \in 0 .. Len(e.blocks)
      BY <1>1, <1>7 DEF IsSwitch
    <2>6. /\ Len(e.node.cases) \in Nat \ {0}
          /\ \A k \in 1 .. Len(e.node.cases) :
               e.node.cases[k].values \in Nat \ {0} /\ IsBody(e.node.cases[k].body, TRUE)
      BY <1>1, <1>7 DEF IsSwitch
    <2>. QED
      BY <1>7, <2>1, <2>2, <2>4, <2>5, <2>6 DEF IsSwitch
  <1>9. /\ Work(Cons(e, rest), y, c, Below(n1), made, others \cup {e.after}, starts)
        /\ Suits(Cons(e, rest), last, made) /\ IsSequence(rest)
        /\ EndsAway(rest) => EndsAway(Cons(e, rest))
    <2>1. e.op = "strings" /\ e.after \notin others
      BY <1>2, <1>7
    <2>. QED
      BY <1>1, <1>2, <1>3, <1>8, <2>1, ComparesInFront
  <1>i. PICK q : q = Cons(e, rest)
    OBVIOUS
  <1>10. LoweringInv(q, u)
    <2>1. Work(q, Len(r.yields), Len(r.defered), Below(n1), made,
               Unmade(n1, made, last), starts)
      BY <1>1, <1>2, <1>5, <1>7, <1>9, <1>i
    <2>2. Suits(q, last, made) /\ EndsAway(q)
      BY <1>1, <1>9, <1>i
    <2>. QED
      BY <1>1, <1>6, <2>1, <2>2, DoneOn
  <1>11. <<e>> \o rest = q
    BY <1>1, <1>i, SingleWork
  <1>. QED
    BY <1>1, <1>10, <1>11, <1>a, <1>d, <1>e, <1>f, <1>g, <1>h

\* Two strings are compared: the current block and three of four new ones are
\* made, and the last of the new ones is open.
LEMMA ComparedAt ==
  ASSUME NEW x, NEW b, NEW k, NEW starts, NEW id, NEW made, NEW last \in Nat \ {0},
         OpenAt(b, b, starts, id, made, last), starts \subseteq made, id \notin starts,
         id \in Below(last), made \subseteq Below(last),
         NEW n1, NEW n2, NEW n3, NEW n4, Next4(last, n1, n2, n3, n4)
  PROVE  OpenAt(BuildStringCompare(x, b, k), b, starts, n3, made \cup {id, last, n1, n2}, n4)
  <1>1. /\ last \in Below(n4) /\ n1 \in Below(n4) /\ n2 \in Below(n4) /\ n3 \in Below(n4)
        /\ last \notin made \cup {id} /\ n1 \notin made \cup {id}
        /\ n2 \notin made \cup {id} /\ n3 \notin made \cup {id}
        /\ last # n1 /\ last # n2 /\ last # n3 /\ n1 # n2 /\ n1 # n3 /\ n2 # n3
    BY DEF Next4
  <1>2. last \notin starts /\ n1 \notin starts /\ n2 \notin starts
    BY <1>1
  <1>3. b.lastBlock = last /\ last + 1 = n1 /\ last + 2 = n2 /\ last + 3 = n3 /\ last + 4 = n4
    BY DEF OpenAt, Next4
  <1>a. PICK reg, c, m : /\ reg = b.lastRegister
                         /\ c = Comparison("count", x, reg, k)
                         /\ m = Comparison("memcmp", x, reg, k)
    OBVIOUS
  <1>4. /\ ~IsTerminator(c) /\ Targets(c) = {} /\ c.reg = reg
        /\ ~IsTerminator(m) /\ Targets(m) = {} /\ m.reg = reg
    BY <1>a, InstructionIs DEF Comparison
  <1>b. PICK p0 : p0 = Push(AllocateRegister(AllocateBlocks(b, 4)), c)
    OBVIOUS
  <1>5. OpenAt(p0, b, starts, id, made, n4)
    <2>1. OpenAt(AllocateBlocks(b, 4), b, starts, id, made, last + 4)
      BY AllocateAt
    <2>2. OpenAt(AllocateRegister(AllocateBlocks(b, 4)), b, starts, id, made, last + 4)
      BY <2>1, RegisterAt
    <2>3. OpenAt(p0, b, starts, id, made, last + 4)
      BY <1>4, <1>b, <2>2, PushAt
    <2>. QED
      BY <1>3, <2>3
  <1>c. PICK i, p1, m1 : /\ i = Branch(reg, n2, n1) /\ p1 = Terminate(Push(p0, i), n2)
                         /\ m1 = made \cup {id}
    OBVIOUS
  <1>6. OpenAt(p1, b, starts, n2, m1, n4)
    <2>1. IsTerminator(i) /\ Leads(i, n4)
      BY <1>1, <1>c, BranchIs
    <2>2. n2 \notin made /\ n2 # id
      BY <1>1
    <2>. QED
      BY <1>1, <1>5, <1>c, <2>1, <2>2, CloseAt
  <1>d. PICK j, p2, p3, m3 : /\ j = Branch(reg, last, n1) /\ p2 = Push(p1, m)
                             /\ p3 = Terminate(Push(p2, j), last) /\ m3 = m1 \cup {n2}
    OBVIOUS
  <1>7. OpenAt(p3, b, starts, last, m3, n4)
    <2>1. OpenAt(p2, b, starts, n2, m1, n4)
      BY <1>4, <1>6, <1>d, PushAt
    <2>2. IsTerminator(j) /\ Leads(j, n4)
      BY <1>1, <1>d, BranchIs
    <2>3. last \notin m1 /\ last # n2
      BY <1>1, <1>c
    <2>. QED
      BY <1>1, <1>2, <1>d, <2>1, <2>2, <2>3, CloseAt
  <1>e. PICK p4, m4 : /\ p4 = Terminate(Push(Push(p3, Store(reg, 1)), Jmp(n3)), n1)
                      /\ m4 = m3 \cup {last}
    OBVIOUS
  <1>8. OpenAt(p4, b, starts, n1, m4, n4)
    <2>1. n1 \notin m3 /\ n1 # last
      BY <1>1, <1>c, <1>d
    <2>. QED
      BY <1>1, <1>2, <1>7, <1>e, <2>1, ResultAt
  <1>f. PICK p5, m5 : /\ p5 = Terminate(Push(Push(p4, Store(reg, 0)), Jmp(n3)), n3)
                      /\ m5 = m4 \cup {n1}
    OBVIOUS
  <1>9. OpenAt(p5, b, starts, n3, m5, n4)
    <2>1. n3 \notin m4 /\ n3 # n1
      BY <1>1, <1>c, <1>d, <1>e
    <2>. QED
      BY <1>1, <1>2, <1>8, <1>f, <2>1, ResultAt
  <1>10. m5 = made \cup {id, last, n1, n2}
    BY <1>c, <1>d, <1>e, <1>f
  <1>11. BuildStringCompare(x, b, k) = p5
    BY <1>3, <1>4, <1>a, <1>b, <1>c, <1>d, <1>e, <1>f
       DEF BuildStringCompare, CompareAndBranch, StoreAndJump
  <1>. QED
    BY <1>9, <1>10, <1>11

\* What a comparison adds to the blocks of a step: m is made, n the next number
\* and now the current block.
FourMore(made, last, id, m, n, now) ==
    /\ m = made \cup {id, last, last + 1, last + 2} /\ now = last + 3 /\ n = last + 4
    /\ n \in Nat \ {0} /\ last <= n /\ now \in Below(n) /\ now \notin m /\ m \subseteq Below(n)
    /\ Below(last) \subseteq Below(n)
    /\ Unmade(n, m, now) = Unmade(last, made, id)

\* What a step has after its comparison r: Stands in front of it, and id, made and
\* last now.
Compared(x, rest, b, r, id0, made0, last0, y, c, starts, own, others, id, made, last) ==
    /\ Stands(x, rest, b, id0, made0, last0, y, c, starts, own, others)
    /\ own = {x.after} /\ IsSwitch(x, Below(last0)) /\ Calm(rest) /\ EndsAway(rest)
    /\ FourMore(made0, last0, id0, made, last, id)
    /\ OpenAt(r, b, starts, id, made, last)
    /\ starts \subseteq made /\ id \notin starts

\* The step of CompareStrings after its comparison.
LEMMA AfterCompare ==
  ASSUME NEW x, NEW rest, NEW b, Given(x, rest, b), x.op = "strings",
         NEW r, r = BuildStringCompare(x, b, x.k)
  PROVE  \E id0, made0, last0, y, c, starts, own, others, id, made, last :
            Compared(x, rest, b, r, id0, made0, last0, y, c, starts, own, others, id, made, last)
  <1>1. Enters(x) /\ x.op \notin InSwitch /\ x.op # "close" /\ x.op \notin Conditions
    BY DEF Enters, InSwitch, Conditions, IsBetween, WhileEnd
  <1>. PICK id0, made0, last0, y, c, starts, own, others :
            Stands(x, rest, b, id0, made0, last0, y, c, starts, own, others)
    BY <1>1, Stand
  <1>2. /\ OpenAt(b, b, starts, id0, made0, last0) /\ starts \subseteq made0 /\ id0 \notin starts
        /\ b.lastBlock = last0 /\ last0 \in Nat \ {0} /\ id0 \in Below(last0)
        /\ made0 \subseteq Below(last0) /\ own = Promises(x, made0)
        /\ Calm(rest) /\ EndsAway(rest)
    BY <1>1 DEF Stands
  <1>3. IsSwitch(x, Below(last0)) /\ own = {x.after}
    <2>1. PICK s \in BOOLEAN : Kind(x, s, rest, Below(last0))
      BY <1>2, KindAt
    <2>. QED
      BY <1>2, <2>1 DEF Kind, Promises, InSwitch
  <1>a. PICK n1, n2, n3, n4 : Next4(last0, n1, n2, n3, n4)
    BY <1>2, NextAre
  <1>b. PICK made : made = made0 \cup {id0, last0, n1, n2}
    OBVIOUS
  <1>4. OpenAt(r, b, starts, n3, made, n4)
    BY <1>2, <1>a, <1>b, ComparedAt
  <1>5. FourMore(made0, last0, id0, made, n4, n3)
    <2>1. /\ n1 = last0 + 1 /\ n2 = last0 + 2 /\ n3 = last0 + 3 /\ n4 = last0 + 4
          /\ n4 \in Nat \ {0} /\ last0 <= n4
      BY <1>2, <1>a DEF Next4
    <2>2. /\ Below(n4) = Below(last0) \cup {last0, n1, n2, n3}
          /\ last0 \notin Below(last0) /\ n1 \notin Below(last0)
          /\ n2 \notin Below(last0) /\ n3 \notin Below(last0)
          /\ n3 # last0 /\ n3 # n1 /\ n3 # n2
      BY <1>a DEF Next4
    <2>3. n3 \in Below(n4) /\ n3 \notin made /\ made \subseteq Below(n4)
          /\ Below(last0) \subseteq Below(n4)
      BY <1>2, <1>b, <2>2
    <2>4. Unmade(n4, made, n3) = Unmade(last0, made0, id0)
      BY <1>2, <1>b, <2>2 DEF Unmade
    <2>5. made = made0 \cup {id0, last0, last0 + 1, last0 + 2}
      BY <1>b, <2>1
    <2>. QED
      BY <2>1, <2>3, <2>4, <2>5 DEF FourMore
  <1>6. starts \subseteq made /\ n3 \notin starts
    BY <1>2, <1>5, <1>b DEF FourMore
  <1>7. Compared(x, rest, b, r, id0, made0, last0, y, c, starts, own, others, n3, made, n4)
    BY <1>2, <1>3, <1>4, <1>5, <1>6 DEF Compared
  <1>. QED
    BY <1>7

\* A comparison that is not the last: another block for the next one.
LEMMA NextCompare ==
  ASSUME NEW x, NEW rest, NEW b, Given(x, rest, b), x.op = "strings", x.k < Len(x.blocks),
         NEW r, r = BuildStringCompare(x, b, x.k), NEW reg
  PROVE  LoweringInv(<<[x EXCEPT !.k = @ + 1]>> \o rest,
                     Terminate(Push(AllocateBlocks(r, 1), Branch(reg, x.blocks[x.k], r.lastBlock)),
                               r.lastBlock))
  <1>1. x.op \notin InSwitch /\ x.op # "close"
    BY DEF InSwitch
  <1>. PICK id0, made0, last0, y, c, starts, own, others, id, made, last :
            Compared(x, rest, b, r, id0, made0, last0, y, c, starts, own, others, id, made, last)
    BY AfterCompare
  <1>0. /\ Stands(x, rest, b, id0, made0, last0, y, c, starts, own, others)
        /\ own = {x.after} /\ IsSwitch(x, Below(last0)) /\ Calm(rest) /\ EndsAway(rest)
        /\ FourMore(made0, last0, id0, made, last, id)
        /\ OpenAt(r, b, starts, id, made, last)
        /\ starts \subseteq made /\ id \notin starts
    BY DEF Compared
  <1>2. /\ y = Len(b.yields) /\ c = Len(b.defered) /\ y \in Nat /\ c \in Nat /\ IsSequence(rest)
        /\ last0 \in Nat /\ made0 \subseteq made /\ last0 <= last
        /\ last \in Nat \ {0} /\ id \in Below(last) /\ made \subseteq Below(last) /\ id \notin made
        /\ own \subseteq Unmade(last, made, id) /\ others = Unmade(last, made, id) \ own
    BY <1>0 DEF Stands, FourMore
  <1>3. IsSwitch(x, Below(last)) /\ own = {x.after} /\ r.lastBlock = last
    <2>1. Below(last0) \subseteq Below(last)
      BY <1>0 DEF FourMore
    <2>2. x.blocks \in Seq(Below(last))
      BY <1>0, <1>2, BlocksMore DEF IsSwitch
    <2>3. r.lastBlock = last
      BY <1>0 DEF OpenAt
    <2>. QED
      BY <1>0, <2>1, <2>2, <2>3 DEF IsSwitch
  <1>a. PICK n1, n2, n3, n4 : Next4(last, n1, n2, n3, n4)
    BY <1>2, NextAre
  <1>b. PICK more : more = made \cup {id}
    OBVIOUS
  <1>4. /\ last \in Below(n1) /\ n1 \in Nat /\ last <= n1 /\ n1 = last + 1
        /\ last # id /\ last \notin made /\ Below(last) \subseteq Below(n1)
        /\ Unmade(n1, more, last) = others \cup {x.after} /\ x.after \notin others
        /\ last \notin more /\ starts \subseteq more
        /\ Beyond(made0, last0, others, more, n1)
    <2>1. /\ Below(n1) = Below(last) \cup {last} /\ last \notin Below(last)
          /\ n1 \in Nat /\ last <= n1 /\ n1 = last + 1
      BY <1>a DEF Next4
    <2>2. Unmade(n1, more, last) = Unmade(last, made, id)
      BY <1>2, <1>b, <2>1 DEF Unmade
    <2>3. more \cap others = {} /\ made0 \subseteq more
      BY <1>2, <1>b DEF Unmade
    <2>4. last0 <= n1
      BY <1>2, <2>1
    <2>. QED
      BY <1>0, <1>2, <1>3, <1>b, <2>1, <2>2, <2>3, <2>4 DEF Beyond
  <1>5. x.blocks \in Seq(Below(last)) /\ x.k \in 1 .. Len(x.blocks) /\ x.blocks[x.k] \in Below(last)
        /\ Len(x.blocks) \in Nat
    <2>1. x.blocks \in Seq(Below(last)) /\ x.k \in Nat \ {0}
      BY <1>3 DEF IsSwitch
    <2>2. Len(x.blocks) \in Nat /\ x.blocks \in [1 .. Len(x.blocks) -> Below(last)]
      BY <2>1, LenProperties
    <2>3. x.k \in 1 .. Len(x.blocks)
      BY <2>1, <2>2
    <2>. QED
      BY <2>1, <2>2, <2>3
  <1>c. PICK j, r1, p : /\ j = Branch(reg, x.blocks[x.k], last)
                        /\ r1 = AllocateBlocks(r, 1) /\ p = Terminate(Push(r1, j), last)
    OBVIOUS
  <1>7. OpenAt(p, b, starts, last, more, n1)
    <2>1. OpenAt(r1, b, starts, id, made, n1)
      <3>1. OpenAt(AllocateBlocks(r, 1), b, starts, id, made, last + 1)
        BY <1>0, AllocateAt
      <3>. QED
        BY <1>4, <1>c, <3>1
    <2>2. IsTerminator(j) /\ Leads(j, n1)
      BY <1>4, <1>5, <1>c, BranchIs
    <2>3. OpenAt(Terminate(Push(r1, j), last), b, starts, last, made \cup {id}, n1)
      BY <1>0, <1>2, <1>4, <2>1, <2>2, CloseAt
    <2>. QED
      BY <1>b, <1>c, <2>3
  <1>8. Work(rest, y, c, Below(n1), more, others, starts)
    BY <1>0, <1>1, <1>4, RestOf
  <1>d. PICK e : e = [x EXCEPT !.k = @ + 1]
    OBVIOUS
  <1>9. /\ e.op = "strings" /\ e.node = x.node /\ e.k = x.k + 1 /\ e.after = x.after
        /\ e.start = x.start /\ e.blocks = x.blocks /\ e.default = x.default
        /\ e.to = x.to /\ e.left = x.left
        /\ e = [op |-> e.op, node |-> e.node, k |-> e.k, reg |-> e.reg, after |-> e.after,
                start |-> e.start, blocks |-> e.blocks, default |-> e.default, to |-> e.to,
                left |-> e.left]
    <2>1. x = [op |-> x.op, node |-> x.node, k |-> x.k, reg |-> x.reg, after |-> x.after,
               start |-> x.start, blocks |-> x.blocks, default |-> x.default, to |-> x.to,
               left |-> x.left]
      BY <1>3 DEF IsSwitch
    <2>. QED
      BY <1>d, <2>1
  <1>10. IsSwitch(e, Below(n1))
    <2>1. e.blocks \in Seq(Below(n1))
      BY <1>2, <1>4, <1>5, <1>9, BlocksMore
    <2>2. {e.after, e.start, e.to} \subseteq Below(n1)
      BY <1>3, <1>4, <1>9 DEF IsSwitch
    <2>3. e.k \in Nat \ {0} /\ e.k <= Len(e.blocks)
      <3>1. x.k \in Nat /\ x.k + 1 <= Len(x.blocks)
        BY <1>5
      <3>. QED
        BY <1>9, <3>1
    <2>4. e.left \in Nat /\ e.default \in 0 .. Len(e.blocks)
      BY <1>3, <1>9 DEF IsSwitch
    <2>5. /\ Len(e.node.cases) \in Nat \ {0}
          /\ \A k \in 1 .. Len(e.node.cases) :
               e.node.cases[k].values \in Nat \ {0} /\ IsBody(e.node.cases[k].body, TRUE)
      BY <1>3, <1>9 DEF IsSwitch
    <2>. QED
      BY <1>9, <2>1, <2>2, <2>3, <2>4, <2>5 DEF IsSwitch
  <1>11. /\ Work(Cons(e, rest), y, c, Below(n1), more, others \cup {e.after}, starts)
         /\ Suits(Cons(e, rest), last, more) /\ IsSequence(rest)
         /\ EndsAway(rest) => EndsAway(Cons(e, rest))
    <2>1. e.op = "strings" /\ e.after \notin others
      BY <1>4, <1>9
    <2>. QED
      BY <1>0, <1>2, <1>4, <1>8, <1>10, <2>1, ComparesInFront
  <1>e. PICK q : q = Cons(e, rest)
    OBVIOUS
  <1>12. LoweringInv(q, p)
    <2>1. Work(q, Len(b.yields), Len(b.defered), Below(n1), more, Unmade(n1, more, last), starts)
      BY <1>2, <1>4, <1>9, <1>11, <1>e
    <2>2. Suits(q, last, more) /\ EndsAway(q)
      BY <1>0, <1>2, <1>11, <1>e
    <2>3. OpenOn(p, b, starts, last, more, n1)
      BY <1>7 DEF OpenAt, OpenOn
    <2>. QED
      BY <1>4, <2>1, <2>2, <2>3, DoneOn
  <1>13. <<e>> \o rest = q
    BY <1>2, <1>e, SingleWork
  <1>. QED
    BY <1>3, <1>12, <1>13, <1>c, <1>d

\* The last one: where nothing matches, the default comes or the end.
LEMMA LastCompare ==
  ASSUME NEW x, NEW rest, NEW b, Given(x, rest, b), x.op = "strings",
         NEW r, r = BuildStringCompare(x, b, x.k),
         NEW j, IsTerminator(j), Leads(j, b.lastBlock)
  PROVE  LoweringInv(rest, Terminate(Push(r, j), x.after))
  <1>1. x.op \notin InSwitch /\ x.op # "close"
    BY DEF InSwitch
  <1>. PICK id0, made0, last0, y, c, starts, own, others, id, made, last :
            Compared(x, rest, b, r, id0, made0, last0, y, c, starts, own, others, id, made, last)
    BY AfterCompare
  <1>0. /\ Stands(x, rest, b, id0, made0, last0, y, c, starts, own, others)
        /\ own = {x.after} /\ IsSwitch(x, Below(last0)) /\ Calm(rest) /\ EndsAway(rest)
        /\ FourMore(made0, last0, id0, made, last, id)
        /\ OpenAt(r, b, starts, id, made, last)
        /\ starts \subseteq made /\ id \notin starts
    BY DEF Compared
  <1>2. /\ y = Len(b.yields) /\ c = Len(b.defered) /\ b.lastBlock = last0
        /\ last0 \in Nat /\ made0 \subseteq made /\ last0 <= last
        /\ last \in Nat \ {0} /\ Below(last0) \subseteq Below(last)
        /\ own \subseteq Unmade(last, made, id) /\ others = Unmade(last, made, id) \ own
    BY <1>0 DEF Stands, FourMore
  <1>a. PICK to, more : to = x.after /\ more = made \cup {id}
    OBVIOUS
  <1>3. own = {to}
    BY <1>0, <1>a
  <1>4. /\ to \in Below(last) /\ to \notin made /\ to # id /\ starts \subseteq more
        /\ Unmade(last, more, to) = others /\ Beyond(made0, last0, others, more, last)
    BY <1>0, <1>2, <1>3, <1>a DEF Unmade, Beyond
  <1>6. OpenAt(Terminate(Push(r, j), to), b, starts, to, more, last)
    <2>1. Leads(j, last)
      BY <1>2 DEF Leads
    <2>2. OpenAt(Terminate(Push(r, j), to), b, starts, to, made \cup {id}, last)
      BY <1>0, <1>2, <1>4, <2>1, CloseAt
    <2>. QED
      BY <2>2, <1>a
  <1>7. Work(rest, y, c, Below(last), more, others, starts)
    BY <1>0, <1>1, <1>4, RestOf
  <1>8. Work(rest, Len(b.yields), Len(b.defered), Below(last), more, Unmade(last, more, to), starts)
    BY <1>2, <1>4, <1>7
  <1>9. LoweringInv(rest, Terminate(Push(r, j), to))
    BY <1>0, <1>2, <1>4, <1>6, <1>8, Done
  <1>. QED
    BY <1>9, <1>a

\* CompareStrings keeps the invariant.
LEMMA CompareStep ==
  ASSUME NEW x, NEW rest, NEW b, Given(x, rest, b), x.op = "strings"
  PROVE  LoweringInv((IF x.k < Len(x.blocks) THEN <<[x EXCEPT !.k = @ + 1]>> ELSE << >>) \o rest,
                     TestCase(x, b, x.k))
  <1>a. PICK reg, r : reg = b.lastRegister /\ r = BuildStringCompare(x, b, x.k)
    OBVIOUS
  <1>2. IsSequence(rest)
    BY DEF Given, Ready
  <1>3. CASE x.k < Len(x.blocks)
    <2>1. TestCase(x, b, x.k) =
            Terminate(Push(AllocateBlocks(r, 1), Branch(reg, x.blocks[x.k], r.lastBlock)),
                      r.lastBlock)
      BY <1>3, <1>a DEF TestCase
    <2>. QED
      BY <1>3, <1>a, <2>1, NextCompare
  <1>4. CASE ~(x.k < Len(x.blocks))
    <2>1. IsSwitch(x, Below(b.lastBlock))
      <3>1. PICK s \in BOOLEAN : Kind(x, s, rest, Below(b.lastBlock))
        BY KindAt
      <3>. QED
        BY <3>1 DEF Kind
    <2>2. /\ x.blocks \in Seq(Below(b.lastBlock)) /\ x.k \in Nat \ {0} /\ x.k <= Len(x.blocks)
          /\ x.default \in 0 .. Len(x.blocks) /\ x.after \in Below(b.lastBlock)
      BY <2>1 DEF IsSwitch
    <2>3. /\ Len(x.blocks) \in Nat
          /\ \A k \in 1 .. Len(x.blocks) : x.blocks[k] \in Below(b.lastBlock)
      BY <2>2, LenProperties
    <2>4. /\ x.k = Len(x.blocks) /\ x.k \in 1 .. Len(x.blocks)
          /\ x.default # 0 => x.default \in 1 .. Len(x.blocks)
      BY <1>4, <2>2, <2>3
    <2>c. PICK else : else = IF x.default # 0 THEN x.blocks[x.default] ELSE x.after
      OBVIOUS
    <2>d. PICK j : j = Branch(reg, x.blocks[x.k], else)
      OBVIOUS
    <2>5. IsTerminator(j) /\ Leads(j, b.lastBlock)
      <3>1. else \in Below(b.lastBlock) /\ x.blocks[x.k] \in Below(b.lastBlock)
        BY <2>2, <2>3, <2>4, <2>c
      <3>. QED
        BY <2>d, <3>1, BranchIs
    <2>6. TestCase(x, b, x.k) = Terminate(Push(r, j), x.after)
      <3>1. CASE x.default # 0
        BY <1>4, <1>a, <2>4, <2>c, <2>d, <3>1 DEF TestCase
      <3>2. CASE x.default = 0
        BY <1>4, <1>a, <2>4, <2>c, <2>d, <3>2 DEF TestCase
      <3>. QED
        BY <3>1, <3>2
    <2>7. LoweringInv(rest, Terminate(Push(r, j), x.after))
      BY <1>a, <2>5, LastCompare
    <2>8. << >> \o rest = rest
      BY <1>2, WorkIs
    <2>. QED
      BY <1>4, <2>6, <2>7, <2>8
  <1>. QED
    BY <1>3, <1>4

-----------------------------------------------------------------------------
(* The actions                                                             *)

\* The current node, the work behind it and the builder.
Here(x, rest, b) ==
    /\ x = Node /\ rest = Tail(todo) /\ b = builder
    /\ Given(x, rest, b) /\ IsSequence(rest)

Moves == LoweringInv(todo', builder') /\ phase' = phase

\* Every list that is not empty has an item that is lowered.
LEMMA HereIs ==
  ASSUME LoweringInv(todo, builder), todo # << >>
  PROVE  \E x, rest, b : Here(x, rest, b)
  <1>. PICK td, x, rest, b : td = todo /\ x = Head(td) /\ rest = Tail(td) /\ b = builder
    OBVIOUS
  <1>1. LoweringInv(td, b) /\ td # << >>
    OBVIOUS
  <1>2. Ready(x, rest, b) /\ Placed(x, rest, b) /\ Ending(x, rest, b)
    BY <1>1, Opened
  <1>3. Given(x, rest, b) /\ IsSequence(rest)
    BY <1>2 DEF Given, Ready
  <1>4. Here(x, rest, b)
    BY <1>3 DEF Here, Node
  <1>. QED
    BY <1>4

\* The statements that do not leave.
LEMMA StatementSteps ==
  ASSUME LoweringInv(todo, builder), LowerCall \/ OpenScope \/ ScopeEnds \/ LowerDefer \/ BodyEnds
  PROVE  Moves
  <1>1. todo # << >>
    BY DEF LowerCall, OpenScope, ScopeEnds, LowerDefer, BodyEnds, Lower
  <1>. PICK x, rest, b : Here(x, rest, b)
    BY <1>1, HereIs
  <1>2. /\ x = Node /\ rest = Tail(todo) /\ b = builder
        /\ Given(x, rest, b) /\ << >> \o rest = rest
    BY WorkIs DEF Here
  <1>3. CASE LowerCall
    <2>1. PICK i : i = [op |-> "call", name |-> x.name]
      OBVIOUS
    <2>2. ~IsTerminator(i) /\ Targets(i) = {}
      BY <2>1, InstructionIs
    <2>3. /\ x.op = "call" /\ todo' = << >> \o rest /\ builder' = Push(b, i) /\ phase' = phase
      BY <1>2, <1>3, <2>1 DEF LowerCall, Lower, Proceed
    <2>4. LoweringInv(rest, Push(b, i))
      BY <1>2, <2>2, <2>3, CallStep
    <2>. QED
      BY <1>2, <2>3, <2>4 DEF Moves
  <1>4. CASE OpenScope
    <2>1. PICK i : i = [op |-> "scope"]
      OBVIOUS
    <2>2. ~IsTerminator(i) /\ Targets(i) = {}
      BY <2>1, InstructionIs
    <2>3. /\ x.op = "block" /\ todo' = (x.body \o <<CloseScope>>) \o rest
          /\ builder' = [Push(b, i) EXCEPT !.defered = Append(@, << >>)] /\ phase' = phase
      BY <1>2, <1>4, <2>1 DEF OpenScope, Lower, Proceed
    <2>4. LoweringInv((x.body \o <<CloseScope>>) \o rest,
                      [Push(b, i) EXCEPT !.defered = Append(@, << >>)])
      BY <1>2, <2>2, <2>3, BlockStep
    <2>. QED
      BY <2>3, <2>4 DEF Moves
  <1>5. CASE ScopeEnds
    <2>3. /\ x.op = "close"
          /\ todo' = (IF b.current.terminated THEN << >> ELSE DeferedOf(Last(b.defered))) \o rest
          /\ builder' = [b EXCEPT !.defered = Front(@)] /\ phase' = phase
      BY <1>2, <1>5 DEF ScopeEnds, Lower, Proceed
    <2>4. LoweringInv((IF b.current.terminated THEN << >> ELSE DeferedOf(Last(b.defered))) \o rest,
                      [b EXCEPT !.defered = Front(@)])
      BY <1>2, <2>3, CloseStep
    <2>. QED
      BY <2>3, <2>4 DEF Moves
  <1>6. CASE LowerDefer
    <2>3. /\ x.op = "defer" /\ todo' = << >> \o rest
          /\ builder' = [b EXCEPT !.defered[Len(b.defered)] = Append(@, x.body)] /\ phase' = phase
      BY <1>2, <1>6 DEF LowerDefer, Lower, Proceed
    <2>4. LoweringInv(rest, [b EXCEPT !.defered[Len(b.defered)] = Append(@, x.body)])
      BY <1>2, <2>3, DeferStep
    <2>. QED
      BY <1>2, <2>3, <2>4 DEF Moves
  <1>7. CASE BodyEnds
    <2>3. /\ x.op = "endBody" /\ todo' = << >> \o rest
          /\ builder' = Terminate(IF b.current.terminated THEN b ELSE Push(b, Jmp(x.to)), x.to)
          /\ phase' = phase
      BY <1>2, <1>7 DEF BodyEnds, Lower, Proceed
    <2>4. LoweringInv(rest, Terminate(IF b.current.terminated THEN b ELSE Push(b, Jmp(x.to)), x.to))
      BY <1>2, <2>3, BodyEndStep
    <2>. QED
      BY <1>2, <2>3, <2>4 DEF Moves
  <1>. QED
    BY <1>3, <1>4, <1>5, <1>6, <1>7

\* The statements that leave, and the ends of bodies and scopes.
LEMMA JumpSteps ==
  ASSUME LoweringInv(todo, builder), LowerJump
  PROVE  Moves
  <1>1. todo # << >>
    BY DEF LowerJump, LowerReturn, LowerYield, LowerBreak, LowerContinue, Leave, Lower
  <1>. PICK x, rest, b : Here(x, rest, b)
    BY <1>1, HereIs
  <1>2. /\ x = Node /\ rest = Tail(todo) /\ b = builder
        /\ Given(x, rest, b) /\ << >> \o rest = rest
    BY WorkIs DEF Here
  <1>3. CASE LowerReturn
    <2>1. PICK p : p = IF x.value THEN Push(b, [op |-> "call", name |-> "value"]) ELSE b
      OBVIOUS
    <2>2. /\ x.op = "return" /\ builder' = p /\ phase' = phase
          /\ todo' = (AllDefered(b) \o <<[op |-> "leave", to |-> [op |-> "ret"]]>>) \o rest
      BY <1>2, <1>3, <2>1 DEF LowerReturn, Lower, Proceed
    <2>3. LoweringInv((AllDefered(b) \o <<[op |-> "leave", to |-> [op |-> "ret"]]>>) \o rest, p)
      BY <1>2, <2>1, <2>2, ReturnStep
    <2>. QED
      BY <2>2, <2>3 DEF Moves
  <1>4. CASE LowerYield
    <2>1. /\ x.op = "yield" /\ todo' = << >> \o rest
          /\ builder' = PushLast(b, Jmp(Last(b.yields))) /\ phase' = phase
      BY <1>2, <1>4 DEF LowerYield, Lower, Proceed
    <2>2. LoweringInv(rest, PushLast(b, Jmp(Last(b.yields))))
      BY <1>2, <2>1, YieldStep
    <2>. QED
      BY <1>2, <2>1, <2>2 DEF Moves
  <1>5. CASE LowerBreak \/ LowerContinue
    <2>1. PICK to \in {b.breakTo, b.continueTo} :
            /\ x.op \in {"break", "continue"} /\ builder' = b /\ phase' = phase
            /\ todo' = (DeferedOf(Innermost(b)) \o <<[op |-> "leave", to |-> Jmp(to)]>>) \o rest
      BY <1>2, <1>5 DEF LowerBreak, LowerContinue, Lower, Proceed
    <2>2. LoweringInv((DeferedOf(Innermost(b)) \o <<[op |-> "leave", to |-> Jmp(to)]>>) \o rest, b)
      BY <1>2, <2>1, BreakStep
    <2>. QED
      BY <2>1, <2>2 DEF Moves
  <1>6. CASE Leave
    <2>1. /\ x.op = "leave" /\ todo' = << >> \o rest
          /\ builder' = PushLast(b, x.to) /\ phase' = phase
      BY <1>2, <1>6 DEF Leave, Lower, Proceed
    <2>2. LoweringInv(rest, PushLast(b, x.to))
      BY <1>2, <2>1, LeaveStep
    <2>. QED
      BY <1>2, <2>1, <2>2 DEF Moves
  <1>. QED
    BY <1>3, <1>4, <1>5, <1>6 DEF LowerJump

\* Assertions and branches.
LEMMA BranchSteps ==
  ASSUME LoweringInv(todo, builder), LowerBranch
  PROVE  Moves
  <1>1. todo # << >>
    BY DEF LowerBranch, LowerIf, LowerThen, LowerElse, LowerAssert, BuildAssertExpr, Lower
  <1>. PICK x, rest, b : Here(x, rest, b)
    BY <1>1, HereIs
  <1>2. /\ x = Node /\ rest = Tail(todo) /\ b = builder
        /\ Given(x, rest, b) /\ << >> \o rest = rest
    BY WorkIs DEF Here
  <1>3. CASE LowerIf
    <2>1. PICK work : work = <<Evaluate(x.cond, b.lastRegister),
                               [op |-> "then", node |-> x, reg |-> b.lastRegister]>>
      OBVIOUS
    <2>2. /\ x.op = "if" /\ todo' = work \o rest
          /\ builder' = AllocateRegister(b) /\ phase' = phase
      BY <1>2, <1>3, <2>1 DEF LowerIf, Lower, Proceed
    <2>3. LoweringInv(work \o rest, AllocateRegister(b))
      BY <1>2, <2>1, <2>2, IfStep
    <2>. QED
      BY <2>2, <2>3 DEF Moves
  <1>4. CASE LowerThen
    <2>1. PICK l, p, work :
            /\ l = b.lastBlock
            /\ p = Terminate(Push(AllocateBlocks(b, 3), Branch(x.reg, l, l + 1)), l)
            /\ work = x.node.then \o
                        <<EndBody(l + 2),
                          [op |-> "else", node |-> x.node, block |-> l + 1, end |-> l + 2]>>
      OBVIOUS
    <2>2. /\ x.op = "then" /\ todo' = work \o rest /\ builder' = p /\ phase' = phase
      BY <1>2, <1>4, <2>1 DEF LowerThen, Lower, Proceed
    <2>3. LoweringInv(work \o rest, p)
      BY <1>2, <2>1, <2>2, ThenStep
    <2>. QED
      BY <2>2, <2>3 DEF Moves
  <1>5. CASE LowerElse
    <2>1. PICK p : p = [b EXCEPT !.current = NewBlock(x.block)]
      OBVIOUS
    <2>2. x.op = "else" /\ phase' = phase
      BY <1>2, <1>5 DEF LowerElse, Lower, Proceed
    <2>3. /\ x.node.else = << >> => LoweringInv(rest, Terminate(Push(p, Jmp(x.end)), x.end))
          /\ LoweringInv((x.node.else \o <<EndBody(x.end)>>) \o rest, p)
      BY <1>2, <2>1, <2>2, ElseStep
    <2>4. CASE x.node.else = << >>
      <3>1. todo' = << >> \o rest /\ builder' = Terminate(Push(p, Jmp(x.end)), x.end)
        BY <1>2, <1>5, <2>1, <2>4 DEF LowerElse, Proceed
      <3>. QED
        BY <1>2, <2>2, <2>3, <2>4, <3>1 DEF Moves
    <2>5. CASE x.node.else # << >>
      <3>1. todo' = (x.node.else \o <<EndBody(x.end)>>) \o rest /\ builder' = p
        BY <1>2, <1>5, <2>1, <2>5 DEF LowerElse, Proceed
      <3>. QED
        BY <2>2, <2>3, <3>1 DEF Moves
    <2>. QED
      BY <2>4, <2>5
  <1>6. CASE LowerAssert
    <2>1. PICK work : work = <<Evaluate(x.cond, b.lastRegister),
                               [op |-> "asserted", reg |-> b.lastRegister]>>
      OBVIOUS
    <2>2. /\ x.op = "assert" /\ todo' = work \o rest
          /\ builder' = AllocateRegister(b) /\ phase' = phase
      BY <1>2, <1>6, <2>1 DEF LowerAssert, Lower, Proceed
    <2>3. LoweringInv(work \o rest, AllocateRegister(b))
      BY <1>2, <2>1, <2>2, AssertStep
    <2>. QED
      BY <2>2, <2>3 DEF Moves
  <1>7. CASE BuildAssertExpr
    <2>1. PICK i, l, p, r :
            /\ i = [op |-> "unreachable"] /\ l = b.lastBlock
            /\ p = Push(AllocateBlocks(b, 2), Branch(x.reg, l + 1, l))
            /\ r = Terminate(Push(Terminate(p, l), i), l + 1)
      OBVIOUS
    <2>2. x.op = "asserted" /\ todo' = << >> \o rest /\ builder' = r /\ phase' = phase
      BY <1>2, <1>7, <2>1 DEF BuildAssertExpr, Lower, Proceed
    <2>3. LoweringInv(rest, r)
      <3>1. i.op = "unreachable"
        BY <2>1
      <3>. QED
        BY <1>2, <2>1, <2>2, <3>1, AssertedStep
    <2>. QED
      BY <1>2, <2>2, <2>3 DEF Moves
  <1>. QED
    BY <1>3, <1>4, <1>5, <1>6, <1>7 DEF LowerBranch

\* Loops.
LEMMA LoopSteps ==
  ASSUME LoweringInv(todo, builder), LowerLoop
  PROVE  Moves
  <1>1. todo # << >>
    BY DEF LowerLoop, BuildIRForLoopWhile, BuildIRForLoopCStyle, BuildIRForIt, LoopHead, LoopTest,
           WhileEnds, LoopNext, LoopAgain, Lower
  <1>. PICK x, rest, b : Here(x, rest, b)
    BY <1>1, HereIs
  <1>2. /\ x = Node /\ rest = Tail(todo) /\ b = builder
        /\ Given(x, rest, b) /\ << >> \o rest = rest
    BY WorkIs DEF Here
  <1>3. CASE BuildIRForLoopWhile
    <2>1. PICK l, loop, p, work :
            /\ l = b.lastBlock
            /\ loop = [node |-> x, reg |-> b.lastRegister, test |-> l, body |-> l + 1,
                       next |-> l, end |-> l + 2]
            /\ p = Terminate(Push(AllocateRegister(AllocateBlocks(b, 3)), Jmp(l)), l)
            /\ work = Condition(x, loop.reg) \o <<[op |-> "test", loop |-> loop]>>
      OBVIOUS
    <2>2. x.op = "for" /\ todo' = work \o rest /\ builder' = p /\ phase' = phase
      BY <1>2, <1>3, <2>1 DEF BuildIRForLoopWhile, Lower, Proceed
    <2>3. LoweringInv(work \o rest, p)
      BY <1>2, <2>1, <2>2, WhileStep
    <2>. QED
      BY <2>2, <2>3 DEF Moves
  <1>4. CASE BuildIRForLoopCStyle \/ BuildIRForIt
    <2>1. PICK l, loop, p, work :
            /\ l = b.lastBlock
            /\ loop = [node |-> x, reg |-> b.lastRegister, test |-> l, body |-> l + 1,
                       next |-> l + 2, end |-> l + 3]
            /\ p = AllocateRegister(AllocateBlocks(b, 4))
            /\ work = x.init \o <<[op |-> "head", loop |-> loop]>>
      OBVIOUS
    <2>2. x.op = "for" /\ todo' = work \o rest /\ builder' = p /\ phase' = phase
      BY <1>2, <1>4, <2>1 DEF BuildIRForLoopCStyle, BuildIRForIt, Lower, Proceed
    <2>3. LoweringInv(work \o rest, p)
      BY <1>2, <2>1, <2>2, ForStep
    <2>. QED
      BY <2>2, <2>3 DEF Moves
  <1>5. CASE LoopHead
    <2>1. PICK p, work :
            /\ p = Terminate(Push(b, Jmp(x.loop.test)), x.loop.test)
            /\ work = Condition(x.loop.node, x.loop.reg) \o <<[op |-> "test", loop |-> x.loop]>>
      OBVIOUS
    <2>2. x.op = "head" /\ todo' = work \o rest /\ builder' = p /\ phase' = phase
      BY <1>2, <1>5, <2>1 DEF LoopHead, Lower, Proceed
    <2>3. LoweringInv(work \o rest, p)
      BY <1>2, <2>1, <2>2, HeadStep
    <2>. QED
      BY <2>2, <2>3 DEF Moves
  <1>6. CASE LoopTest
    <2>1. PICK i : i = IF x.loop.node.cond = << >> THEN Jmp(x.loop.body)
                       ELSE Branch(x.loop.reg, x.loop.body, x.loop.end)
      OBVIOUS
    <2>2. PICK p, work :
            /\ p = [Terminate(Push(b, i), x.loop.body) EXCEPT !.breakTo = x.loop.end,
                                                              !.continueTo = x.loop.next]
            /\ work = x.loop.node.body \o
                        <<EndBody(x.loop.next),
                          [op |-> "next", loop |-> x.loop, breakTo |-> b.breakTo,
                           continueTo |-> b.continueTo]>>
      OBVIOUS
    <2>3. x.op = "test" /\ todo' = work \o rest /\ builder' = p /\ phase' = phase
      BY <1>2, <1>6, <2>1, <2>2 DEF LoopTest, Lower, Proceed
    <2>4. i \in {Jmp(x.loop.body), Branch(x.loop.reg, x.loop.body, x.loop.end)}
      BY ZenonT(60), <2>1
    <2>5. LoweringInv(work \o rest, p)
      BY ZenonT(60), <1>2, <2>2, <2>3, <2>4, TestStep
    <2>. QED
      BY <2>3, <2>5 DEF Moves
  <1>7. CASE WhileEnds
    <2>1. /\ x.op = "next" /\ IsWhile(x.loop) /\ todo' = << >> \o rest
          /\ builder' = LoopEnd(b, x.loop.end, x) /\ phase' = phase
      BY <1>2, <1>7 DEF WhileEnds, Lower, Proceed, IsWhile
    <2>2. LoweringInv(rest, LoopEnd(b, x.loop.end, x))
      BY <1>2, <2>1, WhileEndStep
    <2>. QED
      BY <1>2, <2>1, <2>2 DEF Moves
  <1>8. CASE LoopNext
    <2>1. PICK work : work = x.loop.node.incr \o <<[x EXCEPT !.op = "again"]>>
      OBVIOUS
    <2>2. /\ x.op = "next" /\ ~IsWhile(x.loop) /\ todo' = work \o rest
          /\ builder' = b /\ phase' = phase
      BY <1>2, <1>8, <2>1 DEF LoopNext, Lower, Proceed, IsWhile
    <2>3. LoweringInv(work \o rest, b)
      BY <1>2, <2>1, <2>2, NextStep
    <2>. QED
      BY <2>2, <2>3 DEF Moves
  <1>9. CASE LoopAgain
    <2>1. PICK p : p = LoopEnd(Terminate(Push(b, Jmp(x.loop.test)), x.loop.end), x.loop.end, x)
      OBVIOUS
    <2>2. x.op = "again" /\ todo' = << >> \o rest /\ builder' = p /\ phase' = phase
      BY <1>2, <1>9, <2>1 DEF LoopAgain, Lower, Proceed
    <2>3. LoweringInv(rest, p)
      BY <1>2, <2>1, <2>2, AgainStep
    <2>. QED
      BY <1>2, <2>2, <2>3 DEF Moves
  <1>. QED
    BY <1>3, <1>4, <1>5, <1>6, <1>7, <1>8, <1>9 DEF LowerLoop

\* Switches.
LEMMA CaseSteps ==
  ASSUME LoweringInv(todo, builder), LowerCases
  PROVE  Moves
  <1>1. todo # << >>
    BY DEF LowerCases, LowerSwitch, LowerCase, CaseEnds, OtherValue, NextCase, BuildIRIntMatch,
           BuildIRStringMatch, CompareStrings, Lower
  <1>. PICK x, rest, b : Here(x, rest, b)
    BY <1>1, HereIs
  <1>2. /\ x = Node /\ rest = Tail(todo) /\ b = builder
        /\ Given(x, rest, b) /\ << >> \o rest = rest
    BY WorkIs DEF Here
  <1>3. CASE LowerSwitch
    <2>1. PICK i : i = [op |-> "match", name |-> x.name, reg |-> b.lastRegister, of |-> Matches(x)]
      OBVIOUS
    <2>2. PICK p, work :
            /\ p = [AllocateBlocks(AllocateRegister(Push(b, i)), 1) EXCEPT
                        !.yields = Append(@, b.lastBlock)]
            /\ work = <<[op |-> "case", node |-> x, k |-> 1, reg |-> b.lastRegister,
                         after |-> b.lastBlock, start |-> b.current.id, blocks |-> << >>,
                         default |-> 0, to |-> b.lastBlock, left |-> 0]>>
      OBVIOUS
    <2>3. x.op = "switch" /\ todo' = work \o rest /\ builder' = p /\ phase' = phase
      BY <1>2, <1>3, <2>1, <2>2 DEF LowerSwitch, Lower, Proceed
    <2>4. ~IsTerminator(i) /\ Targets(i) = {}
      BY <2>1, InstructionIs
    <2>5. LoweringInv(work \o rest, p)
      BY <1>2, <2>2, <2>3, <2>4, SwitchStep
    <2>. QED
      BY <2>3, <2>5 DEF Moves
  <1>4. CASE LowerCase
    <2>1. PICK case, id, p, work :
            /\ case = x.node.cases[x.k] /\ id = b.lastBlock
            /\ p = Terminate(AllocateBlocks(b, 1), id)
            /\ work = case.body \o
                <<[x EXCEPT !.op = "caseEnd", !.blocks = Append(@, id),
                            !.default = IF case.default THEN Len(x.blocks) + 1 ELSE @,
                            !.to = id, !.left = case.values - 1]>>
      BY ZenonT(60)
    <2>2. /\ x.op = "case" /\ x.k <= Len(x.node.cases)
          /\ todo' = work \o rest /\ builder' = p /\ phase' = phase
      BY ZenonT(60), <1>2, <1>4, <2>1 DEF LowerCase, Lower, Proceed
    <2>3. LoweringInv(work \o rest, p)
      BY ZenonT(60), <1>2, <2>1, <2>2, CaseStep
    <2>. QED
      BY <2>2, <2>3 DEF Moves
  <1>5. CASE CaseEnds
    <2>1. PICK p, work :
            /\ p = IF b.current.terminated THEN b ELSE Push(b, Jmp(x.after))
            /\ work = <<[x EXCEPT !.op = "values"]>>
      OBVIOUS
    <2>2. x.op = "caseEnd" /\ todo' = work \o rest /\ builder' = p /\ phase' = phase
      BY <1>2, <1>5, <2>1 DEF CaseEnds, Lower, Proceed
    <2>3. LoweringInv(work \o rest, p)
      BY <1>2, <2>1, <2>2, CaseEndStep
    <2>. QED
      BY <2>2, <2>3 DEF Moves
  <1>6. CASE OtherValue
    <2>1. PICK work : work = <<[x EXCEPT !.left = @ - 1, !.blocks = Append(@, b.lastBlock)]>>
      OBVIOUS
    <2>2. /\ x.op = "values" /\ x.left > 0 /\ todo' = work \o rest
          /\ builder' = Fallthrough(b, x.to) /\ phase' = phase
      BY <1>2, <1>6, <2>1 DEF OtherValue, Lower, Proceed
    <2>3. LoweringInv(work \o rest, Fallthrough(b, x.to))
      BY <1>2, <2>1, <2>2, OtherValueStep
    <2>. QED
      BY <2>2, <2>3 DEF Moves
  <1>7. CASE NextCase
    <2>1. PICK work : work = <<[x EXCEPT !.op = "case", !.k = @ + 1]>>
      OBVIOUS
    <2>2. x.op = "values" /\ todo' = work \o rest /\ builder' = b /\ phase' = phase
      BY <1>2, <1>7, <2>1 DEF NextCase, Lower, Proceed
    <2>3. LoweringInv(work \o rest, b)
      BY <1>2, <2>1, <2>2, NextCaseStep
    <2>. QED
      BY <2>2, <2>3 DEF Moves
  <1>8. CASE BuildIRIntMatch
    <2>1. PICK p : p = AppendTo(Terminate([b EXCEPT !.yields = Front(@)], x.after), x.start,
                                [op |-> "switch", reg |-> x.reg, cases |-> x.blocks,
                                 default |-> x.default, after |-> x.after])
      OBVIOUS
    <2>2. /\ x.op = "case" /\ x.k > Len(x.node.cases) /\ todo' = << >> \o rest
          /\ builder' = p /\ phase' = phase
      BY <1>2, <1>8, <2>1 DEF BuildIRIntMatch, AfterCases, Lower, Proceed
    <2>3. LoweringInv(rest, p)
      BY <1>2, <2>1, <2>2, IntMatchStep
    <2>. QED
      BY <1>2, <2>2, <2>3 DEF Moves
  <1>9. CASE BuildIRStringMatch
    <2>1. PICK p, r, u, work :
            /\ p = Terminate([b EXCEPT !.yields = Front(@)], x.after)
            /\ r = AppendTo(AllocateBlocks(p, 1), x.start, Jmp(b.lastBlock))
            /\ u = [r EXCEPT !.current = NewBlock(b.lastBlock)]
            /\ work = <<[x EXCEPT !.op = "strings", !.k = 1]>>
      OBVIOUS
    <2>2. /\ x.op = "case" /\ x.k > Len(x.node.cases) /\ todo' = work \o rest
          /\ builder' = u /\ phase' = phase
      BY <1>2, <1>9, <2>1 DEF BuildIRStringMatch, AfterCases, Lower, Proceed
    <2>3. LoweringInv(work \o rest, u)
      BY <1>2, <2>1, <2>2, StringMatchStep
    <2>. QED
      BY <2>2, <2>3 DEF Moves
  <1>10. CASE CompareStrings
    <2>1. PICK p, work :
            /\ p = TestCase(x, b, x.k)
            /\ work = IF x.k < Len(x.blocks) THEN <<[x EXCEPT !.k = @ + 1]>> ELSE << >>
      OBVIOUS
    <2>2. x.op = "strings" /\ todo' = work \o rest /\ builder' = p /\ phase' = phase
      BY <1>2, <1>10, <2>1 DEF CompareStrings, Lower, Proceed
    <2>3. LoweringInv(work \o rest, p)
      BY <1>2, <2>1, <2>2, CompareStep
    <2>. QED
      BY <2>2, <2>3 DEF Moves
  <1>. QED
    BY <1>3, <1>4, <1>5, <1>6, <1>7, <1>8, <1>9, <1>10 DEF LowerCases

\* Conditions.
LEMMA ConditionSteps ==
  ASSUME LoweringInv(todo, builder), LowerCondition
  PROVE  Moves
  <1>1. todo # << >>
    BY DEF LowerCondition, LowerAtom, LowerLeft, LowerRight, Merge, Lower
  <1>. PICK x, rest, b : Here(x, rest, b)
    BY <1>1, HereIs
  <1>2. /\ x = Node /\ rest = Tail(todo) /\ b = builder
        /\ Given(x, rest, b) /\ << >> \o rest = rest
    BY WorkIs DEF Here
  <1>3. CASE LowerAtom
    <2>1. PICK i : i = [op |-> "eval", name |-> x.cond.name, reg |-> x.reg]
      OBVIOUS
    <2>2. ~IsTerminator(i) /\ Targets(i) = {}
      BY <2>1, InstructionIs
    <2>3. x.op = "expr" /\ todo' = << >> \o rest /\ builder' = Push(b, i) /\ phase' = phase
      BY <1>2, <1>3, <2>1 DEF LowerAtom, Lower, Proceed
    <2>4. LoweringInv(rest, Push(b, i))
      BY <1>2, <2>2, <2>3, AtomStep
    <2>. QED
      BY <1>2, <2>3, <2>4 DEF Moves
  <1>4. CASE LowerLeft
    <2>1. PICK work : work = <<Evaluate(x.cond.left, x.reg),
                               [op |-> "right", cond |-> x.cond, reg |-> x.reg,
                                true |-> b.lastBlock]>>
      OBVIOUS
    <2>2. /\ x.op = "expr" /\ todo' = work \o rest
          /\ builder' = AllocateBlocks(b, 4) /\ phase' = phase
      BY <1>2, <1>4, <2>1 DEF LowerLeft, Lower, Proceed
    <2>3. LoweringInv(work \o rest, AllocateBlocks(b, 4))
      BY <1>2, <2>1, <2>2, LeftStep
    <2>. QED
      BY <2>2, <2>3 DEF Moves
  <1>5. CASE LowerRight
    <2>1. PICK i : i = IF x.cond.op = "and" THEN Branch(x.reg, x.true + 2, x.true + 1)
                                            ELSE Branch(x.reg, x.true, x.true + 2)
      OBVIOUS
    <2>2. PICK p, work :
            /\ p = Terminate(Push(b, i), x.true + 2)
            /\ work = <<Evaluate(x.cond.right, x.reg), [x EXCEPT !.op = "merge"]>>
      OBVIOUS
    <2>3. x.op = "right" /\ todo' = work \o rest /\ builder' = p /\ phase' = phase
      BY <1>2, <1>5, <2>1, <2>2 DEF LowerRight, Lower, Proceed
    <2>4. i \in {Branch(x.reg, x.true + 2, x.true + 1), Branch(x.reg, x.true, x.true + 2)}
      BY <2>1
    <2>5. LoweringInv(work \o rest, p)
      BY <1>2, <2>2, <2>3, <2>4, RightStep
    <2>. QED
      BY <2>3, <2>5 DEF Moves
  <1>6. CASE Merge
    <2>. DEFINE Result(p, value) == Push(Push(p, Store(x.reg, value)), Jmp(x.true + 3))
    <2>1. PICK p :
            p = Terminate(Result(Terminate(Result(
                  Terminate(Push(b, Branch(x.reg, x.true, x.true + 1)), x.true), 1), x.true + 1), 0),
                          x.true + 3)
      OBVIOUS
    <2>2. x.op = "merge" /\ todo' = << >> \o rest /\ builder' = p /\ phase' = phase
      BY <1>2, <1>6, <2>1 DEF Merge, Lower, Proceed
    <2>3. LoweringInv(rest, p)
      BY <1>2, <2>1, <2>2, MergeStep
    <2>. QED
      BY <1>2, <2>2, <2>3 DEF Moves
  <1>. QED
    BY <1>3, <1>4, <1>5, <1>6 DEF LowerCondition

-----------------------------------------------------------------------------
(* The first state                                                         *)

\* No work is in order.
LEMMA NothingLeft ==
  /\ Todo(<< >>, 0, 0, Below(1), {}) /\ Promised(<< >>, {}) = {} /\ Starts(<< >>) = {}
  /\ NoTest(<< >>) /\ ~EndsAway(<< >>)
  <1>1. IsSequence(<< >>) /\ Len(<< >>) = 0
    BY EmptyIsSequence
  <1>2. \A ops : Depth(<< >>, 0, ops, [i \in {1} |-> 0])
    <2>1. 1 .. Len(<< >>) + 1 = {1} /\ 1 .. Len(<< >>) = {} /\ Len(<< >>) + 1 = 1
      BY <1>1
    <2>2. [i \in {1} |-> 0] \in [1 .. Len(<< >>) + 1 -> Nat]
      BY <2>1
    <2>. QED
      BY <2>1, <2>2 DEF Depth
  <1>3. Items(<< >>, 0, Below(1)) /\ Scopes(<< >>, 0)
    BY <1>1, <1>2 DEF Items, Scopes
  <1>4. Separate(<< >>, {}) /\ StartsDiffer(<< >>)
    BY <1>1 DEF Separate, StartsDiffer
  <1>5. Ordered(<< >>, {})
    BY <1>1 DEF Ordered
  <1>6. Promised(<< >>, {}) = {} /\ Starts(<< >>) = {}
    BY <1>1 DEF Promised, Starts
  <1>7. NoTest(<< >>) /\ ~EndsAway(<< >>)
    BY <1>1 DEF NoTest, EndsAway
  <1>. QED
    BY <1>1, <1>3, <1>4, <1>5, <1>6, <1>7 DEF Todo

\* MakeBlockBuilder gives the first block, which is open.
LEMMA FirstBuilder ==
  /\ Building(MakeBlockBuilder, {}) /\ Made(MakeBlockBuilder) = {}
  /\ Numbers(MakeBlockBuilder) = Below(1) /\ Free(MakeBlockBuilder) = {}
  /\ MakeBlockBuilder.current = NewBlock(0)
  /\ MakeBlockBuilder.yields = << >> /\ MakeBlockBuilder.defered = << >>
  <1>. PICK b : b = MakeBlockBuilder
    OBVIOUS
  <1>1. /\ b.current = NewBlock(0) /\ b.blocks = << >> /\ b.defered = << >> /\ b.yields = << >>
        /\ b.breakTo = 0 /\ b.continueTo = 0 /\ b.lastBlock = 1 /\ b.asserted = FALSE
        /\ IsBuilder(b)
    BY DEF MakeBlockBuilder, IsBuilder
  <1>2. Numbers(b) = Below(1) /\ 0 \in Below(1) /\ Below(1) = {0}
    BY <1>1 DEF Numbers, Below
  <1>3. DOMAIN << >> = {} /\ IsSequence(<< >>)
    BY EmptyIsSequence
  <1>4. Made(b) = {} /\ Differ(b.blocks)
    BY <1>1, <1>3 DEF Made, Differ
  <1>5. /\ IsBlock(NewBlock(0)) /\ NewBlock(0).id = 0
        /\ LeadTo(NewBlock(0).code, Below(1))
    BY NewBlockIs
  <1>6. << >> \in Seq(Numbers(b)) /\ << >> \in Seq(Seq(Seq(Ongoing[FALSE])))
    BY EmptySeq
  <1>7. Building(b, {})
    BY <1>1, <1>2, <1>3, <1>4, <1>5, <1>6 DEF Building
  <1>8. Free(b) = {}
    BY <1>1, <1>2, <1>5 DEF Free
  <1>. QED
    BY <1>1, <1>2, <1>4, <1>7, <1>8

\* Work in order that ends away begins with the invariant.
LEMMA Starting ==
  ASSUME NEW td, Fronted(td, << >>, 0, 0, Below(1), {}), Closing(td, MakeBlockBuilder)
  PROVE  LoweringInv(td, MakeBlockBuilder)
  <1>a. PICK b : b = MakeBlockBuilder
    OBVIOUS
  <1>1. /\ Todo(td, 0, 0, Below(1), {}) /\ Promised(td, {}) = {} /\ Starts(td) = {}
        /\ NoTest(td) /\ (td # << >> => Ordinary(td[1]))
    BY NothingLeft DEF Fronted
  <1>2. /\ Building(b, {}) /\ Made(b) = {} /\ Numbers(b) = Below(1) /\ Free(b) = {}
        /\ b.current = NewBlock(0) /\ Len(b.yields) = 0 /\ Len(b.defered) = 0
    BY <1>a, FirstBuilder, EmptyIsSequence
  <1>3. /\ NewBlock(0).terminated = FALSE /\ Open(NewBlock(0).code)
    BY NewBlockIs
  <1>4. ~ComesBack(td) /\ ~First(td) /\ ~Between(td) /\ (td # << >> => td[1].op # "else")
    BY <1>1 DEF ComesBack, First, Between, Ordinary
  <1>5. Arrives(td, b)
    <2>1. TestsMade(td, Made(b) \cup {b.current.id})
      BY <1>1 DEF NoTest, TestsMade
    <2>. QED
      BY <1>1, <1>2, <1>4, <2>1 DEF Arrives
  <1>6. IsOpen(td, b.current)
    BY <1>2, <1>3, <1>4 DEF IsOpen
  <1>7. Closing(td, b)
    BY <1>a
  <1>. QED
    BY <1>1, <1>2, <1>5, <1>6, <1>7, <1>a DEF LoweringInv

\* A function whose body the checker accepts does.
LEMMA StartSteps ==
  ASSUME NEW fn \in Programs
  PROVE  LoweringInv(<<fn>> \o ImplicitReturn(fn.body), MakeBlockBuilder)
  <1>1. /\ fn.op = "block" /\ IsBody(fn.body, FALSE)
        /\ \A i \in DOMAIN fn.body : fn.body[i] \in Leaving[FALSE] => fn.body[i].op = "return"
        /\ \A node \in Ongoing[FALSE] : IsOngoing(node, FALSE)
    BY LoweringAssumption
  <1>a. PICK body : body = fn.body
    OBVIOUS
  <1>2. /\ body \in Seq(Ongoing[FALSE] \cup Leaving[FALSE])
        /\ \A i \in DOMAIN body : body[i] \in Leaving[FALSE] => i = Len(body)
    BY <1>1, <1>a DEF IsBody
  <1>3. Len(body) \in Nat /\ DOMAIN body = 1 .. Len(body)
        /\ body \in [1 .. Len(body) -> Ongoing[FALSE] \cup Leaving[FALSE]]
    BY <1>2, LenProperties
  <1>4. Fronted(<< >>, << >>, 0, 0, Below(1), {}) /\ IsSequence(<< >>)
    BY NothingLeft, EmptyIsSequence DEF Fronted
  <1>b. PICK s \in BOOLEAN : s = FALSE
    OBVIOUS
  <1>5. CASE \E i \in DOMAIN body : body[i].op = "return"
    <2>1. PICK i \in DOMAIN body : body[i].op = "return"
      BY <1>5
    <2>2. body[i] \in Leaving[FALSE]
      <3>1. ~IsOngoing(body[i], FALSE)
        BY <2>1 DEF IsOngoing
      <3>. QED
        BY <1>1, <1>3, <2>1, <3>1
    <2>3. i = Len(body) /\ body # << >> /\ body[Len(body)].op = "return"
      <3>1. i = Len(body)
        BY <1>2, <2>2
      <3>2. Len(body) # 0
        BY <1>3
      <3>3. body # << >>
        BY <3>2, EmptyIsSequence
      <3>. QED
        BY <2>1, <3>1, <3>3
    <2>4. ImplicitReturn(fn.body) = << >>
      BY <1>5, <1>a DEF ImplicitReturn
    <2>5. <<fn>> \o << >> = Cons(fn, << >>)
      BY <1>4, SingleWork
    <2>a. PICK td : td = Cons(fn, << >>)
      OBVIOUS
    <2>6. IsLeaving(fn, s) /\ Tolerates(<< >>, 1)
      BY <1>1, <1>4, <1>b, ToleratesFirst DEF IsLeaving
    <2>7. Fronted(td, << >>, 0, 0, Below(1), {})
      <3>1. s => 0 > 0
        BY <1>b
      <3>. QED
        BY <1>4, <2>6, <2>a, <3>1, NothingLeft, StatementInFront
    <2>8. Closing(td, MakeBlockBuilder)
      <3>1. Len(td) = 1 /\ td[1] = fn
        <4>1. Len(Cons(fn, << >>)) = Len(<< >>) + 1 /\ Cons(fn, << >>)[1] = fn
          BY <1>4, ConsIs
        <4>2. Len(td) = Len(<< >>) + 1
          BY <2>a, <4>1
        <4>3. Len(<< >>) = 0
          BY EmptyIsSequence
        <4>4. Len(td) = 1
          BY <4>2, <4>3
        <4>. QED
          BY <2>a, <4>1, <4>4
      <3>. QED
        BY <1>1, <1>a, <2>3, <3>1 DEF Closing
    <2>. QED
      BY <2>4, <2>5, <2>7, <2>8, <2>a, Starting
  <1>6. CASE ~\E i \in DOMAIN body : body[i].op = "return"
    <2>a. PICK ret, q, td : ret = Return(FALSE) /\ q = Cons(ret, << >>) /\ td = Cons(fn, q)
      OBVIOUS
    <2>1. ImplicitReturn(fn.body) = <<ret>>
      BY <1>6, <1>a, <2>a DEF ImplicitReturn
    <2>2. ret.op = "return" /\ IsLeaving(ret, s)
      BY <2>a DEF Return, IsLeaving
    <2>3. <<ret>> = q /\ <<fn>> \o q = td /\ IsSequence(q)
      <3>1. IsSequence(q)
        BY <1>4, <2>a, ConsIs
      <3>2. <<ret>> \o << >> = q
        BY <1>4, <2>a, SingleWork
      <3>3. <<ret>> \o << >> = <<ret>>
        BY ConcatEmptySeq, <1>4, OneIs DEF IsSequence
      <3>. QED
        BY <2>a, <3>1, <3>2, <3>3, SingleWork
    <2>4. \A i \in DOMAIN body : body[i] \in Ongoing[FALSE]
      BY <1>1, <1>3, <1>6, <1>a
    <2>5. body \in Seq(Ongoing[FALSE])
      <3>1. body \in [1 .. Len(body) -> Ongoing[FALSE]]
        BY <1>3, <2>4
      <3>. QED
        BY <1>3, <3>1, FunctionIs
    <2>6. IsOngoing(fn, s)
      BY <1>1, <1>a, <1>b, <2>5 DEF IsOngoing
    <2>7. Fronted(q, << >>, 0, 0, Below(1), {})
      <3>1. s => 0 > 0
        BY <1>b
      <3>2. Tolerates(<< >>, 1)
        BY <1>4, ToleratesFirst
      <3>. QED
        BY <1>4, <2>2, <2>a, <3>1, <3>2, NothingLeft, StatementInFront
    <2>8. Fronted(td, << >>, 0, 0, Below(1), {})
      <3>1. s => 0 > 0
        BY <1>b
      <3>. QED
        BY <2>6, <2>7, <2>a, <3>1, NothingLeft, StatementInFront
    <2>9. EndsAway(td)
      <3>1. AllClose(<< >>)
        BY EmptyIsSequence DEF AllClose
      <3>2. EndsAway(q)
        BY <1>4, <2>2, <2>a, <3>1, EndsAwayCons
      <3>. QED
        BY <2>3, <2>a, <3>2, EndsAwayCons
    <2>10. Closing(td, MakeBlockBuilder)
      BY <2>9 DEF Closing
    <2>. QED
      BY <2>1, <2>3, <2>8, <2>10, Starting
  <1>. QED
    BY <1>5, <1>6

-----------------------------------------------------------------------------
(* The end of the lowering                                                 *)

\* The blocks of a function that is lowered.
WellFormed(p) ==
    /\ p.asserted = FALSE /\ Differ(p.blocks)
    /\ Made(p) = 0 .. Len(p.blocks) - 1
    /\ \A k \in DOMAIN p.blocks :
        LET code == p.blocks[k].code IN
        Closed(code) /\ Targets(Last(code)) \subseteq Made(p)

\* Blocks of different numbers that leave none out are as many as the numbers.
LEMMA AllNumbered ==
  ASSUME NEW blocks, IsSequence(blocks), Differ(blocks), NEW last \in Nat,
         {blocks[k].id : k \in DOMAIN blocks} = Below(last)
  PROVE  Len(blocks) = last
  <1>. PICK n : n = Len(blocks)
    OBVIOUS
  <1>1. n \in Nat /\ DOMAIN blocks = 1 .. n
    BY LengthOf
  <1>. DEFINE f == [k \in 1 .. n |-> blocks[k].id]
  <1>2. f \in Bijection(1 .. n, Below(last))
    <2>1. f \in [1 .. n -> Below(last)]
      BY <1>1
    <2>2. \A j, k \in 1 .. n : f[j] = f[k] => j = k
      BY <1>1 DEF Differ
    <2>3. \A m \in Below(last) : \E k \in 1 .. n : f[k] = m
      BY <1>1
    <2>. QED
      BY <2>1, <2>2, <2>3 DEF Bijection, Injection, Surjection, IsInjective
  <1>. HIDE DEF f
  <1>3. IsFiniteSet(1 .. n) /\ Cardinality(1 .. n) = n
    <2>1. 1 \in Int /\ n \in Int
      BY <1>1
    <2>2. /\ IsFiniteSet(1 .. n)
          /\ Cardinality(1 .. n) = IF 1 > n THEN 0 ELSE n - 1 + 1
      BY <2>1, FS_Interval
    <2>3. CASE n = 0
      BY <2>2, <2>3
    <2>4. CASE n # 0
      <3>1. ~(1 > n) /\ n - 1 + 1 = n
        BY <1>1, <2>4
      <3>. QED
        BY <2>2, <3>1
    <2>. QED
      BY <2>3, <2>4
  <1>4. Cardinality(Below(last)) = last
    <2>1. Cardinality(0 .. last - 1) = IF 0 > last - 1 THEN 0 ELSE (last - 1) - 0 + 1
      BY FS_Interval
    <2>. QED
      BY <2>1 DEF Below
  <1>5. Cardinality(1 .. n) = Cardinality(Below(last))
    BY <1>2, <1>3, FS_Bijection DEF ExistsBijection
  <1>. QED
    BY <1>3, <1>4, <1>5

\* A builder with no work left becomes well formed when its last block is made.
LEMMA Lowers ==
  ASSUME NEW b, LoweringInv(<< >>, b)
  PROVE  WellFormed(Terminate(b, 0))
  <1>1. Promised(<< >>, Made(b)) = {} /\ Starts(<< >>) = {} /\ ~EndsAway(<< >>)
        /\ ~ComesBack(<< >>) /\ ~Between(<< >>) /\ Len(<< >>) = 0
    BY NothingLeft, EmptyIsSequence DEF Promised, ComesBack, Between
  <1>2. /\ Building(b, {}) /\ Free(b) = {} /\ b.current.id \notin Made(b)
    BY <1>1 DEF LoweringInv, Arrives
  <1>3. b.current.terminated
    BY <1>1 DEF LoweringInv, Closing
  <1>4. Closed(b.current.code)
    BY <1>1, <1>3 DEF LoweringInv, IsOpen
  <1>a. PICK last, p : last = b.lastBlock /\ p = Terminate(b, 0)
    OBVIOUS
  <1>5. /\ last \in Nat \ {0} /\ Made(b) \subseteq Below(last) /\ b.current.id \in Below(last)
        /\ Free(b) = Below(last) \ (Made(b) \cup {b.current.id}) /\ Numbers(b) = Below(last)
    BY <1>2, <1>a, Within
  <1>6. Made(b) \cup {b.current.id} = Below(last)
    BY <1>2, <1>5
  <1>7. 0 \in Numbers(b)
    BY <1>5 DEF Below
  <1>8. /\ Building(p, {}) /\ Made(p) = Below(last) /\ p.lastBlock = last
    <2>1. /\ Building(Terminate(b, 0), {})
          /\ Made(Terminate(b, 0)) = Made(b) \cup {b.current.id}
          /\ Terminate(b, 0).lastBlock = b.lastBlock
      BY <1>2, <1>4, <1>7, TerminateIs
    <2>. QED
      BY <1>6, <1>a, <2>1
  <1>9. /\ IsSequence(p.blocks) /\ Differ(p.blocks) /\ p.asserted = FALSE
        /\ \A k \in DOMAIN p.blocks : Finished(p.blocks[k], Below(last), {})
    <2>1. Numbers(p) = Below(last)
      BY <1>8, Within
    <2>. QED
      BY <1>8, <2>1 DEF Building
  <1>10. Len(p.blocks) = last
    <2>1. PICK blocks : blocks = p.blocks
      OBVIOUS
    <2>2. {blocks[k].id : k \in DOMAIN blocks} = Below(last)
      BY <1>8, <2>1 DEF Made
    <2>3. Len(blocks) = last
      BY <1>5, <1>9, <2>1, <2>2, AllNumbered
    <2>. QED
      BY <2>1, <2>3
  <1>11. Made(p) = 0 .. Len(p.blocks) - 1
    BY <1>8, <1>10 DEF Below
  <1>12. ASSUME NEW k \in DOMAIN p.blocks
         PROVE  LET code == p.blocks[k].code IN Closed(code) /\ Targets(Last(code)) \subseteq Made(p)
    <2>1. PICK code : code = p.blocks[k].code
      OBVIOUS
    <2>2. Closed(code) /\ LeadTo(code, Below(last)) /\ IsSequence(code)
      BY <1>9, <2>1 DEF Finished, IsBlock
    <2>3. Len(code) \in DOMAIN code
      <3>1. Len(code) \in Nat /\ DOMAIN code = 1 .. Len(code) /\ Len(code) # 0
        BY <2>2, LengthOf DEF Closed
      <3>. QED
        BY <3>1
    <2>4. Targets(code[Len(code)]) \subseteq Below(last)
      BY <2>2, <2>3 DEF LeadTo
    <2>5. Last(code) = code[Len(code)]
      BY DEF Last
    <2>. QED
      BY <1>8, <2>1, <2>2, <2>4, <2>5
  <1>13. WellFormed(p)
    BY <1>9, <1>11, <1>12 DEF WellFormed
  <1>. QED
    BY <1>13, <1>a

\* What BlocksWellFormed says of a builder.
Formed(ph, p) ==
    /\ ~p.asserted
    /\ ph # "lower" =>
        /\ \A j, k \in DOMAIN p.blocks : p.blocks[j].id = p.blocks[k].id => j = k
        /\ {p.blocks[k].id : k \in DOMAIN p.blocks} = 0 .. Len(p.blocks) - 1
        /\ \A k \in DOMAIN p.blocks :
            LET code == p.blocks[k].code IN
            /\ code # << >>
            /\ \A i \in DOMAIN code : IsTerminator(code[i]) <=> i = Len(code)
            /\ Targets(Last(code)) \subseteq {p.blocks[m].id : m \in DOMAIN p.blocks}

\* It is that of the variables, now and after the step.
LEMMA FormedIs ==
  /\ BlocksWellFormed <=> Formed(phase, builder)
  /\ BlocksWellFormed' <=> Formed(phase', builder')
  BY DEF BlocksWellFormed, Ids, Formed

\* Blocks that are well formed are as the property says.
LEMMA WellIsFormed ==
  ASSUME NEW p, WellFormed(p), NEW ph
  PROVE  Formed(ph, p)
  <1>1. Made(p) = {p.blocks[m].id : m \in DOMAIN p.blocks}
    BY DEF Made
  <1>2. ~p.asserted /\ \A j, k \in DOMAIN p.blocks : p.blocks[j].id = p.blocks[k].id => j = k
    BY DEF WellFormed, Differ
  <1>3. {p.blocks[k].id : k \in DOMAIN p.blocks} = 0 .. Len(p.blocks) - 1
    BY <1>1 DEF WellFormed
  <1>4. ASSUME NEW k \in DOMAIN p.blocks
        PROVE  LET code == p.blocks[k].code IN
               /\ code # << >>
               /\ \A i \in DOMAIN code : IsTerminator(code[i]) <=> i = Len(code)
               /\ Targets(Last(code)) \subseteq {p.blocks[m].id : m \in DOMAIN p.blocks}
    <2>1. PICK code : code = p.blocks[k].code
      OBVIOUS
    <2>2. Closed(code) /\ Targets(Last(code)) \subseteq Made(p)
      BY <2>1 DEF WellFormed
    <2>. QED
      BY <1>1, <2>1, <2>2 DEF Closed
  <1>. QED
    BY <1>2, <1>3, <1>4 DEF Formed

-----------------------------------------------------------------------------
(* The invariant                                                           *)

(***************************************************************************)
(* Whatever function body the checker accepts, after every step of         *)
(* BuildIRFunctionLevel the items that are left promise exactly the        *)
(* numbers of blocks that are given and not made, every item has the       *)
(* scopes and switches around it that it ends, and the next one has the    *)
(* block that it is lowered into (IR.cpp, block_builder); once all are     *)
(* lowered, the blocks are well formed and stay as they are.               *)
(***************************************************************************)
THEOREM InductiveInvariant == Spec => []IInv
  <1>1. Init => IInv
    <2>. SUFFICES ASSUME Init PROVE LoweringInv(todo, builder) /\ phase = "lower"
      BY DEF IInv
    <2>1. PICK fn \in Programs : fn = program
      BY DEF Init
    <2>2. todo = <<fn>> \o ImplicitReturn(fn.body) /\ builder = MakeBlockBuilder /\ phase = "lower"
      BY <2>1 DEF Init
    <2>3. LoweringInv(<<fn>> \o ImplicitReturn(fn.body), MakeBlockBuilder)
      BY StartSteps
    <2>. QED
      BY <2>2, <2>3
  <1>2. IInv /\ [Next]_vars => IInv'
    <2>. SUFFICES ASSUME IInv, [Next]_vars PROVE IInv'
      OBVIOUS
    <2>1. CASE BuildIRFunctionLevel
      <3>1. phase = "lower"
        BY <2>1 DEF BuildIRFunctionLevel, LowerJump, LowerBranch, LowerLoop, LowerCases,
              LowerCondition, LowerCall, OpenScope, ScopeEnds, LowerDefer, BodyEnds, LowerReturn,
              LowerYield, LowerBreak, LowerContinue, Leave, LowerIf, LowerThen, LowerElse,
              LowerAssert, BuildAssertExpr, BuildIRForLoopWhile, BuildIRForLoopCStyle,
              BuildIRForIt, LoopHead, LoopTest, WhileEnds, LoopNext, LoopAgain, LowerSwitch,
              LowerCase, CaseEnds, OtherValue, NextCase, BuildIRIntMatch, BuildIRStringMatch,
              CompareStrings, LowerAtom, LowerLeft, LowerRight, Merge, Lower
      <3>2. LoweringInv(todo, builder)
        BY <3>1 DEF IInv
      <3>3. Moves
        BY <2>1, <3>2, StatementSteps, JumpSteps, BranchSteps, LoopSteps, CaseSteps, ConditionSteps
           DEF BuildIRFunctionLevel
      <3>4. phase' = "lower" /\ LoweringInv(todo', builder')
        BY <3>1, <3>3 DEF Moves
      <3>. QED
        BY <3>4 DEF IInv
    <2>2. CASE StartRun
      <3>1. /\ phase = "lower" /\ todo = << >> /\ phase' = "run"
            /\ builder' = Terminate(builder, 0)
        BY <2>2 DEF StartRun
      <3>2. PICK b : b = builder
        OBVIOUS
      <3>3. LoweringInv(<< >>, b)
        BY <3>1, <3>2 DEF IInv
      <3>4. WellFormed(Terminate(b, 0))
        BY <3>3, Lowers
      <3>5. Formed("run", Terminate(b, 0))
        BY <3>4, WellIsFormed
      <3>6. BlocksWellFormed'
        BY <3>1, <3>2, <3>5, FormedIs
      <3>. QED
        BY <3>1, <3>6 DEF IInv
    <2>3. CASE Run
      <3>1. /\ phase = "run" /\ phase' # "lower" /\ builder' = builder
        BY <2>3 DEF Run, Running, RunCall, RunScope, RunEval, RunMatch, RunCount, RunMemcmp, RunStore,
              RunJmp, RunIf, RunSwitchInt, RunRet, RunUnreachable
      <3>2. Formed(phase, builder)
        BY <3>1, FormedIs DEF IInv
      <3>3. Formed(phase', builder')
        BY <3>1, <3>2 DEF Formed
      <3>. QED
        BY <3>1, <3>3, FormedIs DEF IInv
    <2>4. CASE Stopped \/ UNCHANGED vars
      <3>1. UNCHANGED <<phase, todo, builder>>
        BY <2>4 DEF Stopped, vars, machine
      <3>2. CASE phase = "lower"
        BY <3>1, <3>2 DEF IInv
      <3>3. CASE phase # "lower"
        <4>1. Formed(phase, builder)
          BY <3>3, FormedIs DEF IInv
        <4>. QED
          BY <3>1, <3>3, <4>1, FormedIs DEF IInv
      <3>. QED
        BY <3>2, <3>3
    <2>. QED
      BY <2>1, <2>2, <2>3, <2>4 DEF Next
  <1>. QED
    BY <1>1, <1>2, PTL DEF Spec

(***************************************************************************)
(* Every basic block has one terminator, as its last instruction, and      *)
(* leads to blocks that exist; the blocks are numbered without gaps and no *)
(* number is used twice; the assertions of the builder never fail (IR.cpp, *)
(* Terminate, PushInstruction, AllocateBlock).                             *)
(***************************************************************************)
THEOREM BlocksAreWellFormed == Spec => []BlocksWellFormed
  <1>1. IInv => BlocksWellFormed
    <2>. SUFFICES ASSUME IInv PROVE BlocksWellFormed
      OBVIOUS
    <2>1. CASE phase = "lower"
      <3>1. builder.asserted = FALSE
        <4>1. PICK td, b : td = todo /\ b = builder
          OBVIOUS
        <4>2. LoweringInv(td, b)
          BY <2>1, <4>1 DEF IInv
        <4>3. Building(b, Starts(td))
          BY <4>2 DEF LoweringInv
        <4>. QED
          BY <4>1, <4>3 DEF Building
      <3>2. Formed(phase, builder)
        BY <2>1, <3>1 DEF Formed
      <3>. QED
        BY <3>2, FormedIs
    <2>2. CASE phase # "lower"
      BY <2>2 DEF IInv
    <2>. QED
      BY <2>1, <2>2
  <1>. QED
    BY <1>1, InductiveInvariant, PTL
=============================================================================
