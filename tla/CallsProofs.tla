----------------------------- MODULE CallsProofs -----------------------------
(***************************************************************************)
(* A call has the registers its function's type declares, and arguments and *)
(* results arrive: for every set of functions over types with a layout, on  *)
(* every target, for generated code and for the interpreter.                *)
(***************************************************************************)
EXTENDS Calls, SequenceTheorems, FiniteSetTheorems, WellFoundedInduction, TLAPS

IsSequence(q) == q \in Seq(Range(q))

-----------------------------------------------------------------------------
(* Sequences                                                               *)

\* A sequence over some set is one over its own elements.
LEMMA SequenceIs ==
  ASSUME NEW S, NEW q \in Seq(S)
  PROVE  IsSequence(q)
  BY SeqOfRange DEF IsSequence

\* The empty sequence is one.
LEMMA EmptyIsSequence == IsSequence(<< >>) /\ Len(<< >>) = 0
  BY EmptySeq, SequenceIs

\* What a sequence is indexed by, and when it is empty.
LEMMA LengthOf ==
  ASSUME NEW q, IsSequence(q)
  PROVE  Len(q) \in Nat /\ DOMAIN q = 1 .. Len(q) /\ (q = << >> <=> Len(q) = 0)
  <1>1. Len(q) \in Nat /\ DOMAIN q = 1 .. Len(q)
    BY LenProperties DEF IsSequence
  <1>2. q # << >> => Len(q) # 0
    BY EmptySeq DEF IsSequence
  <1>. QED
    BY <1>1, <1>2, EmptyIsSequence

\* Two sequences are over a common set.
LEMMA Together ==
  ASSUME NEW p, NEW q, IsSequence(p), IsSequence(q)
  PROVE  \E S : p \in Seq(S) /\ q \in Seq(S)
  <1>. DEFINE S == Range(p) \cup Range(q)
  <1>1. Range(p) \subseteq S /\ Range(q) \subseteq S
    OBVIOUS
  <1>2. p \in Seq(S) /\ q \in Seq(S)
    BY <1>1, SeqMonotonic DEF IsSequence
  <1>. QED
    BY <1>2

\* The elements of two sequences after each other.
LEMMA JoinIs ==
  ASSUME NEW p, NEW q, IsSequence(p), IsSequence(q)
  PROVE  /\ IsSequence(p \o q) /\ Len(p \o q) = Len(p) + Len(q)
         /\ \A i \in 1 .. Len(p) : (p \o q)[i] = p[i]
         /\ \A i \in 1 .. Len(q) : (p \o q)[Len(p) + i] = q[i]
         /\ \A i \in Len(p) + 1 .. Len(p) + Len(q) : (p \o q)[i] = q[i - Len(p)]
         /\ p = << >> => p \o q = q
  <1>1. PICK S : p \in Seq(S) /\ q \in Seq(S)
    BY Together
  <1>2. /\ p \o q \in Seq(S) /\ Len(p \o q) = Len(p) + Len(q)
        /\ \A i \in 1 .. Len(p) + Len(q) :
             (p \o q)[i] = IF i <= Len(p) THEN p[i] ELSE q[i - Len(p)]
    BY <1>1, ConcatProperties
  <1>3. Len(p) \in Nat /\ Len(q) \in Nat
    BY LengthOf
  <1>4. p = << >> => p \o q = q
    BY <1>1, ConcatEmptySeq
  <1>5. /\ \A i \in 1 .. Len(p) : (p \o q)[i] = p[i]
        /\ \A i \in 1 .. Len(q) : (p \o q)[Len(p) + i] = q[i]
        /\ \A i \in Len(p) + 1 .. Len(p) + Len(q) : (p \o q)[i] = q[i - Len(p)]
    BY <1>2, <1>3
  <1>6. IsSequence(p \o q)
    BY <1>2, SequenceIs
  <1>. QED
    BY <1>2, <1>4, <1>5, <1>6

\* A sequence of one.
LEMMA OneIs ==
  ASSUME NEW x
  PROVE  IsSequence(<<x>>) /\ Len(<<x>>) = 1 /\ <<x>>[1] = x
  <1>1. <<x>> \in Seq({x})
    OBVIOUS
  <1>. QED
    BY <1>1, SequenceIs

\* A set of naturals with 0 that is closed under successor is all of them.
LEMMA Induction ==
  ASSUME NEW S \in SUBSET Nat, 0 \in S, \A n \in Nat : n \in S => n + 1 \in S
  PROVE  S = Nat
  <1>. DEFINE U == Nat \ S
              T == {0 .. m : m \in U}
              R == StrictSubsetOrdering(Nat)
  <1>. SUFFICES ASSUME U # {} PROVE FALSE
    OBVIOUS
  <1>1. IsWellFoundedOn(R, FiniteSubsetsOf(Nat))
    BY FS_StrictSubsetOrderingWellFounded
  <1>2. T \subseteq FiniteSubsetsOf(Nat)
    <2>1. ASSUME NEW m \in U PROVE 0 .. m \in FiniteSubsetsOf(Nat)
      <3>1. IsFiniteSet(0 .. m) /\ 0 .. m \subseteq Nat
        BY FS_Interval
      <3>. QED
        BY <3>1 DEF FiniteSubsetsOf
    <2>. QED
      BY <2>1
  <1>3. \A k, m \in U : k < m => <<0 .. k, 0 .. m>> \in R
    <2>. SUFFICES ASSUME NEW k \in U, NEW m \in U, k < m
                  PROVE  <<0 .. k, 0 .. m>> \in R
      OBVIOUS
    <2>1. 0 .. k \subseteq Nat /\ 0 .. m \subseteq Nat /\ 0 .. k \subseteq 0 .. m
      OBVIOUS
    <2>2. m \in 0 .. m /\ m \notin 0 .. k
      OBVIOUS
    <2>. QED
      BY <2>1, <2>2 DEF StrictSubsetOrdering
  <1>4. T # {}
    OBVIOUS
  <1>. HIDE DEF R
  <1>5. PICK x \in T : \A y \in T : ~(<<y, x>> \in R)
    <2>. HIDE DEF T
    <2>. QED
      BY <1>1, <1>2, <1>4, WFMin
  <1>6. PICK m \in U : x = 0 .. m
    BY <1>5
  <1>7. \A k \in U : ~(k < m)
    BY <1>3, <1>5, <1>6
  <1>8. m \in Nat \ {0} /\ m - 1 \in Nat /\ m - 1 < m /\ (m - 1) + 1 = m
    BY <1>6
  <1>9. m - 1 \in S
    BY <1>7, <1>8
  <1>. QED
    BY <1>6, <1>8, <1>9

\* A function on 1 .. n is a sequence of n elements.
LEMMA FunctionIsSequence ==
  ASSUME NEW n \in Nat, NEW q, DOMAIN q = 1 .. n, q = [i \in 1 .. n |-> q[i]]
  PROVE  IsSequence(q) /\ Len(q) = n
  <1>1. q \in [1 .. n -> Range(q)]
    BY DEF Range
  <1>2. q \in Seq(Range(q))
    BY <1>1, SeqDef
  <1>3. Len(q) \in Nat /\ DOMAIN q = 1 .. Len(q)
    BY <1>2, LenProperties
  <1>4. Len(q) = n
    BY <1>3
  <1>. QED
    BY <1>2, <1>4 DEF IsSequence

\* Sequences that have the same elements are equal.
LEMMA SameSequence ==
  ASSUME NEW p, NEW q, IsSequence(p), IsSequence(q), Len(p) = Len(q),
         \A i \in 1 .. Len(p) : p[i] = q[i]
  PROVE  p = q
  <1>1. PICK S : p \in Seq(S) /\ q \in Seq(S)
    BY Together
  <1>. QED
    BY <1>1, SeqEqual

\* The elements of a part of a sequence.
LEMMA PartIs ==
  ASSUME NEW q, IsSequence(q), NEW a \in Nat \ {0}, NEW b \in Nat, a <= b + 1, b <= Len(q)
  PROVE  /\ IsSequence(SubSeq(q, a, b)) /\ Len(SubSeq(q, a, b)) = b + 1 - a
         /\ \A k \in 1 .. b + 1 - a : SubSeq(q, a, b)[k] = q[a + k - 1]
  <1>. PICK p : p = SubSeq(q, a, b)
    OBVIOUS
  <1>1. Len(q) \in Nat /\ q \in Seq(Range(q))
    BY LengthOf DEF IsSequence
  <1>2. b \in Int /\ a \in Int
    OBVIOUS
  <1>3. \A i \in a .. b : q[i] \in Range(q)
    <2>1. \A i \in a .. b : i \in 1 .. Len(q)
      BY <1>1, <1>2
    <2>. QED
      BY <1>1, <2>1, ElementOfSeq
  <1>4. /\ p \in Seq(Range(q))
        /\ Len(p) = IF a <= b THEN b - a + 1 ELSE 0
        /\ \A i \in 1 .. b - a + 1 : p[i] = q[a + i - 1]
    BY <1>2, <1>3, SubSeqProperties
  <1>5. Len(p) = b + 1 - a
    BY <1>4
  <1>6. \A k \in 1 .. b + 1 - a : p[k] = q[a + k - 1]
    BY <1>4
  <1>7. IsSequence(p)
    BY <1>4, SequenceIs
  <1>. QED
    BY <1>5, <1>6, <1>7

\* The function of Joined.
Joins(f, qs, m) == f = [i \in 0 .. m |-> IF i = 0 THEN << >> ELSE f[i - 1] \o qs[i]]
JoinedAt(f, qs, i) == f[i] = IF i = 0 THEN << >> ELSE f[i - 1] \o qs[i]

\* The function of Joined is one that chains.
LEMMA JoinsIs ==
  ASSUME NEW f, NEW qs, NEW m, Joins(f, qs, m)
  PROVE  \A i \in 0 .. m : JoinedAt(f, qs, i)
  <1>1. PICK g : g = [i \in 0 .. m |-> IF i = 0 THEN << >> ELSE f[i - 1] \o qs[i]]
    OBVIOUS
  <1>2. f = g
    BY <1>1 DEF Joins
  <1>3. \A i \in 0 .. m : g[i] = IF i = 0 THEN << >> ELSE f[i - 1] \o qs[i]
    BY <1>1
  <1>. QED
    BY <1>2, <1>3 DEF JoinedAt

\* There is a function that chains one more sequence.
LEMMA JoinsMore ==
  ASSUME NEW qs, NEW m \in Nat, NEW f, Joins(f, qs, m)
  PROVE  \E g : Joins(g, qs, m + 1)
  <1>1. PICK g : g = [i \in 0 .. m + 1 |-> IF i = 0 THEN << >> ELSE f[i - 1] \o qs[i]]
    OBVIOUS
  <1>2. \A i \in 0 .. m : JoinedAt(f, qs, i)
    BY JoinsIs
  <1>3. \A i \in 0 .. m + 1 : g[i] = IF i = 0 THEN << >> ELSE f[i - 1] \o qs[i]
    BY <1>1
  <1>4. \A i \in 0 .. m : i \in 0 .. m + 1
    OBVIOUS
  <1>5. \A i \in 0 .. m : g[i] = f[i]
    BY <1>2, <1>3, <1>4 DEF JoinedAt
  <1>6. \A i \in 0 .. m + 1 : i # 0 => i - 1 \in 0 .. m
    OBVIOUS
  <1>7. \A i \in 0 .. m + 1 : (IF i = 0 THEN << >> ELSE f[i - 1] \o qs[i])
                             = (IF i = 0 THEN << >> ELSE g[i - 1] \o qs[i])
    BY <1>5, <1>6
  <1>8. Joins(g, qs, m + 1)
    BY <1>1, <1>7 DEF Joins
  <1>. QED
    BY <1>8

\* Joined adds one sequence after the other.
LEMMA JoinedIs ==
  ASSUME NEW qs, Len(qs) \in Nat
  PROVE  /\ Joined(qs)[0] = << >>
         /\ \A i \in 1 .. Len(qs) : Joined(qs)[i] = Joined(qs)[i - 1] \o qs[i]
  <1>. PICK n \in Nat : n = Len(qs)
    OBVIOUS
  <1>. DEFINE Some == {m \in Nat : \E f : Joins(f, qs, m)}
  <1>1. 0 \in Some
    <2>1. PICK f : f = [i \in 0 .. 0 |-> << >>]
      OBVIOUS
    <2>2. PICK g : g = [i \in 0 .. 0 |-> IF i = 0 THEN << >> ELSE f[i - 1] \o qs[i]]
      OBVIOUS
    <2>3. \A i \in 0 .. 0 : i = 0
      OBVIOUS
    <2>4. f = g
      BY <2>1, <2>2, <2>3
    <2>5. Joins(f, qs, 0)
      BY <2>2, <2>4 DEF Joins
    <2>. QED
      BY <2>5
  <1>2. \A m \in Nat : m \in Some => m + 1 \in Some
    BY JoinsMore
  <1>3. Some \in SUBSET Nat
    OBVIOUS
  <1>4. n \in Some
    <2>. HIDE DEF Some
    <2>. QED
      BY <1>1, <1>2, <1>3, Induction
  <1>5. PICK upTo : upTo = CHOOSE f : Joins(f, qs, n)
    OBVIOUS
  <1>6. Joined(qs) = upTo
    BY <1>5 DEF Joined, Joins
  <1>7. Joins(upTo, qs, n)
    BY <1>4, <1>5
  <1>8. \A i \in 0 .. n : JoinedAt(upTo, qs, i)
    BY <1>7, JoinsIs
  <1>9. \A i \in 1 .. n : i \in 0 .. n /\ i # 0
    OBVIOUS
  <1>10. 0 \in 0 .. n
    OBVIOUS
  <1>. QED
    BY <1>6, <1>8, <1>9, <1>10 DEF JoinedAt

AllSequences(qs) == IsSequence(qs) /\ \A i \in 1 .. Len(qs) : IsSequence(qs[i])

\* What was joined is a sequence, one part longer at every step.
LEMMA JoinedSequences ==
  ASSUME NEW qs, AllSequences(qs)
  PROVE  /\ Joined(qs)[0] = << >>
         /\ \A m \in 0 .. Len(qs) : IsSequence(Joined(qs)[m]) /\ Len(Joined(qs)[m]) \in Nat
         /\ \A i \in 1 .. Len(qs) :
              /\ Joined(qs)[i] = Joined(qs)[i - 1] \o qs[i]
              /\ Len(Joined(qs)[i]) = Len(Joined(qs)[i - 1]) + Len(qs[i])
  <1>. PICK n \in Nat : n = Len(qs)
    BY LengthOf DEF AllSequences
  <1>. PICK J : J = Joined(qs)
    OBVIOUS
  <1>1. J[0] = << >> /\ \A i \in 1 .. n : J[i] = J[i - 1] \o qs[i]
    BY JoinedIs
  <1>2. \A i \in 1 .. n : IsSequence(qs[i])
    BY DEF AllSequences
  <1>. DEFINE Good == {m \in Nat : m <= n => IsSequence(J[m])}
  <1>3. 0 \in Good
    BY <1>1, EmptyIsSequence
  <1>4. ASSUME NEW m \in Nat, m \in Good PROVE m + 1 \in Good
    <2>. SUFFICES ASSUME m + 1 <= n PROVE IsSequence(J[m + 1])
      OBVIOUS
    <2>. PICK i : i = m + 1
      OBVIOUS
    <2>1. i \in 1 .. n /\ i - 1 = m /\ m <= n
      OBVIOUS
    <2>2. IsSequence(J[m]) /\ IsSequence(qs[i]) /\ J[i] = J[m] \o qs[i]
      BY <1>1, <1>2, <1>4, <2>1
    <2>3. IsSequence(J[m] \o qs[i])
      BY <2>2, JoinIs
    <2>. QED
      BY <2>2, <2>3
  <1>5. Good \in SUBSET Nat
    OBVIOUS
  <1>6. \A m \in 0 .. n : IsSequence(J[m])
    <2>1. Good = Nat
      <3>. HIDE DEF Good
      <3>. QED
        BY <1>3, <1>4, <1>5, Induction
    <2>2. \A m \in 0 .. n : m \in Good /\ m <= n
      BY <2>1
    <2>. QED
      BY <2>2
  <1>7. \A m \in 0 .. n : Len(J[m]) \in Nat
    BY <1>6, LengthOf
  <1>8. ASSUME NEW i \in 1 .. n PROVE Len(J[i]) = Len(J[i - 1]) + Len(qs[i])
    <2>1. IsSequence(J[i - 1]) /\ IsSequence(qs[i]) /\ J[i] = J[i - 1] \o qs[i]
      <3>1. i - 1 \in 0 .. n
        OBVIOUS
      <3>. QED
        BY <1>1, <1>2, <1>6, <3>1
    <2>. QED
      BY <2>1, JoinIs
  <1>. QED
    BY <1>1, <1>6, <1>7, <1>8

\* q begins with p.
Extends(q, p) == Len(p) <= Len(q) /\ \A k \in 1 .. Len(p) : q[k] = p[k]

LEMMA ExtendsItself ==
  ASSUME NEW p, IsSequence(p)
  PROVE  Extends(p, p)
  BY LengthOf DEF Extends

LEMMA ExtendsJoin ==
  ASSUME NEW p, NEW q, NEW r, IsSequence(p), IsSequence(q), IsSequence(r), Extends(q, p)
  PROVE  Extends(q \o r, p)
  <1>. PICK j : j = q \o r
    OBVIOUS
  <1>1. Len(p) \in Nat /\ Len(q) \in Nat /\ Len(r) \in Nat
    BY LengthOf
  <1>2. Len(j) = Len(q) + Len(r) /\ \A k \in 1 .. Len(q) : j[k] = q[k]
    BY JoinIs
  <1>3. Len(p) <= Len(q) /\ \A k \in 1 .. Len(p) : q[k] = p[k]
    BY DEF Extends
  <1>4. Len(p) <= Len(j)
    BY <1>1, <1>2, <1>3
  <1>5. \A k \in 1 .. Len(p) : k \in 1 .. Len(q)
    BY <1>1, <1>3
  <1>6. \A k \in 1 .. Len(p) : j[k] = p[k]
    BY <1>2, <1>3, <1>5
  <1>. QED
    BY <1>4, <1>6 DEF Extends

\* What was joined stays in front.
LEMMA JoinedGrows ==
  ASSUME NEW qs, AllSequences(qs), NEW i \in 0 .. Len(qs), NEW j \in i .. Len(qs)
  PROVE  Extends(Joined(qs)[j], Joined(qs)[i])
  <1>. PICK n \in Nat : n = Len(qs)
    BY LengthOf DEF AllSequences
  <1>. PICK J : J = Joined(qs)
    OBVIOUS
  <1>. DEFINE Good == {d \in Nat : i + d <= n => Extends(J[i + d], J[i])}
  <1>1. i \in Nat /\ j \in Nat /\ i <= j /\ j <= n /\ i <= n /\ i \in 0 .. n
    OBVIOUS
  <1>2. \A m \in 0 .. n : IsSequence(J[m])
    BY JoinedSequences
  <1>3. \A m \in 1 .. n : J[m] = J[m - 1] \o qs[m] /\ IsSequence(qs[m])
    BY JoinedSequences DEF AllSequences
  <1>4. 0 \in Good
    <2>1. i + 0 = i
      BY <1>1
    <2>2. Extends(J[i], J[i])
      BY <1>1, <1>2, ExtendsItself
    <2>. QED
      BY <2>1, <2>2
  <1>5. ASSUME NEW d \in Nat, d \in Good PROVE d + 1 \in Good
    <2>. SUFFICES ASSUME i + (d + 1) <= n PROVE Extends(J[i + (d + 1)], J[i])
      OBVIOUS
    <2>. PICK m : m = i + (d + 1)
      OBVIOUS
    <2>1. m \in 1 .. n /\ m - 1 = i + d /\ m - 1 \in 0 .. n /\ i + d <= n
      BY <1>1
    <2>2. Extends(J[m - 1], J[i])
      BY <1>5, <2>1
    <2>3. J[m] = J[m - 1] \o qs[m] /\ IsSequence(J[m - 1]) /\ IsSequence(qs[m]) /\ IsSequence(J[i])
      BY <1>1, <1>2, <1>3, <2>1
    <2>4. Extends(J[m - 1] \o qs[m], J[i])
      BY <2>2, <2>3, ExtendsJoin
    <2>. QED
      BY <2>3, <2>4
  <1>6. Good \in SUBSET Nat
    OBVIOUS
  <1>7. \A d \in Nat : d \in Good
    <2>. HIDE DEF Good
    <2>. QED
      BY <1>4, <1>5, <1>6, Induction
  <1>8. j - i \in Nat /\ i + (j - i) = j
    BY <1>1
  <1>9. j - i \in Good
    BY <1>7, <1>8
  <1>10. i + (j - i) <= n => Extends(J[i + (j - i)], J[i])
    BY <1>9
  <1>. QED
    BY <1>1, <1>8, <1>10

\* q has the elements of p behind its first n.
Holds(q, n, p) == n + Len(p) <= Len(q) /\ \A k \in 1 .. Len(p) : q[n + k] = p[k]

LEMMA JoinHolds ==
  ASSUME NEW p, NEW q, IsSequence(p), IsSequence(q), NEW r, IsSequence(r), Extends(r, p \o q)
  PROVE  Holds(r, Len(p), q)
  <1>. PICK j : j = p \o q
    OBVIOUS
  <1>1. Len(p) \in Nat /\ Len(q) \in Nat /\ Len(r) \in Nat
    BY LengthOf
  <1>2. Len(j) = Len(p) + Len(q) /\ \A k \in 1 .. Len(q) : j[Len(p) + k] = q[k]
    BY JoinIs
  <1>3. Len(j) <= Len(r) /\ \A k \in 1 .. Len(j) : r[k] = j[k]
    BY DEF Extends
  <1>4. \A k \in 1 .. Len(q) : Len(p) + k \in 1 .. Len(j)
    BY <1>1, <1>2
  <1>5. \A k \in 1 .. Len(q) : r[Len(p) + k] = q[k]
    BY <1>2, <1>3, <1>4
  <1>. QED
    BY <1>2, <1>3, <1>5 DEF Holds

\* Where one of the parts lies.
LEMMA JoinedPart ==
  ASSUME NEW qs, AllSequences(qs), NEW i \in 1 .. Len(qs), NEW j \in i .. Len(qs)
  PROVE  Holds(Joined(qs)[j], Len(Joined(qs)[i - 1]), qs[i])
  <1>. PICK n \in Nat : n = Len(qs)
    BY LengthOf DEF AllSequences
  <1>. PICK J : J = Joined(qs)
    OBVIOUS
  <1>1. i \in 0 .. n /\ i - 1 \in 0 .. n /\ j \in 0 .. n
    OBVIOUS
  <1>2. Extends(J[j], J[i])
    BY <1>1, JoinedGrows
  <1>3. IsSequence(J[i - 1]) /\ IsSequence(qs[i]) /\ J[i] = J[i - 1] \o qs[i] /\ IsSequence(J[j])
    BY <1>1, JoinedSequences DEF AllSequences
  <1>. QED
    BY <1>2, <1>3, JoinHolds

\* A running sum la of a, and whether it is one.
Sums(la, a, n) ==
    /\ la[0] = 0 /\ \A i \in 0 .. n : la[i] \in Nat
    /\ \A i \in 1 .. n : a[i] \in Nat /\ la[i] = la[i - 1] + a[i]

Agree(f, g, m, n) == \A i \in m .. n : f[i] = g[i]
AtMost(f, g, n) == \A i \in 1 .. n : f[i] <= g[i]

LEMMA SameSummands ==
  ASSUME NEW la, NEW lb, NEW a, NEW b, NEW n \in Nat, Sums(la, a, n), Sums(lb, b, n),
         AtMost(a, b, n), la[n] >= lb[n]
  PROVE  Agree(la, lb, 0, n) /\ Agree(a, b, 1, n)
  <1>. DEFINE Same(m) == (\A i \in 0 .. m : la[i] = lb[i]) /\ (\A i \in 1 .. m : a[i] = b[i])
              Good == {m \in Nat : m <= n /\ la[m] >= lb[m] => Same(m)}
  <1>1. 0 \in Good
    <2>1. \A i \in 0 .. 0 : i = 0
      OBVIOUS
    <2>2. \A i \in 1 .. 0 : FALSE
      OBVIOUS
    <2>3. la[0] = lb[0]
      BY DEF Sums
    <2>. QED
      BY <2>1, <2>2, <2>3
  <1>2. ASSUME NEW m \in Nat, m \in Good PROVE m + 1 \in Good
    <2>. SUFFICES ASSUME m + 1 <= n, la[m + 1] >= lb[m + 1] PROVE Same(m + 1)
      OBVIOUS
    <2>. PICK k : k = m + 1
      OBVIOUS
    <2>1. k \in 1 .. n /\ k - 1 = m /\ m \in 0 .. n /\ m <= n
      OBVIOUS
    <2>2. /\ la[k] = la[m] + a[k] /\ lb[k] = lb[m] + b[k] /\ a[k] \in Nat /\ b[k] \in Nat
          /\ la[m] \in Nat /\ lb[m] \in Nat /\ a[k] <= b[k] /\ la[k] >= lb[k]
      BY <2>1 DEF Sums, AtMost
    <2>3. la[m] >= lb[m]
      BY <2>2
    <2>4. Same(m)
      BY <1>2, <2>1, <2>3
    <2>5. la[m] = lb[m]
      BY <2>1, <2>4
    <2>6. la[k] = lb[k] /\ a[k] = b[k]
      BY <2>2, <2>5
    <2>7. (\A i \in 0 .. k : i \in 0 .. m \/ i = k) /\ (\A i \in 1 .. k : i \in 1 .. m \/ i = k)
      BY <2>1
    <2>8. \A i \in 0 .. k : la[i] = lb[i]
      BY <2>4, <2>6, <2>7
    <2>9. \A i \in 1 .. k : a[i] = b[i]
      BY <2>4, <2>6, <2>7
    <2>. QED
      BY <2>8, <2>9
  <1>3. Good \in SUBSET Nat
    OBVIOUS
  <1>4. n \in Good
    <2>. HIDE DEF Good
    <2>. QED
      BY <1>1, <1>2, <1>3, Induction
  <1>5. Same(n)
    BY <1>4
  <1>. QED
    BY <1>5 DEF Agree

\* The lengths of what was joined are running sums.
LEMMA JoinedSums ==
  ASSUME NEW qs, AllSequences(qs), NEW n \in Nat, n <= Len(qs)
  PROVE  Sums([i \in 0 .. n |-> Len(Joined(qs)[i])], [i \in 1 .. n |-> Len(qs[i])], n)
  <1>. PICK J : J = Joined(qs)
    OBVIOUS
  <1>. PICK la : la = [i \in 0 .. n |-> Len(J[i])]
    OBVIOUS
  <1>. PICK a : a = [i \in 1 .. n |-> Len(qs[i])]
    OBVIOUS
  <1>1. Len(qs) \in Nat /\ \A i \in 1 .. Len(qs) : Len(qs[i]) \in Nat
    BY LengthOf DEF AllSequences
  <1>2. \A i \in 0 .. n : i \in 0 .. Len(qs)
    BY <1>1
  <1>3. \A i \in 1 .. n : i \in 1 .. Len(qs) /\ i \in 0 .. n /\ i - 1 \in 0 .. n
    BY <1>1
  <1>4. J[0] = << >> /\ \A i \in 0 .. n : Len(J[i]) \in Nat
    BY <1>2, JoinedSequences
  <1>5. \A i \in 1 .. n : Len(J[i]) = Len(J[i - 1]) + Len(qs[i])
    BY <1>3, JoinedSequences
  <1>6. la[0] = 0
    <2>1. 0 \in 0 .. n
      OBVIOUS
    <2>. QED
      BY <1>4, <2>1, EmptyIsSequence
  <1>7. \A i \in 0 .. n : la[i] \in Nat
    BY <1>4
  <1>8. \A i \in 1 .. n : a[i] \in Nat /\ la[i] = la[i - 1] + a[i]
    BY <1>1, <1>3, <1>5
  <1>9. Sums(la, a, n)
    BY <1>6, <1>7, <1>8 DEF Sums
  <1>. QED
    BY <1>9

\* Parts that are not longer than others and as long together are as long
\* one by one.
NoneLonger(as, bs, n) == \A i \in 1 .. n : Len(as[i]) <= Len(bs[i])
EquallyLong(as, bs, n) ==
    /\ \A i \in 0 .. n : Len(Joined(as)[i]) = Len(Joined(bs)[i])
    /\ \A i \in 1 .. n : Len(as[i]) = Len(bs[i])

LEMMA SameLengths ==
  ASSUME NEW as, AllSequences(as), NEW bs, AllSequences(bs),
         NEW n \in Nat, n <= Len(as), n <= Len(bs),
         NoneLonger(as, bs, n), Len(Joined(as)[n]) >= Len(Joined(bs)[n])
  PROVE  EquallyLong(as, bs, n)
  <1>. PICK la : la = [i \in 0 .. n |-> Len(Joined(as)[i])]
    OBVIOUS
  <1>. PICK lb : lb = [i \in 0 .. n |-> Len(Joined(bs)[i])]
    OBVIOUS
  <1>. PICK a : a = [i \in 1 .. n |-> Len(as[i])]
    OBVIOUS
  <1>. PICK b : b = [i \in 1 .. n |-> Len(bs[i])]
    OBVIOUS
  <1>1. Sums(la, a, n) /\ Sums(lb, b, n)
    BY JoinedSums
  <1>2. AtMost(a, b, n)
    BY DEF AtMost, NoneLonger
  <1>3. la[n] >= lb[n]
    <2>1. n \in 0 .. n
      OBVIOUS
    <2>. QED
      BY <2>1
  <1>4. Agree(la, lb, 0, n) /\ Agree(a, b, 1, n)
    BY <1>1, <1>2, <1>3, SameSummands
  <1>. QED
    BY <1>4 DEF Agree, EquallyLong

-----------------------------------------------------------------------------
(* Values and the types they are declared with                             *)

\* Values have the declared types, as LLVM compares them.
Matches(values, types) ==
    /\ Len(values) = Len(types)
    /\ \A k \in 1 .. Len(types) : LLVMType(values[k].type) = LLVMType(types[k])

\* The types of a sequence of values.
LEMMA TypesOfIs ==
  ASSUME NEW values, IsSequence(values)
  PROVE  /\ IsSequence(TypesOf(values)) /\ Len(TypesOf(values)) = Len(values)
         /\ \A k \in 1 .. Len(values) : TypesOf(values)[k] = values[k].type
  <1>. PICK n \in Nat : n = Len(values)
    BY LengthOf
  <1>. PICK f : f = TypesOf(values)
    OBVIOUS
  <1>1. DOMAIN values = 1 .. n
    BY LengthOf
  <1>2. f = [k \in 1 .. n |-> values[k].type]
    BY <1>1 DEF TypesOf
  <1>3. DOMAIN f = 1 .. n /\ f = [k \in 1 .. n |-> f[k]]
    BY <1>2
  <1>4. IsSequence(f) /\ Len(f) = n
    BY <1>3, FunctionIsSequence
  <1>. QED
    BY <1>2, <1>4

\* The registers of two sequences of types are compared one by one.
LEMMA RegistersSame ==
  ASSUME NEW a, NEW b, IsSequence(a), IsSequence(b)
  PROVE  Registers(a) = Registers(b)
         <=> /\ Len(a) = Len(b)
             /\ \A k \in 1 .. Len(b) : LLVMType(a[k]) = LLVMType(b[k])
  <1>. PICK m \in Nat : m = Len(a)
    BY LengthOf
  <1>. PICK n \in Nat : n = Len(b)
    BY LengthOf
  <1>1. DOMAIN a = 1 .. m /\ DOMAIN b = 1 .. n
    BY LengthOf
  <1>. PICK f : f = [k \in 1 .. m |-> LLVMType(a[k])]
    OBVIOUS
  <1>. PICK g : g = [k \in 1 .. n |-> LLVMType(b[k])]
    OBVIOUS
  <1>2. Registers(a) = f /\ Registers(b) = g
    BY <1>1 DEF Registers
  <1>3. f = g => m = n
    <2>. SUFFICES ASSUME f = g PROVE m = n
      OBVIOUS
    <2>1. 1 .. m = 1 .. n
      OBVIOUS
    <2>. QED
      BY <2>1
  <1>4. f = g => \A k \in 1 .. n : LLVMType(a[k]) = LLVMType(b[k])
    <2>. SUFFICES ASSUME f = g, NEW k \in 1 .. n PROVE LLVMType(a[k]) = LLVMType(b[k])
      OBVIOUS
    <2>1. k \in 1 .. m
      BY <1>3
    <2>2. f[k] = LLVMType(a[k]) /\ g[k] = LLVMType(b[k])
      BY <2>1
    <2>. QED
      BY <2>2
  <1>5. m = n /\ (\A k \in 1 .. n : LLVMType(a[k]) = LLVMType(b[k])) => f = g
    OBVIOUS
  <1>. QED
    BY <1>2, <1>3, <1>4, <1>5

\* Values in front of others that match the function's type fit it.
LEMMA FitsIfFront ==
  ASSUME NEW c, NEW values, NEW p, IsSequence(values), IsSequence(p), Extends(values, p),
         IsSequence(Declared(c)), Matches(p, Declared(c)),
         (c.fn.varargs /\ c.fn.foreign) \/ values = p
  PROVE  Fits(c, values)
  <1>. PICK d : d = Declared(c)
    OBVIOUS
  <1>. PICK types : types = TypesOf(values)
    OBVIOUS
  <1>. PICK m \in Nat : m = Len(d)
    BY LengthOf
  <1>1. /\ IsSequence(types) /\ Len(types) = Len(values)
        /\ \A k \in 1 .. Len(values) : types[k] = values[k].type
    BY TypesOfIs
  <1>2. Len(p) = m /\ Len(values) \in Nat /\ m <= Len(values)
    BY LengthOf DEF Matches, Extends
  <1>. PICK q : q = SubSeq(types, 1, m)
    OBVIOUS
  <1>3. IsSequence(q) /\ Len(q) = m /\ \A k \in 1 .. m : q[k] = types[1 + k - 1]
    <2>1. 1 \in Nat \ {0} /\ 1 <= m + 1 /\ m <= Len(types) /\ m + 1 - 1 = m
      BY <1>1, <1>2
    <2>2. /\ IsSequence(q) /\ Len(q) = m + 1 - 1
          /\ \A k \in 1 .. m + 1 - 1 : q[k] = types[1 + k - 1]
      BY <1>1, <2>1, PartIs
    <2>. QED
      BY <2>1, <2>2
  <1>4. \A k \in 1 .. m : LLVMType(q[k]) = LLVMType(d[k])
    <2>. SUFFICES ASSUME NEW k \in 1 .. m PROVE LLVMType(q[k]) = LLVMType(d[k])
      OBVIOUS
    <2>1. 1 + k - 1 = k /\ k \in 1 .. Len(values) /\ k \in 1 .. Len(p) /\ k \in 1 .. Len(d)
      BY <1>2
    <2>2. q[k] = types[k] /\ types[k] = values[k].type
      BY <1>1, <1>3, <2>1
    <2>3. values[k] = p[k]
      BY <2>1 DEF Extends
    <2>4. LLVMType(p[k].type) = LLVMType(d[k])
      BY <2>1 DEF Matches
    <2>. QED
      BY <2>2, <2>3, <2>4
  <1>5. Registers(q) = Registers(d)
    BY <1>3, <1>4, RegistersSame
  <1>7. Registers(SubSeq(types, 1, m)) = Registers(d)
    BY <1>5
  <1>8. values = p => Len(types) = m
    BY <1>1, <1>2
  <1>9. m <= Len(types)
    BY <1>1, <1>2
  <1>. QED
    BY <1>7, <1>8, <1>9 DEF Fits

\* Values that fit a function without ... match its type.
LEMMA FitsMatches ==
  ASSUME NEW c, NEW values, IsSequence(values), IsSequence(Declared(c)),
         ~(c.fn.varargs /\ c.fn.foreign), Fits(c, values)
  PROVE  Matches(values, Declared(c))
  <1>. PICK d : d = Declared(c)
    OBVIOUS
  <1>. PICK types : types = TypesOf(values)
    OBVIOUS
  <1>1. /\ IsSequence(types) /\ Len(types) = Len(values)
        /\ \A k \in 1 .. Len(values) : types[k] = values[k].type
    BY TypesOfIs
  <1>2. Registers(SubSeq(types, 1, Len(types))) = Registers(d)
    BY DEF Fits
  <1>3. SubSeq(types, 1, Len(types)) = types
    <2>1. types \in Seq(Range(types))
      BY <1>1 DEF IsSequence
    <2>. QED
      BY <2>1, SubSeqFull
  <1>4. Registers(types) = Registers(d)
    BY <1>2, <1>3
  <1>5. Len(types) = Len(d) /\ \A k \in 1 .. Len(d) : LLVMType(types[k]) = LLVMType(d[k])
    BY <1>1, <1>4, RegistersSame
  <1>. QED
    BY <1>1, <1>5 DEF Matches

\* Sequences of values that match, after each other.
LEMMA MatchesJoin ==
  ASSUME NEW p, NEW q, NEW a, NEW b, IsSequence(p), IsSequence(q), IsSequence(a), IsSequence(b),
         Matches(p, a)
  PROVE  Matches(p \o q, a \o b) <=> Matches(q, b)
  <1>. PICK m \in Nat : m = Len(a)
    BY LengthOf
  <1>. PICK n \in Nat : n = Len(b)
    BY LengthOf
  <1>. PICK v : v = p \o q
    OBVIOUS
  <1>. PICK t : t = a \o b
    OBVIOUS
  <1>1. Len(p) = m /\ \A k \in 1 .. m : LLVMType(p[k].type) = LLVMType(a[k])
    BY DEF Matches
  <1>2. Len(q) \in Nat
    BY LengthOf
  <1>3. /\ Len(v) = m + Len(q) /\ \A k \in 1 .. m : v[k] = p[k]
        /\ \A k \in 1 .. Len(q) : v[m + k] = q[k]
    <2>1. /\ Len(v) = Len(p) + Len(q) /\ \A k \in 1 .. Len(p) : v[k] = p[k]
          /\ \A k \in 1 .. Len(q) : v[Len(p) + k] = q[k]
      BY JoinIs
    <2>. QED
      BY <1>1, <2>1
  <1>4. /\ Len(t) = m + n /\ \A k \in 1 .. m : t[k] = a[k]
        /\ \A k \in 1 .. n : t[m + k] = b[k]
    BY JoinIs
  <1>5. ASSUME Matches(v, t) PROVE Matches(q, b)
    <2>1. Len(q) = n
      BY <1>2, <1>3, <1>4, <1>5 DEF Matches
    <2>2. \A k \in 1 .. n : m + k \in 1 .. m + n
      OBVIOUS
    <2>3. \A k \in 1 .. m + n : LLVMType(v[k].type) = LLVMType(t[k])
      BY <1>4, <1>5 DEF Matches
    <2>4. \A k \in 1 .. n : LLVMType(q[k].type) = LLVMType(b[k])
      BY ZenonT(60), <1>3, <1>4, <2>1, <2>2, <2>3
    <2>. QED
      BY <2>1, <2>4 DEF Matches
  <1>6. ASSUME Matches(q, b) PROVE Matches(v, t)
    <2>1. Len(q) = n /\ \A k \in 1 .. n : LLVMType(q[k].type) = LLVMType(b[k])
      BY <1>6 DEF Matches
    <2>2. ASSUME NEW k \in 1 .. m + n PROVE LLVMType(v[k].type) = LLVMType(t[k])
      <3>1. CASE k \in 1 .. m
        BY <1>1, <1>3, <1>4, <3>1
      <3>2. CASE k \notin 1 .. m
        <4>1. PICK j \in 1 .. n : k = m + j
          <5>1. k - m \in 1 .. n /\ k = m + (k - m)
            BY <3>2
          <5>. QED
            BY <5>1
        <4>2. v[m + j] = q[j] /\ t[m + j] = b[j]
          BY <1>3, <1>4, <2>1, <4>1
        <4>. QED
          BY <2>1, <4>1, <4>2
      <3>. QED
        BY <3>1, <3>2
    <2>. QED
      BY <1>3, <1>4, <2>1, <2>2 DEF Matches
  <1>. QED
    BY <1>5, <1>6

\* Parts that match one by one match when they are joined.
LEMMA MatchesJoined ==
  ASSUME NEW vs, NEW ts, AllSequences(vs), AllSequences(ts), NEW n \in Nat,
         n <= Len(vs), n <= Len(ts), \A i \in 1 .. n : Matches(vs[i], ts[i])
  PROVE  \A m \in 0 .. n : Matches(Joined(vs)[m], Joined(ts)[m])
  <1>. PICK V : V = Joined(vs)
    OBVIOUS
  <1>. PICK T : T = Joined(ts)
    OBVIOUS
  <1>. DEFINE Good == {m \in Nat : m <= n => Matches(V[m], T[m])}
  <1>1. Len(vs) \in Nat /\ Len(ts) \in Nat
    BY LengthOf DEF AllSequences
  <1>2. 0 \in Good
    <2>1. V[0] = << >> /\ T[0] = << >>
      BY JoinedSequences
    <2>2. \A k \in 1 .. 0 : FALSE
      OBVIOUS
    <2>3. Matches(V[0], T[0])
      BY <2>1, <2>2, EmptyIsSequence DEF Matches
    <2>. QED
      BY <2>3
  <1>3. ASSUME NEW m \in Nat, m \in Good PROVE m + 1 \in Good
    <2>. SUFFICES ASSUME m + 1 <= n PROVE Matches(V[m + 1], T[m + 1])
      OBVIOUS
    <2>. PICK i : i = m + 1
      OBVIOUS
    <2>1. /\ i \in 1 .. n /\ i \in 1 .. Len(vs) /\ i \in 1 .. Len(ts) /\ i - 1 = m /\ m <= n
          /\ m \in 0 .. Len(vs) /\ m \in 0 .. Len(ts)
      BY <1>1
    <2>2. Matches(V[m], T[m]) /\ Matches(vs[i], ts[i])
      BY <1>3, <2>1
    <2>3. V[i] = V[m] \o vs[i] /\ IsSequence(V[m]) /\ IsSequence(vs[i])
      BY <2>1, JoinedSequences DEF AllSequences
    <2>4. T[i] = T[m] \o ts[i] /\ IsSequence(T[m]) /\ IsSequence(ts[i])
      BY <2>1, JoinedSequences DEF AllSequences
    <2>5. Matches(V[m] \o vs[i], T[m] \o ts[i])
      BY <2>2, <2>3, <2>4, MatchesJoin
    <2>. QED
      BY <2>3, <2>4, <2>5
  <1>4. Good \in SUBSET Nat
    OBVIOUS
  <1>5. \A m \in Nat : m \in Good
    <2>. HIDE DEF Good
    <2>. QED
      BY <1>2, <1>3, <1>4, Induction
  <1>. QED
    BY <1>5

-----------------------------------------------------------------------------
(* The registers of a struct of floats                                     *)

\* The function of PartsFrom, from some member on.
PartStep(t, f, i) ==
    IF i > Len(t.elem) THEN << >>
    ELSE IF SharesVector(t, i)
    THEN <<[type |-> FloatVector, member |-> i]>> \o f[i + 2]
    ELSE <<[type |-> t.elem[i], member |-> i]>> \o f[i + 1]
Divides(f, t, m) == f = [i \in m .. Len(t.elem) + 1 |-> PartStep(t, f, i)]
DividedAt(f, t, i) == f[i] = PartStep(t, f, i)

LEMMA DividesIs ==
  ASSUME NEW f, NEW t, NEW m, Divides(f, t, m)
  PROVE  \A i \in m .. Len(t.elem) + 1 : DividedAt(f, t, i)
  <1>1. PICK g : g = [i \in m .. Len(t.elem) + 1 |-> PartStep(t, f, i)]
    OBVIOUS
  <1>2. f = g
    BY <1>1 DEF Divides
  <1>3. \A i \in m .. Len(t.elem) + 1 : g[i] = PartStep(t, f, i)
    BY <1>1
  <1>. QED
    BY <1>2, <1>3 DEF DividedAt

\* A step only looks behind its member.
LEMMA SameStep ==
  ASSUME NEW f, NEW g, NEW t, Len(t.elem) \in Nat, NEW i \in Nat,
         Agree(f, g, i + 1, Len(t.elem) + 1)
  PROVE  PartStep(t, f, i) = PartStep(t, g, i)
  <1>1. CASE i > Len(t.elem)
    BY <1>1 DEF PartStep
  <1>2. CASE ~(i > Len(t.elem)) /\ SharesVector(t, i)
    <2>1. i + 2 \in i + 1 .. Len(t.elem) + 1
      BY <1>2 DEF SharesVector
    <2>2. f[i + 2] = g[i + 2]
      BY <2>1 DEF Agree
    <2>. QED
      BY <1>2, <2>2 DEF PartStep
  <1>3. CASE ~(i > Len(t.elem)) /\ ~SharesVector(t, i)
    <2>1. i + 1 \in i + 1 .. Len(t.elem) + 1
      BY <1>3
    <2>2. f[i + 1] = g[i + 1]
      BY <2>1 DEF Agree
    <2>. QED
      BY <1>3, <2>2 DEF PartStep
  <1>. QED
    BY <1>1, <1>2, <1>3

\* There is a function that divides from one member earlier on.
LEMMA DividesMore ==
  ASSUME NEW t, Len(t.elem) \in Nat, NEW m \in Nat, NEW f, Divides(f, t, m + 1)
  PROVE  \E g : Divides(g, t, m)
  <1>. PICK n \in Nat : n = Len(t.elem)
    OBVIOUS
  <1>1. PICK g : g = [i \in m .. n + 1 |-> PartStep(t, f, i)]
    OBVIOUS
  <1>2. \A i \in m + 1 .. n + 1 : DividedAt(f, t, i)
    BY DividesIs
  <1>3. \A i \in m + 1 .. n + 1 : i \in m .. n + 1
    OBVIOUS
  <1>4. \A i \in m + 1 .. n + 1 : f[i] = g[i]
    BY <1>1, <1>2, <1>3 DEF DividedAt
  <1>5. ASSUME NEW i \in m .. n + 1 PROVE PartStep(t, f, i) = PartStep(t, g, i)
    <2>1. i \in Nat /\ \A j \in i + 1 .. n + 1 : j \in m + 1 .. n + 1
      OBVIOUS
    <2>2. Agree(f, g, i + 1, Len(t.elem) + 1)
      BY <1>4, <2>1 DEF Agree
    <2>3. i \in Nat
      OBVIOUS
    <2>. QED
      BY <2>2, <2>3, SameStep
  <1>6. g = [i \in m .. n + 1 |-> PartStep(t, g, i)]
    BY <1>1, <1>5
  <1>7. Divides(g, t, m)
    BY <1>6 DEF Divides
  <1>. QED
    BY <1>7

\* One step back from n + 1.
LEMMA Before ==
  ASSUME NEW n \in Nat, NEW d \in Nat, d + 1 <= n + 1
  PROVE  \E m \in Nat : d <= n + 1 /\ n + 1 - d = m + 1 /\ n + 1 - (d + 1) = m
  <1>1. n - d \in Nat /\ d <= n + 1 /\ n + 1 - d = (n - d) + 1 /\ n + 1 - (d + 1) = n - d
    OBVIOUS
  <1>. QED
    BY <1>1

\* PartsFrom takes its steps.
LEMMA PartsFromIs ==
  ASSUME NEW t, Len(t.elem) \in Nat
  PROVE  \A i \in 1 .. Len(t.elem) + 1 : DividedAt(PartsFrom(t), t, i)
  <1>. PICK n \in Nat : n = Len(t.elem)
    OBVIOUS
  <1>. DEFINE From(d) == d <= n + 1 => \E f : Divides(f, t, n + 1 - d)
              Some == {d \in Nat : From(d)}
  <1>1. 0 \in Some
    <2>1. \A i \in n + 1 .. n + 1 : i = n + 1
      OBVIOUS
    <2>2. PICK f : f = [i \in n + 1 .. n + 1 |-> << >>]
      OBVIOUS
    <2>3. \A i \in n + 1 .. n + 1 : PartStep(t, f, i) = << >>
      <3>1. n + 1 > n
        OBVIOUS
      <3>. QED
        BY <2>1, <3>1 DEF PartStep
    <2>4. f = [i \in n + 1 .. n + 1 |-> PartStep(t, f, i)]
      BY <2>2, <2>3
    <2>5. Divides(f, t, n + 1)
      BY <2>4 DEF Divides
    <2>6. n + 1 - 0 = n + 1
      OBVIOUS
    <2>. QED
      BY <2>5, <2>6
  <1>2. ASSUME NEW d \in Nat, d \in Some PROVE d + 1 \in Some
    <2>1. From(d)
      BY <1>2
    <2>. HIDE DEF Some
    <2>2. ASSUME d + 1 <= n + 1 PROVE \E f : Divides(f, t, n + 1 - (d + 1))
      <3>1. PICK m \in Nat : /\ d <= n + 1 /\ n + 1 - d = m + 1 /\ n + 1 - (d + 1) = m
        <4>. HIDE DEF From
        <4>. QED
          BY <2>2, Before
      <3>2. PICK f : Divides(f, t, m + 1)
        BY <2>1, <3>1
      <3>3. \E g : Divides(g, t, m)
        BY <3>2, DividesMore
      <3>. QED
        BY <3>1, <3>3
    <2>3. From(d + 1)
      BY <2>2
    <2>. HIDE DEF From
    <2>. QED
      BY <2>3 DEF Some
  <1>3. Some \in SUBSET Nat
    OBVIOUS
  <1>4. n \in Some
    <2>. HIDE DEF Some
    <2>. QED
      BY <1>1, <1>2, <1>3, Induction
  <1>5. \E f : Divides(f, t, 1)
    <2>1. n <= n + 1 /\ n + 1 - n = 1
      OBVIOUS
    <2>. QED
      BY <1>4, <2>1
  <1>6. PICK parts : parts = CHOOSE f : Divides(f, t, 1)
    OBVIOUS
  <1>7. PartsFrom(t) = parts
    BY <1>6 DEF PartsFrom, Divides, PartStep
  <1>8. Divides(parts, t, 1)
    BY <1>5, <1>6
  <1>. QED
    BY <1>7, <1>8, DividesIs

\* A part is a member or, as a vector, two; which members it holds.
IsPart(t, part) ==
    /\ part.member \in DOMAIN t.elem
    /\ \/ part.type = t.elem[part.member]
       \/ part.type = FloatVector /\ SharesVector(t, part.member)
PartHolds(t, part, j) ==
    \/ part.member = j
    \/ j = part.member + 1 /\ part.type = FloatVector /\ SharesVector(t, part.member)

\* The parts from a member on hold all the members behind it.
PartsHold(t, parts, i) ==
    /\ IsSequence(parts)
    /\ \A k \in 1 .. Len(parts) : IsPart(t, parts[k])
    /\ \A j \in i .. Len(t.elem) : \E k \in 1 .. Len(parts) : PartHolds(t, parts[k], j)

\* One more part, in front.
LEMMA PartInFront ==
  ASSUME NEW t, Len(t.elem) \in Nat, NEW i \in Nat, NEW m \in Nat, NEW part, IsPart(t, part),
         NEW parts, PartsHold(t, parts, m),
         \A j \in i .. Len(t.elem) : j < m => PartHolds(t, part, j)
  PROVE  PartsHold(t, <<part>> \o parts, i)
  <1>. PICK n \in Nat : n = Len(t.elem)
    OBVIOUS
  <1>. PICK q : q = <<part>>
    OBVIOUS
  <1>. PICK r : r = q \o parts
    OBVIOUS
  <1>. PICK l \in Nat : l = Len(parts)
    BY LengthOf DEF PartsHold
  <1>1. IsSequence(q) /\ Len(q) = 1 /\ q[1] = part /\ IsSequence(parts)
    BY OneIs DEF PartsHold
  <1>2. /\ IsSequence(r) /\ Len(r) = Len(q) + Len(parts)
        /\ \A k \in 1 .. Len(q) : r[k] = q[k]
        /\ \A k \in 1 .. Len(parts) : r[Len(q) + k] = parts[k]
    BY <1>1, JoinIs
  <1>3. Len(r) = 1 + l /\ r[1] = part /\ \A k \in 1 .. l : r[1 + k] = parts[k]
    BY <1>1, <1>2
  <1>4. \A k \in 1 .. 1 + l : IsPart(t, r[k])
    <2>. SUFFICES ASSUME NEW k \in 1 .. 1 + l PROVE IsPart(t, r[k])
      OBVIOUS
    <2>1. CASE k = 1
      BY <1>3, <2>1
    <2>2. CASE k # 1
      <3>1. k - 1 \in 1 .. l /\ 1 + (k - 1) = k
        BY <2>2
      <3>2. r[k] = parts[k - 1]
        BY <1>3, <3>1
      <3>. QED
        BY <3>1, <3>2 DEF PartsHold
    <2>. QED
      BY <2>1, <2>2
  <1>5. ASSUME NEW j \in i .. n PROVE \E k \in 1 .. 1 + l : PartHolds(t, r[k], j)
    <2>1. CASE j < m
      <3>1. PartHolds(t, r[1], j) /\ 1 \in 1 .. 1 + l
        BY <1>3, <2>1
      <3>. QED
        BY <3>1
    <2>2. CASE ~(j < m)
      <3>1. j \in m .. n
        BY <2>2
      <3>2. PICK k \in 1 .. l : PartHolds(t, parts[k], j)
        BY <3>1 DEF PartsHold
      <3>3. 1 + k \in 1 .. 1 + l /\ PartHolds(t, r[1 + k], j)
        BY <1>3, <3>2
      <3>. QED
        BY <3>3
    <2>. QED
      BY <2>1, <2>2
  <1>. QED
    BY <1>2, <1>3, <1>4, <1>5 DEF PartsHold

\* The parts from a member on, if those behind it are known.
LEMMA PartStepHolds ==
  ASSUME NEW t, Len(t.elem) \in Nat, NEW f, NEW i \in 1 .. Len(t.elem), DOMAIN t.elem = 1 .. Len(t.elem),
         DividedAt(f, t, i), \A j \in i + 1 .. Len(t.elem) + 1 : PartsHold(t, f[j], j)
  PROVE  PartsHold(t, f[i], i)
  <1>. PICK n \in Nat : n = Len(t.elem)
    OBVIOUS
  <1>1. i \in Nat /\ ~(i > n) /\ i \in DOMAIN t.elem
    OBVIOUS
  <1>2. CASE SharesVector(t, i)
    <2>. PICK part : part = [type |-> FloatVector, member |-> i]
      OBVIOUS
    <2>. PICK m \in Nat : m = i + 2
      OBVIOUS
    <2>1. f[i] = <<part>> \o f[m]
      BY <1>1, <1>2 DEF DividedAt, PartStep
    <2>2. PartsHold(t, f[m], m)
      <3>1. m \in i + 1 .. n + 1
        BY <1>2 DEF SharesVector
      <3>. QED
        BY <3>1
    <2>3. IsPart(t, part)
      BY <1>1, <1>2 DEF IsPart
    <2>4. \A j \in i .. Len(t.elem) : j < m => PartHolds(t, part, j)
      <3>. SUFFICES ASSUME NEW j \in i .. Len(t.elem), j < m PROVE PartHolds(t, part, j)
        OBVIOUS
      <3>1. j = i \/ j = i + 1
        BY <1>1
      <3>2. part.member = i /\ part.type = FloatVector
        OBVIOUS
      <3>. QED
        BY <1>2, <3>1, <3>2 DEF PartHolds
    <2>5. PartsHold(t, <<part>> \o f[m], i)
      BY <1>1, <2>2, <2>3, <2>4, PartInFront
    <2>. QED
      BY <2>1, <2>5
  <1>3. CASE ~SharesVector(t, i)
    <2>. PICK part : part = [type |-> t.elem[i], member |-> i]
      OBVIOUS
    <2>. PICK m \in Nat : m = i + 1
      OBVIOUS
    <2>1. f[i] = <<part>> \o f[m]
      BY <1>1, <1>3 DEF DividedAt, PartStep
    <2>2. PartsHold(t, f[m], m)
      <3>1. m \in i + 1 .. n + 1
        OBVIOUS
      <3>. QED
        BY <3>1
    <2>3. IsPart(t, part)
      BY <1>1 DEF IsPart
    <2>4. \A j \in i .. Len(t.elem) : j < m => PartHolds(t, part, j)
      <3>. SUFFICES ASSUME NEW j \in i .. Len(t.elem), j < m PROVE PartHolds(t, part, j)
        OBVIOUS
      <3>1. j = i
        BY <1>1
      <3>. QED
        BY <3>1 DEF PartHolds
    <2>5. PartsHold(t, <<part>> \o f[m], i)
      BY <1>1, <2>2, <2>3, <2>4, PartInFront
    <2>. QED
      BY <2>1, <2>5
  <1>. QED
    BY <1>2, <1>3

HeldBehind(t, d) ==
    \A i \in 1 .. Len(t.elem) + 1 : Len(t.elem) + 1 - i <= d => PartsHold(t, PartsFrom(t)[i], i)

\* The parts from every member on hold what is behind it.
LEMMA PartsFromHold ==
  ASSUME NEW t, IsSequence(t.elem)
  PROVE  \A d \in Nat : HeldBehind(t, d)
  <1>. PICK n \in Nat : n = Len(t.elem)
    BY LengthOf
  <1>. PICK P : P = PartsFrom(t)
    OBVIOUS
  <1>1. DOMAIN t.elem = 1 .. n /\ Len(t.elem) \in Nat
    BY LengthOf
  <1>2. \A i \in 1 .. n + 1 : DividedAt(P, t, i)
    BY PartsFromIs
  <1>. DEFINE Good == {d \in Nat : HeldBehind(t, d)}
  <1>3. 0 \in Good
    <2>1. \A i \in 1 .. n + 1 : n + 1 - i <= 0 => i = n + 1
      OBVIOUS
    <2>2. P[n + 1] = << >>
      <3>1. n + 1 \in 1 .. n + 1 /\ n + 1 > n
        OBVIOUS
      <3>. QED
        BY <1>2, <3>1 DEF DividedAt, PartStep
    <2>3. PartsHold(t, << >>, n + 1)
      <3>1. (\A k \in 1 .. 0 : FALSE) /\ (\A j \in n + 1 .. n : FALSE)
        OBVIOUS
      <3>. QED
        BY <3>1, EmptyIsSequence DEF PartsHold
    <2>4. \A i \in 1 .. n + 1 : n + 1 - i <= 0 => PartsHold(t, P[i], i)
      BY <2>1, <2>2, <2>3
    <2>. QED
      BY <2>4 DEF HeldBehind
  <1>4. ASSUME NEW d \in Nat, d \in Good PROVE d + 1 \in Good
    <2>0. \A i \in 1 .. n + 1 : n + 1 - i <= d => PartsHold(t, P[i], i)
      BY <1>4 DEF HeldBehind
    <2>1. ASSUME NEW i \in 1 .. n + 1, n + 1 - i <= d + 1 PROVE PartsHold(t, P[i], i)
      <3>1. CASE n + 1 - i <= d
        BY <2>0, <3>1
      <3>2. CASE ~(n + 1 - i <= d)
        <4>1. i \in 1 .. n /\ \A j \in i + 1 .. n + 1 : j \in 1 .. n + 1 /\ n + 1 - j <= d
          BY <2>1, <3>2
        <4>2. \A j \in i + 1 .. Len(t.elem) + 1 : PartsHold(t, P[j], j)
          BY <2>0, <4>1
        <4>3. DividedAt(P, t, i)
          BY <1>2
        <4>4. i \in 1 .. Len(t.elem) /\ DOMAIN t.elem = 1 .. Len(t.elem)
          BY <1>1, <4>1
        <4>. QED
          BY <1>1, <4>2, <4>3, <4>4, PartStepHolds
      <3>. QED
        BY <3>1, <3>2
    <2>. QED
      BY <2>1 DEF HeldBehind
  <1>5. Good \in SUBSET Nat
    OBVIOUS
  <1>6. Good = Nat
    <2>. HIDE DEF Good
    <2>. QED
      BY <1>3, <1>4, <1>5, Induction
  <1>. QED
    BY <1>6

\* The parts of a struct of floats hold all its members.
LEMMA FloatPartsHold ==
  ASSUME NEW t, IsSequence(t.elem)
  PROVE  PartsHold(t, FloatParts(t), 1)
  <1>. PICK n \in Nat : n = Len(t.elem)
    BY LengthOf
  <1>1. HeldBehind(t, n)
    BY PartsFromHold
  <1>2. 1 \in 1 .. n + 1 /\ n + 1 - 1 <= n
    OBVIOUS
  <1>. QED
    BY <1>1, <1>2 DEF HeldBehind, FloatParts

\* There is a part if there is a member.
LEMMA SomePart ==
  ASSUME NEW t, IsSequence(t.elem), t.elem # << >>
  PROVE  Len(FloatParts(t)) \in Nat \ {0}
  <1>1. Len(t.elem) \in Nat /\ Len(t.elem) # 0
    BY LengthOf
  <1>2. 1 \in 1 .. Len(t.elem)
    BY <1>1
  <1>3. PartsHold(t, FloatParts(t), 1)
    BY FloatPartsHold
  <1>4. \E k \in 1 .. Len(FloatParts(t)) : TRUE
    BY <1>2, <1>3 DEF PartsHold
  <1>5. Len(FloatParts(t)) \in Nat
    BY <1>3, LengthOf DEF PartsHold
  <1>. QED
    BY <1>4, <1>5

\* A pair of f32 has one register.
LEMMA PartsOfPair ==
  ASSUME NEW t, t.elem = <<Basic("f32"), Basic("f32")>>
  PROVE  FloatParts(t) = <<[type |-> FloatVector, member |-> 1]>>
  <1>. PICK f : f = Basic("f32")
    OBVIOUS
  <1>. PICK part : part = [type |-> FloatVector, member |-> 1]
    OBVIOUS
  <1>1. Len(t.elem) = 2 /\ t.elem[1] = f /\ t.elem[2] = f
    OBVIOUS
  <1>2. \A i \in 1 .. Len(t.elem) + 1 : DividedAt(PartsFrom(t), t, i)
    BY <1>1, PartsFromIs
  <1>3. SharesVector(t, 1)
    BY <1>1 DEF SharesVector
  <1>4. PartsFrom(t)[1] = <<part>> \o PartsFrom(t)[3]
    <2>1. 1 \in 1 .. Len(t.elem) + 1 /\ ~(1 > Len(t.elem)) /\ 1 + 2 = 3
      BY <1>1
    <2>. QED
      BY <1>2, <1>3, <2>1 DEF DividedAt, PartStep
  <1>5. PartsFrom(t)[3] = << >>
    <2>1. 3 \in 1 .. Len(t.elem) + 1 /\ 3 > Len(t.elem)
      BY <1>1
    <2>. QED
      BY <1>2, <2>1 DEF DividedAt, PartStep
  <1>6. <<part>> \o << >> = <<part>>
    OBVIOUS
  <1>. QED
    BY <1>4, <1>5, <1>6 DEF FloatParts

-----------------------------------------------------------------------------
(* Types and their layout                                                  *)

\* What floats there are.
LEMMA FloatNames ==
  ASSUME NEW t, Flag(t, "float")
  PROVE  t.kind = "basic" /\ (t.name \in {"f32", "f64"} \/ IsUntyped(t))
  <1>1. t.kind = "basic" /\ "float" \in BasicFlags(t.name)
    BY DEF Flag
  <1>2. CASE t.name \in {"f32", "f64"}
    BY <1>1, <1>2
  <1>3. CASE t.name = "untyped float"
    <2>1. BasicFlags(t.name) = {"float", "untyped"}
      BY <1>3 DEF BasicFlags, SignedInts, UnsignedInts, Floats
    <2>. QED
      BY <1>1, <2>1 DEF IsUntyped, Flag
  <1>4. CASE t.name \notin {"f32", "f64", "untyped float"}
    <2>1. "float" \notin BasicFlags(t.name)
      BY <1>4 DEF BasicFlags, SignedInts, UnsignedInts, Floats
    <2>. QED
      BY <1>1, <2>1
  <1>. QED
    BY <1>2, <1>3, <1>4

LEMMA FloatIs ==
  ASSUME NEW t \in DataTypes, Flag(t, "float")
  PROVE  t = Basic("f32") \/ t = Basic("f64")
  <1>1. t.kind = "basic" /\ (t.name \in {"f32", "f64"} \/ IsUntyped(t))
    BY FloatNames
  <1>2. t = Basic(t.name) /\ ~IsUntyped(t)
    BY <1>1, TypesAssumption
  <1>. QED
    BY <1>1, <1>2

\* The kinds of some types.
LEMMA Kinds ==
  /\ Address.kind = "pointer" /\ NoType.kind = "invalid" /\ FloatVector.kind = "vector"
  /\ \A name : Basic(name).kind = "basic"
  /\ \A size : Unsigned(size).kind = "basic"
  BY DEF Address, NULLType, NoType, FloatVector, VectorOf, Basic, Unsigned, Type

\* Sizes are a register's 4 or 8.
LEMMA SizeIs ==
  ASSUME NEW p, NEW t \in DataTypes
  PROVE  Size(p, t) \in Nat
  <1>1. Width(p) \in {4, 8}
    BY DEF Width
  <1>. QED
    BY <1>1, LayoutAssumption DEF Size

LEMMA KnownSizes ==
  ASSUME NEW p
  PROVE  /\ \A n \in {1, 2, 4, 8} : Size(p, Unsigned(n)) = n
         /\ Size(p, Basic("f32")) = 4 /\ Size(p, Basic("f64")) = 8 /\ Size(p, FloatVector) = 8
         /\ Size(p, Basic_string) \in {8, 16}
  <1>. PICK w : w = Width(p)
    OBVIOUS
  <1>1. w \in {4, 8}
    BY DEF Width
  <1>2. /\ \A n \in {1, 2, 4, 8} : TypeSize(w, Unsigned(n)) = n
        /\ TypeSize(w, Basic("f32")) = 4 /\ TypeSize(w, Basic("f64")) = 8
        /\ TypeSize(w, FloatVector) = 8 /\ TypeSize(w, Basic_string) = 2 * w
    BY <1>1, LayoutAssumption
  <1>3. 2 * w \in {8, 16}
    BY <1>1
  <1>. QED
    BY <1>2, <1>3 DEF Size

\* A struct has members.
LEMMA StructIs ==
  ASSUME NEW t \in DataTypes, t.kind = "struct"
  PROVE  /\ IsSequence(t.elem) /\ t.elem # << >> /\ Len(t.elem) \in Nat \ {0}
         /\ DOMAIN t.elem = 1 .. Len(t.elem) /\ 1 \in 1 .. Len(t.elem)
         /\ \A i \in 1 .. Len(t.elem) : t.elem[i] \in DataTypes
  <1>1. t.elem \in Seq(DataTypes) /\ t.elem # << >>
    BY TypesAssumption
  <1>2. IsSequence(t.elem)
    BY <1>1, SequenceIs
  <1>3. Len(t.elem) \in Nat /\ Len(t.elem) # 0 /\ DOMAIN t.elem = 1 .. Len(t.elem)
    BY <1>1, <1>2, LengthOf
  <1>4. \A i \in 1 .. Len(t.elem) : t.elem[i] \in DataTypes
    BY <1>1, ElementOfSeq
  <1>. QED
    BY <1>1, <1>2, <1>3, <1>4

\* Where a member lies, and the one behind it.
Lies(p, t, i) ==
    /\ Offset(p, t, i) \in Nat /\ Size(p, t.elem[i]) \in Nat
    /\ Offset(p, t, i) + Size(p, t.elem[i]) <= Size(p, t)
LiesBehind(p, t, i) ==
    IF "union" \in t.flags THEN Offset(p, t, i + 1) = 0
    ELSE /\ Offset(p, t, i + 1) >= Offset(p, t, i) + Size(p, t.elem[i])
         /\ SharesVector(t, i) => Offset(p, t, i + 1) = Offset(p, t, i) + Size(p, t.elem[i])

LEMMA MembersLie ==
  ASSUME NEW p, NEW t \in DataTypes, t.kind = "struct"
  PROVE  /\ Offset(p, t, 1) = 0 /\ Size(p, t) \in Nat
         /\ \A i \in 1 .. Len(t.elem) : Lies(p, t, i)
         /\ \A i \in 1 .. Len(t.elem) : i + 1 <= Len(t.elem) => LiesBehind(p, t, i)
  <1>. PICK w \in {4, 8} : w = Width(p)
    BY DEF Width
  <1>1. /\ DOMAIN t.elem = 1 .. Len(t.elem) /\ Len(t.elem) \in Nat
        /\ \A i \in 1 .. Len(t.elem) : t.elem[i] \in DataTypes
    BY StructIs
  <1>2. /\ MemberOffset(w, t, 1) = 0
        /\ \A i \in DOMAIN t.elem : /\ MemberOffset(w, t, i) \in Nat
                                    /\ MemberOffset(w, t, i) + TypeSize(w, t.elem[i]) <= TypeSize(w, t)
        /\ \A i \in DOMAIN t.elem : i < Len(t.elem) =>
              IF "union" \in t.flags THEN MemberOffset(w, t, i + 1) = 0
              ELSE /\ MemberOffset(w, t, i + 1) >= MemberOffset(w, t, i) + TypeSize(w, t.elem[i])
                   /\ t.elem[i] = Basic("f32") /\ t.elem[i + 1] = Basic("f32")
                      => MemberOffset(w, t, i + 1) = MemberOffset(w, t, i) + TypeSize(w, t.elem[i])
    BY LayoutAssumption
  <1>3. \A i \in 1 .. Len(t.elem) : Lies(p, t, i)
    BY <1>1, <1>2, SizeIs DEF Lies, Offset, Size
  <1>4. ASSUME NEW i \in 1 .. Len(t.elem), i + 1 <= Len(t.elem) PROVE LiesBehind(p, t, i)
    <2>1. i \in DOMAIN t.elem /\ i < Len(t.elem)
      BY <1>1, <1>4
    <2>. QED
      BY <1>2, <2>1 DEF LiesBehind, Offset, Size, SharesVector
  <1>5. Offset(p, t, 1) = 0 /\ Size(p, t) \in Nat
    BY <1>2, SizeIs DEF Offset
  <1>. QED
    BY <1>3, <1>4, <1>5

\* LLVM has one type of pointers.
LEMMA LLVMTypeIs ==
  ASSUME NEW t
  PROVE  /\ t.kind \in {"pointer", "function"} => LLVMType(t) = Address
         /\ t.kind \notin {"pointer", "function"} => LLVMType(t) # Address
  <1>1. t.kind \notin {"pointer", "function"} => LLVMType(t) # Address
    <2>1. t.kind # "pointer" => t # Address
      BY Kinds
    <2>. QED
      BY <2>1 DEF LLVMType
  <1>. QED
    BY <1>1 DEF LLVMType

\* What is above 1 and below 3.
LEMMA Two ==
  ASSUME NEW n \in Nat, n > 1, ~(n >= 3)
  PROVE  n = 2
  OBVIOUS

\* A struct of floats that is returned in a register, but in none that there
\* is, is a union: two other floats behind each other are too large.
LEMMA OnlyUnions ==
  ASSUME NEW p, NEW t \in DataTypes, NoReturnType(p, t)
  PROVE  "union" \in t.flags
  <1>. SUFFICES ASSUME "union" \notin t.flags PROVE FALSE
    OBVIOUS
  <1>. PICK n \in Nat : n = Len(t.elem)
    BY StructIs DEF NoReturnType
  <1>1. /\ t.kind = "struct" /\ IsStructAllFloats(t) /\ ~IsRetTypePassInPointer(p, t)
        /\ n > 1 /\ t.elem # <<Basic("f32"), Basic("f32")>>
    BY DEF NoReturnType
  <1>2. Size(p, t) <= 8
    <2>1. ~IsLoadableType(t)
      BY <1>1 DEF IsLoadableType
    <2>2. Size(p, t) \in {1, 2, 4, 8}
      BY <1>1, <2>1 DEF IsRetTypePassInPointer
    <2>. QED
      BY <2>2
  <1>3. IsSequence(t.elem) /\ DOMAIN t.elem = 1 .. n /\ \A i \in 1 .. n : t.elem[i] \in DataTypes
    BY <1>1, StructIs
  <1>4. \A i \in 1 .. n : t.elem[i] = Basic("f32") \/ t.elem[i] = Basic("f64")
    BY <1>1, <1>3, FloatIs DEF IsStructAllFloats
  <1>5. \A i \in 1 .. n : Size(p, t.elem[i]) \in {4, 8}
    BY <1>4, KnownSizes
  <1>6. \A i \in 1 .. n : Size(p, t.elem[i]) = 4 => t.elem[i] = Basic("f32")
    BY <1>4, KnownSizes
  <1>7. /\ Offset(p, t, 1) = 0 /\ \A i \in 1 .. n : Lies(p, t, i)
        /\ \A i \in 1 .. n : i + 1 <= n => LiesBehind(p, t, i)
    BY <1>1, MembersLie
  <1>8. \A i \in 1 .. n : i + 1 <= n => Offset(p, t, i + 1) >= Offset(p, t, i) + Size(p, t.elem[i])
    BY <1>7 DEF LiesBehind
  <1>9. \A i \in 1 .. n : /\ Offset(p, t, i) \in Nat
                          /\ Offset(p, t, i) + Size(p, t.elem[i]) <= Size(p, t)
    BY <1>7 DEF Lies
  <1>10. 1 \in 1 .. n /\ 2 \in 1 .. n /\ 1 + 1 <= n /\ 1 + 1 = 2 /\ Size(p, t) \in Nat
    BY <1>1, SizeIs
  <1>11. Offset(p, t, 2) >= Size(p, t.elem[1]) /\ Offset(p, t, 2) + Size(p, t.elem[2]) <= 8
    <2>1. Offset(p, t, 2) >= Offset(p, t, 1) + Size(p, t.elem[1])
      BY <1>8, <1>10
    <2>2. Size(p, t.elem[1]) \in Nat /\ Size(p, t.elem[2]) \in Nat /\ Offset(p, t, 2) \in Nat
      BY <1>5, <1>9, <1>10
    <2>. QED
      BY <1>2, <1>7, <1>9, <1>10, <2>1, <2>2
  <1>12. Size(p, t.elem[1]) = 4 /\ Size(p, t.elem[2]) = 4 /\ Offset(p, t, 2) = 4
    <2>1. /\ Size(p, t.elem[1]) \in {4, 8} /\ Size(p, t.elem[2]) \in {4, 8}
          /\ Offset(p, t, 2) \in Nat
      BY <1>5, <1>9, <1>10
    <2>. QED
      BY <1>11, <2>1
  <1>13. n = 2
    <2>1. ASSUME n >= 3 PROVE FALSE
      <3>1. 3 \in 1 .. n /\ 2 \in 1 .. n /\ 2 + 1 <= n /\ 2 + 1 = 3
        BY <2>1
      <3>2. Offset(p, t, 3) >= Offset(p, t, 2) + Size(p, t.elem[2])
        BY <1>8, <3>1
      <3>3. /\ Size(p, t.elem[3]) \in {4, 8} /\ Offset(p, t, 3) \in Nat
            /\ Offset(p, t, 3) + Size(p, t.elem[3]) <= Size(p, t)
        BY <1>5, <1>9, <3>1
      <3>. QED
        BY <1>2, <1>10, <1>12, <3>2, <3>3
    <2>2. n > 1 /\ ~(n >= 3)
      BY <1>1, <2>1
    <2>. QED
      BY <2>2, Two
  <1>14. t.elem[1] = Basic("f32") /\ t.elem[2] = Basic("f32")
    BY <1>6, <1>10, <1>12
  <1>15. t.elem = <<Basic("f32"), Basic("f32")>>
    <2>. PICK q : q = <<Basic("f32"), Basic("f32")>>
      OBVIOUS
    <2>1. q \in Seq({Basic("f32")}) /\ Len(q) = 2 /\ q[1] = Basic("f32") /\ q[2] = Basic("f32")
      OBVIOUS
    <2>2. IsSequence(q)
      BY <2>1, SequenceIs
    <2>3. \A i \in 1 .. Len(t.elem) : t.elem[i] = q[i]
      <3>1. \A i \in 1 .. 2 : i = 1 \/ i = 2
        OBVIOUS
      <3>. QED
        BY <1>13, <1>14, <2>1, <3>1
    <2>. QED
      BY <1>3, <1>13, <2>1, <2>2, <2>3, SameSequence
  <1>. QED
    BY <1>1, <1>15

-----------------------------------------------------------------------------
(* Calls                                                                   *)

\* What a call is made of.
LEMMA CallSiteIs ==
  ASSUME NEW c \in CallSites
  PROVE  /\ c.target \in Targets
         /\ c.fn.varargs \in BOOLEAN /\ c.fn.foreign \in BOOLEAN
         /\ IsSequence(c.fn.params) /\ Len(c.fn.params) \in Nat
         /\ \A i \in 1 .. Len(c.fn.params) : c.fn.params[i] \in DataTypes
         /\ Returns(c) => ResultType(c) \in DataTypes
         /\ c.given \in 0 .. Len(c.fn.params) /\ (c.fn.varargs => c.given = Len(c.fn.params))
         /\ IsSequence(c.extra) /\ Len(c.extra) \in Nat
         /\ \A i \in 1 .. Len(c.extra) : c.extra[i] \in DataTypes
         /\ ~c.fn.varargs => c.extra = << >>
  <1>1. PICK f \in Functions :
          c \in [target : Targets, fn : {f},
                 given : IF f.varargs THEN {Len(f.params)} ELSE 0 .. Len(f.params),
                 extra : IF f.varargs THEN Extras ELSE {<< >>}]
    BY DEF CallSites
  <1>2. /\ c.target \in Targets /\ c.fn = f
        /\ c.given \in IF f.varargs THEN {Len(f.params)} ELSE 0 .. Len(f.params)
        /\ c.extra \in IF f.varargs THEN Extras ELSE {<< >>}
    BY <1>1
  <1>3. f \in [returns : Seq(DataTypes), params : Seq(DataTypes),
               varargs : BOOLEAN, foreign : BOOLEAN]
    BY FunctionsAssumption
  <1>4. f.params \in Seq(DataTypes) /\ f.varargs \in BOOLEAN /\ f.foreign \in BOOLEAN
    BY <1>3
  <1>5. IsSequence(f.params) /\ Len(f.params) \in Nat
        /\ \A i \in 1 .. Len(f.params) : f.params[i] \in DataTypes
    BY <1>4, SequenceIs, LengthOf, ElementOfSeq
  <1>6. c.extra \in Seq(DataTypes)
    BY <1>2, FunctionsAssumption, EmptySeq
  <1>7. IsSequence(c.extra) /\ Len(c.extra) \in Nat
        /\ \A i \in 1 .. Len(c.extra) : c.extra[i] \in DataTypes
    BY <1>6, SequenceIs, LengthOf, ElementOfSeq
  <1>8. f.returns # << >> => ReturnsToType(f.returns) \in DataTypes
    BY FunctionsAssumption
  <1>9. c.given \in 0 .. Len(f.params) /\ (f.varargs => c.given = Len(f.params))
    BY <1>2, <1>5
  <1>10. ~f.varargs => c.extra = << >>
    BY <1>2
  <1>. QED
    BY <1>2, <1>4, <1>5, <1>7, <1>8, <1>9, <1>10 DEF Returns, ResultType

LEMMA Behind ==
  ASSUME NEW n \in Nat, NEW l \in Nat
  PROVE  \A i \in n + 1 .. n + l : i # 0 /\ ~(i <= n) /\ i - n \in 1 .. l
  OBVIOUS

\* The types of what a call passes.
LEMMA TypeOfIs ==
  ASSUME NEW c \in CallSites
  PROVE  /\ TypeOf(c, 0) = ResultType(c)
         /\ \A i \in 1 .. Len(c.fn.params) :
              TypeOf(c, i) = c.fn.params[i] /\ TypeOf(c, i) \in DataTypes
         /\ \A i \in Len(c.fn.params) + 1 .. Len(c.fn.params) + Len(c.extra) :
              TypeOf(c, i) = c.extra[i - Len(c.fn.params)] /\ TypeOf(c, i) \in DataTypes
  <1>. PICK n \in Nat : n = Len(c.fn.params)
    BY CallSiteIs
  <1>. PICK l \in Nat : l = Len(c.extra)
    BY CallSiteIs
  <1>1. \A i \in 1 .. n : i # 0 /\ i <= n
    OBVIOUS
  <1>2. \A i \in n + 1 .. n + l : i # 0 /\ ~(i <= n) /\ i - n \in 1 .. l
    BY Behind
  <1>3. \A i \in 1 .. n : TypeOf(c, i) = c.fn.params[i]
    BY <1>1 DEF TypeOf
  <1>4. \A i \in n + 1 .. n + l : TypeOf(c, i) = c.extra[i - n]
    BY <1>2 DEF TypeOf
  <1>5. \A i \in 1 .. n : TypeOf(c, i) \in DataTypes
    BY <1>3, CallSiteIs
  <1>6. \A i \in n + 1 .. n + l : TypeOf(c, i) \in DataTypes
    BY <1>2, <1>4, CallSiteIs
  <1>7. TypeOf(c, 0) = ResultType(c)
    BY DEF TypeOf
  <1>. QED
    BY <1>3, <1>4, <1>5, <1>6, <1>7

\* How a value of a type is passed, and what its parameter is declared as.
ByValue(c, i, t) ==
    /\ IsLoadableType(t) /\ Parameter(c.target, t) = Location("normal", <<t>>)
    /\ Lowered(c, i) = <<Loaded(c, i, t, 0)>> /\ Expression(c, i) = Loaded(c, i, t, 0)
AsFunction(c, i, t) ==
    /\ t.kind = "function" /\ Parameter(c.target, t) = Location("normal", <<Address>>)
    /\ Lowered(c, i) = <<Loaded(c, i, t, 0)>> /\ Expression(c, i) = Loaded(c, i, t, 0)
ByAddress(c, i, t) ==
    /\ HasAddress(t) /\ Parameter(c.target, t) = Location("normal", <<Address>>)
    /\ Lowered(c, i) = PassAddress(c, i)
AsMember(c, i, t) ==
    /\ t.kind = "struct" /\ OneMember(c.target, t) /\ Wasm(c.target)
    /\ Parameter(c.target, t) = Location("int", <<t.elem[1]>>)
    /\ Lowered(c, i) = <<Loaded(c, i, t.elem[1], 0)>>
AsFloats(c, i, t) ==
    /\ t.kind = "struct" /\ IsStructAllFloats(t)
    /\ Parameter(c.target, t)
       = Location("floats", [k \in DOMAIN FloatParts(t) |-> FloatParts(t)[k].type])
    /\ Lowered(c, i)
       = [k \in DOMAIN FloatParts(t) |->
            Loaded(c, i, FloatParts(t)[k].type, Offset(c.target, t, FloatParts(t)[k].member))]
AsInt(c, i, t) ==
    /\ t.kind = "struct" /\ Size(c.target, t) \in {1, 2, 4, 8} /\ ~Wasm(c.target)
    /\ Parameter(c.target, t) = Location("int", <<Unsigned(Size(c.target, t))>>)
    /\ Lowered(c, i) = <<Loaded(c, i, Unsigned(Size(c.target, t)), 0)>>
AsInts(c, i, t) ==
    /\ t.kind = "struct" /\ Size(c.target, t) \in {10, 12, 16}
    /\ CanGetPointerAfterSize(c.target, t, 8)
    /\ Parameter(c.target, t)
       = Location("multi int", <<Unsigned(8), Unsigned(Size(c.target, t) - 8)>>)
    /\ Lowered(c, i)
       = <<Loaded(c, i, Unsigned(8), 0),
           Loaded(c, i, Unsigned(Size(c.target, t) - 8),
                  Offset(c.target, t, GetPointerPassIdx(c.target, t, 8)))>>

\* The caller and the function's type choose the same way: for every type
\* and target there is one.
LEMMA Ways ==
  ASSUME NEW c, NEW i, NEW t \in DataTypes, TypeOf(c, i) = t
  PROVE  \/ ByValue(c, i, t) \/ AsFunction(c, i, t) \/ ByAddress(c, i, t) \/ AsMember(c, i, t)
         \/ AsFloats(c, i, t) \/ AsInt(c, i, t) \/ AsInts(c, i, t)
  <1>. PICK p : p = c.target
    OBVIOUS
  <1>. PICK s \in Nat : s = Size(p, t)
    BY SizeIs
  <1>1. CASE IsLoadableType(t)
    <2>1. Expression(c, i) = Loaded(c, i, t, 0)
      BY <1>1 DEF Expression, HasAddress
    <2>. QED
      BY <1>1, <2>1 DEF ByValue, Parameter, Lowered
  <1>2. CASE t.kind = "function"
    <2>1. ~IsLoadableType(t)
      BY <1>2 DEF IsLoadableType
    <2>2. Expression(c, i) = Loaded(c, i, t, 0)
      BY <1>2 DEF Expression, HasAddress
    <2>3. Parameter(p, t) = Location("normal", <<Address>>)
      BY <1>2, <2>1 DEF Parameter, FixFunctionComplexParameter
    <2>. QED
      BY <1>2, <2>1, <2>2, <2>3 DEF AsFunction, Lowered, FixCallWithComplexParameter
  <1>. DEFINE Rest == ~IsLoadableType(t) /\ t.kind # "function"
  <1>3. CASE Rest /\ t.kind # "struct"
    <2>1. Parameter(p, t) = Location("normal", <<Address>>)
      BY <1>3 DEF Parameter, FixFunctionComplexParameter
    <2>2. Lowered(c, i) = PassAddress(c, i)
      BY <1>3 DEF Lowered, FixCallWithComplexParameter
    <2>. QED
      BY <1>3, <2>1, <2>2 DEF ByAddress, HasAddress
  <1>4. CASE Rest /\ t.kind = "struct" /\ Wasm(p)
    <2>1. CASE OneMember(p, t)
      <3>1. ~(s > 16)
        BY <2>1 DEF OneMember
      <3>2. Parameter(p, t) = Location("int", <<t.elem[1]>>)
        BY <1>4, <2>1, <3>1 DEF Parameter, FixFunctionComplexParameter, MAX_PARAMETER_SIZE
      <3>3. Lowered(c, i) = <<Loaded(c, i, t.elem[1], 0)>>
        BY <1>4, <2>1 DEF Lowered, FixCallWithComplexParameter
      <3>. QED
        BY <1>4, <2>1, <3>2, <3>3 DEF AsMember
    <2>2. CASE ~OneMember(p, t)
      <3>1. Parameter(p, t) = Location("normal", <<Address>>)
        BY <1>4, <2>2 DEF Parameter, FixFunctionComplexParameter
      <3>2. Lowered(c, i) = PassAddress(c, i)
        BY <1>4, <2>2 DEF Lowered, FixCallWithComplexParameter
      <3>. QED
        BY <1>4, <3>1, <3>2 DEF ByAddress, HasAddress
    <2>. QED
      BY <2>1, <2>2
  <1>. DEFINE Struct == Rest /\ t.kind = "struct" /\ ~Wasm(p)
  <1>5. CASE Struct /\ s > 16
    <2>1. Parameter(p, t) = Location("normal", <<Address>>)
      BY <1>5 DEF Parameter, FixFunctionComplexParameter, MAX_PARAMETER_SIZE
    <2>2. Lowered(c, i) = PassAddress(c, i)
      BY <1>5 DEF Lowered, FixCallWithComplexParameter, MAX_PARAMETER_SIZE
    <2>. QED
      BY <1>5, <2>1, <2>2 DEF ByAddress, HasAddress
  <1>6. CASE Struct /\ ~(s > 16) /\ IsStructAllFloats(t) /\ IsSysVSystem(p)
    <2>1. Parameter(p, t)
          = Location("floats", [k \in DOMAIN FloatParts(t) |-> FloatParts(t)[k].type])
      BY <1>6 DEF Parameter, FixFunctionComplexParameter, MAX_PARAMETER_SIZE
    <2>2. Lowered(c, i)
          = [k \in DOMAIN FloatParts(t) |->
               Loaded(c, i, FloatParts(t)[k].type, Offset(p, t, FloatParts(t)[k].member))]
      BY <1>6 DEF Lowered, FixCallWithComplexParameter, MAX_PARAMETER_SIZE
    <2>. QED
      BY <1>6, <2>1, <2>2 DEF AsFloats
  <1>. DEFINE Ints == Struct /\ ~(s > 16) /\ ~(IsStructAllFloats(t) /\ IsSysVSystem(p))
  <1>7. CASE Ints /\ s \in {1, 2, 4, 8}
    <2>1. Parameter(p, t) = Location("int", <<Unsigned(s)>>)
      BY <1>7 DEF Parameter, FixFunctionComplexParameter, MAX_PARAMETER_SIZE
    <2>2. Lowered(c, i) = <<Loaded(c, i, Unsigned(s), 0)>>
      BY <1>7 DEF Lowered, FixCallWithComplexParameter, MAX_PARAMETER_SIZE
    <2>. QED
      BY <1>7, <2>1, <2>2 DEF AsInt
  <1>. DEFINE Two8 == s \in {10, 12, 16} /\ ~Windows(p) /\ CanGetPointerAfterSize(p, t, 8)
  <1>8. CASE Ints /\ s \notin {1, 2, 4, 8} /\ Two8
    <2>1. Parameter(p, t) = Location("multi int", <<Unsigned(8), Unsigned(s - 8)>>)
      BY <1>8 DEF Parameter, FixFunctionComplexParameter, MAX_PARAMETER_SIZE
    <2>2. Lowered(c, i)
          = <<Loaded(c, i, Unsigned(8), 0),
              Loaded(c, i, Unsigned(s - 8), Offset(p, t, GetPointerPassIdx(p, t, 8)))>>
      BY <1>8 DEF Lowered, FixCallWithComplexParameter, MAX_PARAMETER_SIZE
    <2>. QED
      BY <1>8, <2>1, <2>2 DEF AsInts
  <1>9. CASE Ints /\ s \notin {1, 2, 4, 8} /\ ~Two8
    <2>1. Parameter(p, t) = Location("normal", <<Address>>)
      BY <1>9 DEF Parameter, FixFunctionComplexParameter, MAX_PARAMETER_SIZE
    <2>2. Lowered(c, i) = PassAddress(c, i)
      BY <1>9 DEF Lowered, FixCallWithComplexParameter, MAX_PARAMETER_SIZE
    <2>. QED
      BY <1>9, <2>1, <2>2 DEF ByAddress, HasAddress
  <1>. QED
    BY <1>1, <1>2, <1>3, <1>4, <1>5, <1>6, <1>7, <1>8, <1>9

\* One value matches one type.
LEMMA OneMatches ==
  ASSUME NEW v, NEW t
  PROVE  /\ IsSequence(<<v>>) /\ IsSequence(<<t>>) /\ Len(<<v>>) = 1 /\ Len(<<t>>) = 1
         /\ Matches(<<v>>, <<t>>) <=> LLVMType(v.type) = LLVMType(t)
  <1>. PICK p : p = <<v>>
    OBVIOUS
  <1>. PICK q : q = <<t>>
    OBVIOUS
  <1>1. IsSequence(p) /\ Len(p) = 1 /\ p[1] = v
    BY OneIs
  <1>2. IsSequence(q) /\ Len(q) = 1 /\ q[1] = t
    BY OneIs
  <1>3. \A k \in 1 .. 1 : k = 1
    OBVIOUS
  <1>4. Matches(p, q) <=> LLVMType(v.type) = LLVMType(t)
    BY <1>1, <1>2, <1>3 DEF Matches
  <1>. QED
    BY <1>1, <1>2, <1>4

\* Two values match two types.
LEMMA TwoMatch ==
  ASSUME NEW v, NEW w, NEW t, NEW u, v.type = t, w.type = u
  PROVE  /\ IsSequence(<<v, w>>) /\ IsSequence(<<t, u>>) /\ Len(<<v, w>>) = 2 /\ Len(<<t, u>>) = 2
         /\ Matches(<<v, w>>, <<t, u>>)
  <1>. PICK p : p = <<v, w>>
    OBVIOUS
  <1>. PICK q : q = <<t, u>>
    OBVIOUS
  <1>1. p \in Seq({v, w}) /\ Len(p) = 2 /\ p[1] = v /\ p[2] = w
    OBVIOUS
  <1>2. q \in Seq({t, u}) /\ Len(q) = 2 /\ q[1] = t /\ q[2] = u
    OBVIOUS
  <1>3. \A k \in 1 .. 2 : k = 1 \/ k = 2
    OBVIOUS
  <1>4. IsSequence(p) /\ IsSequence(q)
    BY <1>1, <1>2, SequenceIs
  <1>5. Matches(p, q)
    BY <1>1, <1>2, <1>3 DEF Matches
  <1>. QED
    BY <1>1, <1>2, <1>4, <1>5

\* What one is passed as has that one's type.
LEMMA ValueTypes ==
  ASSUME NEW c, NEW i, NEW t, NEW o
  PROVE  Loaded(c, i, t, o).type = t /\ AddressOf(i).type = Address
         /\ \A bytes : AddressOfMemory(bytes).type = Address
  BY DEF Loaded, AddressOf, AddressOfMemory

\* An address is passed as one value.
LEMMA PassAddressIs ==
  ASSUME NEW c, NEW i
  PROVE  \E v : PassAddress(c, i) = <<v>> /\ v.type = Address
  <1>1. PICK v : v = IF c.fn.foreign THEN AllocateAndCopy(c, i) ELSE AddressOf(i)
    OBVIOUS
  <1>2. PassAddress(c, i) = <<v>>
    BY <1>1 DEF PassAddress
  <1>3. v.type = Address
    BY <1>1, ValueTypes DEF AllocateAndCopy
  <1>. QED
    BY <1>2, <1>3

\* What the caller lowers a value to is what its parameter is declared as.
LEMMA LoweredMatches ==
  ASSUME NEW c, NEW i, NEW t \in DataTypes, TypeOf(c, i) = t
  PROVE  /\ IsSequence(Lowered(c, i)) /\ IsSequence(Parameter(c.target, t).types)
         /\ Len(Parameter(c.target, t).types) \in Nat \ {0}
         /\ Matches(Lowered(c, i), Parameter(c.target, t).types)
  <1>. PICK types : types = Parameter(c.target, t).types
    OBVIOUS
  <1>. PICK values : values = Lowered(c, i)
    OBVIOUS
  <1>0. \A load, ts : Location(load, ts).types = ts
    BY DEF Location
  <1>1. CASE ByValue(c, i, t)
    <2>1. values = <<Loaded(c, i, t, 0)>> /\ types = <<t>>
      BY <1>0, <1>1 DEF ByValue
    <2>. QED
      BY <2>1, OneMatches, ValueTypes
  <1>2. CASE AsFunction(c, i, t)
    <2>1. values = <<Loaded(c, i, t, 0)>> /\ types = <<Address>>
      BY <1>0, <1>2 DEF AsFunction
    <2>2. LLVMType(t) = LLVMType(Address)
      BY <1>2, LLVMTypeIs, Kinds DEF AsFunction
    <2>. QED
      BY <2>1, <2>2, OneMatches, ValueTypes
  <1>3. CASE ByAddress(c, i, t)
    <2>1. PICK v : values = <<v>> /\ v.type = Address
      BY <1>3, PassAddressIs DEF ByAddress
    <2>2. types = <<Address>>
      BY <1>0, <1>3 DEF ByAddress
    <2>. QED
      BY <2>1, <2>2, OneMatches
  <1>4. CASE AsMember(c, i, t)
    <2>1. values = <<Loaded(c, i, t.elem[1], 0)>> /\ types = <<t.elem[1]>>
      BY <1>0, <1>4 DEF AsMember
    <2>. QED
      BY <2>1, OneMatches, ValueTypes
  <1>5. CASE AsFloats(c, i, t)
    <2>. PICK parts : parts = FloatParts(t)
      OBVIOUS
    <2>1. IsSequence(t.elem) /\ t.elem # << >>
      BY <1>5, StructIs DEF AsFloats
    <2>. PICK n \in Nat \ {0} : n = Len(parts)
      BY <2>1, SomePart
    <2>2. DOMAIN parts = 1 .. n
      BY <2>1, FloatPartsHold, LengthOf DEF PartsHold
    <2>. PICK ts : ts = [k \in 1 .. n |-> parts[k].type]
      OBVIOUS
    <2>3. types = ts
      <3>1. Parameter(c.target, t) = Location("floats", ts)
        BY <1>5, <2>2 DEF AsFloats
      <3>. QED
        BY <1>0, <3>1
    <2>4. values = [k \in 1 .. n |-> Loaded(c, i, parts[k].type, Offset(c.target, t, parts[k].member))]
      BY <1>5, <2>2 DEF AsFloats
    <2>5. IsSequence(types) /\ Len(types) = n
      <3>1. DOMAIN types = 1 .. n /\ types = [k \in 1 .. n |-> types[k]]
        BY <2>3
      <3>. QED
        BY <3>1, FunctionIsSequence
    <2>6. IsSequence(values) /\ Len(values) = n
      <3>1. DOMAIN values = 1 .. n /\ values = [k \in 1 .. n |-> values[k]]
        BY <2>4
      <3>. QED
        BY <3>1, FunctionIsSequence
    <2>7. \A k \in 1 .. n : values[k].type = types[k]
      BY <2>3, <2>4, ValueTypes
    <2>. QED
      BY <2>5, <2>6, <2>7 DEF Matches
  <1>6. CASE AsInt(c, i, t)
    <2>1. PICK u : values = <<Loaded(c, i, u, 0)>> /\ types = <<u>>
      BY <1>0, <1>6 DEF AsInt
    <2>. QED
      BY <2>1, OneMatches, ValueTypes
  <1>7. CASE AsInts(c, i, t)
    <2>. PICK u : u = Unsigned(8)
      OBVIOUS
    <2>. PICK w : w = Unsigned(Size(c.target, t) - 8)
      OBVIOUS
    <2>. PICK o : o = Offset(c.target, t, GetPointerPassIdx(c.target, t, 8))
      OBVIOUS
    <2>. PICK ts : ts = <<u, w>>
      OBVIOUS
    <2>0. Parameter(c.target, t) = Location("multi int", ts)
      BY <1>7 DEF AsInts
    <2>00. /\ Location("multi int", ts).types = ts
           /\ Location("multi int", ts).load = "multi int"
      BY DEF Location
    <2>1. values = <<Loaded(c, i, u, 0), Loaded(c, i, w, o)>> /\ types = <<u, w>>
      BY <1>7, <2>0, <2>00 DEF AsInts
    <2>2. Loaded(c, i, u, 0).type = u /\ Loaded(c, i, w, o).type = w
      BY ValueTypes
    <2>. QED
      BY <2>1, <2>2, TwoMatch
  <1>. QED
    BY <1>1, <1>2, <1>3, <1>4, <1>5, <1>6, <1>7, Ways

\* A default argument matches unless its type is passed by its members; then
\* it only does in Wasm, for a struct around a pointer.
LEMMA DefaultMatches ==
  ASSUME NEW c, NEW i, NEW t \in DataTypes, TypeOf(c, i) = t
  PROVE  /\ ~PassedByMembers(c.target, t)
            => Matches(<<Expression(c, i)>>, Parameter(c.target, t).types)
         /\ PassedByMembers(c.target, t) /\ Matches(<<Expression(c, i)>>, Parameter(c.target, t).types)
            => Wasm(c.target) /\ t.elem[1].kind = "pointer"
  <1>. PICK types : types = Parameter(c.target, t).types
    OBVIOUS
  <1>. PICK e : e = Expression(c, i)
    OBVIOUS
  <1>. PICK values : values = <<e>>
    OBVIOUS
  <1>0. \A load, ts : Location(load, ts).types = ts /\ Location(load, ts).load = load
    BY DEF Location
  <1>1. CASE ByValue(c, i, t)
    <2>1. e.type = t /\ types = <<t>> /\ ~PassedByMembers(c.target, t)
      BY <1>0, <1>1, ValueTypes DEF ByValue, PassedByMembers
    <2>. QED
      BY <2>1, OneMatches
  <1>2. CASE AsFunction(c, i, t)
    <2>1. e.type = t /\ types = <<Address>> /\ ~PassedByMembers(c.target, t)
      BY <1>0, <1>2, ValueTypes DEF AsFunction, PassedByMembers
    <2>2. LLVMType(t) = LLVMType(Address)
      BY <1>2, LLVMTypeIs, Kinds DEF AsFunction
    <2>. QED
      BY <2>1, <2>2, OneMatches
  <1>3. CASE ByAddress(c, i, t)
    <2>1. e = AddressOf(i)
      BY <1>3 DEF ByAddress, Expression
    <2>2. e.type = Address /\ types = <<Address>> /\ ~PassedByMembers(c.target, t)
      BY ZenonT(60), <1>0, <1>3, <2>1, ValueTypes DEF ByAddress, PassedByMembers
    <2>. QED
      BY <2>2, OneMatches
  <1>. DEFINE Struct == t.kind = "struct" /\ e.type = Address
  <1>4. t.kind = "struct" => e.type = Address
    <2>. SUFFICES ASSUME t.kind = "struct" PROVE e.type = Address
      OBVIOUS
    <2>1. HasAddress(t)
      BY DEF HasAddress, IsLoadableType
    <2>2. e = AddressOf(i)
      BY <2>1 DEF Expression
    <2>. QED
      BY <2>2, ValueTypes
  <1>5. CASE AsMember(c, i, t)
    <2>1. e.type = Address /\ types = <<t.elem[1]>> /\ PassedByMembers(c.target, t)
      <3>1. ~IsLoadableType(t)
        BY <1>5 DEF AsMember, IsLoadableType
      <3>. QED
        BY <1>0, <1>4, <1>5, <3>1 DEF AsMember, PassedByMembers
    <2>2. Matches(values, types) => LLVMType(Address) = LLVMType(t.elem[1])
      BY <2>1, OneMatches
    <2>3. LLVMType(Address) = Address
      BY LLVMTypeIs, Kinds
    <2>4. Matches(values, types) => t.elem[1].kind \in {"pointer", "function"}
      BY <2>2, <2>3, LLVMTypeIs
    <2>5. t.elem[1].kind # "function" /\ Wasm(c.target)
      BY <1>5 DEF AsMember, OneMember, IsLoadableType
    <2>. QED
      BY <2>1, <2>4, <2>5
  <1>6. ASSUME t.kind = "struct", IsSequence(types), PassedByMembers(c.target, t),
               types[1].kind \notin {"pointer", "function"}
        PROVE  PassedByMembers(c.target, t) /\ ~Matches(values, types)
    <2>1. e.type = Address
      BY <1>4, <1>6
    <2>. SUFFICES ASSUME Matches(values, types) PROVE FALSE
      BY <1>6
    <2>2. Len(values) = 1 /\ values[1] = e
      BY OneIs
    <2>3. Len(types) = 1 /\ 1 \in 1 .. Len(types)
      BY <2>2 DEF Matches
    <2>4. LLVMType(e.type) = LLVMType(types[1])
      BY <2>2, <2>3 DEF Matches
    <2>5. LLVMType(Address) = Address
      BY LLVMTypeIs, Kinds
    <2>. QED
      BY <1>6, <2>1, <2>4, <2>5, LLVMTypeIs
  <1>7. IsSequence(types) /\ Len(types) \in Nat \ {0}
    BY LoweredMatches
  <1>8. CASE AsFloats(c, i, t)
    <2>. PICK parts : parts = FloatParts(t)
      OBVIOUS
    <2>1. IsSequence(t.elem) /\ t.elem # << >> /\ DOMAIN t.elem = 1 .. Len(t.elem)
      BY <1>8, StructIs DEF AsFloats
    <2>. PICK n \in Nat \ {0} : n = Len(parts)
      BY <2>1, SomePart
    <2>2. DOMAIN parts = 1 .. n /\ 1 \in 1 .. n
      BY <2>1, FloatPartsHold, LengthOf DEF PartsHold
    <2>3. types[1] = parts[1].type
      BY <1>0, <1>8, <2>2 DEF AsFloats
    <2>4. IsPart(t, parts[1])
      BY <2>1, <2>2, FloatPartsHold DEF PartsHold
    <2>5. parts[1].type.kind \in {"vector", "basic"}
      <3>1. CASE parts[1].type = FloatVector
        BY <3>1, Kinds
      <3>2. CASE parts[1].type # FloatVector
        <4>1. parts[1].type = t.elem[parts[1].member] /\ parts[1].member \in DOMAIN t.elem
          BY <2>4, <3>2 DEF IsPart
        <4>2. Flag(parts[1].type, "float")
          BY <1>8, <4>1 DEF AsFloats, IsStructAllFloats
        <4>. QED
          BY <4>2 DEF Flag
      <3>. QED
        BY <3>1, <3>2
    <2>6. PassedByMembers(c.target, t)
      <3>1. ~IsLoadableType(t)
        BY <1>8 DEF AsFloats, IsLoadableType
      <3>. QED
        BY <1>0, <1>8, <3>1 DEF AsFloats, PassedByMembers
    <2>7. t.kind = "struct"
      BY <1>8 DEF AsFloats
    <2>. QED
      BY <1>6, <1>7, <2>3, <2>5, <2>6, <2>7
  <1>9. CASE AsInt(c, i, t)
    <2>1. PICK u : types = <<u>> /\ u.kind = "basic"
      BY <1>0, <1>9, Kinds DEF AsInt
    <2>2. types[1] = u
      BY <2>1
    <2>3. PassedByMembers(c.target, t) /\ t.kind = "struct"
      <3>1. ~IsLoadableType(t)
        BY <1>9 DEF AsInt, IsLoadableType
      <3>. QED
        BY <1>0, <1>9, <3>1 DEF AsInt, PassedByMembers
    <2>. QED
      BY <1>6, <1>7, <2>1, <2>2, <2>3
  <1>10. CASE AsInts(c, i, t)
    <2>. PICK u : u = Unsigned(8)
      OBVIOUS
    <2>. PICK w : w = Unsigned(Size(c.target, t) - 8)
      OBVIOUS
    <2>. PICK ts : ts = <<u, w>>
      OBVIOUS
    <2>0. Parameter(c.target, t) = Location("multi int", ts)
      BY <1>10 DEF AsInts
    <2>00. /\ Location("multi int", ts).types = ts
           /\ Location("multi int", ts).load = "multi int"
      BY DEF Location
    <2>1. types = <<u, w>> /\ u.kind = "basic"
      BY <2>0, <2>00, Kinds
    <2>2. types[1] = u
      BY <2>1
    <2>3. PassedByMembers(c.target, t) /\ t.kind = "struct"
      <3>1. ~IsLoadableType(t)
        BY <1>10 DEF AsInts, IsLoadableType
      <3>. QED
        BY <1>10, <2>0, <2>00, <3>1 DEF AsInts, PassedByMembers
    <2>. QED
      BY <1>6, <1>7, <2>1, <2>2, <2>3
  <1>. QED
    BY <1>1, <1>2, <1>3, <1>5, <1>8, <1>9, <1>10, Ways

-----------------------------------------------------------------------------
(* What a call has passed                                                  *)

\* A sequence behind another, and a third behind them.
Associate(p, q, r) == (p \o q) \o r = p \o (q \o r)

LEMMA JoinAssociates ==
  ASSUME NEW p, NEW q, NEW r, IsSequence(p), IsSequence(q), IsSequence(r)
  PROVE  Associate(p, q, r)
  <1>. DEFINE S == Range(p) \cup Range(q) \cup Range(r)
  <1>1. Range(p) \subseteq S /\ Range(q) \subseteq S /\ Range(r) \subseteq S
    OBVIOUS
  <1>2. p \in Seq(S) /\ q \in Seq(S) /\ r \in Seq(S)
    BY <1>1, SeqMonotonic DEF IsSequence
  <1>. HIDE DEF S
  <1>. QED
    BY <1>2, ConcatAssociative DEF Associate

\* What is held stays held when more comes in front or behind.
LEMMA HoldsBehind ==
  ASSUME NEW q, NEW m \in Nat, NEW x, NEW r, IsSequence(q), IsSequence(x), IsSequence(r), Holds(q, m, x)
  PROVE  Holds(r \o q, Len(r) + m, x)
  <1>. PICK j : j = r \o q
    OBVIOUS
  <1>. PICK a \in Nat : a = Len(r)
    BY LengthOf
  <1>. PICK b \in Nat : b = Len(q)
    BY LengthOf
  <1>. PICK l \in Nat : l = Len(x)
    BY LengthOf
  <1>1. Len(j) = a + b /\ \A k \in 1 .. b : j[a + k] = q[k]
    BY JoinIs
  <1>2. m + l <= b /\ \A k \in 1 .. l : q[m + k] = x[k]
    BY DEF Holds
  <1>3. \A k \in 1 .. l : m + k \in 1 .. b /\ a + (m + k) = (a + m) + k
    BY <1>2
  <1>4. \A k \in 1 .. l : j[(a + m) + k] = x[k]
    BY <1>1, <1>2, <1>3
  <1>5. (a + m) + l <= a + b
    BY <1>2
  <1>. QED
    BY <1>1, <1>4, <1>5 DEF Holds

LEMMA HoldsInFront ==
  ASSUME NEW q, NEW m \in Nat, NEW x, NEW r, IsSequence(q), IsSequence(x), IsSequence(r), Holds(q, m, x)
  PROVE  Holds(q \o r, m, x)
  <1>. PICK j : j = q \o r
    OBVIOUS
  <1>. PICK a \in Nat : a = Len(r)
    BY LengthOf
  <1>. PICK b \in Nat : b = Len(q)
    BY LengthOf
  <1>. PICK l \in Nat : l = Len(x)
    BY LengthOf
  <1>1. Len(j) = b + a /\ \A k \in 1 .. b : j[k] = q[k]
    BY JoinIs
  <1>2. m + l <= b /\ \A k \in 1 .. l : q[m + k] = x[k]
    BY DEF Holds
  <1>3. \A k \in 1 .. l : m + k \in 1 .. b
    BY <1>2
  <1>4. \A k \in 1 .. l : j[m + k] = x[k]
    BY <1>1, <1>2, <1>3
  <1>5. m + l <= b + a
    BY <1>2
  <1>. QED
    BY <1>1, <1>4, <1>5 DEF Holds

LEMMA ExtendsBehind ==
  ASSUME NEW p, NEW q, NEW r, IsSequence(p), IsSequence(q), IsSequence(r), Extends(q, p)
  PROVE  Extends(r \o q, r \o p)
  <1>. PICK u : u = r \o q
    OBVIOUS
  <1>. PICK v : v = r \o p
    OBVIOUS
  <1>. PICK a \in Nat : a = Len(r)
    BY LengthOf
  <1>. PICK b \in Nat : b = Len(q)
    BY LengthOf
  <1>. PICK l \in Nat : l = Len(p)
    BY LengthOf
  <1>1. /\ Len(u) = a + b /\ \A k \in 1 .. a : u[k] = r[k]
        /\ \A k \in 1 .. b : u[a + k] = q[k]
    BY JoinIs
  <1>2. /\ Len(v) = a + l /\ \A k \in 1 .. a : v[k] = r[k]
        /\ \A k \in 1 .. l : v[a + k] = p[k]
    BY JoinIs
  <1>3. l <= b /\ \A k \in 1 .. l : q[k] = p[k]
    BY DEF Extends
  <1>4. ASSUME NEW k \in 1 .. a + l PROVE u[k] = v[k]
    <2>1. CASE k \in 1 .. a
      BY <1>1, <1>2, <2>1
    <2>2. CASE k \notin 1 .. a
      <3>1. k - a \in 1 .. l /\ k - a \in 1 .. b /\ a + (k - a) = k
        BY <1>3, <2>2
      <3>. QED
        BY <1>1, <1>2, <1>3, <3>1
    <2>. QED
      BY <2>1, <2>2
  <1>. QED
    BY <1>1, <1>2, <1>3, <1>4 DEF Extends

\* The part of a sequence that is held.
LEMMA HeldPart ==
  ASSUME NEW q, NEW m \in Nat, NEW x, IsSequence(q), IsSequence(x), Holds(q, m, x)
  PROVE  SubSeq(q, m + 1, (m + 1) + Len(x) - 1) = x
  <1>. PICK l \in Nat : l = Len(x)
    BY LengthOf
  <1>. PICK a \in Nat \ {0} : a = m + 1
    OBVIOUS
  <1>. PICK b \in Nat : b = a + l - 1
    OBVIOUS
  <1>. PICK s : s = SubSeq(q, a, b)
    OBVIOUS
  <1>1. m + l <= Len(q) /\ \A k \in 1 .. l : q[m + k] = x[k]
    BY DEF Holds
  <1>2. a <= b + 1 /\ b = m + l /\ b + 1 - a = l
    OBVIOUS
  <1>3. IsSequence(s) /\ Len(s) = b + 1 - a /\ \A k \in 1 .. b + 1 - a : s[k] = q[a + k - 1]
    BY <1>1, <1>2, PartIs
  <1>4. \A k \in 1 .. l : a + k - 1 = m + k
    OBVIOUS
  <1>5. Len(s) = l /\ \A k \in 1 .. l : s[k] = x[k]
    BY <1>1, <1>2, <1>3, <1>4
  <1>6. s = x
    BY <1>3, <1>5, SameSequence
  <1>. QED
    BY <1>6

\* What is held at the same place matches.
LEMMA HeldMatch ==
  ASSUME NEW a, NEW b, NEW m \in Nat, NEW x, NEW y, IsSequence(b), IsSequence(y),
         Matches(a, b), Holds(a, m, x), Holds(b, m, y), Len(x) = Len(y)
  PROVE  Matches(x, y)
  <1>. PICK l \in Nat : l = Len(y)
    BY LengthOf
  <1>. PICK n \in Nat : n = Len(b)
    BY LengthOf
  <1>1. m + l <= n /\ \A k \in 1 .. l : a[m + k] = x[k] /\ b[m + k] = y[k]
    BY DEF Holds
  <1>2. \A k \in 1 .. n : LLVMType(a[k].type) = LLVMType(b[k])
    BY DEF Matches
  <1>3. \A k \in 1 .. l : m + k \in 1 .. n
    BY <1>1
  <1>4. \A k \in 1 .. l : LLVMType(x[k].type) = LLVMType(y[k])
    BY <1>1, <1>2, <1>3
  <1>. QED
    BY <1>4 DEF Matches

\* The values of an argument.
Handed(c, i) == IF i <= c.given THEN Lowered(c, i)
                ELSE IF i <= Len(c.fn.params) THEN <<Expression(c, i)>>
                ELSE IF c.fn.foreign THEN Lowered(c, i) ELSE <<Slice(c)>>
AllHanded(c) == [i \in 1 .. Arguments(c) |-> Handed(c, i)]
First(c) == IF ResultInPointer(c) THEN <<AddressOf(0)>> ELSE << >>
PassedUpTo(c, n) == First(c) \o Joined(AllHanded(c))[n]
Passed(c) == PassedUpTo(c, Arguments(c))

\* The types of a parameter, and what is declared in front of all.
Types(c, i) == Parameter(c.target, c.fn.params[i]).types
AllTypes(c) == [i \in DOMAIN c.fn.params |-> Types(c, i)]
FirstType(c) == IF RetInPtr(c) THEN <<Address>> ELSE << >>

\* Numbers that are more, and positions behind the first ones.
LEMMA More ==
  ASSUME NEW n \in Nat, NEW d \in Nat
  PROVE  n + d \in Nat /\ n <= n + d /\ n + 0 = n
  OBVIOUS

LEMMA Beyond ==
  ASSUME NEW n \in Nat, NEW l \in Nat, NEW i \in 1 .. n + l, ~(i <= n)
  PROVE  i \in n + 1 .. n + l
  OBVIOUS

\* How many arguments there are.
LEMMA ArgumentsIs ==
  ASSUME NEW c \in CallSites
  PROVE  /\ Arguments(c) \in Nat /\ Len(c.fn.params) <= Arguments(c) /\ c.given <= Len(c.fn.params)
         /\ c.fn.foreign => Arguments(c) = Len(c.fn.params) + Len(c.extra)
         /\ ~c.fn.foreign /\ c.fn.varargs => Arguments(c) = Len(c.fn.params) + 1
         /\ ~(c.fn.foreign /\ c.fn.varargs) /\ ~(~c.fn.foreign /\ c.fn.varargs)
            => Arguments(c) = Len(c.fn.params)
  <1>. PICK n \in Nat : n = Len(c.fn.params)
    BY CallSiteIs
  <1>. PICK l \in Nat : l = Len(c.extra)
    BY CallSiteIs
  <1>. PICK d \in Nat : d = IF c.fn.foreign THEN l ELSE IF c.fn.varargs THEN 1 ELSE 0
    OBVIOUS
  <1>1. Arguments(c) = n + d
    BY DEF Arguments
  <1>2. n + d \in Nat /\ n <= n + d /\ n + 0 = n
    BY More
  <1>3. ~c.fn.varargs => l = 0
    BY CallSiteIs, EmptyIsSequence
  <1>4. c.given <= n
    BY CallSiteIs
  <1>. QED
    BY <1>1, <1>2, <1>3, <1>4

\* Every argument is handed over as a sequence of values.
LEMMA HandedIs ==
  ASSUME NEW c \in CallSites
  PROVE  /\ AllSequences(AllHanded(c)) /\ Len(AllHanded(c)) = Arguments(c)
         /\ \A i \in 1 .. Arguments(c) : AllHanded(c)[i] = Handed(c, i) /\ IsSequence(Handed(c, i))
  <1>. PICK m \in Nat : m = Arguments(c)
    BY ArgumentsIs
  <1>. PICK n \in Nat : n = Len(c.fn.params)
    BY CallSiteIs
  <1>. PICK l \in Nat : l = Len(c.extra)
    BY CallSiteIs
  <1>. PICK q : q = AllHanded(c)
    OBVIOUS
  <1>1. q = [i \in 1 .. m |-> Handed(c, i)]
    BY DEF AllHanded
  <1>2. DOMAIN q = 1 .. m /\ q = [i \in 1 .. m |-> q[i]] /\ \A i \in 1 .. m : q[i] = Handed(c, i)
    BY <1>1
  <1>3. IsSequence(q) /\ Len(q) = m
    BY <1>2, FunctionIsSequence
  <1>4. ASSUME NEW i \in 1 .. m PROVE IsSequence(Handed(c, i))
    <2>1. CASE i <= n
      <3>1. i \in 1 .. n
        BY <2>1
      <3>2. TypeOf(c, i) \in DataTypes
        BY <3>1, TypeOfIs
      <3>3. IsSequence(Lowered(c, i)) /\ IsSequence(<<Expression(c, i)>>)
        BY <3>2, LoweredMatches, OneIs
      <3>. QED
        BY <2>1, <3>3 DEF Handed
    <2>2. CASE ~(i <= n)
      <3>1. ~(i <= c.given)
        BY <2>2, CallSiteIs
      <3>2. CASE c.fn.foreign
        <4>1. m = n + l
          BY <3>2, ArgumentsIs
        <4>2. i \in n + 1 .. n + l
          BY <2>2, <4>1, Beyond
        <4>3. TypeOf(c, i) \in DataTypes
          BY <4>2, TypeOfIs
        <4>4. IsSequence(Lowered(c, i))
          BY <4>3, LoweredMatches
        <4>. QED
          BY <2>2, <3>1, <3>2, <4>4 DEF Handed
      <3>3. CASE ~c.fn.foreign
        <4>1. Handed(c, i) = <<Slice(c)>>
          BY <2>2, <3>1, <3>3 DEF Handed
        <4>. QED
          BY <4>1, OneIs
      <3>. QED
        BY <3>2, <3>3
    <2>. QED
      BY <2>1, <2>2
  <1>. QED
    BY <1>2, <1>3, <1>4 DEF AllSequences

\* Every parameter is declared as a sequence of types.
LEMMA TypesIs ==
  ASSUME NEW c \in CallSites
  PROVE  /\ AllSequences(AllTypes(c)) /\ Len(AllTypes(c)) = Len(c.fn.params)
         /\ ParameterTypes(c) = Joined(AllTypes(c))
         /\ \A i \in 1 .. Len(c.fn.params) :
              /\ AllTypes(c)[i] = Types(c, i) /\ IsSequence(Types(c, i))
              /\ Len(Types(c, i)) \in Nat \ {0}
  <1>. PICK n \in Nat : n = Len(c.fn.params)
    BY CallSiteIs
  <1>. PICK q : q = AllTypes(c)
    OBVIOUS
  <1>1. DOMAIN c.fn.params = 1 .. n
    BY CallSiteIs, LengthOf
  <1>2. q = [i \in 1 .. n |-> Types(c, i)]
    BY <1>1 DEF AllTypes
  <1>3. DOMAIN q = 1 .. n /\ q = [i \in 1 .. n |-> q[i]] /\ \A i \in 1 .. n : q[i] = Types(c, i)
    BY <1>2
  <1>4. IsSequence(q) /\ Len(q) = n
    BY <1>3, FunctionIsSequence
  <1>5. ASSUME NEW i \in 1 .. n
        PROVE  IsSequence(Types(c, i)) /\ Len(Types(c, i)) \in Nat \ {0}
    <2>1. TypeOf(c, i) = c.fn.params[i] /\ c.fn.params[i] \in DataTypes
      BY TypeOfIs
    <2>. QED
      BY <2>1, LoweredMatches DEF Types
  <1>6. ParameterTypes(c) = Joined(AllTypes(c))
    BY DEF ParameterTypes, AllTypes, Types
  <1>. QED
    BY <1>3, <1>4, <1>5, <1>6 DEF AllSequences

\* What has been passed is a sequence, longer by one argument at a time.
LEMMA FirstIs ==
  ASSUME NEW c
  PROVE  IsSequence(First(c)) /\ IsSequence(FirstType(c))
         /\ (ResultInPointer(c) => Len(First(c)) = 1) /\ (~ResultInPointer(c) => Len(First(c)) = 0)
         /\ (RetInPtr(c) => Len(FirstType(c)) = 1) /\ (~RetInPtr(c) => Len(FirstType(c)) = 0)
  BY OneIs, EmptyIsSequence DEF First, FirstType

LEMMA PassedUpToIs ==
  ASSUME NEW c \in CallSites
  PROVE  /\ PassedUpTo(c, 0) = First(c)
         /\ \A n \in 0 .. Arguments(c) : IsSequence(PassedUpTo(c, n))
         /\ \A n \in 1 .. Arguments(c) : PassedUpTo(c, n) = PassedUpTo(c, n - 1) \o Handed(c, n)
  <1>. PICK m \in Nat : m = Arguments(c)
    BY ArgumentsIs
  <1>. PICK q : q = AllHanded(c)
    OBVIOUS
  <1>. PICK f : f = First(c)
    OBVIOUS
  <1>0. IsSequence(f) /\ AllSequences(q) /\ Len(q) = m
    BY FirstIs, HandedIs
  <1>1. /\ Joined(q)[0] = << >>
        /\ \A n \in 0 .. m : IsSequence(Joined(q)[n])
        /\ \A n \in 1 .. m : Joined(q)[n] = Joined(q)[n - 1] \o q[n]
    BY <1>0, JoinedSequences
  <1>2. \A n : PassedUpTo(c, n) = f \o Joined(q)[n]
    BY DEF PassedUpTo
  <1>3. f \o << >> = f
    <2>1. f \in Seq(Range(f))
      BY <1>0 DEF IsSequence
    <2>. QED
      BY <2>1, ConcatEmptySeq
  <1>4. ASSUME NEW n \in 0 .. m PROVE IsSequence(PassedUpTo(c, n))
    <2>. PICK j : j = Joined(q)[n]
      OBVIOUS
    <2>1. IsSequence(f \o j)
      BY <1>0, <1>1, JoinIs
    <2>. QED
      BY <1>2, <2>1
  <1>5. ASSUME NEW n \in 1 .. m
        PROVE  PassedUpTo(c, n) = PassedUpTo(c, n - 1) \o Handed(c, n)
    <2>1. n - 1 \in 0 .. m
      OBVIOUS
    <2>2. q[n] = Handed(c, n) /\ IsSequence(q[n])
      BY HandedIs
    <2>3. IsSequence(Joined(q)[n - 1])
      BY <1>1, <2>1
    <2>4. f \o (Joined(q)[n - 1] \o q[n]) = (f \o Joined(q)[n - 1]) \o q[n]
      <3>. PICK j : j = Joined(q)[n - 1]
        OBVIOUS
      <3>. PICK r : r = q[n]
        OBVIOUS
      <3>0. IsSequence(f) /\ IsSequence(j) /\ IsSequence(r)
        BY <1>0, <2>2, <2>3
      <3>1. Associate(f, j, r)
        BY <3>0, JoinAssociates
      <3>. QED
        BY <3>1 DEF Associate
    <2>. QED
      BY <1>1, <1>2, <2>2, <2>4
  <1>. QED
    BY <1>1, <1>2, <1>3, <1>4, <1>5

\* What a function's type declares, before a variadic function's slice.
Named(c) == FirstType(c) \o Joined(AllTypes(c))[Len(c.fn.params)]

LEMMA DeclaredIs ==
  ASSUME NEW c \in CallSites
  PROVE  /\ IsSequence(Named(c)) /\ IsSequence(Declared(c))
         /\ c.fn.varargs /\ ~c.fn.foreign => Declared(c) = Named(c) \o <<Address>>
         /\ ~(c.fn.varargs /\ ~c.fn.foreign) => Declared(c) = Named(c)
  <1>. PICK n \in Nat : n = Len(c.fn.params)
    BY CallSiteIs
  <1>. PICK q : q = AllTypes(c)
    OBVIOUS
  <1>1. AllSequences(q) /\ Len(q) = n /\ ParameterTypes(c) = Joined(q)
    BY TypesIs
  <1>2. IsSequence(Joined(q)[n])
    <2>1. \A k \in 0 .. n : IsSequence(Joined(q)[k])
      BY <1>1, JoinedSequences
    <2>. QED
      BY <2>1
  <1>3. IsSequence(Named(c))
    BY <1>2, FirstIs, JoinIs DEF Named
  <1>4. Declared(c) = Named(c) \o (IF c.fn.varargs /\ ~c.fn.foreign THEN <<Address>> ELSE <<>>)
    BY <1>1 DEF Declared, Named, FirstType
  <1>5. Named(c) \o << >> = Named(c)
    BY <1>3, ConcatEmptySeq DEF IsSequence
  <1>6. IsSequence(<<Address>>)
    BY OneIs
  <1>7. IsSequence(Named(c) \o <<Address>>)
    BY <1>3, <1>6, JoinIs
  <1>. QED
    BY <1>3, <1>4, <1>5, <1>7

\* The address of the result is in front when the function's type has it
\* there, except for small results in Wasm.
LEMMA FirstMatches ==
  ASSUME NEW c \in CallSites, ~SmallWasmResult(c)
  PROVE  Matches(First(c), FirstType(c))
  <1>1. CASE ResultInPointer(c)
    <2>1. First(c) = <<AddressOf(0)>> /\ FirstType(c) = <<Address>>
      BY <1>1 DEF First, FirstType, RetInPtr
    <2>2. LLVMType(AddressOf(0).type) = LLVMType(Address)
      BY ValueTypes
    <2>. QED
      BY <2>1, <2>2, OneMatches
  <1>2. CASE ~ResultInPointer(c) /\ ~RetInPtr(c)
    <2>1. First(c) = << >> /\ FirstType(c) = << >>
      BY <1>2 DEF First, FirstType
    <2>2. Matches(<< >>, << >>)
      BY EmptyIsSequence DEF Matches
    <2>. QED
      BY <2>1, <2>2
  <1>3. CASE ~ResultInPointer(c) /\ RetInPtr(c)
    <2>1. Returns(c) /\ WasmAggregate(c)
      BY <1>3 DEF RetInPtr
    <2>2. DeclaredReturn(c) = NoType
      BY <1>3 DEF DeclaredReturn
    <2>3. ReturnedWrongType(c.target, ResultType(c)) = Unsigned(Size(c.target, ResultType(c)))
      BY <2>1 DEF ReturnedWrongType, WasmAggregate, IsSysVSystem, ComplexTypeToSizeType
    <2>4. Unsigned(Size(c.target, ResultType(c))) # NoType
      <3>. PICK u : u = Unsigned(Size(c.target, ResultType(c)))
        OBVIOUS
      <3>1. u.kind = "basic"
        BY Kinds
      <3>. QED
        BY <3>1, Kinds
    <2>. QED
      BY <1>3, <2>1, <2>2, <2>3, <2>4 DEF SmallWasmResult
  <1>. QED
    BY <1>1, <1>2, <1>3

\* Every argument that is no default of a struct matches its parameter.
LEMMA HandedMatches ==
  ASSUME NEW c \in CallSites, NEW i \in 1 .. Len(c.fn.params)
  PROVE  /\ i <= c.given \/ ~PassedByMembers(c.target, c.fn.params[i])
            => Matches(Handed(c, i), Types(c, i))
         /\ i > c.given /\ Matches(Handed(c, i), Types(c, i))
            => ~PassedByMembers(c.target, c.fn.params[i]) \/ WrappedDefault(c, i)
  <1>. PICK t \in DataTypes : t = c.fn.params[i] /\ TypeOf(c, i) = t
    BY TypeOfIs
  <1>1. Types(c, i) = Parameter(c.target, t).types
    BY DEF Types
  <1>2. i <= Len(c.fn.params) /\ c.given \in Nat /\ i \in Nat
    BY CallSiteIs
  <1>3. Handed(c, i) = IF i <= c.given THEN Lowered(c, i) ELSE <<Expression(c, i)>>
    BY <1>2 DEF Handed
  <1>4. i > c.given <=> ~(i <= c.given)
    BY <1>2
  <1>. QED
    BY <1>1, <1>2, <1>3, <1>4, LoweredMatches, DefaultMatches DEF WrappedDefault

\* A variadic function's type is met by what it takes in front and its slice.
LEMMA SliceMatches ==
  ASSUME NEW c
  PROVE  IsSequence(<<Slice(c)>>) /\ Len(<<Slice(c)>>) = 1 /\ IsSequence(<<Address>>)
         /\ Matches(<<Slice(c)>>, <<Address>>)
  <1>. PICK v : v = Slice(c)
    OBVIOUS
  <1>1. v.type = Address
    BY ValueTypes DEF Slice
  <1>. QED
    BY <1>1, OneMatches

\* What is passed for the parameters.
PassedNamed(c) == PassedUpTo(c, Len(c.fn.params))

LEMMA NamedMatch ==
  ASSUME NEW c \in CallSites, ~SmallWasmResult(c), ~DefaultOfStruct(c)
  PROVE  Matches(PassedNamed(c), Named(c))
  <1>. PICK n \in Nat : n = Len(c.fn.params)
    BY CallSiteIs
  <1>. PICK vs : vs = AllHanded(c)
    OBVIOUS
  <1>. PICK ts : ts = AllTypes(c)
    OBVIOUS
  <1>1. AllSequences(vs) /\ n <= Len(vs) /\ \A i \in 1 .. n : vs[i] = Handed(c, i)
    <2>1. Len(vs) \in Nat /\ n <= Len(vs) /\ Len(vs) = Arguments(c)
      BY ArgumentsIs, HandedIs
    <2>. QED
      BY <2>1, HandedIs
  <1>2. AllSequences(ts) /\ n <= Len(ts) /\ \A i \in 1 .. n : ts[i] = Types(c, i)
    BY TypesIs
  <1>3. ASSUME NEW i \in 1 .. n PROVE Matches(Handed(c, i), Types(c, i))
    <2>1. ~(i <= c.given) => i \in c.given + 1 .. n
      BY CallSiteIs
    <2>2. i <= c.given \/ ~PassedByMembers(c.target, c.fn.params[i])
      BY <2>1 DEF DefaultOfStruct
    <2>. QED
      BY <2>2, HandedMatches
  <1>4. \A i \in 1 .. n : Matches(vs[i], ts[i])
    BY <1>1, <1>2, <1>3
  <1>5. Matches(Joined(vs)[n], Joined(ts)[n])
    <2>1. n \in 0 .. n
      OBVIOUS
    <2>. QED
      BY <1>1, <1>2, <1>4, <2>1, MatchesJoined
  <1>. PICK a : a = Joined(vs)[n]
    OBVIOUS
  <1>. PICK b : b = Joined(ts)[n]
    OBVIOUS
  <1>6. IsSequence(a) /\ IsSequence(b)
    <2>1. n \in 0 .. Len(vs) /\ n \in 0 .. Len(ts)
      <3>1. Len(vs) \in Nat /\ Len(ts) \in Nat
        BY <1>1, <1>2, LengthOf DEF AllSequences
      <3>. QED
        BY <1>1, <1>2, <3>1
    <2>2. /\ \A k \in 0 .. Len(vs) : IsSequence(Joined(vs)[k])
          /\ \A k \in 0 .. Len(ts) : IsSequence(Joined(ts)[k])
      BY <1>1, <1>2, JoinedSequences
    <2>. QED
      BY <2>1, <2>2
  <1>. PICK p : p = First(c)
    OBVIOUS
  <1>. PICK q : q = FirstType(c)
    OBVIOUS
  <1>7. IsSequence(p) /\ IsSequence(q) /\ Matches(p, q)
    BY FirstIs, FirstMatches
  <1>8. Matches(a, b)
    BY <1>5
  <1>9. Matches(p \o a, q \o b)
    BY <1>6, <1>7, <1>8, MatchesJoin
  <1>. QED
    BY <1>9 DEF PassedNamed, PassedUpTo, Named

\* What is passed begins with what is passed for the parameters.
LEMMA PassedExtends ==
  ASSUME NEW c \in CallSites
  PROVE  /\ IsSequence(PassedNamed(c)) /\ IsSequence(Passed(c))
         /\ Extends(Passed(c), PassedNamed(c))
         /\ c.fn.varargs /\ ~c.fn.foreign => Passed(c) = PassedNamed(c) \o <<Slice(c)>>
         /\ ~c.fn.varargs => Passed(c) = PassedNamed(c)
  <1>. PICK n \in Nat : n = Len(c.fn.params)
    BY CallSiteIs
  <1>. PICK m \in Nat : m = Arguments(c)
    BY ArgumentsIs
  <1>. PICK vs : vs = AllHanded(c)
    OBVIOUS
  <1>0. n <= m /\ n \in 0 .. m /\ m \in 0 .. m /\ m \in n .. m
    <2>1. n <= m
      BY ArgumentsIs
    <2>. QED
      BY <2>1
  <1>1. IsSequence(PassedNamed(c)) /\ IsSequence(Passed(c))
    BY <1>0, PassedUpToIs DEF PassedNamed, Passed
  <1>2. AllSequences(vs) /\ Len(vs) = m
    BY HandedIs
  <1>. PICK a : a = Joined(vs)[n]
    OBVIOUS
  <1>. PICK b : b = Joined(vs)[m]
    OBVIOUS
  <1>3. IsSequence(a) /\ IsSequence(b) /\ IsSequence(First(c))
    <2>1. \A k \in 0 .. m : IsSequence(Joined(vs)[k])
      BY <1>2, JoinedSequences
    <2>. QED
      BY <1>0, <2>1, FirstIs
  <1>4. Extends(b, a)
    BY <1>0, <1>2, JoinedGrows
  <1>5. Extends(First(c) \o b, First(c) \o a)
    BY <1>3, <1>4, ExtendsBehind
  <1>6. Extends(Passed(c), PassedNamed(c))
    BY <1>5 DEF Passed, PassedNamed, PassedUpTo
  <1>7. ASSUME c.fn.varargs, ~c.fn.foreign
        PROVE  Passed(c) = PassedNamed(c) \o <<Slice(c)>>
    <2>1. m = n + 1
      BY <1>7, ArgumentsIs
    <2>2. m \in 1 .. m /\ m - 1 = n
      BY <2>1
    <2>3. PassedUpTo(c, m) = PassedUpTo(c, n) \o Handed(c, m)
      BY <2>2, PassedUpToIs
    <2>4. ~(m <= n) /\ ~(m <= c.given)
      BY <2>1, CallSiteIs
    <2>5. Handed(c, m) = <<Slice(c)>>
      BY <1>7, <2>4 DEF Handed
    <2>. QED
      BY <2>3, <2>5 DEF Passed, PassedNamed
  <1>8. ASSUME ~c.fn.varargs PROVE Passed(c) = PassedNamed(c)
    <2>1. Len(c.extra) = 0
      BY <1>8, CallSiteIs, EmptyIsSequence
    <2>2. m = n
      BY <1>8, <2>1, ArgumentsIs, More
    <2>. QED
      BY <2>2 DEF Passed, PassedNamed
  <1>. QED
    BY <1>1, <1>6, <1>7, <1>8

\* A call fits unless it has one of the known exceptions.
LEMMA PassedFits ==
  ASSUME NEW c \in CallSites, ~SmallWasmResult(c), ~DefaultOfStruct(c)
  PROVE  Fits(c, Passed(c))
  <1>. PICK p : p = PassedNamed(c)
    OBVIOUS
  <1>. PICK q : q = Named(c)
    OBVIOUS
  <1>. PICK v : v = Passed(c)
    OBVIOUS
  <1>. PICK d : d = Declared(c)
    OBVIOUS
  <1>1. IsSequence(p) /\ IsSequence(q) /\ IsSequence(v) /\ IsSequence(d) /\ Extends(v, p) /\ Matches(p, q)
    BY PassedExtends, DeclaredIs, NamedMatch
  <1>2. CASE c.fn.varargs /\ ~c.fn.foreign
    <2>1. v = p \o <<Slice(c)>> /\ d = q \o <<Address>>
      BY <1>2, PassedExtends, DeclaredIs
    <2>2. Matches(v, d)
      BY <1>1, <2>1, SliceMatches, MatchesJoin
    <2>3. Extends(v, v)
      BY <1>1, ExtendsItself
    <2>. QED
      BY <1>1, <2>2, <2>3, FitsIfFront
  <1>3. CASE ~(c.fn.varargs /\ ~c.fn.foreign)
    <2>1. d = q
      BY <1>3, DeclaredIs
    <2>2. (c.fn.varargs /\ c.fn.foreign) \/ v = p
      <3>1. c.fn.varargs \in BOOLEAN /\ c.fn.foreign \in BOOLEAN
        BY CallSiteIs
      <3>. QED
        BY <1>3, <3>1, PassedExtends
    <2>. QED
      BY <1>1, <2>1, <2>2, FitsIfFront
  <1>. QED
    BY <1>2, <1>3

-----------------------------------------------------------------------------
(* Where the values of a parameter are                                     *)

\* Numbers: what is longer in front is shorter behind.
LEMMA Balance ==
  ASSUME NEW a \in Nat, NEW b \in Nat, NEW x \in Nat, NEW y \in Nat, a <= b, a + x = b + y
  PROVE  x >= y /\ (x = y => a = b)
  OBVIOUS

LEMMA BalanceOfOne ==
  ASSUME NEW a \in Nat, NEW b \in Nat, a + 1 = b + 1
  PROVE  a = b
  OBVIOUS

\* A function that is called natively, and its values fit.
FittingCall(c) == c \in CallSites /\ ~c.fn.foreign /\ Fits(c, Passed(c))

LEMMA AllMatch ==
  ASSUME NEW c, FittingCall(c)
  PROVE  Matches(Passed(c), Declared(c)) /\ Len(PassedNamed(c)) = Len(Named(c))
  <1>. PICK p : p = PassedNamed(c)
    OBVIOUS
  <1>. PICK q : q = Named(c)
    OBVIOUS
  <1>. PICK v : v = Passed(c)
    OBVIOUS
  <1>. PICK d : d = Declared(c)
    OBVIOUS
  <1>0. c \in CallSites /\ ~c.fn.foreign /\ Fits(c, v)
    BY DEF FittingCall
  <1>1. IsSequence(p) /\ IsSequence(q) /\ IsSequence(v) /\ IsSequence(d)
    BY <1>0, PassedExtends, DeclaredIs
  <1>2. Matches(v, d)
    BY <1>0, <1>1, FitsMatches
  <1>3. Len(v) = Len(d)
    BY <1>2 DEF Matches
  <1>4. CASE c.fn.varargs
    <2>. PICK s : s = <<Slice(c)>>
      OBVIOUS
    <2>. PICK o : o = <<Address>>
      OBVIOUS
    <2>0. IsSequence(s) /\ Len(s) = 1 /\ IsSequence(o) /\ Len(o) = 1
      BY OneIs
    <2>1. v = p \o s /\ d = q \o o
      BY <1>0, <1>4, PassedExtends, DeclaredIs
    <2>2. Len(p) \in Nat /\ Len(q) \in Nat
      BY <1>1, LengthOf
    <2>3. Len(v) = Len(p) + 1 /\ Len(d) = Len(q) + 1
      BY <1>1, <2>0, <2>1, JoinIs
    <2>4. Len(p) = Len(q)
      BY <1>3, <2>2, <2>3, BalanceOfOne
    <2>. QED
      BY <1>2, <2>4
  <1>5. CASE ~c.fn.varargs
    <2>1. v = p /\ d = q
      BY <1>0, <1>5, PassedExtends, DeclaredIs
    <2>. QED
      BY <1>2, <1>3, <2>1
  <1>. QED
    BY <1>4, <1>5

\* Nothing is longer than declared.
LEMMA NotLonger ==
  ASSUME NEW c \in CallSites, NEW i \in 1 .. Len(c.fn.params)
  PROVE  Len(Handed(c, i)) <= Len(Types(c, i))
  <1>. PICK t \in DataTypes : t = c.fn.params[i] /\ TypeOf(c, i) = t
    BY TypeOfIs
  <1>. PICK ts : ts = Parameter(c.target, t).types
    OBVIOUS
  <1>1. Types(c, i) = ts
    BY DEF Types
  <1>2. Matches(Lowered(c, i), ts) /\ Len(ts) \in Nat \ {0}
    BY LoweredMatches
  <1>3. CASE i <= c.given
    <2>1. Handed(c, i) = Lowered(c, i)
      BY <1>3 DEF Handed
    <2>2. Len(Lowered(c, i)) = Len(ts)
      BY <1>2 DEF Matches
    <2>. QED
      BY <1>1, <1>2, <2>1, <2>2
  <1>4. CASE ~(i <= c.given)
    <2>0. i <= Len(c.fn.params)
      BY CallSiteIs
    <2>. PICK h : h = <<Expression(c, i)>>
      OBVIOUS
    <2>1. Handed(c, i) = h
      BY <1>4, <2>0 DEF Handed
    <2>2. Len(h) = 1
      BY OneIs
    <2>. QED
      BY <1>1, <1>2, <2>1, <2>2
  <1>. QED
    BY <1>3, <1>4

\* The joined values and types of the parameters.
ValuesTo(c, i) == Joined(AllHanded(c))[i]
TypesTo(c, i) == Joined(AllTypes(c))[i]

LEMMA ToIs ==
  ASSUME NEW c \in CallSites
  PROVE  \A i \in 0 .. Len(c.fn.params) :
            /\ IsSequence(ValuesTo(c, i)) /\ IsSequence(TypesTo(c, i))
            /\ Len(ValuesTo(c, i)) \in Nat /\ Len(TypesTo(c, i)) \in Nat
  <1>. PICK n \in Nat : n = Len(c.fn.params)
    BY CallSiteIs
  <1>. PICK m \in Nat : m = Arguments(c)
    BY ArgumentsIs
  <1>1. n <= m
    BY ArgumentsIs
  <1>2. AllSequences(AllHanded(c)) /\ Len(AllHanded(c)) = m /\ AllSequences(AllTypes(c)) /\ Len(AllTypes(c)) = n
    BY HandedIs, TypesIs
  <1>3. \A i \in 0 .. m : IsSequence(ValuesTo(c, i))
    BY <1>2, JoinedSequences DEF ValuesTo
  <1>4. \A i \in 0 .. n : IsSequence(TypesTo(c, i))
    BY <1>2, JoinedSequences DEF TypesTo
  <1>5. \A i \in 0 .. n : i \in 0 .. m
    BY <1>1
  <1>. QED
    BY <1>3, <1>4, <1>5, LengthOf

\* The result's address is passed as it is declared, and values and types go
\* hand in hand.
LEMMA SideBySide ==
  ASSUME NEW c, FittingCall(c)
  PROVE  /\ Len(First(c)) = Len(FirstType(c)) /\ (ResultInPointer(c) <=> RetInPtr(c))
         /\ \A i \in 0 .. Len(c.fn.params) : Len(ValuesTo(c, i)) = Len(TypesTo(c, i))
         /\ \A i \in 1 .. Len(c.fn.params) : Len(Handed(c, i)) = Len(Types(c, i))
  <1>0. c \in CallSites
    BY DEF FittingCall
  <1>. PICK n \in Nat : n = Len(c.fn.params)
    BY <1>0, CallSiteIs
  <1>. PICK vs : vs = AllHanded(c)
    OBVIOUS
  <1>. PICK ts : ts = AllTypes(c)
    OBVIOUS
  <1>1. AllSequences(vs) /\ n <= Len(vs) /\ \A i \in 1 .. n : vs[i] = Handed(c, i)
    <2>1. Len(vs) \in Nat /\ n <= Len(vs) /\ Len(vs) = Arguments(c)
      BY <1>0, ArgumentsIs, HandedIs
    <2>. QED
      BY <1>0, <2>1, HandedIs
  <1>2. AllSequences(ts) /\ n <= Len(ts) /\ \A i \in 1 .. n : ts[i] = Types(c, i)
    BY <1>0, TypesIs
  <1>3. \A i \in 1 .. n : Len(vs[i]) <= Len(ts[i])
    BY <1>0, <1>1, <1>2, NotLonger
  <1>4. n \in 0 .. n
    OBVIOUS
  <1>. PICK x \in Nat : x = Len(ValuesTo(c, n))
    BY <1>0, <1>4, ToIs
  <1>. PICK y \in Nat : y = Len(TypesTo(c, n))
    BY <1>0, <1>4, ToIs
  <1>. PICK a \in Nat : a = Len(First(c))
    BY FirstIs, LengthOf
  <1>. PICK b \in Nat : b = Len(FirstType(c))
    BY FirstIs, LengthOf
  <1>5. a <= b
    <2>1. ResultInPointer(c) => RetInPtr(c)
      BY DEF RetInPtr
    <2>. QED
      BY <2>1, FirstIs
  <1>6. a + x = b + y
    <2>1. Len(PassedNamed(c)) = Len(Named(c))
      BY AllMatch
    <2>2. IsSequence(ValuesTo(c, n)) /\ IsSequence(TypesTo(c, n)) /\ IsSequence(First(c)) /\ IsSequence(FirstType(c))
      BY <1>0, <1>4, ToIs, FirstIs
    <2>3. PassedNamed(c) = First(c) \o ValuesTo(c, n) /\ Named(c) = FirstType(c) \o TypesTo(c, n)
      BY DEF PassedNamed, PassedUpTo, Named, ValuesTo, TypesTo
    <2>4. Len(PassedNamed(c)) = a + x
      BY <2>2, <2>3, JoinIs
    <2>5. Len(Named(c)) = b + y
      BY <2>2, <2>3, JoinIs
    <2>. QED
      BY <2>1, <2>4, <2>5
  <1>7. x >= y
    BY <1>5, <1>6, Balance
  <1>8. /\ \A i \in 0 .. n : Len(Joined(vs)[i]) = Len(Joined(ts)[i])
        /\ \A i \in 1 .. n : Len(vs[i]) = Len(ts[i])
    <2>1. Len(Joined(vs)[n]) >= Len(Joined(ts)[n])
      BY <1>7 DEF ValuesTo, TypesTo
    <2>2. AllSequences(vs) /\ AllSequences(ts) /\ n <= Len(vs) /\ n <= Len(ts)
      BY <1>1, <1>2
    <2>3. NoneLonger(vs, ts, n)
      BY <1>3 DEF NoneLonger
    <2>4. EquallyLong(vs, ts, n)
      BY <2>1, <2>2, <2>3, SameLengths
    <2>. QED
      BY <2>4 DEF EquallyLong
  <1>9. \A i \in 0 .. n : Len(ValuesTo(c, i)) = Len(TypesTo(c, i))
    BY <1>8 DEF ValuesTo, TypesTo
  <1>10. a = b
    <2>1. x = y
      BY <1>4, <1>9
    <2>. QED
      BY <1>5, <1>6, <2>1, Balance
  <1>11. ResultInPointer(c) <=> RetInPtr(c)
    <2>1. ResultInPointer(c) => RetInPtr(c)
      BY DEF RetInPtr
    <2>2. RetInPtr(c) => b = 1
      BY FirstIs
    <2>3. ~ResultInPointer(c) => a = 0
      BY FirstIs
    <2>. QED
      BY <1>10, <2>1, <2>2, <2>3
  <1>. QED
    BY <1>1, <1>2, <1>8, <1>9, <1>10, <1>11

\* Numbers: added in another order.
LEMMA Reorder ==
  ASSUME NEW a \in Nat, NEW b \in Nat, NEW l \in Nat, NEW s, s = a + b + 1
  PROVE  s \in Nat /\ a + b \in Nat /\ s = (a + b) + 1 /\ s + l - 1 = ((a + b) + 1) + l - 1
  OBVIOUS

\* A parameter takes the values its argument was passed as, and they match.
LEMMA ValuesAlign ==
  ASSUME NEW c, FittingCall(c), NEW i \in 1 .. Len(c.fn.params)
  PROVE  ValuesOf(c, Passed(c), i) = Handed(c, i) /\ Matches(Handed(c, i), Types(c, i))
  <1>0. c \in CallSites
    BY DEF FittingCall
  <1>. PICK n \in Nat : n = Len(c.fn.params)
    BY <1>0, CallSiteIs
  <1>. PICK m \in Nat : m = Arguments(c)
    BY <1>0, ArgumentsIs
  <1>1. i \in 1 .. n /\ i - 1 \in 0 .. n /\ n \in i .. n
    OBVIOUS
  <1>2. i \in 1 .. m /\ m \in i .. m /\ n <= m
    <2>1. n <= m
      BY <1>0, ArgumentsIs
    <2>. QED
      BY <1>1, <2>1
  <1>. PICK vs : vs = AllHanded(c)
    OBVIOUS
  <1>. PICK ts : ts = AllTypes(c)
    OBVIOUS
  <1>. PICK h : h = Handed(c, i)
    OBVIOUS
  <1>. PICK t : t = Types(c, i)
    OBVIOUS
  <1>3. AllSequences(vs) /\ Len(vs) = m /\ vs[i] = h /\ IsSequence(h)
    BY <1>0, <1>2, HandedIs
  <1>4. AllSequences(ts) /\ Len(ts) = n /\ ts[i] = t /\ IsSequence(t)
    BY <1>0, <1>1, TypesIs
  <1>. PICK a \in Nat : a = Len(First(c))
    BY FirstIs, LengthOf
  <1>. PICK b \in Nat : b = Len(ValuesTo(c, i - 1))
    BY <1>0, <1>1, ToIs
  <1>. PICK l \in Nat : l = Len(h)
    BY <1>3, LengthOf
  <1>5. a = Len(FirstType(c)) /\ b = Len(TypesTo(c, i - 1)) /\ l = Len(t)
    BY <1>1, SideBySide
  <1>. PICK jv : jv = Joined(vs)[m]
    OBVIOUS
  <1>. PICK jt : jt = Joined(ts)[n]
    OBVIOUS
  <1>6. IsSequence(jv) /\ IsSequence(jt)
    <2>1. m \in 0 .. m /\ n \in 0 .. n
      OBVIOUS
    <2>. QED
      BY <1>3, <1>4, <2>1, JoinedSequences
  <1>7. Holds(jv, b, h)
    <2>1. Holds(jv, Len(Joined(vs)[i - 1]), h)
      BY <1>2, <1>3, JoinedPart
    <2>. QED
      BY <2>1 DEF ValuesTo
  <1>8. Holds(jt, b, t)
    <2>1. Holds(jt, Len(Joined(ts)[i - 1]), t)
      BY <1>1, <1>4, JoinedPart
    <2>. QED
      BY <1>5, <2>1 DEF TypesTo
  <1>. PICK f : f = First(c)
    OBVIOUS
  <1>. PICK g : g = FirstType(c)
    OBVIOUS
  <1>9. IsSequence(f) /\ IsSequence(g) /\ a = Len(f) /\ a = Len(g)
    BY <1>5, FirstIs
  <1>10. Holds(f \o jv, Len(f) + b, h)
    BY <1>3, <1>6, <1>7, <1>9, HoldsBehind
  <1>11. Holds(g \o jt, Len(g) + b, t)
    BY <1>4, <1>6, <1>8, <1>9, HoldsBehind
  <1>. PICK v : v = Passed(c)
    OBVIOUS
  <1>. PICK w : w = Named(c)
    OBVIOUS
  <1>. PICK d : d = Declared(c)
    OBVIOUS
  <1>12. Holds(v, a + b, h)
    BY <1>9, <1>10 DEF Passed, PassedUpTo
  <1>13. Holds(w, a + b, t)
    BY <1>9, <1>11 DEF Named
  <1>14. IsSequence(v) /\ IsSequence(w) /\ IsSequence(d) /\ Matches(v, d)
    BY <1>0, PassedExtends, DeclaredIs, AllMatch
  <1>15. a + b \in Nat
    OBVIOUS
  <1>16. Holds(d, a + b, t)
    <2>1. CASE d = w
      BY <1>13, <2>1
    <2>2. CASE d = w \o <<Address>>
      <3>. PICK r : r = <<Address>>
        OBVIOUS
      <3>1. IsSequence(r)
        BY OneIs
      <3>2. Holds(w \o r, a + b, t)
        BY <1>4, <1>13, <1>14, <1>15, <3>1, HoldsInFront
      <3>. QED
        BY <2>2, <3>2
    <2>. QED
      BY <1>0, <2>1, <2>2, DeclaredIs
  <1>17. Matches(h, t)
    BY <1>3, <1>4, <1>5, <1>12, <1>14, <1>15, <1>16, HeldMatch
  <1>. PICK s : s = Start(c, i)
    OBVIOUS
  <1>18. s = a + b + 1
    <2>1. ParameterTypes(c)[i - 1] = TypesTo(c, i - 1)
      BY <1>0, TypesIs DEF TypesTo
    <2>2. a = IF RetInPtr(c) THEN 1 ELSE 0
      BY <1>5, FirstIs
    <2>. QED
      BY <1>5, <2>1, <2>2 DEF Start
  <1>19. SubSeq(v, (a + b) + 1, ((a + b) + 1) + l - 1) = h
    BY <1>3, <1>12, <1>14, <1>15, HeldPart
  <1>20. s = (a + b) + 1 /\ s + l - 1 = ((a + b) + 1) + l - 1
    BY <1>18, Reorder
  <1>21. ValuesOf(c, v, i) = SubSeq(v, s, s + l - 1)
    BY <1>5 DEF ValuesOf, Types
  <1>. QED
    BY <1>17, <1>19, <1>20, <1>21

\* The slice lies behind the named parameters.
LEMMA SliceAligns ==
  ASSUME NEW c, FittingCall(c), c.fn.varargs, ~SliceBehindResult(c)
  PROVE  Passed(c)[IF c.fn.params = << >> THEN 1 ELSE Start(c, Len(c.fn.params) + 1)] = Slice(c)
  <1>0. c \in CallSites /\ ~c.fn.foreign
    BY DEF FittingCall
  <1>. PICK n \in Nat : n = Len(c.fn.params)
    BY <1>0, CallSiteIs
  <1>. PICK p : p = PassedNamed(c)
    OBVIOUS
  <1>. PICK q : q = <<Slice(c)>>
    OBVIOUS
  <1>1. IsSequence(p) /\ IsSequence(q) /\ Len(q) = 1 /\ q[1] = Slice(c) /\ Passed(c) = p \o q
    BY <1>0, PassedExtends, OneIs
  <1>. PICK l \in Nat : l = Len(p)
    BY <1>1, LengthOf
  <1>2. (p \o q)[l + 1] = Slice(c)
    <2>1. 1 \in 1 .. 1
      OBVIOUS
    <2>2. \A k \in 1 .. 1 : (p \o q)[l + k] = q[k]
      BY <1>1, JoinIs
    <2>. QED
      BY <1>1, <2>1, <2>2
  <1>3. Start(c, n + 1) = l + 1
    <2>. PICK a \in Nat : a = Len(FirstType(c))
      BY FirstIs, LengthOf
    <2>0. n \in 0 .. n
      OBVIOUS
    <2>. PICK b \in Nat : b = Len(TypesTo(c, n))
      BY <1>0, <2>0, ToIs
    <2>. PICK g : g = FirstType(c)
      OBVIOUS
    <2>. PICK w : w = TypesTo(c, n)
      OBVIOUS
    <2>1. IsSequence(g) /\ IsSequence(w)
      BY <1>0, <2>0, ToIs, FirstIs
    <2>2. Len(g \o w) = a + b
      BY <2>1, JoinIs
    <2>3. l = a + b
      BY <2>2, AllMatch DEF Named, TypesTo
    <2>4. (n + 1) - 1 = n
      OBVIOUS
    <2>5. ParameterTypes(c)[(n + 1) - 1] = w
      BY <1>0, <2>4, TypesIs DEF TypesTo
    <2>6. a = IF RetInPtr(c) THEN 1 ELSE 0
      BY FirstIs
    <2>7. Start(c, n + 1) = a + b + 1
      BY <2>5, <2>6 DEF Start
    <2>. QED
      BY <2>3, <2>7
  <1>4. CASE c.fn.params = << >>
    <2>1. n = 0
      BY <1>4, EmptyIsSequence
    <2>2. ~RetInPtr(c)
      BY <1>4 DEF SliceBehindResult
    <2>3. ParameterTypes(c)[0] = << >>
      <3>1. AllSequences(AllTypes(c)) /\ ParameterTypes(c) = Joined(AllTypes(c))
        BY <1>0, TypesIs
      <3>. QED
        BY <3>1, JoinedSequences
    <2>4. Start(c, 1) = 1
      <3>1. 1 - 1 = 0 /\ 0 + 0 + 1 = 1
        OBVIOUS
      <3>. QED
        BY <2>2, <2>3, <3>1, EmptyIsSequence DEF Start
    <2>5. l + 1 = 1
      BY <1>3, <2>1, <2>4
    <2>. QED
      BY <1>1, <1>2, <1>4, <2>5
  <1>5. CASE c.fn.params # << >>
    BY <1>1, <1>2, <1>3, <1>5
  <1>. QED
    BY <1>4, <1>5

-----------------------------------------------------------------------------
(* Memory                                                                  *)

\* A set of naturals has a least one, and a bounded one a greatest.
LEMMA Least ==
  ASSUME NEW S \in SUBSET Nat, S # {}
  PROVE  \E n \in S : \A m \in S : n <= m
  <1>. SUFFICES ASSUME \A n \in S : \E m \in S : ~(n <= m)
                PROVE  FALSE
    OBVIOUS
  <1>. DEFINE G == {n \in Nat : \A m \in 0 .. n : m \notin S}
  <1>1. 0 \in G
    OBVIOUS
  <1>2. ASSUME NEW n \in Nat, n \in G PROVE n + 1 \in G
    <2>1. ASSUME n + 1 \in S PROVE FALSE
      <3>1. PICK m \in S : ~(n + 1 <= m)
        BY <2>1
      <3>2. m \in 0 .. n
        BY <3>1
      <3>. QED
        BY <1>2, <3>2
    <2>2. \A m \in 0 .. n + 1 : m = n + 1 \/ m \in 0 .. n
      OBVIOUS
    <2>. QED
      BY <1>2, <2>1, <2>2
  <1>3. G \in SUBSET Nat
    OBVIOUS
  <1>4. G = Nat
    <2>. HIDE DEF G
    <2>. QED
      BY <1>1, <1>2, <1>3, Induction
  <1>5. ASSUME NEW n \in S PROVE FALSE
    <2>1. n \in G /\ n \in 0 .. n
      BY <1>4
    <2>. QED
      BY <2>1
  <1>. QED
    BY <1>5

LEMMA Greatest ==
  ASSUME NEW k \in Nat, NEW S \in SUBSET (0 .. k), S # {}
  PROVE  \E n \in S : \A m \in S : m <= n
  <1>. DEFINE T == {m \in Nat : \A x \in S : x <= m}
  <1>1. T \in SUBSET Nat /\ k \in T
    OBVIOUS
  <1>2. PICK n \in T : \A m \in T : n <= m
    <2>. HIDE DEF T
    <2>. QED
      BY <1>1, Least
  <1>3. n \in Nat /\ \A x \in S : x <= n
    BY <1>2
  <1>4. ASSUME n \notin S PROVE FALSE
    <2>1. \A x \in S : x \in Nat /\ x < n
      BY <1>3, <1>4
    <2>0. PICK y \in S : TRUE
      OBVIOUS
    <2>2. n - 1 \in Nat /\ \A x \in S : x <= n - 1
      BY <1>3, <2>0, <2>1
    <2>3. n - 1 \in T
      BY <2>2
    <2>. QED
      BY <1>2, <1>3, <2>3
  <1>. QED
    BY <1>3, <1>4

\* The bytes of memory are those of the last write that hit them.
LEMMA WrittenIs ==
  ASSUME NEW n \in Nat, NEW ws, IsSequence(ws)
  PROVE  /\ IsSequence(Written(n, ws)) /\ Len(Written(n, ws)) = n
         /\ \A o \in 1 .. n : Hits(ws, o) # {}
               => \E w \in Hits(ws, o) : Written(n, ws)[o] = ws[w].bytes[o - ws[w].offset]
  <1>. PICK f : f = Written(n, ws)
    OBVIOUS
  <1>1. /\ DOMAIN f = 1 .. n /\ f = [o \in 1 .. n |-> f[o]]
        /\ \A o \in 1 .. n : f[o] = IF Hits(ws, o) = {} THEN << >>
                                    ELSE ws[LastHit(ws, o)].bytes[o - ws[LastHit(ws, o)].offset]
    BY DEF Written
  <1>2. IsSequence(f) /\ Len(f) = n
    BY <1>1, FunctionIsSequence
  <1>3. ASSUME NEW o \in 1 .. n, Hits(ws, o) # {}
        PROVE  LastHit(ws, o) \in Hits(ws, o)
    <2>. PICK H : H = Hits(ws, o)
      OBVIOUS
    <2>. PICK k \in Nat : k = Len(ws)
      BY LengthOf
    <2>1. DOMAIN ws = 1 .. k
      BY LengthOf
    <2>2. H \in SUBSET (0 .. k) /\ H # {}
      BY <1>3, <2>1 DEF Hits
    <2>3. \E w \in H : \A x \in H : x <= w
      BY <2>2, Greatest
    <2>. QED
      BY <2>3 DEF LastHit
  <1>. QED
    BY <1>1, <1>2, <1>3

\* A write of what was loaded from the same place of a variable.
Copies(c, i, w) ==
    \E t, o : /\ o \in Nat /\ Size(c.target, t) \in Nat
              /\ w = Write(o, Loaded(c, i, t, o).bytes)
AllCopy(c, i, ws) == IsSequence(ws) /\ \A k \in 1 .. Len(ws) : Copies(c, i, ws[k])

\* Bytes that a write hits.
Reaches(w, o) == w.offset < o /\ o <= w.offset + Len(w.bytes)

LEMMA LoadedIs ==
  ASSUME NEW c, NEW i, NEW t, NEW o, Size(c.target, t) \in Nat
  PROVE  /\ IsSequence(Loaded(c, i, t, o).bytes) /\ Len(Loaded(c, i, t, o).bytes) = Size(c.target, t)
         /\ \A k \in 1 .. Size(c.target, t) :
               Loaded(c, i, t, o).bytes[k]
               = IF o + k <= Size(c.target, TypeOf(c, i)) THEN <<i, o + k, "old">> ELSE << >>
         /\ Loaded(c, i, t, o).object = -1
  <1>. PICK s \in Nat : s = Size(c.target, t)
    OBVIOUS
  <1>. PICK f : f = Loaded(c, i, t, o).bytes
    OBVIOUS
  <1>1. f = [k \in 1 .. s |-> IF o + k <= Size(c.target, TypeOf(c, i)) THEN <<i, o + k, "old">>
                                                                      ELSE << >>]
    BY DEF Loaded
  <1>2. DOMAIN f = 1 .. s /\ f = [k \in 1 .. s |-> f[k]]
    BY <1>1
  <1>3. IsSequence(f) /\ Len(f) = s
    BY <1>2, FunctionIsSequence
  <1>4. Loaded(c, i, t, o).object = -1
    BY DEF Loaded
  <1>. QED
    BY <1>1, <1>3, <1>4

LEMMA BytesIs ==
  ASSUME NEW c, NEW i, NEW age, Size(c.target, TypeOf(c, i)) \in Nat
  PROVE  /\ IsSequence(Bytes(c, i, age)) /\ Len(Bytes(c, i, age)) = Size(c.target, TypeOf(c, i))
         /\ \A o \in 1 .. Size(c.target, TypeOf(c, i)) : Bytes(c, i, age)[o] = <<i, o, age>>
  <1>. PICK s \in Nat : s = Size(c.target, TypeOf(c, i))
    OBVIOUS
  <1>. PICK f : f = Bytes(c, i, age)
    OBVIOUS
  <1>1. f = [o \in 1 .. s |-> <<i, o, age>>]
    BY DEF Bytes
  <1>2. DOMAIN f = 1 .. s /\ f = [k \in 1 .. s |-> f[k]]
    BY <1>1
  <1>3. IsSequence(f) /\ Len(f) = s
    BY <1>2, FunctionIsSequence
  <1>. QED
    BY <1>1, <1>3

\* A number is reached through the distance to it.
LEMMA Distance ==
  ASSUME NEW a \in Nat, NEW l \in Nat, NEW o \in Nat, a < o, o <= a + l
  PROVE  o - a \in 1 .. l /\ a + (o - a) = o
  OBVIOUS

\* What copies write is right wherever they reach.
LEMMA CopiedIs ==
  ASSUME NEW c, NEW i, NEW n \in Nat, n = Size(c.target, TypeOf(c, i)), NEW ws, AllCopy(c, i, ws),
         NEW o \in 1 .. n, NEW k \in 1 .. Len(ws), Reaches(ws[k], o)
  PROVE  Written(n, ws)[o] = <<i, o, "old">>
  <1>0. IsSequence(ws) /\ DOMAIN ws = 1 .. Len(ws)
    BY LengthOf DEF AllCopy
  <1>1. k \in Hits(ws, o)
    BY <1>0 DEF Hits, Reaches
  <1>2. PICK w \in Hits(ws, o) : Written(n, ws)[o] = ws[w].bytes[o - ws[w].offset]
    BY SMTT(60), <1>0, <1>1, WrittenIs
  <1>3. w \in 1 .. Len(ws) /\ Reaches(ws[w], o)
    BY <1>0, <1>2 DEF Hits, Reaches
  <1>4. Copies(c, i, ws[w])
    BY <1>3 DEF AllCopy
  <1>5. PICK t, a : a \in Nat /\ Size(c.target, t) \in Nat /\ ws[w] = Write(a, Loaded(c, i, t, a).bytes)
    BY <1>4 DEF Copies
  <1>. PICK b : b = Loaded(c, i, t, a).bytes
    OBVIOUS
  <1>. PICK l \in Nat : l = Size(c.target, t)
    BY <1>5
  <1>6. ws[w].offset = a /\ ws[w].bytes = b
    BY <1>5 DEF Write
  <1>7. Len(b) = l /\ \A x \in 1 .. l : b[x] = IF a + x <= n THEN <<i, a + x, "old">> ELSE << >>
    BY LoadedIs
  <1>8. a < o /\ o <= a + l
    BY <1>3, <1>6, <1>7 DEF Reaches
  <1>9. o \in Nat /\ o <= n
    OBVIOUS
  <1>10. o - a \in 1 .. l /\ a + (o - a) = o
    BY <1>5, <1>8, <1>9, Distance
  <1>11. b[o - a] = <<i, o, "old">>
    BY <1>7, <1>9, <1>10
  <1>. QED
    BY <1>2, <1>6, <1>11

\* Copies that reach every byte of the members bring all of them.
LEMMA MembersAreBytes ==
  ASSUME NEW p, NEW t \in DataTypes
  PROVE  \A o \in MemberBytes(p, t) : o \in 1 .. Size(p, t)
  <1>1. CASE t.kind # "struct"
    BY <1>1 DEF MemberBytes
  <1>2. CASE t.kind = "struct"
    <2>. PICK n \in Nat : n = Len(t.elem)
      BY <1>2, StructIs
    <2>. PICK s \in Nat : s = Size(p, t)
      BY SizeIs
    <2>1. DOMAIN t.elem = 1 .. n
      BY <1>2, StructIs
    <2>2. ASSUME NEW i \in 1 .. n
          PROVE  \A o \in Offset(p, t, i) + 1 .. Offset(p, t, i) + Size(p, t.elem[i]) : o \in 1 .. s
      <3>1. Lies(p, t, i)
        BY <1>2, MembersLie
      <3>. PICK a \in Nat : a = Offset(p, t, i)
        BY <3>1 DEF Lies
      <3>. PICK l \in Nat : l = Size(p, t.elem[i])
        BY <3>1 DEF Lies
      <3>2. a + l <= s
        BY <3>1 DEF Lies
      <3>3. \A o \in a + 1 .. a + l : o \in 1 .. s
        BY <3>2
      <3>. QED
        BY <3>3
    <2>. QED
      BY <1>2, <2>1, <2>2 DEF MemberBytes
  <1>. QED
    BY <1>1, <1>2

LEMMA CopiesBring ==
  ASSUME NEW c, NEW i, NEW t \in DataTypes, TypeOf(c, i) = t, NEW ws, AllCopy(c, i, ws),
         \A o \in MemberBytes(c.target, t) : \E k \in 1 .. Len(ws) : Reaches(ws[k], o)
  PROVE  SameMembers(c.target, t, Written(Size(c.target, t), ws), Bytes(c, i, "old"))
  <1>. PICK n \in Nat : n = Size(c.target, t)
    BY SizeIs
  <1>. PICK a : a = Written(n, ws)
    OBVIOUS
  <1>. PICK b : b = Bytes(c, i, "old")
    OBVIOUS
  <1>1. Len(a) = n
    BY WrittenIs DEF AllCopy
  <1>2. Len(b) = n /\ \A o \in 1 .. n : b[o] = <<i, o, "old">>
    BY BytesIs
  <1>3. ASSUME NEW o \in MemberBytes(c.target, t) PROVE a[o] = b[o]
    <2>1. o \in 1 .. n
      BY MembersAreBytes
    <2>2. PICK k \in 1 .. Len(ws) : Reaches(ws[k], o)
      OBVIOUS
    <2>3. a[o] = <<i, o, "old">>
      BY <2>1, <2>2, CopiedIs
    <2>. QED
      BY <1>2, <2>1, <2>3
  <1>. QED
    BY <1>1, <1>2, <1>3 DEF SameMembers

\* A register loaded from a place and written to the same place.
LEMMA CopyIs ==
  ASSUME NEW c, NEW i, NEW t, NEW a \in Nat, NEW w, Size(c.target, t) \in Nat,
         w = Write(a, Loaded(c, i, t, a).bytes)
  PROVE  /\ Copies(c, i, w)
         /\ \A o : Reaches(w, o) <=> a < o /\ o <= a + Size(c.target, t)
  <1>. PICK b : b = Loaded(c, i, t, a).bytes
    OBVIOUS
  <1>1. w.offset = a /\ w.bytes = b
    BY DEF Write
  <1>2. Len(b) = Size(c.target, t)
    BY LoadedIs
  <1>3. Copies(c, i, w)
    BY DEF Copies
  <1>. QED
    BY <1>1, <1>2, <1>3 DEF Reaches

\* One write, two writes.
LEMMA OneCopy ==
  ASSUME NEW c, NEW i, NEW w, Copies(c, i, w)
  PROVE  AllCopy(c, i, <<w>>) /\ Len(<<w>>) = 1 /\ <<w>>[1] = w
  <1>. PICK ws : ws = <<w>>
    OBVIOUS
  <1>1. IsSequence(ws) /\ Len(ws) = 1 /\ ws[1] = w
    BY OneIs
  <1>2. \A k \in 1 .. 1 : k = 1
    OBVIOUS
  <1>. QED
    BY <1>1, <1>2 DEF AllCopy

LEMMA TwoCopies ==
  ASSUME NEW c, NEW i, NEW v, NEW w, Copies(c, i, v), Copies(c, i, w)
  PROVE  AllCopy(c, i, <<v, w>>) /\ Len(<<v, w>>) = 2 /\ <<v, w>>[1] = v /\ <<v, w>>[2] = w
  <1>. PICK ws : ws = <<v, w>>
    OBVIOUS
  <1>1. ws \in Seq({v, w}) /\ Len(ws) = 2 /\ ws[1] = v /\ ws[2] = w
    OBVIOUS
  <1>2. IsSequence(ws)
    BY <1>1, SequenceIs
  <1>3. \A k \in 1 .. 2 : k = 1 \/ k = 2
    OBVIOUS
  <1>. QED
    BY <1>1, <1>2, <1>3 DEF AllCopy

\* A variable's bytes, read at once.
LEMMA WholeIs ==
  ASSUME NEW c, NEW i, NEW t \in DataTypes, TypeOf(c, i) = t
  PROVE  Loaded(c, i, t, 0).bytes = Bytes(c, i, "old")
  <1>. PICK n \in Nat : n = Size(c.target, t)
    BY SizeIs
  <1>. PICK a : a = Loaded(c, i, t, 0).bytes
    OBVIOUS
  <1>. PICK b : b = Bytes(c, i, "old")
    OBVIOUS
  <1>1. /\ IsSequence(a) /\ Len(a) = n
        /\ \A k \in 1 .. n : a[k] = IF 0 + k <= n THEN <<i, 0 + k, "old">> ELSE << >>
    BY ZenonT(60), LoadedIs
  <1>2. IsSequence(b) /\ Len(b) = n /\ \A k \in 1 .. n : b[k] = <<i, k, "old">>
    BY BytesIs
  <1>3. \A k \in 1 .. n : 0 + k = k /\ k <= n
    OBVIOUS
  <1>4. \A k \in 1 .. n : a[k] = b[k]
    BY <1>1, <1>2, <1>3
  <1>5. a = b
    BY <1>1, <1>2, <1>4, SameSequence
  <1>. QED
    BY <1>5

-----------------------------------------------------------------------------
(* A parameter has its argument                                            *)

\* The member the second register begins with lies where it begins.
LEMMA PointerPassIdx ==
  ASSUME NEW p, NEW t \in DataTypes, t.kind = "struct", CanGetPointerAfterSize(p, t, 8)
  PROVE  Offset(p, t, GetPointerPassIdx(p, t, 8)) = 8
  <1>. PICK n \in Nat : n = Len(t.elem) /\ DOMAIN t.elem = 1 .. n
    BY StructIs
  <1>. DEFINE S == {i \in 1 .. n : Offset(p, t, i) = 8}
  <1>1. S \in SUBSET Nat /\ S # {}
    BY DEF CanGetPointerAfterSize
  <1>2. PICK i \in S : \A j \in S : i <= j
    <2>. HIDE DEF S
    <2>. QED
      BY <1>1, Least
  <1>3. \A j \in 1 .. i - 1 : Offset(p, t, j) # 8
    <2>1. \A j \in 1 .. i - 1 : j \in 1 .. n /\ ~(i <= j)
      BY <1>2
    <2>. QED
      BY <1>2, <2>1
  <1>4. i \in DOMAIN t.elem /\ Offset(p, t, i) = 8
    BY <1>2
  <1>. QED
    BY <1>3, <1>4 DEF GetPointerPassIdx

\* Through one register.
LEMMA OneRegisterBrings ==
  ASSUME NEW c, NEW i, NEW t \in DataTypes, TypeOf(c, i) = t, NEW r, Size(c.target, r) \in Nat,
         \A o \in MemberBytes(c.target, t) : o <= Size(c.target, r)
  PROVE  SameMembers(c.target, t, Written(Size(c.target, t), <<Write(0, Loaded(c, i, r, 0).bytes)>>),
                     Bytes(c, i, "old"))
  <1>. PICK w : w = Write(0, Loaded(c, i, r, 0).bytes)
    OBVIOUS
  <1>. PICK ws : ws = <<w>>
    OBVIOUS
  <1>. PICK l \in Nat : l = Size(c.target, r)
    OBVIOUS
  <1>1. Copies(c, i, w) /\ \A o : Reaches(w, o) <=> 0 < o /\ o <= 0 + l
    BY CopyIs
  <1>2. AllCopy(c, i, ws) /\ Len(ws) = 1 /\ ws[1] = w
    BY <1>1, OneCopy
  <1>3. \A o \in MemberBytes(c.target, t) : 0 < o /\ o <= 0 + l
    <2>. PICK n \in Nat : n = Size(c.target, t)
      BY SizeIs
    <2>1. \A o \in MemberBytes(c.target, t) : o \in 1 .. n /\ o <= l
      BY MembersAreBytes
    <2>2. \A o \in 1 .. n : 0 < o /\ (o <= l => o <= 0 + l)
      OBVIOUS
    <2>. QED
      BY <2>1, <2>2
  <1>4. \A o \in MemberBytes(c.target, t) : \E k \in 1 .. Len(ws) : Reaches(ws[k], o)
    <2>1. 1 \in 1 .. 1
      OBVIOUS
    <2>. QED
      BY <1>1, <1>2, <1>3, <2>1
  <1>. QED
    BY <1>2, <1>4, CopiesBring

\* Through two registers.
LEMMA TwoRegistersBring ==
  ASSUME NEW c, NEW i, NEW t \in DataTypes, TypeOf(c, i) = t, Size(c.target, t) \in {10, 12, 16}
  PROVE  SameMembers(c.target, t,
                     Written(Size(c.target, t),
                             <<Write(0, Loaded(c, i, Unsigned(8), 0).bytes),
                               Write(8, Loaded(c, i, Unsigned(Size(c.target, t) - 8), 8).bytes)>>),
                     Bytes(c, i, "old"))
  <1>. PICK n \in Nat : n = Size(c.target, t)
    BY SizeIs
  <1>. PICK l \in Nat : l = n - 8 /\ l \in {1, 2, 4, 8}
    OBVIOUS
  <1>. PICK v : v = Write(0, Loaded(c, i, Unsigned(8), 0).bytes)
    OBVIOUS
  <1>. PICK w : w = Write(8, Loaded(c, i, Unsigned(l), 8).bytes)
    OBVIOUS
  <1>0. Size(c.target, Unsigned(8)) = 8 /\ Size(c.target, Unsigned(l)) = l
    BY KnownSizes
  <1>1. Copies(c, i, v) /\ \A o : Reaches(v, o) <=> 0 < o /\ o <= 0 + 8
    BY <1>0, CopyIs
  <1>2. Copies(c, i, w) /\ \A o : Reaches(w, o) <=> 8 < o /\ o <= 8 + l
    BY <1>0, CopyIs
  <1>. PICK ws : ws = <<v, w>>
    OBVIOUS
  <1>3. AllCopy(c, i, ws) /\ Len(ws) = 2 /\ ws[1] = v /\ ws[2] = w
    BY <1>1, <1>2, TwoCopies
  <1>4. \A o \in MemberBytes(c.target, t) : \E k \in 1 .. Len(ws) : Reaches(ws[k], o)
    <2>1. \A o \in 1 .. n : (0 < o /\ o <= 0 + 8) \/ (8 < o /\ o <= 8 + l)
      OBVIOUS
    <2>2. \A o \in MemberBytes(c.target, t) : o \in 1 .. n
      BY MembersAreBytes
    <2>3. 1 \in 1 .. 2 /\ 2 \in 1 .. 2
      OBVIOUS
    <2>4. \A o \in 1 .. n : Reaches(v, o) \/ Reaches(w, o)
      BY <1>1, <1>2, <2>1
    <2>. QED
      BY <1>3, <2>2, <2>3, <2>4
  <1>5. SameMembers(c.target, t, Written(Size(c.target, t), ws), Bytes(c, i, "old"))
    BY <1>3, <1>4, CopiesBring
  <1>. QED
    BY <1>5

\* What a part of a struct of floats covers.
LEMMA PartCovers ==
  ASSUME NEW p, NEW t \in DataTypes, t.kind = "struct", IsStructAllFloats(t),
         NEW part, IsPart(t, part), NEW j \in 1 .. Len(t.elem), PartHolds(t, part, j)
  PROVE  /\ Offset(p, t, part.member) \in Nat /\ Size(p, part.type) \in Nat
         /\ \A o \in Offset(p, t, j) + 1 .. Offset(p, t, j) + Size(p, t.elem[j]) :
               /\ Offset(p, t, part.member) < o
               /\ o <= Offset(p, t, part.member) + Size(p, part.type)
  <1>. PICK n \in Nat : n = Len(t.elem) /\ DOMAIN t.elem = 1 .. n
    BY StructIs
  <1>. PICK k \in 1 .. n : k = part.member
    BY DEF IsPart
  <1>. PICK f : f = Basic("f32")
    OBVIOUS
  <1>0. Size(p, f) = 4 /\ Size(p, FloatVector) = 8
    BY KnownSizes
  <1>1. Lies(p, t, k) /\ Lies(p, t, j)
    BY MembersLie
  <1>. PICK a \in Nat : a = Offset(p, t, k)
    BY <1>1 DEF Lies
  <1>. PICK b \in Nat : b = Offset(p, t, j)
    BY <1>1 DEF Lies
  <1>. PICK l \in Nat : l = Size(p, t.elem[j])
    BY <1>1 DEF Lies
  <1>. PICK u : u = part.type
    OBVIOUS
  <1>2. Size(p, u) \in Nat
    <2>1. Size(p, t.elem[k]) \in Nat
      BY <1>1 DEF Lies
    <2>. QED
      BY <1>0, <2>1 DEF IsPart
  <1>. PICK s \in Nat : s = Size(p, u)
    BY <1>2
  <1>3. CASE k = j
    <2>1. a = b /\ l <= s
      <3>1. CASE u = t.elem[k]
        BY <1>3, <3>1
      <3>2. CASE u = FloatVector /\ SharesVector(t, k)
        <4>1. t.elem[k] = f
          BY <3>2 DEF SharesVector
        <4>2. l = 4 /\ s = 8
          BY <1>0, <1>3, <3>2, <4>1
        <4>. QED
          BY <1>3, <4>2
      <3>. QED
        BY <3>1, <3>2 DEF IsPart
    <2>2. \A o \in b + 1 .. b + l : a < o /\ o <= a + s
      BY <2>1
    <2>. QED
      BY <2>2
  <1>4. CASE j = k + 1 /\ u = FloatVector /\ SharesVector(t, k)
    <2>1. t.elem[k] = f /\ t.elem[j] = f /\ k + 1 <= n
      BY <1>4 DEF SharesVector
    <2>2. l = 4 /\ s = 8
      BY <1>0, <1>4, <2>1
    <2>3. LiesBehind(p, t, k)
      BY <2>1, MembersLie
    <2>4. CASE "union" \in t.flags
      <3>1. b = 0
        BY <1>4, <2>3, <2>4 DEF LiesBehind
      <3>2. a = 0
        <4>1. CASE k = 1
          BY <4>1, MembersLie
        <4>2. CASE k # 1
          <5>. PICK i \in 1 .. n : i + 1 = k
            <6>1. k - 1 \in 1 .. n /\ (k - 1) + 1 = k
              BY <4>2
            <6>. QED
              BY <6>1
          <5>0. i + 1 <= n
            OBVIOUS
          <5>1. LiesBehind(p, t, i)
            BY <5>0, MembersLie
          <5>. QED
            BY <2>4, <5>1 DEF LiesBehind
        <4>. QED
          BY <4>1, <4>2
      <3>3. \A o \in b + 1 .. b + l : a < o /\ o <= a + s
        BY <2>2, <3>1, <3>2
      <3>. QED
        BY <3>3
    <2>5. CASE "union" \notin t.flags
      <3>1. b = a + 4
        <4>1. Offset(p, t, k + 1) = Offset(p, t, k) + Size(p, t.elem[k])
          BY <1>4, <2>3, <2>5 DEF LiesBehind
        <4>. QED
          BY <1>0, <1>4, <2>1, <4>1
      <3>2. \A o \in b + 1 .. b + l : a < o /\ o <= a + s
        BY SMTT(60), <2>2, <3>1
      <3>. QED
        BY <3>2
    <2>. QED
      BY <2>4, <2>5
  <1>. QED
    BY <1>3, <1>4 DEF PartHolds

\* Through the registers of floats.
FloatWrite(c, i, t, k) ==
    LET part == FloatParts(t)[k]
        place == Offset(c.target, t, part.member)
    IN Write(place, Loaded(c, i, part.type, place).bytes)

LEMMA FloatsBring ==
  ASSUME NEW c, NEW i, NEW t \in DataTypes, TypeOf(c, i) = t, t.kind = "struct", IsStructAllFloats(t),
         NEW ws, IsSequence(ws), Len(ws) = Len(FloatParts(t)),
         \A k \in 1 .. Len(FloatParts(t)) : ws[k] = FloatWrite(c, i, t, k)
  PROVE  SameMembers(c.target, t, Written(Size(c.target, t), ws), Bytes(c, i, "old"))
  <1>. PICK p : p = c.target
    OBVIOUS
  <1>. PICK n \in Nat : n = Len(t.elem) /\ DOMAIN t.elem = 1 .. n
    BY StructIs
  <1>. PICK parts : parts = FloatParts(t)
    OBVIOUS
  <1>1. PartsHold(t, parts, 1)
    BY StructIs, FloatPartsHold
  <1>. PICK m \in Nat : m = Len(parts)
    BY <1>1, LengthOf DEF PartsHold
  <1>2. /\ \A k \in 1 .. m : IsPart(t, parts[k])
        /\ \A j \in 1 .. n : \E k \in 1 .. m : PartHolds(t, parts[k], j)
    BY <1>1 DEF PartsHold
  <1>3. ASSUME NEW k \in 1 .. m, NEW j \in 1 .. n, PartHolds(t, parts[k], j)
        PROVE  /\ Copies(c, i, ws[k])
               /\ \A o \in Offset(p, t, j) + 1 .. Offset(p, t, j) + Size(p, t.elem[j]) : Reaches(ws[k], o)
    <2>. PICK part : part = parts[k]
      OBVIOUS
    <2>. PICK a : a = Offset(p, t, part.member)
      OBVIOUS
    <2>. PICK u : u = part.type
      OBVIOUS
    <2>. PICK w : w = ws[k]
      OBVIOUS
    <2>1. IsPart(t, part) /\ PartHolds(t, part, j)
      BY <1>2, <1>3
    <2>2. /\ a \in Nat /\ Size(p, u) \in Nat
          /\ \A o \in Offset(p, t, j) + 1 .. Offset(p, t, j) + Size(p, t.elem[j]) :
                a < o /\ o <= a + Size(p, u)
      BY <2>1, PartCovers
    <2>3. w = Write(a, Loaded(c, i, u, a).bytes)
      BY DEF FloatWrite
    <2>4. Copies(c, i, w) /\ \A o : Reaches(w, o) <=> a < o /\ o <= a + Size(p, u)
      BY <2>2, <2>3, CopyIs
    <2>. QED
      BY <2>2, <2>4
  <1>4. ASSUME NEW k \in 1 .. m PROVE Copies(c, i, ws[k])
    <2>. PICK j \in 1 .. n : j = parts[k].member
      BY <1>2 DEF IsPart
    <2>1. PartHolds(t, parts[k], j)
      BY DEF PartHolds
    <2>. QED
      BY <1>3, <2>1
  <1>5. AllCopy(c, i, ws)
    BY <1>4 DEF AllCopy
  <1>6. ASSUME NEW o \in MemberBytes(p, t)
        PROVE  \E k \in 1 .. Len(ws) : Reaches(ws[k], o)
    <2>1. PICK j \in 1 .. n : o \in Offset(p, t, j) + 1 .. Offset(p, t, j) + Size(p, t.elem[j])
      BY DEF MemberBytes
    <2>2. PICK k \in 1 .. m : PartHolds(t, parts[k], j)
      BY <1>2
    <2>3. Reaches(ws[k], o)
      BY <1>3, <2>1, <2>2
    <2>. QED
      BY <2>3
  <1>. QED
    BY <1>5, <1>6, CopiesBring

\* What is passed for a struct of floats, one by one.
LEMMA FloatsAre ==
  ASSUME NEW c, NEW i, NEW t \in DataTypes, TypeOf(c, i) = t, AsFloats(c, i, t)
  PROVE  /\ DOMAIN Lowered(c, i) = 1 .. Len(FloatParts(t)) /\ Len(FloatParts(t)) \in Nat
         /\ \A k \in 1 .. Len(FloatParts(t)) :
               Lowered(c, i)[k] = Loaded(c, i, FloatParts(t)[k].type,
                                         Offset(c.target, t, FloatParts(t)[k].member))
  <1>. PICK parts : parts = FloatParts(t)
    OBVIOUS
  <1>. PICK v : v = Lowered(c, i)
    OBVIOUS
  <1>1. PartsHold(t, parts, 1)
    BY StructIs, FloatPartsHold DEF AsFloats
  <1>2. IsSequence(parts)
    BY <1>1 DEF PartsHold
  <1>. PICK m \in Nat : m = Len(parts) /\ DOMAIN parts = 1 .. m
    BY <1>2, LengthOf
  <1>3. v = [k \in 1 .. m |-> Loaded(c, i, parts[k].type, Offset(c.target, t, parts[k].member))]
    BY DEF AsFloats
  <1>. QED
    BY <1>3

\* Generated code puts every float where it was taken.
LEMMA GeneratedBrings ==
  ASSUME NEW c, NEW i, NEW t \in DataTypes, TypeOf(c, i) = t, AsFloats(c, i, t)
  PROVE  SameMembers(c.target, t,
                     Written(Size(c.target, t), GeneratedFloats(c.target, t, Lowered(c, i))),
                     Bytes(c, i, "old"))
  <1>. PICK parts : parts = FloatParts(t)
    OBVIOUS
  <1>. PICK v : v = Lowered(c, i)
    OBVIOUS
  <1>. PICK m \in Nat : m = Len(parts)
    BY FloatsAre
  <1>1. /\ DOMAIN v = 1 .. m
        /\ \A k \in 1 .. m :
              v[k] = Loaded(c, i, parts[k].type, Offset(c.target, t, parts[k].member))
    BY FloatsAre
  <1>. PICK ws : ws = GeneratedFloats(c.target, t, v)
    OBVIOUS
  <1>2. ws = [k \in 1 .. m |-> Write(Offset(c.target, t, parts[k].member), v[k].bytes)]
    BY <1>1 DEF GeneratedFloats
  <1>3. DOMAIN ws = 1 .. m /\ ws = [k \in 1 .. m |-> ws[k]]
    BY <1>2
  <1>4. IsSequence(ws) /\ Len(ws) = m
    BY <1>3, FunctionIsSequence
  <1>5. \A k \in 1 .. m : ws[k] = FloatWrite(c, i, t, k)
    BY <1>1, <1>2 DEF FloatWrite
  <1>6. t.kind = "struct" /\ IsStructAllFloats(t)
    BY DEF AsFloats
  <1>. QED
    BY <1>4, <1>5, <1>6, FloatsBring

\* The interpreter finds the vector of a pair.
LEMMA InterpreterPair ==
  ASSUME NEW p, NEW t, t.elem = <<Basic("f32"), Basic("f32")>>
  PROVE  /\ InterpreterParts(t) = FloatParts(t) /\ DOMAIN InterpreterParts(t) = {1}
         /\ InterpreterOffsets(p, t)[1] = 0 /\ ~Misaligned(p, t)
  <1>. PICK part : part = [type |-> FloatVector, member |-> 1]
    OBVIOUS
  <1>. PICK parts : parts = <<part>>
    OBVIOUS
  <1>0. FloatParts(t) = parts /\ Len(parts) = 1 /\ parts[1] = part /\ DOMAIN parts = {1}
    <2>1. Len(parts) = 1 /\ parts[1] = part /\ DOMAIN parts = {1}
      <3>1. IsSequence(parts) /\ Len(parts) = 1 /\ parts[1] = part
        BY OneIs
      <3>2. DOMAIN parts = 1 .. 1 /\ 1 .. 1 = {1}
        BY <3>1, LengthOf
      <3>. QED
        BY <3>1, <3>2
    <2>. QED
      BY <2>1, PartsOfPair
  <1>1. InterpreterParts(t) = parts
    BY <1>0 DEF InterpreterParts
  <1>. DEFINE F(f) == [k \in {1} |-> IF k = 1 THEN 0 ELSE f[k - 1] + Size(p, parts[k - 1].type)]
  <1>2. InterpreterOffsets(p, t) = CHOOSE f : f = F(f)
    BY <1>0, <1>1 DEF InterpreterOffsets
  <1>3. \E f : f = F(f)
    <2>. PICK g : g = [k \in {1} |-> 0]
      OBVIOUS
    <2>1. g = F(g)
      OBVIOUS
    <2>. QED
      BY <2>1
  <1>. PICK g : g = InterpreterOffsets(p, t)
    OBVIOUS
  <1>4. g = F(g)
    BY <1>2, <1>3
  <1>5. g[1] = 0
    BY <1>4
  <1>6. ~Misaligned(p, t)
    <2>1. 0 % 16 = 0
      OBVIOUS
    <2>. QED
      BY <1>0, <1>1, <1>5, <2>1 DEF Misaligned
  <1>. QED
    BY <1>0, <1>1, <1>5, <1>6

LEMMA InterpreterBrings ==
  ASSUME NEW c, NEW i, NEW t \in DataTypes, TypeOf(c, i) = t, AsFloats(c, i, t),
         t.elem = <<Basic("f32"), Basic("f32")>>
  PROVE  SameMembers(c.target, t,
                     Written(Size(c.target, t), InterpreterFloats(c.target, t, Lowered(c, i))),
                     Bytes(c, i, "old"))
  <1>. PICK p : p = c.target
    OBVIOUS
  <1>. PICK v : v = Lowered(c, i)
    OBVIOUS
  <1>. PICK parts : parts = FloatParts(t)
    OBVIOUS
  <1>. PICK part : part = [type |-> FloatVector, member |-> 1]
    OBVIOUS
  <1>0. parts = <<part>> /\ Len(<<part>>) = 1 /\ <<part>>[1] = part
    BY PartsOfPair, OneIs
  <1>1. v[1] = Loaded(c, i, part.type, Offset(p, t, part.member))
    <2>1. Len(parts) = 1 /\ parts[1] = part /\ 1 \in 1 .. 1
      BY <1>0
    <2>2. 1 \in 1 .. Len(parts)
      BY <2>1
    <2>3. v[1] = Loaded(c, i, parts[1].type, Offset(p, t, parts[1].member))
      BY <2>2, FloatsAre
    <2>. QED
      BY <2>1, <2>3
  <1>. PICK ws : ws = InterpreterFloats(p, t, v)
    OBVIOUS
  <1>2. ws = [k \in {1} |-> Write(InterpreterOffsets(p, t)[k], v[k].bytes)]
    BY InterpreterPair DEF InterpreterFloats
  <1>3. t.kind = "struct" /\ IsStructAllFloats(t)
    BY DEF AsFloats
  <1>4. Offset(p, t, 1) = 0 /\ part.member = 1
    BY <1>3, MembersLie
  <1>5. ws[1] = FloatWrite(c, i, t, 1)
    BY <1>0, <1>1, <1>2, <1>4, InterpreterPair DEF FloatWrite
  <1>6. IsSequence(ws) /\ Len(ws) = 1
    <2>1. 1 .. 1 = {1}
      OBVIOUS
    <2>2. DOMAIN ws = 1 .. 1 /\ ws = [k \in 1 .. 1 |-> ws[k]]
      BY <1>2, <2>1
    <2>. QED
      BY <2>2, FunctionIsSequence
  <1>7. Len(parts) = 1 /\ \A k \in 1 .. 1 : ws[k] = FloatWrite(c, i, t, k)
    BY <1>0, <1>5
  <1>8. \A k \in 1 .. Len(FloatParts(t)) : ws[k] = FloatWrite(c, i, t, k)
    BY <1>7
  <1>9. Len(ws) = Len(FloatParts(t))
    BY <1>6, <1>7
  <1>. QED
    BY <1>3, <1>6, <1>8, <1>9, FloatsBring

\* Nothing differs from itself.
LEMMA SameAsItself ==
  ASSUME NEW p, NEW t, NEW a, NEW b, a = b
  PROVE  SameMembers(p, t, a, b)
  BY DEF SameMembers

\* The load of a parameter.
LEMMA LoadIs ==
  ASSUME NEW p, NEW t, NEW load, NEW ts, Parameter(p, t) = Location(load, ts)
  PROVE  Parameter(p, t).load = load
  BY DEF Location

\* What a parameter should hold.
Due(c, later, i) ==
    IF PassedByAddress(c.target, TypeOf(c, i)) THEN Now(c, later, i) ELSE Bytes(c, i, "old")

\* A parameter of a value that has its own register, or of a function, or of
\* what is behind an address.
LEMMA NormalReceived ==
  ASSUME NEW c \in CallSites, NEW later, NEW m, NEW i \in Nat, NEW t \in DataTypes, TypeOf(c, i) = t,
         NEW v,
         \/ ByValue(c, i, t) /\ v = Loaded(c, i, t, 0)
         \/ AsFunction(c, i, t) /\ v = Loaded(c, i, t, 0)
         \/ ByAddress(c, i, t) /\ v = AddressOf(i)
  PROVE  Received(c, later, m, t, <<v>>) = Due(c, later, i)
  <1>. PICK p : p = c.target
    OBVIOUS
  <1>. PICK vs : vs = <<v>>
    OBVIOUS
  <1>0. vs[1] = v
    BY OneIs
  <1>1. Parameter(p, t).load = "normal"
    BY LoadIs DEF ByValue, AsFunction, ByAddress
  <1>2. Received(c, later, m, t, vs)
        = IF IsLoadableType(t) THEN v.bytes ELSE Pointee(c, later, v)
    BY <1>0, <1>1 DEF Received
  <1>3. CASE ByValue(c, i, t) /\ v = Loaded(c, i, t, 0)
    <2>1. IsLoadableType(t) /\ ~PassedByAddress(p, t)
      BY <1>3 DEF ByValue, PassedByAddress, HasAddress
    <2>. QED
      BY <1>2, <1>3, <2>1, WholeIs DEF Due
  <1>4. CASE AsFunction(c, i, t) /\ v = Loaded(c, i, t, 0)
    <2>1. ~IsLoadableType(t) /\ ~PassedByAddress(p, t)
      BY <1>4 DEF AsFunction, PassedByAddress, HasAddress, IsLoadableType
    <2>2. v.object = -1
      BY <1>4 DEF Loaded
    <2>. QED
      BY <1>2, <1>4, <2>1, <2>2, WholeIs DEF Due, Pointee
  <1>5. CASE ByAddress(c, i, t) /\ v = AddressOf(i)
    <2>1. ~IsLoadableType(t) /\ PassedByAddress(p, t)
      BY <1>1, <1>5 DEF ByAddress, PassedByAddress, HasAddress
    <2>2. v.object = i /\ i # -1
      BY <1>5 DEF AddressOf
    <2>. QED
      BY <1>2, <2>1, <2>2 DEF Due, Pointee
  <1>. QED
    BY <1>3, <1>4, <1>5

\* A native function's parameter has the argument that was lowered for it.
LEMMA LoweredReceived ==
  ASSUME NEW c \in CallSites, ~c.fn.foreign, NEW later, NEW m, NEW i \in 1 .. Len(c.fn.params),
         ~LostInInterpreter(c, m, i), NEW t \in DataTypes, t = c.fn.params[i], TypeOf(c, i) = t
  PROVE  SameMembers(c.target, t, Received(c, later, m, t, Lowered(c, i)), Due(c, later, i))
  <1>. PICK p : p = c.target
    OBVIOUS
  <1>. PICK s \in Nat : s = Size(p, t)
    BY SizeIs
  <1>0. i \in Nat /\ i <= Len(c.fn.params)
    BY CallSiteIs
  <1>1. CASE ByValue(c, i, t) \/ AsFunction(c, i, t)
    <2>. PICK v : v = Loaded(c, i, t, 0)
      OBVIOUS
    <2>1. Lowered(c, i) = <<v>>
      BY <1>1 DEF ByValue, AsFunction
    <2>2. Received(c, later, m, t, <<v>>) = Due(c, later, i)
      BY <1>0, <1>1, NormalReceived
    <2>. QED
      BY <2>1, <2>2, SameAsItself
  <1>2. CASE ByAddress(c, i, t)
    <2>. PICK v : v = AddressOf(i)
      OBVIOUS
    <2>1. Lowered(c, i) = <<v>>
      BY <1>2 DEF ByAddress, PassAddress
    <2>2. Received(c, later, m, t, <<v>>) = Due(c, later, i)
      BY SMTT(60), <1>0, <1>2, NormalReceived
    <2>. QED
      BY <2>1, <2>2, SameAsItself
  <1>3. CASE AsMember(c, i, t)
    <2>. PICK r : r = t.elem[1]
      OBVIOUS
    <2>. PICK v : v = Loaded(c, i, r, 0)
      OBVIOUS
    <2>0. t.kind = "struct" /\ Lowered(c, i) = <<v>> /\ <<v>>[1] = v
      BY <1>3, OneIs DEF AsMember
    <2>1. Parameter(p, t).load = "int"
      BY <1>3, LoadIs DEF AsMember
    <2>2. ~PassedByAddress(p, t)
      BY <2>1 DEF PassedByAddress
    <2>3. Len(t.elem) = 1 /\ r \in DataTypes
      BY <1>3, <2>0, StructIs DEF AsMember, OneMember
    <2>. PICK l \in Nat : l = Size(p, r)
      BY SMTT(60), <2>3, SizeIs
    <2>4. \A o \in MemberBytes(p, t) : o <= l
      <3>1. DOMAIN t.elem = {1}
        <4>1. DOMAIN t.elem = 1 .. 1 /\ 1 .. 1 = {1}
          BY <2>0, <2>3, StructIs
        <4>. QED
          BY <4>1
      <3>2. Offset(p, t, 1) = 0
        BY <2>0, MembersLie
      <3>3. \A o \in 0 + 1 .. 0 + l : o <= l
        OBVIOUS
      <3>. QED
        BY <2>0, <3>1, <3>2, <3>3 DEF MemberBytes
    <2>5. SameMembers(p, t, Written(s, <<Write(0, v.bytes)>>), Bytes(c, i, "old"))
      BY <2>4, OneRegisterBrings
    <2>6. Received(c, later, m, t, Lowered(c, i)) = Written(s, <<Write(0, v.bytes)>>)
      BY <2>0, <2>1 DEF Received
    <2>. QED
      BY <2>2, <2>5, <2>6 DEF Due
  <1>4. CASE AsInt(c, i, t)
    <2>. PICK r : r = Unsigned(s)
      OBVIOUS
    <2>. PICK v : v = Loaded(c, i, r, 0)
      OBVIOUS
    <2>0. Lowered(c, i) = <<v>> /\ <<v>>[1] = v /\ s \in {1, 2, 4, 8}
      BY <1>4, OneIs DEF AsInt
    <2>1. Parameter(p, t).load = "int"
      BY <1>4, LoadIs DEF AsInt
    <2>2. ~PassedByAddress(p, t)
      BY <2>1 DEF PassedByAddress
    <2>3. Size(p, r) = s
      BY <2>0, KnownSizes
    <2>4. \A o \in MemberBytes(p, t) : o <= s
      <3>1. \A o \in MemberBytes(p, t) : o \in 1 .. s
        BY MembersAreBytes
      <3>. QED
        BY <3>1
    <2>5. SameMembers(p, t, Written(s, <<Write(0, v.bytes)>>), Bytes(c, i, "old"))
      BY <2>3, <2>4, OneRegisterBrings
    <2>6. Received(c, later, m, t, Lowered(c, i)) = Written(s, <<Write(0, v.bytes)>>)
      BY <2>0, <2>1 DEF Received
    <2>. QED
      BY <2>2, <2>5, <2>6 DEF Due
  <1>5. CASE AsInts(c, i, t)
    <2>. PICK o : o = Offset(p, t, GetPointerPassIdx(p, t, 8))
      OBVIOUS
    <2>. PICK v : v = Loaded(c, i, Unsigned(8), 0)
      OBVIOUS
    <2>. PICK w : w = Loaded(c, i, Unsigned(s - 8), 8)
      OBVIOUS
    <2>0. t.kind = "struct" /\ CanGetPointerAfterSize(p, t, 8) /\ s \in {10, 12, 16}
      BY <1>5 DEF AsInts
    <2>00. o = 8
      BY <2>0, PointerPassIdx
    <2>. PICK vs : vs = <<v, w>>
      OBVIOUS
    <2>1. Lowered(c, i) = vs /\ vs[1] = v /\ vs[2] = w
      BY <1>5, <2>00 DEF AsInts
    <2>2. Parameter(p, t).load = "multi int"
      <3>. PICK ts : ts = <<Unsigned(8), Unsigned(s - 8)>>
        OBVIOUS
      <3>1. Parameter(p, t) = Location("multi int", ts)
        BY <1>5 DEF AsInts
      <3>. QED
        BY <3>1, LoadIs
    <2>3. ~PassedByAddress(p, t)
      BY <2>2 DEF PassedByAddress
    <2>4. Received(c, later, m, t, vs) = Written(s, <<Write(0, v.bytes), Write(8, w.bytes)>>)
      BY <2>00, <2>1, <2>2 DEF Received
    <2>5. SameMembers(p, t, Written(s, <<Write(0, v.bytes), Write(8, w.bytes)>>), Bytes(c, i, "old"))
      BY <2>0, TwoRegistersBring
    <2>. QED
      BY <2>1, <2>3, <2>4, <2>5 DEF Due
  <1>6. CASE AsFloats(c, i, t)
    <2>. PICK vs : vs = Lowered(c, i)
      OBVIOUS
    <2>1. Parameter(p, t).load = "floats"
      BY <1>6, LoadIs DEF AsFloats
    <2>2. ~PassedByAddress(p, t)
      BY <2>1 DEF PassedByAddress
    <2>3. CASE m # "interpreter"
      <3>1. Received(c, later, m, t, vs) = Written(s, GeneratedFloats(p, t, vs))
        BY <2>1, <2>3 DEF Received
      <3>. QED
        BY <1>6, <2>2, <3>1, GeneratedBrings DEF Due
    <2>4. CASE m = "interpreter"
      <3>1. Received(c, later, m, t, vs) = Written(s, InterpreterFloats(p, t, vs))
        BY <2>1, <2>4 DEF Received
      <3>2. t.elem = <<Basic("f32"), Basic("f32")>>
        BY <1>0, <2>1, <2>4 DEF LostInInterpreter
      <3>. QED
        BY <1>6, <2>2, <3>1, <3>2, InterpreterBrings DEF Due
    <2>. QED
      BY <2>3, <2>4
  <1>. QED
    BY <1>1, <1>2, <1>3, <1>4, <1>5, <1>6, Ways

\* So has one that has a default, unless the default is of a struct.
LEMMA DefaultReceived ==
  ASSUME NEW c \in CallSites, NEW later, NEW m, NEW i \in 1 .. Len(c.fn.params),
         NEW t \in DataTypes, t = c.fn.params[i], TypeOf(c, i) = t, ~PassedByMembers(c.target, t)
  PROVE  Received(c, later, m, t, <<Expression(c, i)>>) = Due(c, later, i)
  <1>. PICK v : v = Expression(c, i)
    OBVIOUS
  <1>0. i \in Nat
    BY CallSiteIs
  <1>1. CASE ByValue(c, i, t) \/ AsFunction(c, i, t)
    <2>1. v = Loaded(c, i, t, 0)
      BY <1>1 DEF ByValue, AsFunction
    <2>. QED
      BY <1>0, <1>1, <2>1, NormalReceived
  <1>2. CASE ByAddress(c, i, t)
    <2>1. v = AddressOf(i)
      BY <1>2 DEF ByAddress, Expression
    <2>. QED
      BY <1>0, <1>2, <2>1, NormalReceived
  <1>. DEFINE load == Parameter(c.target, t).load
  <1>3. CASE t.kind = "struct" /\ load \in {"int", "multi int", "floats"}
    <2>1. ~IsLoadableType(t)
      BY <1>3 DEF IsLoadableType
    <2>. QED
      BY <1>3, <2>1 DEF PassedByMembers
  <1>4. AsMember(c, i, t) \/ AsInt(c, i, t) => t.kind = "struct" /\ load = "int"
    BY LoadIs DEF AsMember, AsInt
  <1>5. AsFloats(c, i, t) => t.kind = "struct" /\ load = "floats"
    BY LoadIs DEF AsFloats
  <1>6. AsInts(c, i, t) => t.kind = "struct" /\ load = "multi int"
    <2>. PICK ts : ts = <<Unsigned(8), Unsigned(Size(c.target, t) - 8)>>
      OBVIOUS
    <2>1. AsInts(c, i, t) => t.kind = "struct" /\ Parameter(c.target, t) = Location("multi int", ts)
      BY DEF AsInts
    <2>. QED
      BY <2>1, LoadIs
  <1>. HIDE DEF load
  <1>. QED
    BY <1>1, <1>2, <1>3, <1>4, <1>5, <1>6, Ways

\* Every parameter of a native function has its argument.
LEMMA ParameterArrives ==
  ASSUME NEW c, FittingCall(c), NEW later, NEW m, NEW i \in 1 .. Len(c.fn.params),
         ~LostInInterpreter(c, m, i), ~WrappedDefault(c, i)
  PROVE  Arrives(c, later, i,
                 Received(c, later, m, c.fn.params[i], ValuesOf(c, Passed(c), i)))
  <1>0. c \in CallSites /\ ~c.fn.foreign
    BY DEF FittingCall
  <1>. PICK t \in DataTypes : t = c.fn.params[i] /\ TypeOf(c, i) = t
    BY <1>0, TypeOfIs
  <1>. PICK h : h = ValuesOf(c, Passed(c), i)
    OBVIOUS
  <1>1. h = Handed(c, i) /\ Matches(Handed(c, i), Types(c, i))
    BY ValuesAlign
  <1>2. i <= Len(c.fn.params) /\ i \in Nat /\ c.given \in Nat
    BY <1>0, CallSiteIs
  <1>3. SameMembers(c.target, t, Received(c, later, m, t, h), Due(c, later, i))
    <2>1. CASE i <= c.given
      <3>1. h = Lowered(c, i)
        BY <1>1, <2>1 DEF Handed
      <3>. QED
        BY <1>0, <3>1, LoweredReceived
    <2>2. CASE ~(i <= c.given)
      <3>1. h = <<Expression(c, i)>>
        BY <1>1, <1>2, <2>2 DEF Handed
      <3>2. i > c.given
        BY <1>2, <2>2
      <3>3. ~PassedByMembers(c.target, t)
        BY <1>0, <1>1, <3>2, HandedMatches
      <3>4. Received(c, later, m, t, <<Expression(c, i)>>) = Due(c, later, i)
        BY <1>0, <3>3, DefaultReceived
      <3>. QED
        BY <3>1, <3>4, SameAsItself
    <2>. QED
      BY <2>1, <2>2
  <1>4. ~(i > Len(c.fn.params))
    BY <1>0, <1>2, CallSiteIs
  <1>. QED
    BY <1>3, <1>4 DEF Arrives, Due

\* So has that of the variadic ones.
LEMMA SliceArrives ==
  ASSUME NEW c, FittingCall(c), NEW later, c.fn.varargs, ~SliceBehindResult(c)
  PROVE  Arrives(c, later, Len(c.fn.params) + 1,
                 Pointee(c, later,
                         Passed(c)[IF c.fn.params = << >> THEN 1 ELSE Start(c, Len(c.fn.params) + 1)]))
  <1>0. c \in CallSites
    BY DEF FittingCall
  <1>. PICK n \in Nat : n = Len(c.fn.params)
    BY <1>0, CallSiteIs
  <1>. PICK v : v = Passed(c)[IF c.fn.params = << >> THEN 1 ELSE Start(c, Len(c.fn.params) + 1)]
    OBVIOUS
  <1>1. v = Slice(c)
    BY SliceAligns
  <1>2. Pointee(c, later, v) = ExtraBytes(c)[Len(c.extra)]
    BY <1>1 DEF Pointee, Slice, AddressOfMemory
  <1>3. n + 1 > n
    OBVIOUS
  <1>. QED
    BY <1>2, <1>3 DEF Arrives

\* The interpreter only stores a vector badly when it loses something.
LEMMA BadStoreIsLoss ==
  ASSUME NEW c \in CallSites, NEW m, NEW i \in 1 .. Len(c.fn.params), StoresBadly(c, m, c.fn.params[i])
  PROVE  LostInInterpreter(c, m, i)
  <1>. PICK t : t = c.fn.params[i]
    OBVIOUS
  <1>1. ~(i > Len(c.fn.params))
    BY CallSiteIs
  <1>2. t.elem # <<Basic("f32"), Basic("f32")>>
    BY InterpreterPair DEF StoresBadly
  <1>. QED
    BY <1>1, <1>2 DEF StoresBadly, LostInInterpreter

-----------------------------------------------------------------------------
(* The result                                                              *)

\* What size a result in a register has.
LEMMA SmallResult ==
  ASSUME NEW p, NEW t \in DataTypes, t.kind \in {"struct", "array"}, ~IsRetTypePassInPointer(p, t)
  PROVE  Size(p, t) \in {1, 2, 4, 8}
  <1>1. t.kind # "function" /\ ~IsLoadableType(t)
    BY DEF IsLoadableType
  <1>. QED
    BY <1>1 DEF IsRetTypePassInPointer

\* Strings and slices are returned through memory.
LEMMA BigResult ==
  ASSUME NEW p, NEW t \in DataTypes, p \in Targets, HasAddress(t), t.kind \notin {"struct", "array"}
  PROVE  IsRetTypePassInPointer(p, t)
  <1>1. ~IsLoadableType(t) /\ t.kind # "function"
    BY DEF HasAddress
  <1>2. CASE t.kind = "slice"
    BY <1>2 DEF IsRetTypePassInPointer
  <1>3. CASE IsString(t)
    <2>1. t.kind = "basic" /\ t = Basic(t.name) /\ t.name = "string"
      <3>1. t.kind = "basic" /\ "string" \in BasicFlags(t.name)
        BY <1>3 DEF IsString, Flag
      <3>2. t = Basic(t.name)
        BY <3>1, TypesAssumption
      <3>3. t.name = "string"
        BY <3>1 DEF BasicFlags, SignedInts, UnsignedInts, Floats
      <3>. QED
        BY <3>1, <3>2, <3>3
    <2>2. t = Basic_string
      BY <2>1 DEF Basic_string
    <2>3. Size(p, t) = 2 * Width(p)
      <3>. PICK w \in {4, 8} : w = Width(p)
        BY DEF Width
      <3>1. TypeSize(w, Basic_string) = 2 * w
        BY LayoutAssumption
      <3>. QED
        BY <2>2, <3>1 DEF Size
    <2>4. CASE p \in {"unix64", "windows64"}
      <3>1. Size(p, t) = 16
        BY <2>3, <2>4 DEF Width
      <3>. QED
        BY <1>1, <3>1 DEF IsRetTypePassInPointer
    <2>5. CASE p \notin {"unix64", "windows64"}
      <3>1. Size(p, t) = 8 /\ p \in {"x86", "wasm32"}
        BY <2>3, <2>5, TargetsAssumption DEF Width
      <3>. QED
        BY <1>1, <3>1 DEF IsRetTypePassInPointer
    <2>. QED
      BY <2>4, <2>5
  <1>. QED
    BY <1>1, <1>2, <1>3 DEF IsLoadableType

\* Numbers: neither none nor one.
LEMMA MoreThanOne ==
  ASSUME NEW n \in Nat \ {0}, n # 1
  PROVE  n > 1
  OBVIOUS

\* The caller's memory has what was returned.
Stored(c, later) ==
    IF RetInPtr(c) THEN Pointee(c, later, ReturnOperand(c))
    ELSE Written(Size(c.target, ResultType(c)), <<Write(0, ReturnOperand(c).bytes)>>)

LEMMA ResultIsStored ==
  ASSUME NEW c \in CallSites, Returns(c), ~NoReturnType(c.target, ResultType(c)),
         RetInPtr(c) <=> ResultInPointer(c), NEW later
  PROVE  SameMembers(c.target, ResultType(c), Stored(c, later),
                     IF RetInPtr(c) THEN Now(c, later, 0) ELSE Bytes(c, 0, "old"))
  <1>. PICK t \in DataTypes : t = ResultType(c) /\ TypeOf(c, 0) = t
    BY CallSiteIs, TypeOfIs
  <1>. PICK p : p = c.target /\ p \in Targets
    BY CallSiteIs
  <1>. PICK s \in Nat : s = Size(p, t)
    BY SizeIs
  <1>1. CASE RetInPtr(c)
    <2>1. IsRetTypePassInPointer(p, t) /\ ResultInPointer(c)
      BY <1>1 DEF ResultInPointer
    <2>2. HasAddress(t)
      BY <2>1 DEF IsRetTypePassInPointer, HasAddress, IsLoadableType
    <2>3. ReturnOperand(c) = AddressOf(0)
      BY <2>1, <2>2 DEF ReturnOperand, Expression
    <2>4. Pointee(c, later, AddressOf(0)) = Now(c, later, 0)
      <3>1. AddressOf(0).object = 0 /\ 0 # -1
        BY DEF AddressOf
      <3>. QED
        BY <3>1 DEF Pointee
    <2>. QED
      BY <1>1, <2>3, <2>4, SameAsItself DEF Stored
  <1>2. CASE ~RetInPtr(c)
    <2>1. ~IsRetTypePassInPointer(p, t) /\ ~ResultInPointer(c)
      BY <1>2 DEF ResultInPointer
    <2>. PICK r : r = IF t.kind \in {"struct", "array"} THEN ReturnedWrongType(p, t) ELSE t
      OBVIOUS
    <2>2. ReturnOperand(c) = Loaded(c, 0, r, 0)
      <3>1. CASE t.kind \in {"struct", "array"}
        BY <2>1, <3>1 DEF ReturnOperand
      <3>2. CASE t.kind \notin {"struct", "array"}
        <4>1. ~HasAddress(t)
          BY <2>1, <3>2, BigResult
        <4>. QED
          BY <3>2, <4>1 DEF ReturnOperand, Expression
      <3>. QED
        BY <3>1, <3>2
    <2>3. Size(p, r) \in Nat /\ \A o \in MemberBytes(p, t) : o <= Size(p, r)
      <3>0. \A o \in MemberBytes(p, t) : o \in 1 .. s
        BY MembersAreBytes
      <3>1. CASE Size(p, r) = s
        <4>1. \A o \in 1 .. s : o <= s
          OBVIOUS
        <4>. QED
          BY <3>0, <3>1, <4>1
      <3>2. CASE t.kind \notin {"struct", "array"}
        BY <3>1, <3>2
      <3>3. CASE t.kind \in {"struct", "array"} /\ ~(t.kind = "struct" /\ IsStructAllFloats(t) /\ IsSysVSystem(p))
        <4>1. r = Unsigned(s)
          BY <3>3 DEF ReturnedWrongType, ComplexTypeToSizeType
        <4>2. Size(p, r) = s
          BY <2>1, <3>3, <4>1, SmallResult, KnownSizes
        <4>. QED
          BY <3>1, <4>2
      <3>4. CASE t.kind = "struct" /\ IsStructAllFloats(t) /\ IsSysVSystem(p)
        <4>. PICK n \in Nat : n = Len(t.elem) /\ DOMAIN t.elem = 1 .. n
          BY <3>4, StructIs
        <4>1. r = AllFloatsStructToReturnType(t)
          BY <3>4 DEF ReturnedWrongType
        <4>2. CASE n = 1
          <5>1. r = t.elem[1] /\ r \in DataTypes
            BY <3>4, <4>1, <4>2, StructIs DEF AllFloatsStructToReturnType
          <5>. PICK l \in Nat : l = Size(p, r)
            BY <5>1, SizeIs
          <5>2. DOMAIN t.elem = {1}
            <6>1. 1 .. 1 = {1}
              OBVIOUS
            <6>. QED
              BY <4>2, <6>1
          <5>3. Offset(p, t, 1) = 0
            BY <3>4, MembersLie
          <5>4. \A o \in 0 + 1 .. 0 + l : o <= l
            OBVIOUS
          <5>5. \A o \in MemberBytes(p, t) : o <= l
            BY <3>4, <5>1, <5>2, <5>3, <5>4 DEF MemberBytes
          <5>. QED
            BY <5>5
        <4>3. CASE n # 1
          <5>0. n > 1
            <6>1. n \in Nat \ {0}
              BY <3>4, StructIs
            <6>. QED
              BY <4>3, <6>1, MoreThanOne
          <5>1. t.elem = <<Basic("f32"), Basic("f32")>>
            BY <2>1, <3>4, <5>0 DEF NoReturnType
          <5>2. r = FloatVector
            BY <4>1, <4>3 DEF AllFloatsStructToReturnType
          <5>3. Size(p, r) = 8 /\ s \in {1, 2, 4, 8}
            BY <2>1, <3>4, <5>2, KnownSizes, SmallResult
          <5>4. \A o \in 1 .. s : o <= 8
            BY <5>3
          <5>. QED
            BY <3>0, <5>3, <5>4
        <4>. QED
          BY <4>2, <4>3
      <3>. QED
        BY <3>2, <3>3, <3>4
    <2>4. SameMembers(p, t, Written(s, <<Write(0, Loaded(c, 0, r, 0).bytes)>>), Bytes(c, 0, "old"))
      BY <2>3, OneRegisterBrings
    <2>. QED
      BY <1>2, <2>2, <2>4 DEF Stored
  <1>. QED
    BY <1>1, <1>2

-----------------------------------------------------------------------------
(* Foreign functions                                                       *)

\* Sequences of one, after each other.
AllOnes(qs) == \A i \in 1 .. Len(qs) : Len(qs[i]) = 1

LEMMA JoinedOnes ==
  ASSUME NEW qs, AllSequences(qs), AllOnes(qs)
  PROVE  /\ Len(Joined(qs)[Len(qs)]) = Len(qs)
         /\ \A i \in 1 .. Len(qs) : Joined(qs)[Len(qs)][i] = qs[i][1]
  <1>. PICK m \in Nat : m = Len(qs)
    BY LengthOf DEF AllSequences
  <1>. DEFINE LenAt(k) == Len(Joined(qs)[k])
              Good == {k \in Nat : k <= m => LenAt(k) = k}
  <1>1. LenAt(0) = 0 /\ \A i \in 1 .. m : LenAt(i) = LenAt(i - 1) + 1
    <2>1. Joined(qs)[0] = << >> /\ \A i \in 1 .. m : LenAt(i) = LenAt(i - 1) + Len(qs[i])
      BY JoinedSequences
    <2>. QED
      BY <2>1, EmptyIsSequence DEF AllOnes
  <1>. HIDE DEF LenAt
  <1>2. Good \in SUBSET Nat /\ 0 \in Good
    BY <1>1
  <1>3. ASSUME NEW k \in Nat, k \in Good PROVE k + 1 \in Good
    <2>1. ASSUME k + 1 <= m PROVE LenAt(k + 1) = k + 1
      <3>1. k + 1 \in 1 .. m /\ (k + 1) - 1 = k /\ k <= m
        BY <2>1
      <3>2. LenAt(k) = k
        BY <1>3, <3>1
      <3>. QED
        BY <1>1, <3>1, <3>2
    <2>. QED
      BY <2>1
  <1>4. Good = Nat
    <2>. HIDE DEF Good
    <2>. QED
      BY <1>2, <1>3, Induction
  <1>5. \A k \in 0 .. m : LenAt(k) = k
    BY <1>4
  <1>6. ASSUME NEW i \in 1 .. m PROVE Joined(qs)[m][i] = qs[i][1]
    <2>. PICK j : j = Joined(qs)[m]
      OBVIOUS
    <2>. PICK q : q = qs[i]
      OBVIOUS
    <2>0. m \in i .. m
      OBVIOUS
    <2>1. Holds(j, Len(Joined(qs)[i - 1]), q)
      BY <2>0, JoinedPart
    <2>2. Len(Joined(qs)[i - 1]) = i - 1 /\ Len(q) = 1
      <3>1. i - 1 \in 0 .. m
        OBVIOUS
      <3>. QED
        BY <1>5, <3>1 DEF LenAt, AllOnes
    <2>3. Holds(j, i - 1, q)
      BY <2>1, <2>2
    <2>4. (i - 1) + 1 = i /\ 1 \in 1 .. 1
      OBVIOUS
    <2>. QED
      BY <2>2, <2>3, <2>4 DEF Holds
  <1>7. m \in 0 .. m
    OBVIOUS
  <1>. QED
    BY <1>5, <1>6, <1>7 DEF LenAt

\* A call of a foreign function while compiling that is in step.
ForeignCall(c) == c \in CallSites /\ c.fn.foreign /\ ~OutOfStep(c)

\* The one value an argument is then passed as.
Single(c, i, v) ==
    \/ ByValue(c, i, TypeOf(c, i)) /\ v = Loaded(c, i, TypeOf(c, i), 0)
    \/ ByAddress(c, i, TypeOf(c, i)) /\ v = AllocateAndCopy(c, i)
    \/ /\ ByAddress(c, i, TypeOf(c, i)) /\ v = AddressOf(i)
       /\ i > c.given /\ i <= Len(c.fn.params)

LEMMA SingleIs ==
  ASSUME NEW c, ForeignCall(c), NEW i \in 1 .. Arguments(c)
  PROVE  /\ TypeOf(c, i) \in DataTypes /\ ~NoForeignValue(TypeOf(c, i))
         /\ \E v : Handed(c, i) = <<v>> /\ Single(c, i, v)
  <1>0. c \in CallSites /\ c.fn.foreign /\ ~OutOfStep(c)
    BY DEF ForeignCall
  <1>. PICK n \in Nat : n = Len(c.fn.params)
    BY <1>0, CallSiteIs
  <1>. PICK e \in Nat : e = Len(c.extra)
    BY <1>0, CallSiteIs
  <1>1. Arguments(c) = n + e
    BY <1>0, ArgumentsIs
  <1>. PICK g \in 0 .. n : g = c.given
    BY <1>0, CallSiteIs
  <1>2. TypeOf(c, i) \in DataTypes
    <2>1. i \in 1 .. n \/ i \in n + 1 .. n + e
      <3>1. i \in 1 .. n + e
        BY <1>1
      <3>2. i <= n => i \in 1 .. n
        BY <3>1
      <3>. QED
        BY <3>1, <3>2, Beyond
    <2>. QED
      BY <1>0, <2>1, TypeOfIs
  <1>. PICK t \in DataTypes : t = TypeOf(c, i)
    BY <1>2
  <1>3. ~PassedByMembers(c.target, t) /\ ~NoForeignValue(t)
    BY <1>0, <1>1 DEF OutOfStep
  <1>. DEFINE load == Parameter(c.target, t).load
  <1>4. ByValue(c, i, t) \/ ByAddress(c, i, t)
    <2>1. ~AsFunction(c, i, t)
      BY <1>3 DEF NoForeignValue, AsFunction
    <2>2. ~(t.kind = "struct" /\ load \in {"int", "multi int", "floats"})
      <3>1. t.kind = "struct" => ~IsLoadableType(t)
        BY DEF IsLoadableType
      <3>. QED
        BY <1>3, <3>1 DEF PassedByMembers
    <2>3. AsMember(c, i, t) \/ AsInt(c, i, t) => t.kind = "struct" /\ load = "int"
      BY LoadIs DEF AsMember, AsInt
    <2>4. AsFloats(c, i, t) => t.kind = "struct" /\ load = "floats"
      BY LoadIs DEF AsFloats
    <2>5. AsInts(c, i, t) => t.kind = "struct" /\ load = "multi int"
      <3>. PICK ts : ts = <<Unsigned(8), Unsigned(Size(c.target, t) - 8)>>
        OBVIOUS
      <3>1. AsInts(c, i, t) => t.kind = "struct" /\ Parameter(c.target, t) = Location("multi int", ts)
        BY DEF AsInts
      <3>. QED
        BY <3>1, LoadIs
    <2>. HIDE DEF load
    <2>. QED
      BY <2>1, <2>2, <2>3, <2>4, <2>5, Ways
  <1>5. CASE i <= g \/ ~(i <= n)
    <2>1. Handed(c, i) = Lowered(c, i)
      <3>1. ~(i <= n) => ~(i <= g)
        <4>1. i \in Nat
          BY <1>1
        <4>. QED
          BY <4>1
      <3>. QED
        BY <1>0, <1>5, <3>1 DEF Handed
    <2>2. CASE ByValue(c, i, t)
      <3>. PICK v : v = Loaded(c, i, t, 0)
        OBVIOUS
      <3>1. Handed(c, i) = <<v>>
        BY <2>1, <2>2 DEF ByValue
      <3>2. Single(c, i, v)
        BY <2>2 DEF Single
      <3>. QED
        BY <1>3, <3>1, <3>2
    <2>3. CASE ByAddress(c, i, t)
      <3>1. Lowered(c, i) = <<AllocateAndCopy(c, i)>>
        BY <1>0, <2>3 DEF ByAddress, PassAddress
      <3>2. Single(c, i, AllocateAndCopy(c, i))
        BY <2>3 DEF Single
      <3>. QED
        BY <1>3, <2>1, <3>1, <3>2
    <2>. QED
      BY <1>3, <1>4, <2>2, <2>3
  <1>6. CASE ~(i <= g) /\ i <= n
    <2>1. Handed(c, i) = <<Expression(c, i)>>
      BY <1>6 DEF Handed
    <2>2. CASE ByValue(c, i, t)
      <3>. PICK v : v = Loaded(c, i, t, 0)
        OBVIOUS
      <3>1. Handed(c, i) = <<v>>
        BY <2>1, <2>2 DEF ByValue
      <3>2. Single(c, i, v)
        BY <2>2 DEF Single
      <3>. QED
        BY <1>3, <3>1, <3>2
    <2>3. CASE ByAddress(c, i, t)
      <3>1. Expression(c, i) = AddressOf(i)
        BY <2>3 DEF ByAddress, Expression
      <3>2. i > g
        <4>1. i \in Nat
          BY <1>1
        <4>. QED
          BY <1>6, <4>1
      <3>3. Single(c, i, AddressOf(i))
        BY <1>6, <2>3, <3>2 DEF Single
      <3>. QED
        BY <1>3, <2>1, <3>1, <3>3
    <2>. QED
      BY <1>3, <1>4, <2>2, <2>3
  <1>. QED
    BY <1>3, <1>5, <1>6

\* The values of such a call are those of its arguments.
LEMMA ForeignPassed ==
  ASSUME NEW c, ForeignCall(c)
  PROVE  /\ Len(Passed(c)) = Arguments(c)
         /\ \A i \in 1 .. Arguments(c) : Single(c, i, Passed(c)[i])
  <1>0. c \in CallSites /\ c.fn.foreign /\ ~OutOfStep(c)
    BY DEF ForeignCall
  <1>. PICK m \in Nat : m = Arguments(c)
    BY <1>0, ArgumentsIs
  <1>. PICK qs : qs = AllHanded(c)
    OBVIOUS
  <1>1. AllSequences(qs) /\ Len(qs) = m /\ \A i \in 1 .. m : qs[i] = Handed(c, i)
    BY <1>0, HandedIs
  <1>2. ASSUME NEW i \in 1 .. m
        PROVE  Len(qs[i]) = 1 /\ Single(c, i, qs[i][1])
    <2>1. PICK v : Handed(c, i) = <<v>> /\ Single(c, i, v)
      BY SingleIs
    <2>2. Len(<<v>>) = 1 /\ <<v>>[1] = v
      BY OneIs
    <2>. QED
      BY <1>1, <2>1, <2>2
  <1>3. AllOnes(qs)
    BY <1>1, <1>2 DEF AllOnes
  <1>4. Len(Joined(qs)[m]) = m /\ \A i \in 1 .. m : Joined(qs)[m][i] = qs[i][1]
    BY <1>1, <1>3, JoinedOnes
  <1>5. ~ResultInPointer(c)
    <2>1. Returns(c) => IsLoadableType(ResultType(c))
      BY <1>0 DEF OutOfStep
    <2>. QED
      BY <2>1 DEF ResultInPointer, IsRetTypePassInPointer, IsLoadableType
  <1>6. Passed(c) = Joined(qs)[m]
    <2>. PICK f : f = First(c)
      OBVIOUS
    <2>. PICK j : j = Joined(qs)[m]
      OBVIOUS
    <2>1. f = << >> /\ IsSequence(f)
      BY <1>5, FirstIs DEF First
    <2>2. IsSequence(j)
      <3>1. m \in 0 .. m
        OBVIOUS
      <3>. QED
        BY <1>1, <3>1, JoinedSequences
    <2>3. f \o j = j
      BY <2>1, <2>2, JoinIs
    <2>. QED
      BY <2>3 DEF Passed, PassedUpTo
  <1>. QED
    BY <1>2, <1>4, <1>6

\* What the types of ReComp say of integers and strings.
LEMMA IntegerIs ==
  ASSUME NEW t, Flag(t, "integer")
  PROVE  t.kind = "basic" /\ ~IsString(t)
  <1>1. "integer" \in BasicFlags(t.name) => "string" \notin BasicFlags(t.name)
    BY DEF BasicFlags, SignedInts, UnsignedInts, Floats
  <1>. QED
    BY <1>1 DEF Flag, IsString

\* A value of a type with a register is taken for no aggregate and no
\* callback.
LEMMA LoadableIsForeign ==
  ASSUME NEW t \in DataTypes, IsLoadableType(t), ~NoForeignValue(t),
         NEW u \in {t, Underlying(t)}
  PROVE  ~IsAggregate(u) /\ u.kind \notin {"vector", "function"} /\ ~IsFunctionPointer(u)
  <1>1. CASE u = t
    BY <1>1 DEF IsLoadableType, NoForeignValue, IsAggregate
  <1>2. CASE u # t
    <2>1. t.kind = "enum" /\ u = t.elem[1]
      BY <1>2 DEF Underlying
    <2>2. Flag(u, "integer")
      BY <2>1, TypesAssumption
    <2>3. u.kind = "basic" /\ ~IsString(u)
      BY <2>2, IntegerIs
    <2>. QED
      BY <2>3 DEF IsAggregate, IsFunctionPointer
  <1>. QED
    BY <1>1, <1>2

\* The library gets every argument as it was evaluated.
LEMMA ForeignValueArrives ==
  ASSUME NEW c, ForeignCall(c), NEW i \in 1 .. Arguments(c), NEW later, i <= c.given \/ i \notin later
  PROVE  LET v == Passed(c)[i]
             u == ForeignType(c, Passed(c), i)
         IN /\ ~NotForeign(u, v) /\ ~IsFunctionPointer(u)
            /\ ForeignBytes(c, later, u, v) = Bytes(c, i, "old")
  <1>. PICK t : t = TypeOf(c, i)
    OBVIOUS
  <1>. PICK v : v = Passed(c)[i]
    OBVIOUS
  <1>. PICK u : u = ForeignType(c, Passed(c), i)
    OBVIOUS
  <1>0. c \in CallSites /\ c.fn.foreign
    BY DEF ForeignCall
  <1>1. t \in DataTypes /\ ~NoForeignValue(t) /\ Single(c, i, v)
    BY SingleIs, ForeignPassed
  <1>. PICK n \in Nat : n = Len(c.fn.params)
    BY <1>0, CallSiteIs
  <1>. PICK m \in Nat : m = Arguments(c)
    BY <1>0, ArgumentsIs
  <1>2. i \in Nat /\ (i > n <=> ~(i <= n)) /\ i # -1
    OBVIOUS
  <1>3. (~(i > n) /\ u = Underlying(t)) \/ (i > n /\ u = v.type)
    <2>1. ~(i > n) => t = c.fn.params[i]
      <3>1. ~(i > n) => i \in 1 .. n
        BY <1>2
      <3>. QED
        BY <1>0, <3>1, TypeOfIs
    <2>. QED
      BY <2>1 DEF ForeignType
  <1>4. CASE ByValue(c, i, t) /\ v = Loaded(c, i, t, 0)
    <2>1. IsLoadableType(t)
      BY <1>4 DEF ByValue
    <2>2. v.type = t /\ v.object = -1 /\ v.bytes = Bytes(c, i, "old")
      BY <1>1, <1>4, WholeIs DEF Loaded
    <2>3. u \in {t, Underlying(t)}
      BY <1>3, <2>2
    <2>4. ~IsAggregate(u) /\ u.kind \notin {"vector", "function"} /\ ~IsFunctionPointer(u)
      BY <1>1, <2>1, <2>3, LoadableIsForeign
    <2>. QED
      BY <2>2, <2>4 DEF NotForeign, ForeignBytes, Pointee
  <1>5. CASE ByAddress(c, i, t) /\ v.type = Address /\ Pointee(c, later, v) = Bytes(c, i, "old")
    <2>1. HasAddress(t)
      BY <1>5 DEF ByAddress
    <2>2. t.kind \notin {"vector", "function", "enum", "pointer"}
      <3>1. IsString(t) => t.kind = "basic"
        BY DEF IsString, Flag
      <3>. QED
        BY <2>1, <3>1 DEF HasAddress, IsLoadableType
    <2>3. u = t \/ u = Address
      BY <1>3, <1>5, <2>2 DEF Underlying
    <2>4. ~IsFunctionPointer(Address) /\ Address.kind = "pointer"
      BY DEF IsFunctionPointer, Address, NULLType, Type
    <2>5. u.kind \notin {"vector", "function"} /\ ~IsFunctionPointer(u)
      <3>1. t.kind # "pointer" => ~IsFunctionPointer(t)
        BY DEF IsFunctionPointer
      <3>. QED
        BY <2>2, <2>3, <2>4, <3>1
    <2>. QED
      BY <1>5, <2>5 DEF NotForeign, ForeignBytes, MakeAggr
  <1>6. CASE ByAddress(c, i, t) /\ v = AllocateAndCopy(c, i)
    <2>1. v.type = Address /\ v.object = -1 /\ v.bytes = Bytes(c, i, "old")
      BY <1>6 DEF AllocateAndCopy, AddressOfMemory
    <2>. QED
      BY <1>5, <1>6, <2>1 DEF Pointee
  <1>7. CASE ByAddress(c, i, t) /\ v = AddressOf(i) /\ i > c.given
    <2>1. v.type = Address /\ v.object = i
      BY <1>7 DEF AddressOf
    <2>2. i \notin later
      <3>. PICK g \in Nat : g = c.given
        BY <1>0, CallSiteIs
      <3>1. i > g => ~(i <= g)
        BY <1>2
      <3>. QED
        BY <1>7, <3>1
    <2>3. Pointee(c, later, v) = Bytes(c, i, "old")
      BY <1>2, <2>1, <2>2 DEF Pointee, Now
    <2>. QED
      BY <1>5, <1>7, <2>1, <2>3
  <1>. QED
    BY <1>1, <1>4, <1>6, <1>7 DEF Single

-----------------------------------------------------------------------------
(* The inductive invariant                                                 *)

\* A result without a register.
NoRegister(c) == Returns(c) /\ NoReturnType(c.target, ResultType(c))

\* What is passed in every phase, and what was assigned to meanwhile.
PassingIs(c, ph, a, ps) ==
    /\ ph = "call" => a = 1
    /\ ph = "arguments" => a <= Arguments(c) + 1 /\ ps = PassedUpTo(c, a - 1)
    /\ ph \notin {"call", "unlowered", "arguments"} => ps = Passed(c)
ChangedAre(c, later) == \A i \in later : i = 0 \/ i <= c.given

\* Which call comes to which phase.
PhaseIs(c, ph, m, result) ==
    /\ ph = "unlowered" => NoRegister(c)
    /\ ph \notin {"call", "unlowered"} => ~NoRegister(c)
    /\ ph = "misfit" => ~Fits(c, Passed(c))
    /\ ph \in {"callee", "return"} => FittingCall(c)
    /\ ph = "foreign" => c.fn.foreign /\ m = "interpreter"
    /\ ph = "return" /\ Returns(c) => result = ReturnOperand(c)

\* How far the callee's frame is.
FrameIs(ph, a, fr) ==
    /\ IsSequence(fr)
    /\ ph \in {"callee", "foreign"} => Len(fr) = a - 1
    /\ ph \in {"call", "arguments"} => fr = << >>

\* ArgumentsArrive, of a fault and of one parameter.
FaultIs(c, ph, m, a) ==
    /\ ~c.fn.foreign /\ ph = "fault" => LostInInterpreter(c, m, a)
    /\ c.fn.foreign /\ m = "interpreter" /\ ~OutOfStep(c) => ph # "fault"
HeldIs(c, later, m, i, held) ==
    /\ ~c.fn.foreign => \/ LostInInterpreter(c, m, i) \/ WrappedDefault(c, i)
                        \/ i > Len(c.fn.params) /\ SliceBehindResult(c)
                        \/ Arrives(c, later, i, held)
    /\ c.fn.foreign /\ m = "interpreter" /\ ~OutOfStep(c) => held = Bytes(c, i, "old")
AllHeld(c, later, m, fr) == \A i \in 1 .. Len(fr) : HeldIs(c, later, m, i, fr[i])

ResultIs(c, ph, later, memory) ==
    ~c.fn.foreign /\ ph = "returned" /\ Returns(c) /\ ~CopiedAfterDefers(c, later)
    => SameMembers(c.target, ResultType(c), memory, Bytes(c, 0, "old"))

IInv ==
    /\ call \in CallSites /\ at \in Nat \ {0}
    /\ PassingIs(call, phase, at, passed) /\ ChangedAre(call, changed)
    /\ PhaseIs(call, phase, machine, returned)
    /\ FrameIs(phase, at, frame) /\ FaultIs(call, phase, machine, at)
    /\ AllHeld(call, changed, machine, frame)
    /\ ResultIs(call, phase, changed, slot)

\* It says that arguments and results arrive, and that a call fits.
LEMMA IInvArrives == IInv => ArgumentsArrive /\ ResultArrives
  <1>. SUFFICES ASSUME IInv PROVE ArgumentsArrive /\ ResultArrives
    OBVIOUS
  <1>1. DOMAIN frame = 1 .. Len(frame)
    BY LengthOf DEF IInv, FrameIs
  <1>2. ArgumentsArrive
    BY <1>1 DEF IInv, FaultIs, AllHeld, HeldIs, ArgumentsArrive
  <1>3. ResultArrives
    BY DEF IInv, ResultIs, ResultArrives
  <1>. QED
    BY <1>2, <1>3

LEMMA IInvFits == IInv => CallFitsFunction
  <1>. SUFFICES ASSUME IInv PROVE CallFitsFunction
    OBVIOUS
  <1>. PICK c \in CallSites : c = call
    BY DEF IInv
  <1>0. PhaseIs(c, phase, machine, returned)
    BY DEF IInv
  <1>1. phase = "misfit" => SmallWasmResult(c) \/ DefaultOfStruct(c)
    BY <1>0, PassedFits DEF PhaseIs
  <1>2. Returns(c) /\ ~SmallWasmResult(c) /\ ~RetInPtr(c)
        => ReturnedWrongType(c.target, ResultType(c)) = DeclaredReturn(c)
    <2>. SUFFICES ASSUME Returns(c), ~SmallWasmResult(c), ~RetInPtr(c)
                  PROVE  ReturnedWrongType(c.target, ResultType(c)) = DeclaredReturn(c)
      OBVIOUS
    <2>1. ~ResultInPointer(c)
      BY DEF RetInPtr
    <2>2. CASE WasmAggregate(c)
      BY <2>1, <2>2 DEF SmallWasmResult
    <2>3. CASE ~WasmAggregate(c)
      BY <2>3 DEF DeclaredReturn
    <2>. QED
      BY <2>2, <2>3
  <1>3. phase = "unlowered" => "union" \in ResultType(c).flags
    <2>1. NoRegister(c) => "union" \in ResultType(c).flags
      BY CallSiteIs, OnlyUnions DEF NoRegister
    <2>. QED
      BY <1>0, <2>1 DEF PhaseIs
  <1>. QED
    BY <1>1, <1>2, <1>3 DEF CallFitsFunction

\* A frame with one more parameter.
LEMMA FrameGrows ==
  ASSUME NEW c, NEW later, NEW m, NEW fr, IsSequence(fr), NEW a \in Nat \ {0}, Len(fr) = a - 1,
         NEW held, AllHeld(c, later, m, fr), HeldIs(c, later, m, a, held)
  PROVE  /\ IsSequence(Append(fr, held)) /\ Len(Append(fr, held)) = (a + 1) - 1
         /\ AllHeld(c, later, m, Append(fr, held))
  <1>. PICK g : g = Append(fr, held)
    OBVIOUS
  <1>. PICK l \in Nat : l = Len(fr)
    BY LengthOf
  <1>1. IsSequence(g) /\ Len(g) = l + 1 /\ (\A i \in 1 .. l : g[i] = fr[i]) /\ g[l + 1] = held
    <2>. DEFINE S == Range(fr) \cup {held}
    <2>1. Range(fr) \subseteq S /\ held \in S
      OBVIOUS
    <2>2. fr \in Seq(S)
      BY <2>1, SeqMonotonic DEF IsSequence
    <2>. HIDE DEF S
    <2>3. g \in Seq(S) /\ Len(g) = l + 1 /\ (\A i \in 1 .. l : g[i] = fr[i]) /\ g[l + 1] = held
      BY <2>1, <2>2, AppendProperties
    <2>. QED
      BY <2>3, SequenceIs
  <1>2. a = l + 1 /\ (a + 1) - 1 = l + 1
    OBVIOUS
  <1>3. ASSUME NEW i \in 1 .. l + 1 PROVE HeldIs(c, later, m, i, g[i])
    <2>1. CASE i \in 1 .. l
      BY <1>1, <2>1 DEF AllHeld
    <2>2. CASE i \notin 1 .. l
      <3>1. i = a
        BY <1>2, <2>2
      <3>. QED
        BY <1>1, <1>2, <3>1
    <2>. QED
      BY <2>1, <2>2
  <1>. QED
    BY <1>1, <1>2, <1>3 DEF AllHeld

\* The invariant holds at first.
LEMMA IInvInit == Init => IInv
  <1>. SUFFICES ASSUME Init PROVE IInv
    OBVIOUS
  <1>. USE DEF Init
  <1>1. PassingIs(call, phase, at, passed) /\ ChangedAre(call, changed)
    BY DEF PassingIs, ChangedAre
  <1>2. PhaseIs(call, phase, machine, returned)
    BY DEF PhaseIs
  <1>3. IsSequence(frame) /\ Len(frame) = 0
    BY EmptyIsSequence
  <1>4. FrameIs(phase, at, frame)
    BY <1>3 DEF FrameIs
  <1>5. FaultIs(call, phase, machine, at)
    BY DEF FaultIs
  <1>6. AllHeld(call, changed, machine, frame)
    <2>1. 1 .. 0 = {}
      OBVIOUS
    <2>. QED
      BY <1>3, <2>1 DEF AllHeld
  <1>7. ResultIs(call, phase, changed, slot)
    BY DEF ResultIs
  <1>. QED
    BY <1>1, <1>2, <1>4, <1>5, <1>6, <1>7 DEF IInv

-----------------------------------------------------------------------------
(* Every step keeps it                                                     *)

\* A frame that nothing is in.
LEMMA NothingHeld ==
  ASSUME NEW c, NEW later, NEW m
  PROVE  AllHeld(c, later, m, << >>) /\ IsSequence(<< >>)
  <1>1. 1 .. 0 = {} /\ IsSequence(<< >>) /\ Len(<< >>) = 0
    BY EmptyIsSequence
  <1>. QED
    BY <1>1 DEF AllHeld

LEMMA BeginCallKeeps == IInv /\ BeginCall => IInv'
  <1>. SUFFICES ASSUME IInv, BeginCall PROVE IInv'
    OBVIOUS
  <1>. PICK c \in CallSites : c = call
    BY DEF IInv
  <1>1. /\ call' = c /\ phase = "call" /\ at' = at /\ at = 1 /\ frame' = << >>
        /\ phase' = (IF NoRegister(c) THEN "unlowered" ELSE "arguments")
        /\ passed' = First(c) /\ changed' = changed /\ machine' = machine
        /\ returned' = returned /\ slot' = slot
    BY DEF BeginCall, IInv, PassingIs, FrameIs, NoRegister, First
  <1>2. PassingIs(c, phase', 1, First(c))
    <2>1. First(c) = PassedUpTo(c, 1 - 1)
      <3>1. 1 - 1 = 0
        OBVIOUS
      <3>. QED
        BY <3>1, PassedUpToIs
    <2>2. 1 <= Arguments(c) + 1
      <3>. PICK m \in Nat : m = Arguments(c)
        BY ArgumentsIs
      <3>. QED
        OBVIOUS
    <2>. QED
      BY <1>1, <2>1, <2>2 DEF PassingIs
  <1>3. PhaseIs(c, phase', machine, returned)
    BY <1>1 DEF PhaseIs
  <1>4. FrameIs(phase', 1, << >>) /\ AllHeld(c, changed, machine, << >>)
    BY <1>1, NothingHeld DEF FrameIs
  <1>5. FaultIs(c, phase', machine, 1) /\ ResultIs(c, phase', changed, slot)
    BY <1>1 DEF FaultIs, ResultIs
  <1>6. ChangedAre(c, changed) /\ at \in Nat \ {0}
    BY DEF IInv
  <1>. QED
    BY <1>1, <1>2, <1>3, <1>4, <1>5, <1>6 DEF IInv

\* The caller's pushes: of the values of the next argument.
LEMMA PushKeeps ==
  ASSUME IInv, phase = "arguments", at <= Arguments(call), NEW values, values = Handed(call, at),
         Push(values)
  PROVE  IInv'
  <1>. PICK c \in CallSites : c = call
    BY DEF IInv
  <1>. PICK a \in Nat \ {0} : a = at
    BY DEF IInv
  <1>. PICK m \in Nat : m = Arguments(c)
    BY ArgumentsIs
  <1>1. /\ call' = c /\ phase' = "arguments" /\ at' = a + 1 /\ passed' = passed \o Handed(c, a)
        /\ changed' = changed /\ machine' = machine /\ frame' = frame
        /\ returned' = returned /\ slot' = slot
    BY DEF Push
  <1>2. passed = PassedUpTo(c, a - 1) /\ frame = << >>
    BY DEF IInv, PassingIs, FrameIs
  <1>3. a \in 1 .. m /\ (a + 1) - 1 = a /\ a + 1 <= m + 1 /\ a + 1 \in Nat \ {0}
    OBVIOUS
  <1>4. passed' = PassedUpTo(c, (a + 1) - 1)
    <2>1. PassedUpTo(c, a) = PassedUpTo(c, a - 1) \o Handed(c, a)
      BY <1>3, PassedUpToIs
    <2>. QED
      BY <1>1, <1>2, <1>3, <2>1
  <1>5. PassingIs(c, "arguments", a + 1, passed')
    BY <1>3, <1>4 DEF PassingIs
  <1>6. PhaseIs(c, "arguments", machine, returned)
    BY DEF IInv, PhaseIs
  <1>7. FrameIs("arguments", a + 1, << >>) /\ AllHeld(c, changed, machine, << >>)
    BY NothingHeld DEF FrameIs
  <1>8. FaultIs(c, "arguments", machine, a + 1) /\ ResultIs(c, "arguments", changed, slot)
    BY DEF FaultIs, ResultIs
  <1>9. ChangedAre(c, changed)
    BY DEF IInv
  <1>. QED
    BY <1>1, <1>2, <1>3, <1>5, <1>6, <1>7, <1>8, <1>9 DEF IInv

LEMMA PassArgumentKeeps == IInv /\ PassArgument => IInv'
  <1>. SUFFICES ASSUME IInv, PassArgument PROVE IInv'
    OBVIOUS
  <1>. PICK v : v = Lowered(call, at)
    OBVIOUS
  <1>1. phase = "arguments" /\ at <= call.given /\ Push(v) /\ call \in CallSites /\ at \in Nat \ {0}
    BY DEF PassArgument, IInv
  <1>2. v = Handed(call, at)
    BY <1>1 DEF Handed
  <1>3. at <= Arguments(call)
    <2>. PICK n \in Nat : n = Len(call.fn.params)
      BY <1>1, CallSiteIs
    <2>. PICK m \in Nat : m = Arguments(call)
      BY <1>1, ArgumentsIs
    <2>. PICK g \in 0 .. n : g = call.given
      BY <1>1, CallSiteIs
    <2>1. n <= m
      BY <1>1, ArgumentsIs
    <2>. QED
      BY <1>1, <2>1
  <1>. QED
    BY <1>1, <1>2, <1>3, PushKeeps

LEMMA PassDefaultKeeps == IInv /\ PassDefault => IInv'
  <1>. SUFFICES ASSUME IInv, PassDefault PROVE IInv'
    OBVIOUS
  <1>. PICK v : v = <<Expression(call, at)>>
    OBVIOUS
  <1>1. /\ phase = "arguments" /\ at > call.given /\ at <= Len(call.fn.params) /\ Push(v)
        /\ call \in CallSites /\ at \in Nat \ {0}
    BY DEF PassDefault, IInv
  <1>. PICK n \in Nat : n = Len(call.fn.params)
    BY <1>1, CallSiteIs
  <1>. PICK g \in 0 .. n : g = call.given
    BY <1>1, CallSiteIs
  <1>2. v = Handed(call, at)
    <2>1. ~(at <= g)
      BY <1>1
    <2>. QED
      BY <1>1, <2>1 DEF Handed
  <1>3. at <= Arguments(call)
    <2>. PICK m \in Nat : m = Arguments(call)
      BY <1>1, ArgumentsIs
    <2>1. n <= m
      BY <1>1, ArgumentsIs
    <2>. QED
      BY <1>1, <2>1
  <1>. QED
    BY <1>1, <1>2, <1>3, PushKeeps

LEMMA PassForeignExtraKeeps == IInv /\ PassForeignExtra => IInv'
  <1>. SUFFICES ASSUME IInv, PassForeignExtra PROVE IInv'
    OBVIOUS
  <1>. PICK v : v = Lowered(call, at)
    OBVIOUS
  <1>1. /\ phase = "arguments" /\ call.fn.foreign /\ at > Len(call.fn.params)
        /\ at <= Len(call.fn.params) + Len(call.extra) /\ Push(v)
        /\ call \in CallSites /\ at \in Nat \ {0}
    BY DEF PassForeignExtra, IInv
  <1>. PICK n \in Nat : n = Len(call.fn.params)
    BY <1>1, CallSiteIs
  <1>. PICK g \in 0 .. n : g = call.given
    BY <1>1, CallSiteIs
  <1>2. v = Handed(call, at)
    <2>1. ~(at <= n) /\ ~(at <= g)
      BY <1>1
    <2>. QED
      BY <1>1, <2>1 DEF Handed
  <1>3. at <= Arguments(call)
    BY <1>1, ArgumentsIs
  <1>. QED
    BY <1>1, <1>2, <1>3, PushKeeps

LEMMA PassSliceKeeps == IInv /\ PassSlice => IInv'
  <1>. SUFFICES ASSUME IInv, PassSlice PROVE IInv'
    OBVIOUS
  <1>. PICK v : v = <<Slice(call)>>
    OBVIOUS
  <1>1. /\ phase = "arguments" /\ ~call.fn.foreign /\ call.fn.varargs
        /\ at = Len(call.fn.params) + 1 /\ Push(v)
        /\ call \in CallSites /\ at \in Nat \ {0}
    BY DEF PassSlice, IInv
  <1>. PICK n \in Nat : n = Len(call.fn.params)
    BY <1>1, CallSiteIs
  <1>. PICK g \in 0 .. n : g = call.given
    BY <1>1, CallSiteIs
  <1>2. v = Handed(call, at)
    <2>1. ~(at <= n) /\ ~(at <= g)
      BY <1>1
    <2>. QED
      BY <1>1, <2>1 DEF Handed
  <1>3. at <= Arguments(call)
    <2>. PICK m \in Nat : m = Arguments(call)
      BY <1>1, ArgumentsIs
    <2>1. m = n + 1
      BY <1>1, ArgumentsIs
    <2>. QED
      BY <1>1, <2>1
  <1>. QED
    BY <1>1, <1>2, <1>3, PushKeeps

LEMMA ReassignKeeps ==
  ASSUME NEW i \in 1 .. Len(call.fn.params)
  PROVE  IInv /\ Reassign(i) => IInv'
  <1>. SUFFICES ASSUME IInv, Reassign(i) PROVE IInv'
    OBVIOUS
  <1>. PICK c \in CallSites : c = call
    BY DEF IInv
  <1>. PICK a \in Nat \ {0} : a = at
    BY DEF IInv
  <1>1. /\ call' = c /\ phase = "arguments" /\ phase' = "arguments" /\ at' = a /\ passed' = passed
        /\ changed' = {i} /\ machine' = machine /\ frame' = frame
        /\ returned' = returned /\ slot' = slot /\ i < a /\ a <= c.given
    BY DEF Reassign
  <1>2. frame = << >> /\ PassingIs(c, "arguments", a, passed)
    BY <1>1 DEF IInv, FrameIs
  <1>3. PhaseIs(c, "arguments", machine, returned)
    BY <1>1 DEF IInv
  <1>4. FrameIs("arguments", a, << >>) /\ AllHeld(c, {i}, machine, << >>)
    BY NothingHeld DEF FrameIs
  <1>5. FaultIs(c, "arguments", machine, a) /\ ResultIs(c, "arguments", {i}, slot)
    BY DEF FaultIs, ResultIs
  <1>6. ChangedAre(c, {i})
    <2>. PICK n \in Nat : n = Len(c.fn.params)
      BY CallSiteIs
    <2>. PICK g \in 0 .. n : g = c.given
      BY CallSiteIs
    <2>1. i \in 1 .. n
      OBVIOUS
    <2>2. i <= g
      BY <1>1, <2>1
    <2>. QED
      BY <2>2 DEF ChangedAre
  <1>. QED
    BY <1>1, <1>2, <1>3, <1>4, <1>5, <1>6 DEF IInv

LEMMA CallKeeps ==
  ASSUME NEW m \in {"generated", "interpreter"}
  PROVE  IInv /\ Call(m) => IInv'
  <1>. SUFFICES ASSUME IInv, Call(m) PROVE IInv'
    OBVIOUS
  <1>. PICK c \in CallSites : c = call
    BY DEF IInv
  <1>. PICK n \in Nat : n = Arguments(c)
    BY ArgumentsIs
  <1>1. /\ call' = c /\ phase = "arguments" /\ at = n + 1 /\ at' = 1 /\ passed' = passed
        /\ changed' = changed /\ machine' = m /\ frame' = frame
        /\ returned' = returned /\ slot' = slot
        /\ phase' = CASE c.fn.foreign /\ m = "interpreter" -> "foreign"
                      [] ~c.fn.foreign /\ Fits(c, passed) -> "callee"
                      [] c.fn.foreign /\ m = "generated" /\ Fits(c, passed) -> "outside"
                      [] OTHER -> "misfit"
    BY DEF Call
  <1>2. frame = << >> /\ passed = PassedUpTo(c, (n + 1) - 1) /\ ~NoRegister(c) /\ ChangedAre(c, changed)
    BY <1>1 DEF IInv, FrameIs, PassingIs, PhaseIs
  <1>3. passed = Passed(c)
    <2>1. (n + 1) - 1 = n
      OBVIOUS
    <2>. QED
      BY <1>2, <2>1 DEF Passed
  <1>4. \/ phase' = "foreign" /\ c.fn.foreign /\ m = "interpreter"
        \/ phase' = "callee" /\ ~c.fn.foreign /\ Fits(c, passed)
        \/ phase' = "outside"
        \/ phase' = "misfit" /\ ~Fits(c, passed)
    <2>1. CASE c.fn.foreign /\ m = "interpreter"
      BY <1>1, <2>1
    <2>2. CASE ~c.fn.foreign /\ Fits(c, passed)
      BY <1>1, <2>2
    <2>3. CASE c.fn.foreign /\ m = "generated" /\ Fits(c, passed)
      BY <1>1, <2>3
    <2>4. CASE ~Fits(c, passed) /\ ~(c.fn.foreign /\ m = "interpreter")
      BY <1>1, <2>4
    <2>. QED
      BY <2>1, <2>2, <2>3, <2>4
  <1>5. PassingIs(c, phase', 1, passed)
    BY <1>3, <1>4 DEF PassingIs
  <1>6. PhaseIs(c, phase', m, returned)
    BY <1>2, <1>3, <1>4 DEF PhaseIs, FittingCall
  <1>7. FrameIs(phase', 1, << >>) /\ AllHeld(c, changed, m, << >>)
    <2>1. 1 - 1 = 0
      OBVIOUS
    <2>. QED
      BY <2>1, NothingHeld, EmptyIsSequence DEF FrameIs
  <1>8. FaultIs(c, phase', m, 1) /\ ResultIs(c, phase', changed, slot)
    BY <1>4 DEF FaultIs, ResultIs
  <1>. QED
    BY <1>1, <1>2, <1>5, <1>6, <1>7, <1>8 DEF IInv

LEMMA NotLoadedKeeps == IInv /\ NotLoaded => IInv'
  <1>. SUFFICES ASSUME IInv, NotLoaded PROVE IInv'
    OBVIOUS
  <1>. PICK c \in CallSites : c = call
    BY DEF IInv
  <1>. PICK n \in Nat : n = Arguments(c)
    BY ArgumentsIs
  <1>1. /\ call' = c /\ phase = "arguments" /\ at = n + 1 /\ at' = at /\ passed' = passed
        /\ changed' = changed /\ machine' = "interpreter" /\ frame' = frame
        /\ returned' = returned /\ slot' = slot /\ phase' = "reported"
    BY DEF NotLoaded
  <1>2. frame = << >> /\ passed = PassedUpTo(c, (n + 1) - 1) /\ ~NoRegister(c) /\ ChangedAre(c, changed)
        /\ at \in Nat \ {0}
    BY <1>1 DEF IInv, FrameIs, PassingIs, PhaseIs
  <1>3. passed = Passed(c)
    <2>1. (n + 1) - 1 = n
      OBVIOUS
    <2>. QED
      BY <1>2, <2>1 DEF Passed
  <1>4. PassingIs(c, "reported", at, passed) /\ PhaseIs(c, "reported", "interpreter", returned)
    BY <1>2, <1>3 DEF PassingIs, PhaseIs
  <1>5. FrameIs("reported", at, << >>) /\ AllHeld(c, changed, "interpreter", << >>)
    BY NothingHeld DEF FrameIs
  <1>6. FaultIs(c, "reported", "interpreter", at) /\ ResultIs(c, "reported", changed, slot)
    BY DEF FaultIs, ResultIs
  <1>. QED
    BY <1>1, <1>2, <1>4, <1>5, <1>6 DEF IInv

\* A fault leaves everything but the phase.
LEMMA FaultKeeps ==
  ASSUME IInv, phase \in {"callee", "foreign"}, phase' = "fault", FaultIs(call, "fault", machine, at),
         UNCHANGED <<call, at, passed, changed, machine, frame, returned, slot>>
  PROVE  IInv'
  <1>. PICK c \in CallSites : c = call
    BY DEF IInv
  <1>1. /\ at \in Nat \ {0} /\ PassingIs(c, "fault", at, passed) /\ ChangedAre(c, changed)
        /\ PhaseIs(c, "fault", machine, returned) /\ AllHeld(c, changed, machine, frame)
    BY DEF IInv, PassingIs, PhaseIs
  <1>2. FrameIs("fault", at, frame) /\ ResultIs(c, "fault", changed, slot)
    BY DEF IInv, FrameIs, ResultIs
  <1>. QED
    BY <1>1, <1>2 DEF IInv

\* The callee's frame has one more parameter.
LEMMA AppendKeeps ==
  ASSUME IInv, phase \in {"callee", "foreign"}, NEW held, HeldIs(call, changed, machine, at, held),
         phase' = phase, frame' = Append(frame, held), at' = at + 1,
         UNCHANGED <<call, passed, changed, machine, returned, slot>>
  PROVE  IInv'
  <1>. PICK c \in CallSites : c = call
    BY DEF IInv
  <1>. PICK a \in Nat \ {0} : a = at
    BY DEF IInv
  <1>. PICK fr : fr = frame
    OBVIOUS
  <1>1. a + 1 \in Nat \ {0} /\ IsSequence(fr) /\ Len(fr) = a - 1 /\ AllHeld(c, changed, machine, fr)
    BY DEF IInv, FrameIs
  <1>2. /\ IsSequence(Append(fr, held)) /\ Len(Append(fr, held)) = (a + 1) - 1
        /\ AllHeld(c, changed, machine, Append(fr, held))
    BY <1>1, FrameGrows
  <1>3. PassingIs(c, phase, a + 1, passed) /\ ChangedAre(c, changed) /\ PhaseIs(c, phase, machine, returned)
    BY DEF IInv, PassingIs
  <1>4. FrameIs(phase, a + 1, Append(fr, held))
    BY <1>2 DEF FrameIs
  <1>5. FaultIs(c, phase, machine, a + 1) /\ ResultIs(c, phase, changed, slot)
    BY DEF FaultIs, ResultIs
  <1>. QED
    BY <1>1, <1>2, <1>3, <1>4, <1>5 DEF IInv

LEMMA TakeParameterKeeps == IInv /\ TakeParameter => IInv'
  <1>. SUFFICES ASSUME IInv, TakeParameter PROVE IInv'
    OBVIOUS
  <1>. PICK c \in CallSites : c = call
    BY DEF IInv
  <1>1. /\ phase = "callee" /\ at <= Len(c.fn.params) /\ FittingCall(c) /\ ~c.fn.foreign
        /\ passed = Passed(c)
    BY DEF IInv, TakeParameter, PhaseIs, PassingIs, FittingCall
  <1>. PICK n \in Nat : n = Len(c.fn.params)
    BY CallSiteIs
  <1>. PICK i \in 1 .. n : i = at
    BY <1>1 DEF IInv
  <1>2. CASE StoresBadly(c, machine, c.fn.params[i])
    <2>1. phase' = "fault" /\ UNCHANGED <<call, at, passed, changed, machine, frame, returned, slot>>
      BY <1>2 DEF TakeParameter
    <2>2. LostInInterpreter(c, machine, i)
      BY <1>2, BadStoreIsLoss
    <2>3. FaultIs(c, "fault", machine, i)
      BY <1>1, <2>2 DEF FaultIs
    <2>. QED
      BY <1>1, <2>1, <2>3, FaultKeeps
  <1>3. CASE ~StoresBadly(c, machine, c.fn.params[i])
    <2>. PICK held : held = Received(c, changed, machine, c.fn.params[i], ValuesOf(c, Passed(c), i))
      OBVIOUS
    <2>1. /\ phase' = phase /\ frame' = Append(frame, held) /\ at' = at + 1
          /\ UNCHANGED <<call, passed, changed, machine, returned, slot>>
      BY <1>1, <1>3 DEF TakeParameter
    <2>2. LostInInterpreter(c, machine, i) \/ WrappedDefault(c, i) \/ Arrives(c, changed, i, held)
      BY <1>1, ParameterArrives
    <2>3. HeldIs(c, changed, machine, i, held)
      BY <1>1, <2>2 DEF HeldIs
    <2>. QED
      BY <1>1, <2>1, <2>3, AppendKeeps
  <1>. QED
    BY <1>2, <1>3

LEMMA TakeSliceKeeps == IInv /\ TakeSlice => IInv'
  <1>. SUFFICES ASSUME IInv, TakeSlice PROVE IInv'
    OBVIOUS
  <1>. PICK c \in CallSites : c = call
    BY DEF IInv
  <1>. PICK n \in Nat : n = Len(c.fn.params)
    BY CallSiteIs
  <1>1. /\ phase = "callee" /\ c.fn.varargs /\ at = n + 1 /\ FittingCall(c) /\ ~c.fn.foreign
        /\ passed = Passed(c) /\ n + 1 > n
    BY DEF IInv, TakeSlice, PhaseIs, PassingIs, FittingCall
  <1>2. CASE c.fn.params = << >> /\ machine = "interpreter"
    <2>1. phase' = "fault" /\ UNCHANGED <<call, at, passed, changed, machine, frame, returned, slot>>
      BY <1>2 DEF TakeSlice
    <2>2. FaultIs(c, "fault", machine, at)
      BY <1>1, <1>2 DEF FaultIs, LostInInterpreter
    <2>. QED
      BY <1>1, <2>1, <2>2, FaultKeeps
  <1>3. CASE ~(c.fn.params = << >> /\ machine = "interpreter")
    <2>. PICK place : place = IF c.fn.params = << >> THEN 1 ELSE Start(c, n + 1)
      OBVIOUS
    <2>. PICK held : held = Pointee(c, changed, Passed(c)[place])
      OBVIOUS
    <2>1. /\ phase' = phase /\ frame' = Append(frame, held) /\ at' = at + 1
          /\ UNCHANGED <<call, passed, changed, machine, returned, slot>>
      BY <1>1, <1>3 DEF TakeSlice
    <2>2. ~SliceBehindResult(c) => Arrives(c, changed, n + 1, held)
      BY <1>1, SliceArrives
    <2>3. HeldIs(c, changed, machine, n + 1, held)
      BY <1>1, <2>2 DEF HeldIs
    <2>. QED
      BY <1>1, <2>1, <2>3, AppendKeeps
  <1>. QED
    BY <1>2, <1>3

LEMMA EvaluateReturnKeeps == IInv /\ EvaluateReturn => IInv'
  <1>. SUFFICES ASSUME IInv, EvaluateReturn PROVE IInv'
    OBVIOUS
  <1>. PICK c \in CallSites : c = call
    BY DEF IInv
  <1>. PICK r : r = returned'
    OBVIOUS
  <1>1. /\ call' = c /\ phase = "callee" /\ phase' = "return"
        /\ (Returns(c) => r = ReturnOperand(c))
        /\ UNCHANGED <<at, passed, changed, machine, frame, slot>>
    BY DEF EvaluateReturn
  <1>2. /\ at \in Nat \ {0} /\ PassingIs(c, "return", at, passed) /\ ChangedAre(c, changed)
        /\ PhaseIs(c, "return", machine, r)
    BY <1>1 DEF IInv, PassingIs, PhaseIs
  <1>3. /\ FrameIs("return", at, frame) /\ ResultIs(c, "return", changed, slot)
        /\ AllHeld(c, changed, machine, frame) /\ FaultIs(c, "return", machine, at)
    BY DEF IInv, FrameIs, ResultIs, FaultIs
  <1>. QED
    BY <1>1, <1>2, <1>3 DEF IInv

\* An assignment to the returned variable changes no parameter.
LEMMA DeferredHeld ==
  ASSUME NEW c, NEW later, NEW m, NEW i \in Nat \ {0}, NEW held, HeldIs(c, later, m, i, held)
  PROVE  HeldIs(c, later \cup {0}, m, i, held)
  <1>. PICK more : more = later \cup {0}
    OBVIOUS
  <1>1. i \in more <=> i \in later
    OBVIOUS
  <1>2. Now(c, more, i) = Now(c, later, i)
    BY <1>1 DEF Now
  <1>3. Arrives(c, later, i, held) => Arrives(c, more, i, held)
    BY <1>2 DEF Arrives
  <1>. QED
    BY <1>3 DEF HeldIs

LEMMA DeferKeeps == IInv /\ Defer => IInv'
  <1>. SUFFICES ASSUME IInv, Defer PROVE IInv'
    OBVIOUS
  <1>. PICK c \in CallSites : c = call
    BY DEF IInv
  <1>. PICK later : later = changed
    OBVIOUS
  <1>. PICK more : more = later \cup {0}
    OBVIOUS
  <1>1. /\ call' = c /\ phase = "return" /\ phase' = "return" /\ changed' = more
        /\ UNCHANGED <<at, passed, machine, frame, returned, slot>>
    BY DEF Defer
  <1>2. /\ at \in Nat \ {0} /\ PassingIs(c, "return", at, passed) /\ ChangedAre(c, later)
        /\ PhaseIs(c, "return", machine, returned)
    BY <1>1 DEF IInv
  <1>3. ChangedAre(c, more)
    BY <1>2 DEF ChangedAre
  <1>. PICK fr : fr = frame
    OBVIOUS
  <1>4. AllHeld(c, more, machine, fr)
    <2>1. IsSequence(fr) /\ AllHeld(c, later, machine, fr)
      BY DEF IInv, FrameIs
    <2>. PICK l \in Nat : l = Len(fr)
      BY <2>1, LengthOf
    <2>2. ASSUME NEW i \in 1 .. l PROVE HeldIs(c, more, machine, i, fr[i])
      <3>1. HeldIs(c, later, machine, i, fr[i]) /\ i \in Nat \ {0}
        BY <2>1 DEF AllHeld
      <3>. QED
        BY <3>1, DeferredHeld
    <2>. QED
      BY <2>2 DEF AllHeld
  <1>5. FrameIs("return", at, fr) /\ FaultIs(c, "return", machine, at) /\ ResultIs(c, "return", more, slot)
    BY <1>1 DEF IInv, FrameIs, FaultIs, ResultIs
  <1>. QED
    BY <1>1, <1>2, <1>3, <1>4, <1>5 DEF IInv

LEMMA ReturnKeeps == IInv /\ Return => IInv'
  <1>. SUFFICES ASSUME IInv, Return PROVE IInv'
    OBVIOUS
  <1>. PICK c \in CallSites : c = call
    BY DEF IInv
  <1>. PICK memory : memory = slot'
    OBVIOUS
  <1>1. /\ call' = c /\ phase = "return" /\ phase' = "returned"
        /\ UNCHANGED <<at, passed, changed, machine, frame, returned>>
    BY DEF Return
  <1>2. /\ at \in Nat \ {0} /\ PassingIs(c, "returned", at, passed) /\ ChangedAre(c, changed)
        /\ PhaseIs(c, "returned", machine, returned)
    BY <1>1 DEF IInv, PassingIs, PhaseIs
  <1>3. /\ FrameIs("returned", at, frame)
        /\ AllHeld(c, changed, machine, frame) /\ FaultIs(c, "returned", machine, at)
    BY DEF IInv, FrameIs, FaultIs
  <1>4. FittingCall(c) /\ ~NoRegister(c) /\ (Returns(c) => returned = ReturnOperand(c))
    BY <1>1 DEF IInv, PhaseIs
  <1>5. Returns(c) => memory = Stored(c, changed)
    BY <1>4 DEF Return, Stored
  <1>6. ResultIs(c, "returned", changed, memory)
    <2>1. RetInPtr(c) <=> ResultInPointer(c)
      BY <1>4, SideBySide
    <2>. QED
      BY <1>4, <1>5, <2>1, ResultIsStored DEF ResultIs, NoRegister, CopiedAfterDefers, Now
  <1>. QED
    BY <1>1, <1>2, <1>3, <1>6 DEF IInv

\* What the interpreter takes the next value of a foreign call for.
LEMMA ForeignStep ==
  ASSUME IInv, phase = "foreign", at <= Len(passed)
  PROVE  \/ OutOfStep(call)
         \/ LET u == ForeignType(call, passed, at)
            IN /\ ~NotForeign(u, passed[at]) /\ ~IsFunctionPointer(u)
               /\ ForeignBytes(call, changed, u, passed[at]) = Bytes(call, at, "old")
  <1>. SUFFICES ASSUME ~OutOfStep(call)
                PROVE  LET u == ForeignType(call, passed, at)
                       IN /\ ~NotForeign(u, passed[at]) /\ ~IsFunctionPointer(u)
                          /\ ForeignBytes(call, changed, u, passed[at]) = Bytes(call, at, "old")
    OBVIOUS
  <1>. PICK c \in CallSites : c = call
    BY DEF IInv
  <1>. PICK later : later = changed
    OBVIOUS
  <1>1. ForeignCall(c) /\ passed = Passed(c) /\ ChangedAre(c, later)
    BY DEF IInv, PhaseIs, PassingIs, ForeignCall
  <1>. PICK m \in Nat : m = Arguments(c)
    BY ArgumentsIs
  <1>2. Len(passed) = m
    BY <1>1, ForeignPassed
  <1>. PICK i \in 1 .. m : i = at
    BY <1>2 DEF IInv
  <1>3. i <= c.given \/ i \notin later
    <2>1. i # 0
      OBVIOUS
    <2>. QED
      BY <1>1, <2>1 DEF ChangedAre
  <1>. PICK v : v = Passed(c)[i]
    OBVIOUS
  <1>. PICK u : u = ForeignType(c, Passed(c), i)
    OBVIOUS
  <1>4. ~NotForeign(u, v) /\ ~IsFunctionPointer(u) /\ ForeignBytes(c, later, u, v) = Bytes(c, i, "old")
    BY <1>1, <1>3, ForeignValueArrives
  <1>. QED
    BY <1>1, <1>4

LEMMA PushForeignKeeps == IInv /\ PushForeign => IInv'
  <1>. SUFFICES ASSUME IInv, PushForeign PROVE IInv'
    OBVIOUS
  <1>. PICK u : u = ForeignType(call, passed, at)
    OBVIOUS
  <1>. PICK v : v = passed[at]
    OBVIOUS
  <1>1. phase = "foreign" /\ at <= Len(passed) /\ call.fn.foreign
    BY DEF IInv, PushForeign, PhaseIs
  <1>2. \/ OutOfStep(call)
        \/ ~NotForeign(u, v) /\ ForeignBytes(call, changed, u, v) = Bytes(call, at, "old")
    BY <1>1, ForeignStep
  <1>3. CASE NotForeign(u, v)
    <2>1. phase' = "fault" /\ UNCHANGED <<call, at, passed, changed, machine, frame, returned, slot>>
      BY <1>3 DEF PushForeign
    <2>2. FaultIs(call, "fault", machine, at)
      BY <1>1, <1>2, <1>3 DEF FaultIs
    <2>. QED
      BY <1>1, <2>1, <2>2, FaultKeeps
  <1>4. CASE ~NotForeign(u, v)
    <2>. PICK held : held = ForeignBytes(call, changed, u, v)
      OBVIOUS
    <2>1. /\ phase' = phase /\ frame' = Append(frame, held) /\ at' = at + 1
          /\ UNCHANGED <<call, passed, changed, machine, returned, slot>>
      BY <1>1, <1>4 DEF PushForeign
    <2>2. HeldIs(call, changed, machine, at, held)
      BY <1>1, <1>2 DEF HeldIs
    <2>. QED
      BY <1>1, <2>1, <2>2, AppendKeeps
  <1>. QED
    BY <1>3, <1>4

LEMMA PushCallbackKeeps == IInv /\ PushCallback => IInv'
  <1>. SUFFICES ASSUME IInv, PushCallback PROVE IInv'
    OBVIOUS
  <1>. PICK u : u = ForeignType(call, passed, at)
    OBVIOUS
  <1>1. phase = "foreign" /\ at <= Len(passed) /\ call.fn.foreign /\ IsFunctionPointer(u)
        /\ phase' = "fault" /\ UNCHANGED <<call, at, passed, changed, machine, frame, returned, slot>>
    BY DEF IInv, PushCallback, PhaseIs
  <1>2. OutOfStep(call)
    BY <1>1, ForeignStep
  <1>3. FaultIs(call, "fault", machine, at)
    BY <1>1, <1>2 DEF FaultIs
  <1>. QED
    BY <1>1, <1>3, FaultKeeps

LEMMA ForeignReturnKeeps == IInv /\ ForeignReturn => IInv'
  <1>. SUFFICES ASSUME IInv, ForeignReturn PROVE IInv'
    OBVIOUS
  <1>. PICK c \in CallSites : c = call
    BY DEF IInv
  <1>. PICK ph : ph = phase'
    OBVIOUS
  <1>. PICK memory : memory = slot'
    OBVIOUS
  <1>1. /\ call' = c /\ phase = "foreign" /\ c.fn.foreign
        /\ UNCHANGED <<at, passed, changed, machine, frame, returned>>
        /\ ph = IF Len(c.fn.returns) > 1 THEN "reported"
                ELSE IF Returns(c) /\ ResultType(c).kind \in {"enum", "array", "vector", "function"}
                THEN "fault" ELSE "returned"
    BY DEF ForeignReturn, IInv, PhaseIs
  <1>2. ph \in {"reported", "fault", "returned"}
    BY <1>1
  <1>3. ph = "fault" => OutOfStep(c)
    <2>1. ph = "fault" => Returns(c) /\ ResultType(c).kind \in {"enum", "array", "vector", "function"}
      BY <1>1
    <2>. QED
      BY <2>1 DEF OutOfStep, IsLoadableType
  <1>4. /\ at \in Nat \ {0} /\ PassingIs(c, ph, at, passed) /\ ChangedAre(c, changed)
        /\ PhaseIs(c, ph, machine, returned)
    BY <1>1, <1>2 DEF IInv, PassingIs, PhaseIs
  <1>5. FrameIs(ph, at, frame) /\ AllHeld(c, changed, machine, frame)
    BY <1>2 DEF IInv, FrameIs
  <1>6. FaultIs(c, ph, machine, at) /\ ResultIs(c, ph, changed, memory)
    BY <1>1, <1>3 DEF FaultIs, ResultIs
  <1>. QED
    BY <1>1, <1>4, <1>5, <1>6 DEF IInv

LEMMA StutterKeeps == IInv /\ UNCHANGED vars => IInv'
  BY DEF IInv, vars

LEMMA IInvNext == IInv /\ [Next]_vars => IInv'
  <1>. SUFFICES ASSUME IInv, [Next]_vars PROVE IInv'
    OBVIOUS
  <1>1. CASE \E i \in 1 .. Len(call.fn.params) : Reassign(i)
    BY <1>1, ReassignKeeps
  <1>2. CASE \E m \in {"generated", "interpreter"} : Call(m)
    BY <1>2, CallKeeps
  <1>3. CASE Finished \/ UNCHANGED vars
    BY <1>3, StutterKeeps DEF Finished
  <1>4. CASE BeginCall \/ PassArgument \/ PassDefault \/ PassForeignExtra \/ PassSlice
    BY <1>4, BeginCallKeeps, PassArgumentKeeps, PassDefaultKeeps, PassForeignExtraKeeps, PassSliceKeeps
  <1>5. CASE NotLoaded \/ TakeParameter \/ TakeSlice \/ EvaluateReturn \/ Defer \/ Return
    BY <1>5, NotLoadedKeeps, TakeParameterKeeps, TakeSliceKeeps, EvaluateReturnKeeps, DeferKeeps,
       ReturnKeeps
  <1>6. CASE PushForeign \/ PushCallback \/ ForeignReturn
    BY <1>6, PushForeignKeeps, PushCallbackKeeps, ForeignReturnKeeps
  <1>. QED
    BY <1>1, <1>2, <1>3, <1>4, <1>5, <1>6 DEF Next

\* The inductive invariant: what is passed, which phase a call is in, and how
\* far the callee's frame is (FixFunctionTypeForCallConv, AST_CALL, OP_ARG,
\* AST_RETURN, PerformForeignFunctionCall).
THEOREM CallInvariant == Spec => []IInv
  <1>1. Init => IInv
    BY IInvInit
  <1>2. IInv /\ [Next]_vars => IInv'
    BY IInvNext
  <1>. QED
    BY <1>1, <1>2, PTL DEF Spec

\* On every target a call has the values and the result register that its
\* function's type declares: FixFunctionTypeForCallConv, the call's lowering
\* and the return statement divide every type in the same way.
THEOREM CallsFit == Spec => []CallFitsFunction
  <1>1. IInv => CallFitsFunction
    BY IInvFits
  <1>. QED
    BY <1>1, CallInvariant, PTL

\* Every parameter that OP_ARG puts together, in generated code and in the
\* interpreter, has every byte of its argument's members; a foreign function
\* called while compiling gets its arguments as they were evaluated.
THEOREM EveryArgumentArrives == Spec => []ArgumentsArrive
  <1>1. IInv => ArgumentsArrive
    BY IInvArrives
  <1>. QED
    BY <1>1, CallInvariant, PTL

\* The caller's memory for a result has every byte of its members as the return
\* statement evaluated it, unless it is copied through memory after deferred
\* statements that assigned to it.
THEOREM EveryResultArrives == Spec => []ResultArrives
  <1>1. IInv => ResultArrives
    BY IInvArrives
  <1>. QED
    BY <1>1, CallInvariant, PTL
=============================================================================
