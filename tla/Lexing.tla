------------------------------- MODULE Lexing -------------------------------
(* The lexer (src/src/Lexer.cpp). A text is a sequence of characters; the   *)
(* lexer is where it stands, what it has reported and how it went on. A     *)
(* token is its type and its characters; a token of one special character   *)
(* has that character for its type, as token_type has.                      *)
EXTENDS Naturals, Sequences, FiniteSets, SequencesExt

CONSTANTS
    Letters,      \* the letters that texts are made of, "_" among them
    Keywords,     \* KeywordTable: from a spelling to the type it stands for
    ErrorLimit    \* RaiseError ends the program with the error after this many

Digits == {"0", "1", "2", "3", "4", "5", "6", "7", "8", "9"}
HexLetters == {"a", "b", "c", "d", "e", "f", "A", "B", "C", "D", "E", "F"}
Spaces == {" ", "\n"}
Nul == "NUL"       \* and the back quote is "tick"

IsIDCharacter(c) == c \in Letters
GetKeyword(s) == IF s \in DOMAIN Keywords THEN Keywords[s] ELSE "ID"
MakeToken(type, s) == [t |-> type, v |-> s]
EOFToken == MakeToken("EOF", << >>)

-----------------------------------------------------------------------------
(* Reading characters. x.at is the index of the next character of x.text.   *)
AtEnd(x) == x.at > Len(x.text)
PeekCAhead(x, depth) == IF x.at + depth > Len(x.text) THEN Nul ELSE x.text[x.at + depth]
PeekC(x) == PeekCAhead(x, 0)
Between(x, from, to) == SubSeq(x.text, from, to - 1)

\* RaiseError: the error after the limit ends the program.
Raise(x) == [x EXCEPT !.errors = @ + 1, !.fate = IF x.errors >= ErrorLimit THEN "exited" ELSE @]

AdvanceC(x) == IF AtEnd(x) THEN Raise(x) ELSE [x EXCEPT !.at = @ + 1]

\* The first index from `from` on whose character satisfies Stop, or the end.
FirstFrom(x, from, Stop(_)) ==
    CHOOSE j \in from .. Len(x.text) + 1 :
        /\ j > Len(x.text) \/ Stop(x.text[j])
        /\ \A k \in from .. j - 1 : ~Stop(x.text[k])
SkipTo(x, Stop(_)) == [x EXCEPT !.at = FirstFrom(x, x.at, Stop)]

SkipWhiteSpace(x) == SkipTo(x, LAMBDA c : c \notin Spaces)
Emit(x, type, s) == [x EXCEPT !.token = MakeToken(type, s)]

\* A token of type EOF is what an error leaves; StringToTokens stops at it.
Refuse(x) == [x EXCEPT !.token = EOFToken]

-----------------------------------------------------------------------------
IsNameCharacter(c) == IsIDCharacter(c) \/ c \in Digits

TokinizeCompilerDirective(x) ==
    LET y == SkipTo(AdvanceC(x), LAMBDA c : ~IsNameCharacter(c))
        type == GetKeyword(Between(x, x.at, y.at))
    IN  IF type = "ID" THEN Refuse(Raise(y)) ELSE Emit(y, type, << >>)

TokinizeIdentifier(x) ==
    LET y == SkipTo(x, LAMBDA c : ~IsNameCharacter(c))
        s == Between(x, x.at, y.at)
        type == GetKeyword(s)
    IN  Emit(y, type, IF type = "ID" THEN s ELSE << >>)

\* A number with a prefix runs over every character of `Runs`; one error for
\* each that is not a digit of its base, and one if there is no digit at all.
PrefixedNumber(x, Runs(_), base) ==
    LET y == SkipTo(AdvanceC(AdvanceC(x)), LAMBDA c : ~(Runs(c) \/ c = "_"))
        digits == SelectSeq(Between(x, x.at + 2, y.at), LAMBDA c : c # "_")
        wrong == Len(SelectSeq(digits, LAMBDA c : c \notin base))
                   + (IF digits = << >> THEN 1 ELSE 0)
        z == FoldLeft(LAMBDA a, k : Raise(a), y, [k \in 1 .. wrong |-> k])
    IN  IF wrong > 0 THEN Refuse(z)
        ELSE Emit(z, "VAL", Between(x, x.at, x.at + 2) \o digits)

\* Digits, underscores and one dot.
PlainNumber(x) ==
    LET dot == FirstFrom(x, x.at, LAMBDA c : c \notin Digits \cup {"_"})
        end == IF dot <= Len(x.text) /\ x.text[dot] = "."
                   THEN FirstFrom(x, dot + 1, LAMBDA c : c \notin Digits \cup {"_"})
                   ELSE dot
    IN  Emit([x EXCEPT !.at = end], "VAL",
             SelectSeq(Between(x, x.at, end), LAMBDA c : c # "_"))

IsAlnum(c) == c # "_" /\ IsNameCharacter(c)
TokinizeNumber(x) ==
    IF PeekC(x) = "0" /\ PeekCAhead(x, 1) = "b"
        THEN PrefixedNumber(x, LAMBDA c : c \in Digits, {"0", "1"})
    ELSE IF PeekC(x) = "0" /\ PeekCAhead(x, 1) = "x"
        THEN PrefixedNumber(x, IsAlnum, Digits \cup HexLetters)
    ELSE IF PeekC(x) = "0" /\ PeekCAhead(x, 1) = "o"
        THEN PrefixedNumber(x, IsAlnum, Digits \ {"8", "9"})
    ELSE PlainNumber(x)

\* Up to the next three quotes that close it.
TokinizeRawStringAndText(x) ==
    LET Closes(j) == j + 2 <= Len(x.text) /\ \A k \in 0 .. 2 : x.text[j + k] = "tick"
        closing == {j \in x.at .. Len(x.text) : Closes(j)}
    IN  IF closing = {} THEN Refuse(Raise([x EXCEPT !.at = Len(x.text) + 1]))
        ELSE LET j == Min(closing)
             IN  Emit([x EXCEPT !.at = j + 3], "STR", Between(x, x.at, j))

\* The spelling of `n` characters from x on, if it is a keyword.
KeywordOf(x, n) == GetKeyword(Between(x, x.at, x.at + n))
TakeKeyword(x, n) ==
    LET y == [x EXCEPT !.at = @ + n]
    IN  IF KeywordOf(x, n) = "RAWSTRING" THEN TokinizeRawStringAndText(y)
        ELSE Emit(y, KeywordOf(x, n), << >>)

TwoBeforeThree(x) ==
    LET left == Len(x.text) - x.at
    IN  IF left > 1 /\ KeywordOf(x, 2) # "ID" THEN TakeKeyword(x, 2)
        ELSE IF left > 2 /\ KeywordOf(x, 3) # "ID" THEN TakeKeyword(x, 3)
        ELSE Emit(AdvanceC(x), PeekC(x), << >>)
\* Three characters, two, a character and a name, or one: the first that is a
\* keyword. Three and two are tried only if there is another character behind.
TokinizeSpecialCharacter(x) ==
    LET left == Len(x.text) - x.at
        named == {n \in 2 .. left + 1 :
                    /\ \A k \in 1 .. n - 1 : IsIDCharacter(x.text[x.at + k])
                    /\ KeywordOf(x, n) # "ID"}
    IN  IF left > 2 /\ KeywordOf(x, 3) # "ID" THEN TakeKeyword(x, 3)
        ELSE IF left > 1 /\ KeywordOf(x, 2) # "ID" THEN TakeKeyword(x, 2)
        ELSE IF named # {} THEN TakeKeyword(x, Min(named))
        ELSE Emit(AdvanceC(x), PeekC(x), << >>)

\* What the character behind a backslash stands for.
GetEscapedChar(c) == IF c = "n" THEN "\n" ELSE IF c = "0" THEN Nul ELSE c


\* The characters of a quoted token up to the quote that ends it.
QuotedStep(quote, a, c) ==
    IF a.closed THEN a
    ELSE IF a.escape THEN [a EXCEPT !.escape = FALSE, !.n = @ + 1, !.s = Append(@, GetEscapedChar(c))]
    ELSE IF c = "\\" THEN [a EXCEPT !.escape = TRUE, !.n = @ + 1]
    ELSE IF c = quote THEN [a EXCEPT !.closed = TRUE, !.n = @ + 1]
    ELSE [a EXCEPT !.n = @ + 1, !.s = Append(@, c)]
Quoted(x, quote) ==
    FoldLeft(LAMBDA a, c : QuotedStep(quote, a, c),
             [closed |-> FALSE, escape |-> FALSE, n |-> 0, s |-> << >>],
             Between(x, x.at, Len(x.text) + 1))

\* Reading on at the end of the text reports each time it is tried.
RaiseTimes(x, n) ==
    [x EXCEPT !.errors = @ + n, !.fate = IF x.errors + n > ErrorLimit THEN "exited" ELSE @]
Pending(q) == IF q.escape THEN 1 ELSE 0

TokinizeString(x, type) ==
    LET y == AdvanceC(x)
        q == Quoted(y, "\"")
        z == [y EXCEPT !.at = @ + q.n]
    IN  IF q.closed THEN Emit(z, type, q.s) ELSE Refuse(RaiseTimes(z, Pending(q) + 2))

\* At most four characters. Behind one that is not closed the lexer asserts
\* that it reads a quote.
TokinizeCharLiteral(x) ==
    LET y == AdvanceC(x)
        q == Quoted(y, "'")
        z == [y EXCEPT !.at = @ + q.n]
        long == Len(q.s) > 4
        open == RaiseTimes(z, Pending(q) + 3 + (IF Len(q.s) + Pending(q) >= 4 THEN 1 ELSE 0))
    IN  IF ~q.closed
            THEN Refuse([open EXCEPT !.fate = IF @ = "reading" THEN "asserted" ELSE @])
        ELSE IF long THEN Refuse(Raise(z))
        ELSE Emit(z, "CHAR", q.s)

\* The index behind a block comment, or 0: comments nest.
RECURSIVE CommentEnd(_, _, _)
CommentEnd(s, j, depth) ==
    LET two == SubSeq(s, j, j + 1)
    IN  IF depth = 0 THEN j
        ELSE IF j > Len(s) THEN 0
        ELSE IF j < Len(s) /\ two = <<"/", "*">> THEN CommentEnd(s, j + 2, depth + 1)
        ELSE IF j < Len(s) /\ two = <<"*", "/">> THEN CommentEnd(s, j + 2, depth - 1)
        ELSE CommentEnd(s, j + 1, depth)

\* A comment that the text ends in is read on until RaiseError gives up.
EatComment(x) ==
    LET end == IF PeekCAhead(x, 1) = "*" THEN CommentEnd(x.text, x.at + 2, 1)
               ELSE LET j == FirstFrom(x, x.at, LAMBDA c : c = "\n")
                    IN  IF j > Len(x.text) THEN 0 ELSE j + 1
    IN  IF end = 0 THEN Refuse([x EXCEPT !.at = Len(x.text) + 1, !.errors = ErrorLimit + 1,
                                         !.fate = "exited"])
        ELSE [x EXCEPT !.at = end]

RECURSIVE GetNextToken(_)
GetNextToken(x0) ==
    LET x == SkipWhiteSpace(x0)
        first == PeekC(x)
        second == PeekCAhead(x, 1)
    IN  IF AtEnd(x) THEN Refuse(x)
        ELSE IF first = "c" /\ second = "\"" THEN TokinizeString(AdvanceC(x), "CSTR")
        ELSE IF IsIDCharacter(first) THEN TokinizeIdentifier(x)
        ELSE IF first \in Digits \/ (first = "." /\ second \in Digits) THEN TokinizeNumber(x)
        ELSE IF first = "'" THEN TokinizeCharLiteral(x)
        ELSE IF first = "\"" THEN TokinizeString(x, "STR")
        ELSE IF first = "#" THEN TokinizeCompilerDirective(x)
        ELSE IF first = "/" /\ second \in {"/", "*"}
            THEN LET y == EatComment(x) IN IF y.fate = "reading" THEN GetNextToken(y) ELSE y
        ELSE TokinizeSpecialCharacter(x)

StartReading(s) == [text |-> s, at |-> 1, errors |-> 0, fate |-> "reading", token |-> EOFToken]

-----------------------------------------------------------------------------
(* What the tokens of a text should be: at every point the longest piece    *)
(* that is a token by itself, blanks and comments left out.                 *)
IsNumber(s) ==
    LET Plain(set) == \A j \in 3 .. Len(s) : s[j] \in set \cup {"_"}
        Based(letter, set) ==
            /\ Len(s) > 2 /\ s[1] = "0" /\ s[2] = letter /\ Plain(set)
            /\ \E j \in 3 .. Len(s) : s[j] # "_"
    IN  \/ Based("b", {"0", "1"})
        \/ Based("o", Digits \ {"8", "9"})
        \/ Based("x", Digits \cup HexLetters)
        \/ /\ \A j \in DOMAIN s : s[j] \in Digits \cup {"_", "."}
           /\ Cardinality({j \in DOMAIN s : s[j] = "."}) <= 1
           /\ s[1] \in Digits \/ (s[1] = "." /\ Len(s) > 1 /\ s[2] \in Digits)

IsQuoted(s, quote) ==
    Len(s) > 1 /\ s[1] = quote
      /\ LET q == Quoted([text |-> s, at |-> 2], quote) IN q.closed /\ q.n = Len(s) - 1

IsRaw(s) ==
    LET Marks == {j \in 1 .. Len(s) - 2 : SubSeq(s, j, j + 2) = <<"tick", "tick", "tick">>}
    IN  1 \in Marks /\ {j \in Marks : j > 3} = {Len(s) - 2}

IsLexeme(s) ==
    \/ s \in DOMAIN Keywords \ {<<"tick", "tick", "tick">>}
    \/ IsIDCharacter(s[1]) /\ \A j \in DOMAIN s : IsNameCharacter(s[j])
    \/ IsNumber(s) \/ IsQuoted(s, "\"") \/ IsQuoted(s, "'") \/ IsRaw(s)
    \/ s[1] = "c" /\ Len(s) > 1 /\ IsQuoted(Tail(s), "\"")
    \/ Len(s) = 1 /\ s[1] \notin Spaces

TypeOfLexeme(s) ==
    IF s \in DOMAIN Keywords THEN Keywords[s]
    ELSE IF IsIDCharacter(s[1]) THEN IF s[Len(s)] = "\"" THEN "CSTR" ELSE "ID"
    ELSE IF IsNumber(s) THEN "VAL"
    ELSE IF Len(s) > 1 /\ s[1] = "'" THEN "CHAR"
    ELSE IF Len(s) > 1 THEN "STR"
    ELSE s[1]

RECURSIVE TypesWritten(_, _)
TypesWritten(s, j) ==
    IF j > Len(s) THEN <<"EOF">>
    ELSE IF s[j] \in Spaces THEN TypesWritten(s, j + 1)
    ELSE IF SubSeq(s, j, j + 1) = <<"/", "/">>
        THEN TypesWritten(s, FirstFrom([text |-> s], j, LAMBDA c : c = "\n"))
    ELSE IF SubSeq(s, j, j + 1) = <<"/", "*">> THEN TypesWritten(s, CommentEnd(s, j + 2, 1))
    ELSE LET end == Max({k \in j .. Len(s) : IsLexeme(SubSeq(s, j, k))})
         IN  <<TypeOfLexeme(SubSeq(s, j, end))>> \o TypesWritten(s, end + 1)
=============================================================================
