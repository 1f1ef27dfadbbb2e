------------------------------- MODULE Parsing -------------------------------
(* The parser (src/src/Parser.cpp): recursive descent with panic-mode       *)
(* recovery. A parser is a record of struct parser's fields, with what it   *)
(* reported and its fate; each Parse operator returns the parser it leaves  *)
(* (p) and what it parsed (n). Once the program has exited, crashed or runs *)
(* in circles the parser is put at the end of its tokens and nothing counts.*)
EXTENDS Integers, Sequences, SequencesExt, Trees

CONSTANTS
    ReportLimit,  \* RaiseError ends the program with the error after this many
    FilesFound,   \* the names in imports and libraries that a file is found for
    ReservedIDs   \* ReservedIDs of Parser.h, as names

Cur(p) == p.tokens[p.at].t
Value(p) == p.tokens[p.at].v
R(p, n) == [p |-> p, n |-> n]

Stop(p, fate) ==
    IF p.fate = "parsing" THEN [p EXCEPT !.fate = fate, !.at = Len(p.tokens)] ELSE p
Report(p) ==
    IF p.fate # "parsing" THEN p
    ELSE IF p.errors = ReportLimit THEN [Stop(p, "exited") EXCEPT !.errors = @ + 1]
    ELSE [p EXCEPT !.errors = @ + 1]

GetToken(p) == IF Cur(p) = "EOF" THEN p ELSE [p EXCEPT !.at = @ + 1]

\* PeekToken(Parser, 1): looking past the end of the file is reported.
NextType(p) == IF Cur(p) = "EOF" THEN "EOF" ELSE p.tokens[p.at + 1].t
PeekNext(p) == IF Cur(p) = "EOF" THEN Report(p) ELSE p

-----------------------------------------------------------------------------
(* Recovery *)
OpeningOf(t) == IF t = "}" THEN "{" ELSE IF t = ")" THEN "(" ELSE "["

\* The brackets that are open behind t.
Nested(nested, t, safe) ==
    IF t \in DOMAIN nested /\ ~safe THEN [nested EXCEPT ![t] = @ + 1]
    ELSE IF t \in {"}", ")", "]"} /\ nested[OpeningOf(t)] > 0
        THEN [nested EXCEPT ![OpeningOf(t)] = @ - 1]
    ELSE nested

\* Tokens are skipped to a safe one outside every bracket opened on the way.
RECURSIVE Skip(_, _)
Skip(p, nested) ==
    LET t == Cur(p)
        safe == {k \in DOMAIN p.safe : p.safe[k].t = t}
        n == Nested(nested, t, safe # {})
    IN  IF t = "EOF" THEN [p |-> p, ok |-> FALSE]
        ELSE IF safe # {} /\ \A b \in DOMAIN n : n[b] = 0
            THEN [p |-> [(IF p.safe[Max(safe)].eat THEN GetToken(p) ELSE p) EXCEPT !.panic = FALSE],
                  ok |-> TRUE]
        ELSE Skip(GetToken(p), n)
TrySynchronize(p) == Skip(p, [b \in {"{", "(", "["} |-> 0])

Pushed(p, t, eat) == [p EXCEPT !.safe = Append(@, [t |-> t, eat |-> eat])]
Popped(p) == [p EXCEPT !.safe = SubSeq(@, 1, Len(@) - 1)]
SyncAlsoAt(p, t) ==
    LET s == TrySynchronize(Pushed(p, t, TRUE)) IN [s EXCEPT !.p = Popped(@)]
Sync(p) == TrySynchronize(p).p
SyncIfPanic(p) == IF p.panic THEN Sync(p) ELSE p

PassesOverQuietly(p, t) ==
    IF Cur(p) = t THEN [p |-> GetToken(p), ok |-> TRUE, v |-> Value(p)]
    ELSE IF NextType(p) = t
        THEN [p |-> [p EXCEPT !.at = @ + 2], ok |-> TRUE, v |-> p.tokens[p.at + 1].v]
    ELSE [p |-> Report([p EXCEPT !.panic = TRUE]), ok |-> FALSE, v |-> Absent]
PassedOver(q, t, panic) ==
    IF NextType(q) = t THEN [p |-> [q EXCEPT !.at = @ + 2, !.panic = panic], ok |-> TRUE,
                             v |-> q.tokens[q.at + 1].v]
    ELSE [p |-> q, ok |-> FALSE, v |-> Absent]
\* A wrong token is reported once per panic; it is passed over, and the panic
\* is over, if the expected one comes next.
EatToken(p, t) ==
    IF Cur(p) = t THEN [p |-> GetToken(p), ok |-> TRUE, v |-> Value(p)]
    ELSE PassedOver(PeekNext(IF p.panic THEN p ELSE Report([p EXCEPT !.panic = TRUE])), t, p.panic)
Eat(p, t) == EatToken(p, t).p
EatIf(p, t) == IF Cur(p) = t THEN GetToken(p) ELSE p
RECURSIVE SkipToToken(_, _)
SkipToToken(p, t) == IF Cur(p) \in {t, "EOF"} THEN p ELSE SkipToToken(GetToken(p), t)

-----------------------------------------------------------------------------
\* The productions call one another through this one.
RECURSIVE Read(_, _, _)
AnyLevel == -999
Expression(p) == Read("expression", p, AnyLevel)
Type(p) == Read("type", p, TRUE)

\* An expression with the two flags of the parser set for its duration.
With(p, noItems, noStructs) == [p EXCEPT !.noItems = noItems, !.noStructs = noStructs]
Restored(r, p) == [r EXCEPT !.p = With(@, p.noItems, p.noStructs)]
HeaderExpression(p) == Restored(Expression(With(p, p.noItems, TRUE)), p)
ItemExpression(p) == Restored(Expression(With(p, TRUE, p.noStructs)), p)
ListExpression(p) == Restored(Expression(With(p, FALSE, p.noStructs)), p)

\* Items up to the first that is not followed by the separator; without one
\* up to the first that is absent.
RECURSIVE DelimitedFrom(_, _, _, _)
DelimitedFrom(p, by, what, nodes) ==
    LET r == Read(what, p, Absent)
        more == IF r.n = Absent THEN nodes ELSE Append(nodes, r.n)
    IN  IF IsError(r.n) THEN [p |-> Sync(r.p), n |-> nodes]
        ELSE IF by = "" /\ r.n # Absent THEN DelimitedFrom(r.p, by, what, more)
        ELSE IF by # "" /\ Cur(r.p) = by THEN DelimitedFrom(GetToken(r.p), by, what, more)
        ELSE [p |-> r.p, n |-> more]
Delimited(p, by, what) ==
    Restored(DelimitedFrom(With(p, TRUE, p.noStructs), by, what, << >>), p)
DelimitedSafely(p, by, what, t) ==
    LET r == Delimited(Pushed(p, t, FALSE), by, what) IN [r EXCEPT !.p = Popped(@)]

-----------------------------------------------------------------------------
(* Types *)
ArrayTypeOf(e, t) ==
    IF t.n = Absent THEN R(Stop(t.p, "crashes"), MakeError)
    ELSE R(t.p, MakeArrayType(t.n, e))
BehindArraySize(e, s) ==
    IF e.p.panic \/ ~s.ok THEN R(s.p, MakeError) ELSE ArrayTypeOf(e.n, Type(s.p))
AtSquareBracket(p) == IF p.panic THEN SyncAlsoAt(p, "]") ELSE [p |-> p, ok |-> TRUE]
ParseArrayType(p) ==
    LET e == IF Cur(p) = "]" THEN R(p, Absent) ELSE Expression(p)
    IN  BehindArraySize(e, AtSquareBracket(IF e.p.panic THEN e.p ELSE Eat(e.p, "]")))

\* A generic type that does not end is recovered from only where a type must be.
GenericStructTypeOf(id, must, args) ==
    IF Cur(args.p) = ">" THEN R(Popped(GetToken(args.p)), MakeGenericStructType(id, args.n))
    ELSE R(Popped(IF must THEN Sync(args.p) ELSE args.p), MakeError)
GenericStructType(p, id, must) ==
    GenericStructTypeOf(id, must, Delimited(Pushed(GetToken(p), ">", FALSE), ",", "type argument"))

NamedType(p, must) ==
    LET id == MakeID(Value(p))
        q == GetToken(p)
        member == EatToken(GetToken(q), "ID")
    IN  IF Cur(q) = "." THEN R(member.p, IF member.ok THEN MakeSelector(id, member.v) ELSE MakeError)
        ELSE IF Cur(q) = "<" THEN GenericStructType(q, id, must)
        ELSE R(q, id)

OptionalType(p) ==
    LET t == Read("type", GetToken(p), FALSE)
        q == IF IsError(t.n) THEN Report([t.p EXCEPT !.panic = TRUE])
             ELSE IF t.n[1] # "pointer" THEN Report(t.p) ELSE t.p
    IN  IF t.n = Absent THEN R(Stop(t.p, "crashes"), MakeError)
        ELSE R(q, MakePointerType(IF t.n[1] = "pointer" THEN t.n[2] ELSE Absent, TRUE))

PointerType(p) ==
    LET t == Read("type", GetToken(p), FALSE)
    IN  R(t.p, MakePointerType(IF IsError(t.n) THEN Absent ELSE t.n, FALSE))

GenericType(p) ==
    LET id == EatToken(GetToken(p), "ID")
    IN  R(id.p, IF id.ok THEN MakeGenericNode(id.v) ELSE MakeError)

\* void is the absence of a type.
AnyType(p, must) ==
    LET t == Cur(p)
    IN  CASE t = "ID" -> NamedType(p, must)
          [] t = "TYPEOF" -> Read("operand", p, Absent)
          [] t = "[" -> ParseArrayType(GetToken(p))
          [] t = "?" -> OptionalType(p)
          [] t = "*" -> PointerType(p)
          [] t = "FN" -> Read("function type", p, Absent)
          [] t = "$" -> GenericType(p)
          [] t \in {"STRUCT", "UNION"} -> Read("struct", p, <<t = "UNION", Absent>>)
          [] t = "VOID" -> R(GetToken(p), Absent)
          [] OTHER -> R(p, MakeError)
TypeThere(r, must) ==
    IF IsError(r.n) /\ must THEN R([Report(r.p) EXCEPT !.panic = TRUE], MakeError) ELSE r
ParseType(p, must) == TypeThere(AnyType(p, must), must)

-----------------------------------------------------------------------------
(* Functions *)
\* `name: type = default`, `type`, `name: ...` or `name := default`.
WithDefault(name, t) ==
    LET d == IF Cur(t.p) = "=" THEN ItemExpression(GetToken(t.p)) ELSE R(t.p, Absent)
    IN  R(d.p, MakeVar(name, t.n, d.n))
ArgumentNamed(name, p) ==
    IF Cur(p) = "VARARG" THEN R(GetToken(p), MakeVar(name, Done, Absent))
    ELSE WithDefault(name, IF Cur(p) = "=" THEN R(p, Absent) ELSE Type(p))
ArgumentName(id) == IF id.ok THEN ArgumentNamed(id.v, Eat(id.p, ":")) ELSE R(id.p, MakeError)
ArgumentFrom(p) ==
    IF NextType(p) = ":" THEN ArgumentName(EatToken(p, "ID")) ELSE ArgumentNamed(<<"_">>, p)
ParseFunctionArgument(p) == ArgumentFrom(PeekNext(p))

PlainFlags == {"SELF", "NOCHECK", "FOREIGN", "INTR", "INLINE", "NORETURN"}
NamingFlags == {"LINK", "TAG", "CALLC"}
Renamed(flags, t, v) == {f \in flags : f[1] # t} \cup {<<t, v>>}

TwoNames(first, flags) ==
    LET second == EatToken(Eat(first.p, ","), "STR")
        foreign == flags \cup {<<"FOREIGN">>}
    IN  [p |-> second.p,
         n |-> IF first.ok /\ second.ok THEN Renamed(foreign, "WASM_IMPORT", <<first.v, second.v>>)
               ELSE foreign]
OneName(t, first, flags) ==
    [p |-> first.p, n |-> IF first.ok THEN Renamed(flags, t, first.v) ELSE flags]
FunctionFlag(p, t, flags) ==
    IF t \in PlainFlags THEN [p |-> GetToken(p), n |-> flags \cup {<<t>>}]
    ELSE LET first == EatToken(Eat(GetToken(p), "="), "STR") IN
         IF t \in NamingFlags THEN OneName(t, first, flags) ELSE TwoNames(first, flags)

RECURSIVE FlagsFrom(_)
FlagsFrom(r) ==
    IF Cur(r.p) \in PlainFlags \cup NamingFlags \cup {"WASM_IMPORT"}
    THEN FlagsFrom(FunctionFlag(r.p, Cur(r.p), r.n)) ELSE r
ParseFunctionFlags(p, flags) == FlagsFrom([p |-> p, n |-> flags])

RECURSIVE ReturnTypes(_, _)
ReturnTypes(p, types) ==
    LET t == Type(GetToken(p))
        more == Append(types, t.n)
    IN  IF Cur(t.p) = "," THEN ReturnTypes(t.p, more) ELSE [p |-> Eat(t.p, ")"), n |-> more]

FunctionReturns(p) ==
    IF Cur(p) # "ARR" THEN [p |-> p, n |-> << >>]
    ELSE IF NextType(p) = "(" THEN ReturnTypes(GetToken(p), << >>)
    ELSE LET one == Type(GetToken(p)) IN [p |-> one.p, n |-> <<one.n>>]
FunctionTypeOf(args, returns, flags) ==
    LET after == Read("function flags", returns.p, flags)
    IN  R(after.p, MakeFunction(Absent, args, returns.n, after.n, << >>))
BehindArguments(args, flags) == FunctionTypeOf(args.n, FunctionReturns(Eat(args.p, ")")), flags)
BehindParenthesis(open, flags) ==
    IF ~open.ok THEN R(open.p, MakeError)
    ELSE BehindArguments(IF Cur(open.p) = ")" THEN [p |-> open.p, n |-> << >>]
                         ELSE Delimited(open.p, ",", "argument"), flags)
BehindFlags(before) == BehindParenthesis(EatToken(before.p, "("), before.n)
BehindFn(f) == IF ~f.ok THEN R(f.p, MakeError) ELSE BehindFlags(Read("function flags", f.p, {}))
ParseFunctionType(p) == BehindFn(EatToken(p, "FN"))

-----------------------------------------------------------------------------
(* Structs and enums *)
Qualified(p, name) == IF name = Absent THEN Absent ELSE <<p.module, name>>

EnumMember(p) ==
    LET id == EatToken(p, "ID")
        e == IF Cur(id.p) = "=" THEN Expression(GetToken(id.p)) ELSE R(id.p, Absent)
    IN  IF Cur(p) = "}" THEN R(p, Absent)
        ELSE IF ~id.ok THEN R(id.p, MakeError)
        ELSE R(e.p, MakeListItem(id.v, e.n))

ParseEnum(p, name) ==
    LET q == GetToken(p)
        t == IF Cur(q) = ":" THEN Type(GetToken(q)) ELSE R(q, Absent)
        open == EatToken(t.p, "{")
        items == DelimitedSafely(open.p, ",", "enum member", "}")
    IN  IF ~open.ok THEN R(open.p, MakeError)
        ELSE R(Eat(items.p, "}"), MakeEnum(Qualified(p, name), items.n, t.n))

StructMember(p) ==
    LET used == Type(GetToken(p))
        id == EatToken(p, "ID")
        colon == EatToken(id.p, ":")
        t == Type(colon.p)
        d == IF Cur(t.p) = "=" THEN ItemExpression(GetToken(t.p)) ELSE R(t.p, Absent)
    IN  IF Cur(p) = "}" THEN R(p, Absent)
        ELSE IF Cur(p) = "USING" THEN R(used.p, MakeVar(Absent, used.n, Absent))
        ELSE IF ~id.ok THEN R(id.p, MakeError)
        ELSE IF ~colon.ok THEN R(colon.p, MakeError)
        ELSE R(d.p, IF d.p.panic THEN MakeError ELSE MakeVar(id.v, t.n, d.n))

RECURSIVE TypeParams(_, _)
TypeParams(p, params) ==
    LET id == EatToken(p, "ID")
        more == Append(params, id.v)
    IN  IF ~id.ok THEN [p |-> Eat(id.p, ">"), n |-> params]
        ELSE IF Cur(id.p) = "," THEN TypeParams(GetToken(id.p), more)
        ELSE [p |-> Eat(id.p, ">"), n |-> more]

ParseStruct(p, isUnion, name) ==
    LET q == Pushed(GetToken(p), "}", FALSE)
        params == IF Cur(q) = "<" THEN TypeParams(GetToken(q), << >>) ELSE [p |-> q, n |-> << >>]
        packed == Cur(params.p) = "PACK"
        open == EatToken(EatIf(params.p, "PACK"), "{")
        members == Delimited(open.p, ",", "struct member")
        close == EatToken(SyncIfPanic(members.p), "}")
        flags == (IF isUnion THEN {<<"union">>} ELSE {})
                   \cup (IF packed THEN {<<"packed">>} ELSE {})
    IN  IF ~open.ok THEN R(Popped(open.p), MakeError)
        ELSE R(Popped(close.p),
               IF close.ok THEN MakeStructDecl(Qualified(p, name), members.n, params.n, flags)
               ELSE MakeError)

-----------------------------------------------------------------------------
(* Conditional compilation *)
RECURSIVE SkipPwdIf(_, _)
SkipPwdIf(p, depth) ==
    IF depth = 0 THEN p
    ELSE IF Cur(p) = "EOF" THEN Report(p)
    ELSE SkipPwdIf(GetToken(p), IF Cur(p) = "{" THEN depth + 1
                                ELSE IF Cur(p) = "}" THEN depth - 1 ELSE depth)

Enter(p) == R([p EXCEPT !.scope = @ + 1], MakeScope(TRUE))

\* The branch that is chosen is entered like a scope; the others are skipped.
RECURSIVE ParsePwdIf(_)
ParsePwdIf(p) ==
    LET id == EatToken(GetToken(p), "ID")
        open == EatToken(id.p, "{")
        past == SkipPwdIf(open.p, 1)
        other == EatToken(GetToken(past), "{")
    IN  IF ~id.ok THEN R(id.p, MakeError)
        ELSE IF ~open.ok THEN R(open.p, MakeError)
        ELSE IF id.v \in p.config THEN Enter(open.p)
        ELSE IF Cur(past) = "PWDELSE"
            THEN IF other.ok THEN Enter(other.p) ELSE R(other.p, MakeError)
        ELSE IF Cur(past) = "PWDELIF" THEN ParsePwdIf(past)
        ELSE R(past, MakeError)

\* An #else or #elif that is met stands behind the branch that was taken.
SkipOtherBranch(p) ==
    LET id == IF Cur(p) = "PWDELIF" THEN Eat(GetToken(p), "ID") ELSE GetToken(p)
        open == EatToken(id, "{")
    IN  IF open.ok THEN SkipPwdIf(open.p, 1) ELSE open.p

-----------------------------------------------------------------------------
(* Operands *)
RECURSIVE Arguments(_, _)
Arguments(p, args) ==
    LET e == Expression(p)
        more == Append(args, e.n)
    IN  IF Cur(p) \in {")", "EOF"} THEN [p |-> p, n |-> args]
        ELSE IF Cur(e.p) = "," THEN Arguments(GetToken(e.p), more)
        ELSE IF Cur(e.p) = ")" THEN [p |-> e.p, n |-> more]
        ELSE Arguments(SkipToToken(Report(e.p), ")"), more)

ParseFunctionCall(p, operand) ==
    LET open == EatToken(With(p, TRUE, FALSE), "(")
        args == Arguments(open.p, << >>)
    IN  IF IsError(operand) THEN R(p, operand)
        ELSE Restored(R(Eat(args.p, ")"), MakeCall(operand, args.n)), p)

\* operand[index], operand[from:to] with either end left out.
ParseIndex(p, operand) ==
    LET q == GetToken(p)
        from == IF Cur(q) = ":" THEN R(q, Absent) ELSE Expression(q)
        after == GetToken(from.p)
        to == IF Cur(after) = "]" THEN R(after, Absent) ELSE Expression(after)
    IN  IF IsError(operand) THEN R(p, operand)
        ELSE IF Cur(from.p) = ":" THEN R(Eat(to.p, "]"), MakeSliceExpr(operand, from.n, to.n))
        ELSE R(Eat(from.p, "]"), MakeIndex(operand, from.n))

ListItem(p0) ==
    LET p == PeekNext(p0)
        named == NextType(p) = "="
        id == EatToken(p, "ID")
        q == IF named THEN Eat(id.p, "=") ELSE p
        e == Expression(q)
    IN  IF Cur(p0) = "}" THEN R(p0, Absent)
        ELSE IF named /\ ~id.ok THEN R(id.p, MakeError)
        ELSE R(e.p, MakeListItem(IF named THEN id.v ELSE Absent, e.n))

ParseList(p, operand) ==
    LET q == GetToken(p)
        items == IF Cur(q) = "}" THEN [p |-> q, n |-> << >>]
                 ELSE DelimitedSafely(q, ",", "list item", "}")
    IN  R(Eat(items.p, "}"), MakeTypeList(operand, items.n))

RECURSIVE Members(_, _)
Members(p, operand) ==
    LET id == EatToken(p, "ID")
        n == MakeSelector(operand, id.v)
    IN  IF id.p.panic THEN R(id.p, MakeError)
        ELSE IF Cur(id.p) = "." THEN Members(GetToken(id.p), n)
        ELSE R(id.p, n)
ParseSelectors(p, operand) ==
    IF NextType(p) = "{" /\ operand = Absent THEN ParseList(GetToken(p), operand)
    ELSE Members(GetToken(p), operand)

ParseLambda(p, args) ==
    LET b == Read("body", p, Absent)
        e == Expression(p)
    IN  IF Cur(p) = "{" THEN R(b.p, MakeShortLambda(args, Absent, b.n))
        ELSE R(e.p, MakeShortLambda(args, e.n, << >>))

RECURSIVE ListFrom(_, _)
ListFrom(p, items) ==
    LET e == Read("expression", GetToken(p), -19)
    IN  IF Cur(p) = "," THEN ListFrom(e.p, Append(items, e.n)) ELSE [p |-> p, n |-> items]

\* What may follow an operand, as often as it does. An operand that is an error
\* is handed back by a call or an index that have not moved: then it goes on
\* for ever.
RECURSIVE ParseAtom(_, _)
ParseAtom(p, operand) ==
    LET t == Cur(p)
        type == Type(GetToken(p))
        items == ListFrom(With(p, TRUE, p.noStructs), <<operand>>)
        r == CASE t \in {"PPLUS", "MMIN"} -> R(GetToken(p), MakePostOp(operand, t))
               [] t = "(" -> ParseFunctionCall(p, operand)
               [] t = "[" -> ParseIndex(p, operand)
               [] t = "." -> ParseSelectors(p, operand)
               [] t = "{" -> ParseList(p, operand)
               [] t = "AS" -> R(type.p, MakeCast(operand, type.n, FALSE))
    IN  IF t = "," /\ ~p.noItems THEN R(With(items.p, FALSE, p.noStructs), MakeList(items.n))
        ELSE IF t = "ARR" THEN ParseLambda(GetToken(p), operand)
        ELSE IF t \notin {"PPLUS", "MMIN", "(", "[", ".", "{", "AS"} \/ (t = "{" /\ p.noStructs)
            THEN R(p, operand)
        ELSE IF r.p = p THEN R(Stop(p, "loops"), operand)
        ELSE ParseAtom(r.p, r.n)

\* The parser is put back where it was; what was reported is not taken back.
LooksLikeGenericTypeInit(p) ==
    LET t == Read("type", p, FALSE)
        tried == Cur(p) = "ID" /\ NextType(p) = "<"
    IN  [p |-> IF ~tried THEN p
               ELSE IF t.p.fate # "parsing" THEN t.p ELSE [p EXCEPT !.errors = t.p.errors],
         ok |-> tried /\ t.n[1] = "genericstruct"]

NameOperand(p) ==
    LET looks == LooksLikeGenericTypeInit(p)
    IN  IF Value(p) \in ReservedIDs THEN R(GetToken(p), MakeReserve(Value(p)))
        ELSE IF looks.ok THEN Type(looks.p)
        ELSE R(GetToken(looks.p), MakeID(Value(p)))

\* if condition [then] value else value
IfOperand(p) ==
    LET c == Expression(GetToken(p))
        t == Expression(EatIf(c.p, "THEN"))
        mid == EatToken(t.p, "ELSE")
        f == Expression(mid.p)
    IN  IF mid.ok THEN R(f.p, MakeIfX(c.n, t.n, f.n)) ELSE R(mid.p, MakeError)

CastOperand(p) ==
    LET open == EatToken(GetToken(p), "(")
        type == Type(With(open.p, TRUE, p.noStructs))
        comma == EatToken(type.p, ",")
        e == Expression(comma.p)
    IN  IF ~open.ok THEN R(open.p, MakeError)
        ELSE IF ~comma.ok THEN Restored(R(comma.p, MakeError), p)
        ELSE Restored(R(Eat(e.p, ")"), MakeCast(e.n, type.n, Cur(p) = "BITCAST")), p)

\* size_of and type_of take an operand or an expression in parentheses.
Measured(p) ==
    LET e == Expression(GetToken(p))
    IN  IF Cur(p) = "(" THEN R(Eat(e.p, ")"), e.n) ELSE Read("unary", p, Absent)

FunctionOperand(p) ==
    LET f == Read("function type", p, Absent)
        b == Read("body", f.p, Absent)
    IN  IF IsError(f.n) THEN f
        ELSE IF Cur(f.p) # "{" THEN R(f.p, [f.n EXCEPT ![2] = <<"lambda">>])
        ELSE R(b.p, IF b.ok THEN [f.n EXCEPT ![2] = <<"lambda">>, ![6] = b.n] ELSE MakeError)

SwitchOperand(p) ==
    LET e == HeaderExpression(GetToken(p))
        open == EatToken(e.p, "{")
        cases == Delimited(open.p, "", "case")
    IN  IF open.ok THEN R(Eat(cases.p, "}"), MakeSwitch(e.n, cases.n)) ELSE R(open.p, MakeError)

\* The values of a case: a list as soon as there is a second one.
RECURSIVE CaseValues(_, _, _)
CaseValues(p, v, list) ==
    LET comma == Cur(p) = ","
        q == GetToken(Report(p))
        l == IF comma /\ list = << >> THEN <<v>> ELSE list
        e == Expression(EatIf(p, ","))
        more == IF l = << >> THEN l ELSE Append(l, e.n)
    IN  IF comma /\ v = Absent
            THEN IF Cur(q) = "," THEN CaseValues(q, v, list) ELSE R(q, v)
        ELSE IF Cur(e.p) = "," THEN CaseValues(e.p, e.n, more)
        ELSE R(e.p, IF more = << >> THEN e.n ELSE MakeList(more))

Case(p) ==
    LET v == CaseValues(GetToken(p), Absent, << >>)
        b == Read("maybe body", Eat(v.p, ":"), Absent)
    IN  IF Cur(p) # "CASE" THEN R(p, Absent)
        ELSE R(b.p, IF b.ok THEN MakeCase(v.n, b.n) ELSE MakeError)

\* In parentheses lists of items and of fields are allowed again.
ParenthesizedOperand(p) ==
    LET q == GetToken(With(p, FALSE, FALSE))
        lambda == ParseLambda(Eat(GetToken(q), "ARR"), MakeList(<< >>))
        e == Expression(q)
    IN  Restored(IF Cur(q) = ")" THEN lambda ELSE R(Eat(e.p, ")"), e.n), p)

InfoOperand(p) ==
    LET e == Read("operand", GetToken(p), Absent)
    IN  R(e.p, IF IsError(e.n) THEN MakeError ELSE MakeTypeInfo(e.n))
EmbedOperand(p) ==
    LET s == EatToken(GetToken(p), "STR")
    IN  R(s.p, IF s.ok THEN MakeEmbed(s.v, Cur(p) = "EMBED_STR") ELSE MakeError)
RunOperand(p) == LET e == Expression(GetToken(p)) IN R(e.p, MakeRun(<<e.n>>))
Wrapped(r, Make(_)) == R(r.p, Make(r.n))

\* What cannot start an operand is reported and stays where it is.
ParseOperand(p) ==
    LET t == Cur(p)
    IN  CASE t = "FILE_LOCATION" -> R(GetToken(p), MakeFileLocation)
          [] t = "." -> ParseSelectors(p, Absent)
          [] t = "IF" -> IfOperand(p)
          [] t = "INFO" -> InfoOperand(p)
          [] t \in {"BITCAST", "NEWCAST"} -> CastOperand(p)
          [] t \in {"EMBED_BIN", "EMBED_STR"} -> EmbedOperand(p)
          [] t = "TYPEOF" -> Wrapped(Measured(GetToken(p)), MakeTypeOf)
          [] t = "SIZEOF" -> Wrapped(Measured(GetToken(p)), MakeSize)
          [] t = "FN" -> FunctionOperand(p)
          [] t = "SWITCH" -> SwitchOperand(p)
          [] t = "[" -> ParseArrayType(GetToken(p))
          [] t = "ID" -> NameOperand(p)
          [] t = "CHAR" -> R(GetToken(p), MakeCharLiteral(Value(p)))
          [] t \in {"VAL", "STR", "CSTR"} -> R(GetToken(p), MakeConstant(<<t, Value(p)>>))
          [] t = "(" -> ParenthesizedOperand(p)
          [] t = "RUN" -> RunOperand(p)
          [] OTHER -> R(Report(p), MakeError)

PrefixTokens == {"PPLUS", "MMIN", "-", "!", "?", "&", "~", "*"}

ParseUnary(p) ==
    LET t == Cur(p)
        q == GetToken(p)
        operand == Read("unary", q, Absent)
        o == Read("operand", With(p, TRUE, p.noStructs), Absent)
        back == With(o.p, p.noItems, o.p.noStructs)
    IN  IF t = "*" /\ Cur(q) \in {"VOID", ";"} THEN R(EatIf(q, "VOID"), MakePointerType(Absent, FALSE))
        ELSE IF t \in PrefixTokens THEN R(operand.p, MakeUnary(operand.n, t))
        ELSE IF o.p.panic THEN R(Sync(back), o.n)
        ELSE ParseAtom(back, o.n)

-----------------------------------------------------------------------------
(* Expressions: an operator goes on as long as it binds at least as tightly *)
(* as the one on its left wants.                                            *)
Assignments == {"=", "PEQ", "MEQ", "TEQ", "DEQ", "MODEQ", "ANDEQ", "XOREQ", "OREQ", "SLEQ", "SREQ"}
Level == [t \in {"*", "/", "%"} |-> 80] @@ [t \in {"+", "-"} |-> 70]
      @@ [t \in {"SLEFT", "SRIGHT"} |-> 60] @@ [t \in {"&"} |-> 50] @@ [t \in {"^"} |-> 40]
      @@ [t \in {"|"} |-> 30] @@ [t \in {"<", ">", "GEQ", "LEQ"} |-> 20]
      @@ [t \in {"EQEQ", "NEQ"} |-> 10] @@ [t \in {"LAND"} |-> 0] @@ [t \in {"LOR"} |-> -10]
      @@ [t \in Assignments |-> -20]
AlwaysToTheRight(t) ==
    IF t \notin DOMAIN Level THEN [left |-> -1000, right |-> -1000]
    ELSE [left |-> Level[t], right |-> Level[t] - 1]
GetPrecedence(t) ==
    IF t \notin DOMAIN Level THEN [left |-> -1000, right |-> -1000]
    ELSE [left |-> Level[t], right |-> IF t \in Assignments THEN Level[t] - 1 ELSE Level[t] + 1]

RECURSIVE Operators(_, _, _)
Operators(p, lhs, precedence) ==
    LET op == GetPrecedence(Cur(p))
        r == Read("expression", GetToken(p), op.right)
        n == MakeBinary(lhs, r.n, Cur(p))
    IN  IF op.left < precedence THEN R(p, lhs)
        ELSE IF r.p.panic THEN R(Sync(r.p), n)
        ELSE Operators(r.p, n, precedence)

ParseExpression(p, precedence) ==
    LET l == Read("unary", p, Absent)
    IN  IF l.p.panic THEN R(Sync(l.p), l.n) ELSE Operators(l.p, l.n, precedence)

-----------------------------------------------------------------------------
(* Statements *)
\* Nodes up to the brace that closes the body. A node that leaves the parser as
\* it was comes back for ever, or until its reports reach the limit.
RECURSIVE BodyFrom(_, _, _)
BodyFrom(p, level, nodes) ==
    LET r == Read("node", p, TRUE)
        more == IF r.n = Absent \/ IsError(r.n) THEN nodes ELSE Append(nodes, r.n)
        s == IF r.p.panic THEN SyncAlsoAt(r.p, "]") ELSE [p |-> r.p, ok |-> TRUE]
    IN  IF ~s.ok THEN [p |-> s.p, n |-> more, ok |-> FALSE]
        ELSE IF s.p.scope = level THEN [p |-> s.p, n |-> more, ok |-> TRUE]
        ELSE IF [s.p EXCEPT !.errors = p.errors] = p
            THEN [p |-> Stop(p, "loops"), n |-> more, ok |-> FALSE]
        ELSE BodyFrom(s.p, level, more)

ParseBody(p) ==
    LET open == EatToken(p, "{")
    IN  IF ~open.ok THEN [p |-> open.p, n |-> << >>, ok |-> FALSE]
        ELSE BodyFrom([open.p EXCEPT !.scope = @ + 1], p.scope, <<MakeScope(TRUE)>>)

\* A body, or the one statement that stands for it. The semicolon of an empty
\* one is left to whoever comes next.
ParseMaybeBody(p) ==
    LET r == Read("node", p, TRUE)
    IN  IF Cur(p) = "{" THEN Read("body", p, Absent)
        ELSE IF Cur(p) = ";" THEN [p |-> p, n |-> << >>, ok |-> TRUE]
        ELSE IF r.n = Absent THEN [p |-> Report(r.p), n |-> << >>, ok |-> TRUE]
        ELSE [p |-> r.p, n |-> <<r.n>>, ok |-> TRUE]

\* #import name, #import "file", either with `as name` or `as *`.
ParseImport(p, newName) ==
    LET q == GetToken(p)
        what == EatToken(q, IF Cur(q) = "ID" THEN "ID" ELSE "STR")
        found == what.ok /\ (Cur(q) = "ID" \/ what.v \in FilesFound)
        x == IF what.ok /\ ~found THEN Report(what.p) ELSE what.p
        as == GetToken(IF Cur(x) = "AS" /\ newName # Absent THEN Report(x) ELSE x)
        name == EatToken(as, "ID")
        end == IF Cur(x) # "AS" THEN x ELSE IF Cur(as) = "*" THEN GetToken(as) ELSE name.p
        alias == IF newName # Absent THEN (IF newName = <<"_">> THEN <<"*">> ELSE newName)
                 ELSE IF Cur(x) # "AS" THEN Absent
                 ELSE IF Cur(as) = "*" THEN <<"*">> ELSE name.v
    IN  IF found /\ (Cur(x) # "AS" \/ Cur(as) = "*" \/ name.ok)
            THEN [end EXCEPT !.imports = Append(@, <<Cur(q), what.v, alias>>)]
        ELSE end

\* Behind the left side: `: type = e`, `:= e`, `:: e`, `: type : e`, `: type`.
ParseDeclaration(p, lhs, flags) ==
    LET q == GetToken(IF Cur(p) \in {":", "::"} THEN p ELSE Report(p))
        const == Cur(p) = "::"
        t == IF const \/ Cur(q) = "=" THEN R(q, Absent) ELSE Type(q)
        has == const \/ Cur(t.p) \in {"=", ":"}
        isConst == const \/ Cur(t.p) = ":"
        v == IF const THEN q ELSE GetToken(t.p)
        e == Expression(v)
        i1 == IF isConst THEN v ELSE Report(v)
        i2 == IF t.n = Absent THEN i1 ELSE Report(i1)
        eAfterReport == Expression(Report(i2))
        all == flags \cup IF isConst THEN {<<"const">>} ELSE {}
    IN  IF ~has THEN R(t.p, MakeDecl(lhs, Absent, t.n, all))
        ELSE IF Cur(v) # "IMPORT"
            THEN R(e.p, IF IsError(e.n) THEN e.n ELSE MakeDecl(lhs, e.n, t.n, all))
        ELSE IF lhs[1] # "id" THEN R(eAfterReport.p, MakeError)
        ELSE R(Read("import", i2, lhs[2]), Done)

DeclarationOrExpression(p, flags) ==
    LET q == With(p, FALSE, p.noStructs)
        lhs == Expression(q)
        r == IF Cur(lhs.p) \in {":", "::"} THEN Read("declaration", lhs.p, <<lhs.n, flags>>) ELSE lhs
    IN  R(With(r.p, p.noItems, r.p.noStructs), IF r.n = Done THEN Absent ELSE r.n)

Returned(p) == IF Cur(p) = ";" THEN R(p, Absent) ELSE ListExpression(p)

IfNode(p) ==
    LET c == HeaderExpression(GetToken(p))
        b == Read("maybe body", c.p, Absent)
        other == Read("maybe body", GetToken(b.p), Absent)
        stray == Read("maybe body", b.p, Absent)
    IN  IF ~b.ok THEN R(IF Cur(b.p) = "ELSE" THEN stray.p ELSE b.p, MakeError)
        ELSE IF Cur(b.p) # "ELSE" THEN R(b.p, MakeIf(c.n, b.n, << >>))
        ELSE R(other.p, IF other.ok THEN MakeIf(c.n, b.n, other.n) ELSE MakeError)

IsIterators(n) == n[1] \in {"id", "list"} \/ (n[1] = "unary" /\ n[2] = "&")

\* for {, for i in e {, for init; e; e {, for e {. s says whether a semicolon
\* is expected behind it: only where the first part is an error or nothing.
ForWith(p, n) ==
    LET b == Read("maybe body", p, Absent) IN [p |-> b.p, n |-> IF b.ok THEN [n EXCEPT ![6] = b.n] ELSE MakeError]
ForNode(p) ==
    LET q == GetToken(p)
        first == Restored(Read("node", With(q, q.noItems, TRUE), FALSE), q)
        in == EatToken(IF IsIterators(first.n) THEN first.p ELSE Report(first.p), "IN")
        over == HeaderExpression(in.p)
        c1 == With(Eat(first.p, ";"), q.noItems, TRUE)
        e == IF Cur(c1) = ";" THEN R(c1, Absent) ELSE Expression(c1)
        c2 == Eat(e.p, ";")
        step == IF Cur(c2) = "{" THEN R(c2, Absent) ELSE Expression(c2)
    IN  IF Cur(q) = "{" THEN ForWith(q, MakeFor("infinite", Absent, Absent, Absent, << >>))
        ELSE IF first.n = Absent \/ IsError(first.n) THEN R(first.p, MakeError)
        ELSE IF Cur(first.p) = "IN" THEN ForWith(over.p, MakeFor("it", first.n, over.n, Absent, << >>))
        ELSE IF Cur(first.p) = ";"
            THEN ForWith(With(step.p, step.p.noItems, q.noStructs),
                         MakeFor("c", first.n, e.n, step.n, << >>))
        ELSE ForWith(first.p, MakeFor("while", first.n, Absent, Absent, << >>))
ForIsCut(p) ==
    LET q == GetToken(p)
        first == Read("node", With(q, q.noItems, TRUE), FALSE)
    IN  Cur(q) # "{" /\ (first.n = Absent \/ IsError(first.n))

EndScope(p) ==
    LET q == GetToken(p)
    IN  R([(IF p.scope = 0 THEN Report(q) ELSE q) EXCEPT !.scope = @ - 1], MakeScope(FALSE))

WithBody(p, Make(_)) ==
    LET b == Read("maybe body", GetToken(p), Absent) IN R(b.p, IF b.ok THEN Make(b.n) ELSE MakeError)

Statement(p) ==
    LET t == Cur(p)
        q == GetToken(p)
        used == Read("unary", q, Absent)
        returned == Returned(q)
        asserted == Expression(q)
    IN  CASE t = "IMPORT" -> R(Read("import", p, Absent), Absent)
          [] t = "RUN" -> WithBody(p, MakeRun)
          [] t = "DEFER" -> WithBody(p, MakeDefer)
          [] t = "ASSERT" -> R(asserted.p, MakeAssert(asserted.n))
          [] t = "USING" -> R(used.p, MakeTypedExpr("using", used.n))
          [] t = "STATIC" ->
                IF Cur(q) # "ID" THEN R(Report([q EXCEPT !.panic = TRUE]), MakeError)
                ELSE DeclarationOrExpression(q, {<<"static">>})
          [] t = "ID" -> DeclarationOrExpression(p, {})
          [] t = "BREAK" -> R(q, MakeBreak)
          [] t = "CONTINUE" -> R(q, MakeContinue)
          [] t = "RETURN" -> R(returned.p, MakeReturn(returned.n))
          [] t = "YIELD" -> R(returned.p, MakeTypedExpr("yield", returned.n))
          [] t = "IF" -> IfNode(p)
          [] t = "FOR" -> ForNode(p)
          [] t = "{" -> Enter(q)
          [] t = "}" -> EndScope(p)
          [] t = "PWDIF" -> ParsePwdIf(p)
          [] t \in {"PWDELSE", "PWDELIF"} -> R(SkipOtherBranch(p), Absent)
          [] t = ";" -> R(p, Absent)
          [] OTHER -> Expression(p)

WithoutSemicolon == {"IMPORT", "RUN", "DEFER", "ASSERT", "IF", "FOR", "{", "}",
                     "PWDIF", "PWDELSE", "PWDELIF"}

NeedsSemicolon(p) == Cur(p) \notin WithoutSemicolon \/ (Cur(p) = "FOR" /\ ForIsCut(p))
AlwaysForgivesEnd(p, expectSemicolon) ==
    LET r == Read("statement", p, Absent)
    IN  IF ~expectSemicolon \/ ~NeedsSemicolon(p) THEN r
        ELSE R([Eat(r.p, ";") EXCEPT !.panic = r.p.panic], r.n)
\* A wrong end of a statement is no panic for the next one, unless nothing was
\* read at all.
ParseNode(p, expectSemicolon) ==
    LET r == Read("statement", p, Absent)
        e == Eat(r.p, ";")
    IN  IF ~expectSemicolon \/ ~NeedsSemicolon(p) THEN r
        ELSE R(IF e.at # p.at THEN [e EXCEPT !.panic = r.p.panic] ELSE e, r.n)

-----------------------------------------------------------------------------
(* The top level of a file *)
IsGlobalDeclFunction(d) == d[3][1] = "fn" /\ (d[4] = Absent \/ d[4][1] = "fn")

\* A struct, union or enum behind `name ::`. The flag for lists of items that
\* was set for the name stays set.
NamedTypeDeclaration(p, name) ==
    LET t == Cur(p) IN IF t = "ENUM" THEN ParseEnum(p, name) ELSE Read("struct", p, <<t = "UNION", name>>)

GlobalFunction(p, lhs, decl, profile) ==
    LET q == IF <<"const">> \in decl[5] THEN p ELSE Report(p)
        flags == decl[3][5] \cup (IF p.public THEN {<<"public">>} ELSE {})
                   \cup IF profile = Absent THEN {} ELSE {<<"profile", profile>>}
    IN  IF lhs[1] # "id" THEN R(Report(p), MakeError)
        ELSE R(IF decl[3][6] = << >> THEN Eat(q, ";") ELSE q,
               [decl[3] EXCEPT ![2] = lhs[2], ![5] = flags])

ExternalLink(p, lhs, decl) ==
    LET name == EatToken(Eat(GetToken(p), "="), "STR")
        r1 == IF lhs[1] # "id" THEN Report(name.p) ELSE name.p
        r2 == IF decl[3] # Absent THEN Report(r1) ELSE r1
    IN  IF name.ok THEN R(Eat(r2, ";"), [decl EXCEPT ![5] = @ \cup {<<"extern", name.v>>}])
        ELSE R(name.p, decl)

GlobalVariable(p, lhs, decl) ==
    LET local == Cur(p) = "THREADLOCAL"
        q == EatIf(p, "THREADLOCAL")
        flags == decl[5] \cup (IF p.public THEN {<<"public">>} ELSE {})
                         \cup (IF local THEN {<<"threadlocal">>} ELSE {})
        d == [decl EXCEPT ![5] = flags]
    IN  IF Cur(q) = "LINK" THEN ExternalLink(q, lhs, d) ELSE R(Eat(q, ";"), d)

TopLevelDeclaration(p, profile) ==
    LET lhs == Expression(With(p, FALSE, p.noStructs))
        after == PeekNext(lhs.p)
        named == Cur(lhs.p) = "::" /\ lhs.n[1] = "id"
        decl == Read("declaration", IF named THEN after ELSE lhs.p, <<lhs.n, {}>>)
        q == With(decl.p, p.noItems, decl.p.noStructs)
    IN  IF IsError(lhs.n) THEN R(With(lhs.p, p.noItems, lhs.p.noStructs), MakeError)
        ELSE IF named /\ NextType(lhs.p) \in {"STRUCT", "UNION", "ENUM"}
            THEN NamedTypeDeclaration(GetToken(lhs.p), lhs.n[2])
        ELSE IF decl.n = Done THEN R(Eat(q, ";"), Done)
        ELSE IF IsError(decl.n) THEN R(q, MakeError)
        ELSE IF IsGlobalDeclFunction(decl.n) THEN GlobalFunction(q, lhs.n, decl.n, profile)
        ELSE GlobalVariable(q, lhs.n, decl.n)

ProfiledDeclaration(p) ==
    LET callback == Expression(Eat(GetToken(p), "="))
    IN  Read("top level declaration", callback.p, callback.n)

LoadLibrary(p) ==
    LET name == EatToken(GetToken(p), "STR")
    IN  R(IF name.ok /\ name.v \notin FilesFound THEN Report(name.p) ELSE name.p, Done)

\* Anything else is an error, reported once; parsing goes on behind the next
\* semicolon or brace, or ends if there is none.
UnexpectedTopLevel(p) ==
    LET q == IF p.panic THEN p ELSE GetToken(Report([p EXCEPT !.panic = TRUE]))
        s == TrySynchronize(Pushed(Pushed(q, ";", TRUE), "}", TRUE))
    IN  R(Popped(Popped(s.p)), IF s.ok THEN MakeError ELSE Absent)

ParseTopLevel(p) ==
    LET t == Cur(p)
    IN  CASE t \in {"LOAD_SYSTEM_DL", "LOAD_DL"} -> LoadLibrary(p)
          [] t \in {"PUBLIC", "PRIVATE"} -> R([GetToken(p) EXCEPT !.public = (t = "PUBLIC")], Done)
          [] t = "PROFILE" -> ProfiledDeclaration(p)
          [] t = "ID" -> Read("top level declaration", p, Absent)
          [] t = "IMPORT" -> R(Read("import", p, Absent), Done)
          [] t = "}" -> R(IF p.scope = 0 THEN Report(GetToken(p))
                          ELSE [GetToken(p) EXCEPT !.scope = @ - 1], Done)
          [] t = "PWDIF" -> R(ParsePwdIf(p).p, Done)
          [] t \in {"PWDELSE", "PWDELIF"} -> R(SkipOtherBranch(p), Done)
          [] t = ";" -> R(GetToken(p), Done)
          [] t = "RUN" -> WithBody(p, MakeRun)
          [] t = "EOF" -> R(p, Absent)
          [] OTHER -> UnexpectedTopLevel(p)

TypeArgument(p) ==
    LET t == Read("type", p, FALSE) IN R(t.p, IF IsError(t.n) THEN Absent ELSE t.n)

Read(what, p, x) ==
    CASE what = "expression" -> ParseExpression(p, x)
      [] what = "unary" -> ParseUnary(p)
      [] what = "operand" -> ParseOperand(p)
      [] what = "type" -> ParseType(p, x)
      [] what = "function type" -> ParseFunctionType(p)
      [] what = "function flags" -> ParseFunctionFlags(p, x)
      [] what = "struct" -> ParseStruct(p, x[1], x[2])
      [] what = "node" -> ParseNode(p, x)
      [] what = "statement" -> Statement(p)
      [] what = "declaration" -> ParseDeclaration(p, x[1], x[2])
      [] what = "import" -> ParseImport(p, x)
      [] what = "body" -> ParseBody(p)
      [] what = "maybe body" -> ParseMaybeBody(p)
      [] what = "type argument" -> TypeArgument(p)
      [] what = "argument" -> ParseFunctionArgument(p)
      [] what = "enum member" -> EnumMember(p)
      [] what = "struct member" -> StructMember(p)
      [] what = "list item" -> ListItem(p)
      [] what = "case" -> Case(p)
      [] what = "top level" -> ParseTopLevel(p)
      [] what = "top level declaration" -> TopLevelDeclaration(p, x)

-----------------------------------------------------------------------------
(* A file: `module name`, then the top level, one node after the other. *)
InitialParser(tokens, config) ==
    [tokens |-> tokens, at |-> 1, panic |-> FALSE, noItems |-> TRUE, noStructs |-> FALSE,
     safe |-> << >>, scope |-> 0, errors |-> 0, fate |-> "parsing", config |-> config,
     module |-> Absent, public |-> TRUE, imports |-> << >>]

\* The name of the module; p stays without one if the file does not begin so.
ParseModuleName(p) ==
    LET q == GetToken(p)
    IN  IF Cur(p) # "MODULE" THEN Report(p)
        ELSE IF Cur(q) # "ID" THEN Report(q)
        ELSE Pushed([GetToken(q) EXCEPT !.module = Value(q)], ";", TRUE)

\* One round of ParseTokens' loop: the parser, its node, and whether to go on.
GoesOn(r) ==
    LET s == IF r.p.panic THEN TrySynchronize(r.p) ELSE [p |-> r.p, ok |-> TRUE]
    IN  IF r.n = Absent THEN [p |-> r.p, n |-> Absent, ok |-> FALSE]
        ELSE [p |-> s.p, n |-> r.n, ok |-> s.ok]
ParseOne(p) == GoesOn(Read("top level", p, Absent))
EndOfFile(p) == IF p.scope # 0 THEN Report(p) ELSE p
=============================================================================
