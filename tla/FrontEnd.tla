------------------------------- MODULE FrontEnd -------------------------------
(* One file on its way from text to nodes: StringToTokens, one token a step, *)
(* and ParseTokens, one declaration of the top level a step. Both are parts  *)
(* of one job of the pipeline; what happens between jobs is Pipeline's.      *)
EXTENDS Lexing, Parsing, BagsExt

CONSTANTS
    Sources,    \* the texts, each with the nodes it was written for, or Unknown
    Config,     \* the names that #if is told
    ShortText   \* the texts up to this length are compared with their reading

Unknown == <<<<"unknown">>>>
ASSUME OneCounterOfErrors == ErrorLimit = ReportLimit

VARIABLES
    source,    \* the text and the nodes it was written for
    phase,     \* "lexing", "lexed", "parsing", "parsed", "refused", "overrun"
    lexer, tokens, parser, nodes
vars == <<source, phase, lexer, tokens, parser, nodes>>

Init ==
    /\ source \in Sources
    /\ phase = "lexing"
    /\ lexer = StartReading(source.text)
    /\ tokens = << >>
    /\ parser = InitialParser(<<EOFToken>>, Config)
    /\ nodes = << >>

\* The lexer reads while there is text, and stops behind a token it refused.
MoreToRead == ~AtEnd(lexer) /\ \A k \in DOMAIN tokens : tokens[k].t # "EOF"

Lex ==
    /\ phase = "lexing" /\ lexer.fate = "reading" /\ MoreToRead
    /\ lexer' = GetNextToken(lexer)
    /\ tokens' = IF lexer'.fate = "reading" THEN Append(tokens, lexer'.token) ELSE tokens
    /\ UNCHANGED <<source, phase, parser, nodes>>

FinishLexing ==
    /\ phase = "lexing" /\ lexer.fate = "reading" /\ ~MoreToRead
    /\ phase' = "lexed"
    /\ UNCHANGED <<source, lexer, tokens, parser, nodes>>

\* A parser that starts on a file whose last token is not the end of the file
\* looks behind the array of tokens.
StartParsing ==
    /\ phase = "lexed"
    /\ LET p == ParseModuleName([InitialParser(tokens, Config)
                                    EXCEPT !.errors = lexer.errors])
       IN  IF \A k \in DOMAIN tokens : tokens[k].t # "EOF"
               THEN phase' = "overrun" /\ UNCHANGED parser
           ELSE /\ parser' = p
                /\ phase' = IF p.module = Absent THEN "refused" ELSE "parsing"
    /\ UNCHANGED <<source, lexer, tokens, nodes>>

Parse ==
    /\ phase = "parsing" /\ parser.fate = "parsing" /\ parser.at < Len(tokens)
    /\ \E one \in {ParseOne(parser)} :
           /\ parser' = IF one.ok THEN one.p ELSE EndOfFile(one.p)
           /\ nodes' = IF one.n \in {Absent, Done} THEN nodes ELSE Append(nodes, one.n)
           /\ phase' = IF one.ok THEN phase ELSE "parsed"
    /\ UNCHANGED <<source, lexer, tokens>>

FinishParsing ==
    /\ phase = "parsing" /\ parser.fate = "parsing" /\ parser.at = Len(tokens)
    /\ parser' = EndOfFile(parser)
    /\ phase' = "parsed"
    /\ UNCHANGED <<source, lexer, tokens, nodes>>

Exited == lexer.fate # "reading" \/ parser.fate # "parsing"
Finished == Exited \/ phase \in {"parsed", "refused", "overrun"}

Next ==
    \/ Lex
    \/ FinishLexing
    \/ StartParsing
    \/ Parse
    \/ FinishParsing
    \/ Finished /\ UNCHANGED vars

Spec == Init /\ [][Next]_vars
Accepted == phase = "parsed" /\ ~Exited /\ parser.errors = 0

-----------------------------------------------------------------------------
(* What a reader of the file should find. *)

\* Known: without white space behind the last token the file gets no end.
EndsInSpace == source.text # << >> /\ Last(source.text) \in Spaces

\* The lexer cuts a text where a reader would: every token is the longest
\* piece of text that is one by itself (Lexer.cpp, TokinizeSpecialCharacter and
\* TokinizeNumber try shorter or longer spellings case by case).
LexedAsWritten ==
    phase = "lexed" /\ lexer.errors = 0 /\ AtEnd(lexer) /\ EndsInSpace
      /\ Len(source.text) <= ShortText
        => [k \in DOMAIN tokens |-> tokens[k].t] = TypesWritten(source.text, 1)

\* A file that is written as the grammar has it becomes exactly the nodes it
\* was written for, without a report.
ParsedAsWritten ==
    phase = "parsed" /\ source.tree # Unknown => nodes = source.tree /\ Accepted

\* The keywords that a node of a kind stands for.
KeywordFor == [for |-> "FOR", if |-> "IF", ifx |-> "IF", return |-> "RETURN", defer |-> "DEFER",
               break |-> "BREAK", continue |-> "CONTINUE", yield |-> "YIELD", assert |-> "ASSERT",
               switch |-> "SWITCH", case |-> "CASE", fn |-> "FN", enum |-> "ENUM"]
Counted == {"ID", "VAL"} \cup {KeywordFor[k] : k \in DOMAIN KeywordFor}
Word(token) == IF token.t \in {"ID", "VAL"} THEN token.v ELSE <<token.t>>

\* The names, numbers and keywords of a node.
RECURSIVE Names(_)
NamesOf(list) == FoldLeft(LAMBDA all, n : all \o Names(n), << >>, list)
NamesIn(n, fields) == NamesOf([k \in DOMAIN fields |-> n[fields[k]]])
Names(n) ==
    LET k == n[1]
        own == IF k \in DOMAIN KeywordFor THEN <<<<KeywordFor[k]>>>> ELSE << >>
    IN  own \o
        CASE k \in {"id", "reserved", "generic"} -> <<n[2]>>
          [] k = "constant" -> IF n[2][1] = "VAL" THEN <<n[2][2]>> ELSE << >>
          [] k \in {"unary", "postop"} -> Names(n[3])
          [] k = "binary" -> NamesIn(n, <<3, 4>>)
          [] k \in {"index", "cast", "array"} -> NamesIn(n, <<2, 3>>)
          [] k = "selector" -> Append(Names(n[2]), n[3])
          [] k \in {"slice", "ifx"} -> NamesIn(n, <<2, 3, 4>>)
          [] k \in {"typelist", "call", "genericstruct", "switch", "case"} -> Names(n[2]) \o NamesOf(n[3])
          [] k \in {"list", "run", "defer"} -> NamesOf(n[2])
          [] k \in {"assert", "using", "yield", "return", "size", "typeof", "typeinfo", "pointer"} ->
                Names(n[2])
          [] k = "lambda" -> Names(n[2]) \o Names(n[3]) \o NamesOf(n[4])
          [] k = "if" -> Names(n[2]) \o NamesOf(n[3]) \o NamesOf(n[4])
          [] k = "for" -> NamesIn(n, <<3, 4, 5>>) \o NamesOf(n[6])
          [] k = "item" -> <<n[2]>> \o Names(n[3])
          [] k = "var" -> <<n[2]>> \o NamesIn(n, <<3, 4>>)
          [] k = "decl" -> NamesIn(n, <<2, 3, 4>>)
          [] k = "enum" -> <<n[2][2]>> \o NamesOf(n[3]) \o Names(n[4])
          [] k = "struct" -> (IF n[2] = Absent THEN << >> ELSE <<n[2][2]>>) \o NamesOf(n[3]) \o n[4]
          [] k = "fn" -> <<n[2]>> \o NamesOf(n[3]) \o NamesOf(n[4]) \o NamesOf(n[6])
          [] OTHER -> << >>

Count(list, word) == Cardinality({k \in DOMAIN list : list[k] = word})
\* Known: `for ;` is no loop, it is dropped and its condition is a statement.
KnownGap ==
    \/ \E k \in DOMAIN tokens : tokens[k].t \in {"PWDIF", "PROFILE", "IMPORT"}
    \/ \E k \in 1 .. Len(tokens) - 1 : tokens[k].t = "FOR" /\ tokens[k + 1].t = ";"

\* Nothing that is written is silently left out: the names, numbers and
\* keywords of a file that is accepted without a report are those of its nodes.
\* (What #if leaves out is meant to be left out; imports and profiles are kept
\* elsewhere.)
NothingIsLost ==
    Accepted /\ ~KnownGap =>
        LET written == SelectSeq(SubSeq(tokens, 3, Len(tokens)), LAMBDA token : token.t \in Counted)
            words == [k \in DOMAIN written |-> Word(written[k])]
            kept == NamesOf(nodes)
        IN  \A k \in DOMAIN words : Count(kept, words[k]) = Count(words, words[k])

\* However wrong a file is, its parser comes to an end. Known: behind a dot that
\* no name follows it goes round in circles if a call or an index comes next.
BadSelector ==
    \E k \in 1 .. Len(tokens) - 1 : tokens[k].t = "." /\ tokens[k + 1].t # "ID"
ComesToAnEnd == parser.fate = "loops" => BadSelector

=============================================================================
