------------------------------ MODULE AstExchange ------------------------------
(* What is done with the nodes of a file that was accepted: a generic call  *)
(* is checked on a copy of the function, and the build program is shown the *)
(* nodes (inspect_ast, Main.cpp) and may put them into a custom file of a   *)
(* later target (custom_files, Pipeline.cpp). A spare copy is all that the  *)
(* checker may write to, and what comes back stands for the same program.   *)
EXTENDS FrontEnd, Exchange

VARIABLES
    use,       \* what the nodes were used for: "none", "copied", "given", "taken"
    made,      \* the nodes that were made from them
    counted    \* CountError, while they were taken back
exchange == <<use, made, counted>>

ExchangeInit ==
    /\ Init
    /\ use = "none" /\ made = << >> /\ counted = 0

\* GenerateFunctionFromPolymorphicCall, of any function of the file.
CopyFunction ==
    /\ Accepted /\ use = "none"
    /\ \E k \in DOMAIN nodes :
        /\ nodes[k][1] = "fn"
        /\ made' = <<nodes[k], CopyASTNode(nodes[k])>>
    /\ use' = "copied"
    /\ UNCHANGED <<vars, counted>>

InspectAst ==
    /\ Accepted /\ use = "none"
    /\ made' = NodeToInterpSlice(nodes)
    /\ use' = "given"
    /\ UNCHANGED <<vars, counted>>

\* The nodes of a custom file join those of its text, here none; the file they
\* say they are from may be gone.
TakeCustomNodes ==
    /\ use = "given"
    /\ \E ok \in BOOLEAN :
        /\ made' = InterpSliceToNodeDynamic(made, ok)
        /\ counted' = IF ok THEN 0 ELSE Len(made)
    /\ use' = "taken"
    /\ UNCHANGED vars

ExchangeNext ==
    \/ Next /\ UNCHANGED exchange
    \/ CopyFunction
    \/ InspectAst
    \/ TakeCustomNodes

ExchangeSpec == ExchangeInit /\ [][ExchangeNext]_<<vars, exchange>>

-----------------------------------------------------------------------------
\* The node with every node in it, and no other field, made anew.
RECURSIVE Anew(_)
AnewField(how, field) ==
    CASE how = Node -> Anew(field)
      [] how = Nodes -> [k \in DOMAIN field |-> Anew(field[k])]
      [] OTHER -> field
Anew(n) ==
    IF n \in {Absent, Done} THEN n
    ELSE <<New, n[1]>> \o [k \in 1 .. Len(n) - 1 |-> AnewField(Fields[n[1]][k], n[k + 1])]

\* Known: of a function with `...` the type of the last argument is no node.
Variadic == \E k \in DOMAIN tokens : tokens[k].t = "VARARG"
\* Known: the convention and the profile of a function are not shown.
Hidden == \E k \in DOMAIN tokens : tokens[k].t \in {"CALLC", "PROFILE"}

\* The checker writes types, casts and resolved names into the copy it checks
\* a generic call on: it shares no node with the function, whose next call
\* must find it as it was parsed, and lacks none.
CopySharesNoNode == use = "copied" /\ ~Variadic => made[2] = Anew(made[1])

\* A file that goes to the build program and comes back in a custom file is
\* the same program, or an error was counted.
TakenBackAsGiven ==
    use = "taken" /\ ~Variadic /\ ~Hidden =>
        \/ counted > 0
        \/ made = [k \in DOMAIN nodes |-> Anew(nodes[k])]
=============================================================================
