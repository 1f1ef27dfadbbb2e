------------------------------- MODULE Exchange -------------------------------
(* What is made from a syntax tree node by node: the copy that a generic    *)
(* call is checked on (CopyASTNode of Parser.cpp) and the nodes the build   *)
(* program is shown and gives back (NodeToInterp, InterpToNode of           *)
(* PassAst.cpp). Each goes by the kind of the node, field by field; a table *)
(* has what becomes of the fields of a kind, in the order of Trees. A node  *)
(* that was made so is the node with New in front.                          *)
EXTENDS SequencesExt, Trees

(* The fields *)
Node == "node"          \* made into a node, if there is one
Nodes == "nodes"        \* every entry made into a node
Present == "present"    \* the same, without the entries that became nothing
Same == "same"          \* taken over as it is
SomeFlags == "flags"    \* the flags of a function without what is no flag

Rows(rows) ==
    [k \in UNION {r[1] : r \in rows} |-> (CHOOSE r \in rows : k \in r[1])[2]]

New == "new"
Crash == <<"crash">>

-----------------------------------------------------------------------------
(* struct node: the pointers to nodes, and the rest *)
OperandFields == Rows({
    <<{"id", "scope", "reserved", "generic"}, <<Same>>>>, <<{"embed"}, <<Same, Same>>>>,
    <<{"postop"}, <<Same, Node>>>>, <<{"ifx"}, <<Node, Node, Node>>>>,
    <<{"lambda"}, <<Node, Node, Nodes>>>>, <<{"run", "list", "defer"}, <<Nodes>>>>,
    <<{"yield", "using", "assert"}, <<Node>>>>, <<{"var"}, <<Same, Node, Node>>>>})
ItemFields == Rows({
    <<{"enum"}, <<Same, Nodes, Node>>>>, <<{"item"}, <<Same, Node>>>>,
    <<{"switch", "case", "typelist"}, <<Node, Nodes>>>>,
    <<{"size", "typeof", "typeinfo"}, <<Node>>>>, <<{"struct"}, <<Same, Nodes, Same, Same>>>>,
    <<{"selector"}, <<Node, Same>>>>, <<{"unary"}, <<Same, Node>>>>,
    <<{"binary"}, <<Same, Node, Node>>>>})
StatementFields == Rows({
    <<{"if"}, <<Node, Nodes, Nodes>>>>, <<{"for"}, <<Same, Node, Node, Node, Nodes>>>>,
    <<{"index", "array"}, <<Node, Node>>>>, <<{"slice"}, <<Node, Node, Node>>>>,
    <<{"cast"}, <<Node, Node, Same>>>>, <<{"char", "constant"}, <<Same>>>>,
    <<{"decl"}, <<Node, Node, Node, Same>>>>, <<{"fn"}, <<Same, Nodes, Nodes, Same, Nodes>>>>,
    <<{"call", "genericstruct"}, <<Node, Nodes>>>>, <<{"pointer"}, <<Node, Same>>>>,
    <<{"return"}, <<Node>>>>, <<{"error", "continue", "break", "filelocation"}, << >>>>})
Fields == OperandFields @@ ItemFields @@ StatementFields

-----------------------------------------------------------------------------
(* CopyASTNode *)
CopiedOperands == Rows({
    <<{"error"}, << >>>>, <<{"lambda"}, <<Node, Node, Nodes>>>>,
    <<{"slice", "ifx"}, <<Node, Node, Node>>>>, <<{"run", "list"}, <<Nodes>>>>,
    <<{"yield", "using", "assert"}, <<Node>>>>, <<{"var"}, <<Same, Node, Node>>>>,
    <<{"embed"}, <<Same, Same>>>>, <<{"char", "constant"}, <<Same>>>>,
    <<{"binary"}, <<Same, Node, Node>>>>, <<{"unary"}, <<Same, Node>>>>})
\* The bodies taken over as they are.
BodiesShared == Rows({
    <<{"if"}, <<Node, Same, Same>>>>, <<{"for"}, <<Same, Node, Node, Node, Same>>>>,
    <<{"id"}, <<Same>>>>, <<{"decl"}, <<Node, Node, Node, Same>>>>, <<{"call"}, <<Node, Nodes>>>>,
    <<{"return"}, <<Node>>>>, <<{"pointer"}, <<Node, Same>>>>, <<{"array"}, <<Node, Node>>>>,
    <<{"fn"}, <<Same, Nodes, Nodes, Same, Nodes>>>>, <<{"cast"}, <<Node, Node, Same>>>>})
CopiedStatements == Rows({
    <<{"if"}, <<Node, Nodes, Nodes>>>>, <<{"for"}, <<Same, Node, Node, Node, Nodes>>>>,
    <<{"id"}, <<Same>>>>, <<{"decl"}, <<Node, Node, Node, Same>>>>, <<{"call"}, <<Node, Nodes>>>>,
    <<{"return"}, <<Node>>>>, <<{"pointer"}, <<Node, Same>>>>, <<{"array"}, <<Node, Node>>>>,
    <<{"fn"}, <<Same, Nodes, Nodes, Same, Nodes>>>>, <<{"cast"}, <<Node, Node, Same>>>>})
CopiedItems == Rows({
    <<{"typelist", "genericstruct", "switch", "case"}, <<Node, Nodes>>>>,
    <<{"index"}, <<Node, Node>>>>, <<{"struct"}, <<Same, Nodes, Same, Same>>>>,
    <<{"enum"}, <<Same, Nodes, Node>>>>, <<{"selector"}, <<Node, Same>>>>,
    <<{"size", "typeof", "typeinfo"}, <<Node>>>>, <<{"generic", "reserved", "scope"}, <<Same>>>>,
    <<{"continue", "break", "filelocation"}, << >>>>, <<{"item", "postop"}, <<Same, Node>>>>,
    <<{"defer"}, <<Nodes>>>>})
Copied == CopiedOperands @@ CopiedStatements @@ CopiedItems

\* The pointer 1 that stands for `...` is followed like any other.
RECURSIVE CopyASTNode(_)
CopyField(how, field) ==
    CASE how = Node -> CopyASTNode(field)
      [] how = Nodes -> [k \in DOMAIN field |-> CopyASTNode(field[k])]
      [] OTHER -> field
CopyASTNode(n) ==
    IF n = Absent THEN Absent ELSE IF n = Done THEN Crash
    ELSE <<New, n[1]>> \o [k \in 1 .. Len(n) - 1 |-> CopyField(Copied[n[1]][k], n[k + 1])]

-----------------------------------------------------------------------------
(* NodeToInterp *)
GivenOperands == Rows({
    <<{"error"}, << >>>>, <<{"slice", "ifx"}, <<Node, Node, Node>>>>,
    <<{"run", "list"}, <<Nodes>>>>, <<{"yield", "using", "assert"}, <<Node>>>>,
    <<{"var"}, <<Same, Node, Node>>>>, <<{"embed"}, <<Same, Same>>>>,
    <<{"char", "constant"}, <<Same>>>>, <<{"binary"}, <<Same, Node, Node>>>>,
    <<{"unary"}, <<Same, Node>>>>, <<{"lambda"}, <<Node, Node, Nodes>>>>})
GivenStatements == Rows({
    <<{"if"}, <<Node, Nodes, Nodes>>>>, <<{"for"}, <<Same, Node, Node, Node, Nodes>>>>,
    <<{"id"}, <<Same>>>>, <<{"decl"}, <<Node, Node, Node, Same>>>>, <<{"call"}, <<Node, Nodes>>>>,
    <<{"return"}, <<Node>>>>, <<{"pointer"}, <<Node, Same>>>>, <<{"array"}, <<Node, Node>>>>,
    <<{"fn"}, <<Same, Nodes, Nodes, SomeFlags, Nodes>>>>, <<{"cast"}, <<Node, Node, Same>>>>})
GivenItems == Rows({
    <<{"typelist", "genericstruct", "switch", "case"}, <<Node, Nodes>>>>,
    <<{"index"}, <<Node, Node>>>>, <<{"struct"}, <<Same, Nodes, Same, Same>>>>,
    <<{"enum"}, <<Same, Nodes, Node>>>>, <<{"selector"}, <<Node, Same>>>>,
    <<{"size", "typeof", "typeinfo"}, <<Node>>>>, <<{"generic", "reserved", "scope"}, <<Same>>>>,
    <<{"continue", "break", "filelocation"}, << >>>>, <<{"item", "postop"}, <<Same, Node>>>>,
    <<{"defer"}, <<Nodes>>>>})
Given == GivenOperands @@ GivenStatements @@ GivenItems

NamesLeftBehind(flags) == {f \in flags : Len(f) = 1}
\* The calling convention and the profile of a function stay behind.
TakenAlong(flags) == {f \in flags : f[1] \notin {"CALLC", "profile"}}

RECURSIVE NodeToInterp(_)
NodeToInterpSlice(nodes) == [k \in DOMAIN nodes |-> NodeToInterp(nodes[k])]
GiveField(how, field) ==
    CASE how = Node -> NodeToInterp(field)
      [] how = Nodes -> NodeToInterpSlice(field)
      [] how = SomeFlags -> TakenAlong(field)
      [] OTHER -> field
NodeToInterp(n) ==
    IF n \in {Absent, Done} THEN Absent
    ELSE <<n[1]>> \o [k \in 1 .. Len(n) - 1 |-> GiveField(Given[n[1]][k], n[k + 1])]

-----------------------------------------------------------------------------
(* InterpToNode *)
TakenOperands == Rows({
    <<{"error"}, << >>>>, <<{"slice", "ifx"}, <<Node, Node, Node>>>>,
    <<{"run", "list"}, <<Nodes>>>>, <<{"yield", "using", "assert"}, <<Node>>>>,
    <<{"var"}, <<Same, Node, Node>>>>, <<{"embed"}, <<Same, Same>>>>,
    <<{"char", "constant"}, <<Same>>>>, <<{"binary"}, <<Same, Node, Node>>>>,
    <<{"unary"}, <<Same, Node>>>>, <<{"lambda"}, <<Node, Node, Nodes>>>>})
TakenStatements == Rows({
    <<{"if"}, <<Node, Present, Present>>>>, <<{"for"}, <<Same, Node, Node, Node, Present>>>>,
    <<{"id"}, <<Same>>>>, <<{"decl"}, <<Node, Node, Node, Same>>>>, <<{"call"}, <<Node, Nodes>>>>,
    <<{"return"}, <<Node>>>>, <<{"pointer"}, <<Node, Same>>>>, <<{"array"}, <<Node, Node>>>>,
    <<{"fn"}, <<Same, Nodes, Nodes, Same, Present>>>>, <<{"cast"}, <<Node, Node, Same>>>>})
TakenItems == Rows({
    <<{"typelist", "genericstruct", "switch", "case"}, <<Node, Nodes>>>>,
    <<{"index"}, <<Node, Node>>>>, <<{"struct"}, <<Same, Nodes, Same, Same>>>>,
    <<{"enum"}, <<Same, Nodes, Node>>>>, <<{"selector"}, <<Node, Same>>>>,
    <<{"size", "typeof", "typeinfo"}, <<Node>>>>, <<{"generic", "reserved", "scope"}, <<Same>>>>,
    <<{"continue", "break", "filelocation"}, << >>>>, <<{"item", "postop"}, <<Same, Node>>>>,
    <<{"defer"}, <<Nodes>>>>})
Taken == TakenOperands @@ TakenStatements @@ TakenItems

\* Every node is looked up in its file (ok: the file is there to read).
RECURSIVE InterpToNode(_, _)
InterpSliceToNode(nodes, ok) == [k \in DOMAIN nodes |-> InterpToNode(nodes[k], ok)]
InterpSliceToNodeDynamic(nodes, ok) ==
    SelectSeq(InterpSliceToNode(nodes, ok), LAMBDA n : n # Absent)
TakeField(how, field, ok) ==
    CASE how = Node -> InterpToNode(field, ok)
      [] how = Nodes -> InterpSliceToNode(field, ok)
      [] how = Present -> InterpSliceToNodeDynamic(field, ok)
      [] OTHER -> field
InterpToNode(r, ok) ==
    IF r = Absent \/ ~ok THEN Absent
    ELSE <<New, r[1]>> \o [k \in 1 .. Len(r) - 1 |-> TakeField(Taken[r[1]][k], r[k + 1], ok)]
=============================================================================
