----------------------------- MODULE Polymorph -----------------------------
(***************************************************************************)
(* Type parameters of ReComp: how the checker turns a generic struct or    *)
(* function into concrete ones (Polymorph.cpp, the generic parts of        *)
(* Type.cpp and Semantics.cpp).  A name such as T means something through  *)
(* one global stack of replacements while a generic body is analysed, and  *)
(* that analysis starts in the middle of its caller's: these nest, recur   *)
(* and share the types they make.                                          *)
(*                                                                         *)
(* A type is <<"basic", b>>, <<"generic", scope, name>>,                   *)
(* <<"pointer", t>> (for pointers, slices and arrays, which the code       *)
(* treats alike here) or <<"struct", base, arguments>>, whose arguments    *)
(* are <<>> as declared.  A type node, as written in a program, is         *)
(* <<"basic", b>>, <<"name", n>>, <<"new", n>> (written $n),               *)
(* <<"pointer", node>> or <<"struct", base, nodes>>.                       *)
(***************************************************************************)
EXTENDS Naturals, Sequences, FiniteSets, SequencesExt, TLC

CONSTANTS
    Programs,   \* [structs, functions]: what the files declare
    MaxFrames   \* a bound on bodies analysed inside one another

VARIABLES
    program,
    order,          \* the structs in the order the files are analysed
    phase,          \* "structs", "functions" or "bodies"
    at,             \* the next declaration of the phase
    table,          \* struct type |-> [generic, members, arguments]
    generics,       \* generic types made by MakeGeneric
    signatures,     \* function |-> [params, autos, returns, generic]
    replacements,   \* GenericReplacements: what names mean, innermost last
    frames,         \* bodies being analysed, the innermost first
    generated,      \* function |-> its instances, in the order they were made
    bodies,         \* instance |-> what its analysis found
    status          \* "running", "reported", "overrun" or "deep"

vars == <<program, order, phase, at, table, generics, signatures, replacements,
          frames, generated, bodies, status>>

TypeID == <<"basic", "type">>
Error == <<"error">>
Invalid == <<"invalid">>

Function(name) == SelectSeq(program.functions, LAMBDA f : f.name = name)[1]

-----------------------------------------------------------------------------
(* Types. *)

RECURSIVE IsGeneric(_, _)
IsGeneric(tab, t) ==
    \/ t[1] = "generic"
    \/ t[1] = "pointer" /\ IsGeneric(tab, t[2])
    \/ t[1] = "struct" /\ tab[t].generic

\* The part of a type that stands where g's generic part is.
RECURSIVE GetGenericPart(_, _)
GetGenericPart(t, g) ==
    IF g[1] = "generic" THEN t
    ELSE IF t[1] # g[1] THEN Error
    ELSE IF g[1] = "pointer" THEN GetGenericPart(t[2], g[2]) ELSE t

RECURSIVE ToNonGeneric(_, _)
ToNonGeneric(t, resolved) ==
    IF t[1] = "pointer" THEN <<"pointer", ToNonGeneric(t[2], resolved)>> ELSE resolved

\* What dictionaries of meanings are indexed by: a generic's name, whatever
\* scope it is of, or the full name of a struct.
GetGenericName(t) == IF t[1] = "generic" THEN <<"generic", t[3]>> ELSE t

PartName(t) == GetGenericName(GetGenericPart(t, t))

\* A slip that could be made: whatever its name, the struct's first argument.
FirstArgument(name, args, bound) ==
    IF name \in DOMAIN bound THEN bound[name] ELSE args[1].as

\* What a member of type name becomes: the function's binding before the
\* struct's argument of that name.
Argument(name, args, bound) ==
    LET named == SelectSeq(args, LAMBDA a : a.name = name[2])
    IN  IF name \in DOMAIN bound THEN bound[name]
        ELSE IF named # <<>> THEN named[1].as ELSE Invalid

\* The struct of base struct and arguments, made when no struct of that name
\* is there yet; it is entered before its members are, which may name it.  A
\* member that is a generic struct is resolved with the same arguments.
RECURSIVE ResolveGenericStruct(_, _, _, _)
ResolveGenericStruct(tab, struct, args, bound) ==
    LET new == <<"struct", struct[2], [i \in DOMAIN args |-> args[i].as]>>
        entered == tab @@ (new :>
            [tab[struct] EXCEPT !.arguments = args,
                                !.generic = \E i \in DOMAIN args : IsGeneric(tab, args[i].as)])
        Member(s, m) ==
            LET part == GetGenericPart(m, m)
                inner == ResolveGenericStruct(s.table, part, args, bound)
            IN  IF ~IsGeneric(s.table, m) THEN [s EXCEPT !.members = Append(@, m)]
                ELSE IF part[1] = "struct"
                THEN [table |-> inner.table, members |-> Append(s.members, ToNonGeneric(m, inner.type))]
                ELSE [s EXCEPT !.members =
                        Append(@, ToNonGeneric(m, Argument(GetGenericName(part), args, bound)))]
        filled == FoldLeft(Member, [table |-> entered, members |-> <<>>], tab[struct].members)
    IN  IF new \in DOMAIN tab THEN [table |-> tab, type |-> new]
        ELSE [table |-> [filled.table EXCEPT ![new].members = filled.members], type |-> new]

-----------------------------------------------------------------------------
(* Type nodes.  A resolution is a record [table, generics, auto, type]. *)

\* A declared struct, or a generic type of this scope, which means its
\* innermost replacement.
FindType(s, name, scope) ==
    LET replaced == SelectSeq(replacements, LAMBDA r : r.name = name)
    IN  IF <<"struct", name, <<>>>> \in DOMAIN s.table THEN <<"struct", name, <<>>>>
        ELSE IF <<"generic", scope, name>> \notin s.generics THEN Error
        ELSE IF replaced # <<>> THEN Last(replaced).as ELSE <<"generic", scope, name>>

RECURSIVE GetTypeFromTypeNode(_, _, _)
GetTypeFromTypeNode(s, node, scope) ==
    CASE node[1] = "basic" -> [s EXCEPT !.type = node]
      [] node[1] = "name" -> [s EXCEPT !.type = FindType(s, node[2], scope)]
      [] node[1] = "new" ->
            LET made == <<"generic", scope, node[2]>>
            IN  [s EXCEPT !.generics = @ \union {made}, !.auto = TRUE, !.type = made]
      [] node[1] = "pointer" ->
            LET pointed == GetTypeFromTypeNode(s, node[2], scope)
            IN  IF pointed.type = Error THEN pointed
                ELSE [pointed EXCEPT !.type = <<"pointer", @>>]
      [] node[1] = "struct" ->
            LET base == FindType(s, node[2], scope)
                names == s.table[base].arguments
                Take(a, i) ==
                    LET r == GetTypeFromTypeNode([a.at EXCEPT !.auto = FALSE], node[3][i], scope)
                    IN  [at |-> r,
                         args |-> Append(a.args, [name |-> names[i].name, as |-> r.type, auto |-> r.auto])]
                taken == FoldLeftDomain(LAMBDA a, i : Take(a, i), [at |-> s, args |-> <<>>], node[3])
                made == ResolveGenericStruct(taken.at.table, base, taken.args, <<>>)
                auto == s.auto \/ \E i \in DOMAIN taken.args : taken.args[i].auto
            IN  IF ~IsGeneric(s.table, base) \/ Len(node[3]) > Len(names)
                THEN [s EXCEPT !.type = Error]
                ELSE IF \E i \in DOMAIN taken.args : taken.args[i].as = Error
                THEN [taken.at EXCEPT !.type = Error]
                ELSE [taken.at EXCEPT !.table = made.table, !.auto = auto, !.type = made.type]

Start == [table |-> table, generics |-> generics, auto |-> FALSE, type |-> Error]

-----------------------------------------------------------------------------
(* Declarations, in the order of the phases of AnalyzeFilesForSymbols.      *)

\* AnalyzeForModuleStructs has entered every struct, with no members yet.
Opaque(decl) ==
    [generic |-> decl.params # <<>>, members |-> <<>>,
     arguments |-> [i \in DOMAIN decl.params |->
                        [name |-> decl.params[i], as |-> Invalid, auto |-> FALSE]]]

Init ==
    /\ program \in Programs
    /\ order \in SetToSeqs(DOMAIN program.structs)
    /\ phase = "structs" /\ at = 1
    /\ table = [t \in {<<"struct", n, <<>>>> : n \in DOMAIN program.structs} |->
                    Opaque(program.structs[t[2]])]
    /\ generics = {} /\ signatures = <<>> /\ replacements = <<>> /\ frames = <<>>
    /\ generated = [n \in {program.functions[i].name : i \in DOMAIN program.functions} |-> <<>>]
    /\ bodies = <<>>
    /\ status = "running"

NextDeclaration(count, next) ==
    IF at < count THEN at' = at + 1 /\ phase' = phase ELSE at' = 1 /\ phase' = next

WithMember(a, r) == [at |-> r, members |-> Append(a.members, r.type)]

\* AnalyzeStructDeclaration: members are resolved with what is in the table
\* now, then the declared struct itself is filled in.
DefineStruct ==
    /\ phase = "structs" /\ status = "running"
    /\ LET name == order[at]
           decl == program.structs[name]
           made == {<<"generic", name, decl.params[i]>> : i \in DOMAIN decl.params}
           start == [Start EXCEPT !.generics = @ \union made]
       IN  \E taken \in {FoldLeft(LAMBDA a, node : WithMember(a, GetTypeFromTypeNode(a.at, node, name)),
                                 [at |-> start, members |-> <<>>], decl.members)} :
           /\ table' = [taken.at.table EXCEPT ![<<"struct", name, <<>>>>].members = taken.members]
           /\ generics' = taken.at.generics
           /\ status' = IF Contains(taken.members, Error) THEN "reported" ELSE status
    /\ NextDeclaration(Len(order), "functions")
    /\ UNCHANGED <<program, order, signatures, replacements, frames, generated, bodies>>

\* A parameter: a type that is a parameter of its own, when types are still
\* unknown, becomes a generic type; `r` is its node resolved.
TakeParameter(a, f, p, need, r) ==
    LET isType == r.type = TypeID /\ need
    IN  [at |-> IF isType THEN [r EXCEPT !.generics = @ \union {<<"generic", f.name, p.name>>}] ELSE r,
         params |-> Append(a.params, r.type), autos |-> Append(a.autos, r.auto),
         added |-> a.added + (IF r.auto THEN 1 ELSE 0) + (IF isType THEN 1 ELSE 0)]

Parameters(f, need) ==
    FoldLeft(LAMBDA a, p : TakeParameter(a, f, p, need,
                 GetTypeFromTypeNode([a.at EXCEPT !.auto = FALSE], p.node, f.name)),
             [at |-> Start, params |-> <<>>, autos |-> <<>>, added |-> 0], f.params)

TakeReturn(a, r) == [a EXCEPT !.at = r, !.returns = Append(@, r.type)]
WithReturns(f, taken) ==
    FoldLeft(LAMBDA a, node : TakeReturn(a, GetTypeFromTypeNode(a.at, node, f.name)),
             [at |-> taken.at, params |-> taken.params, autos |-> taken.autos, added |-> taken.added,
              returns |-> <<>>], f.returns)

Signature(all, need) ==
    LET types == all.params \o all.returns
    IN  [table |-> all.at.table, generics |-> all.at.generics,
         failed |-> Contains(types, Error) \/ (need /\ all.added > 1),
         signature |-> [params |-> all.params, autos |-> all.autos, returns |-> all.returns,
                        generic |-> \E i \in DOMAIN types :
                                        types[i] # Error /\ IsGeneric(all.at.table, types[i])]]

\* CreateFunctionType: a first pass finds out whether any type is still
\* unknown, a second one makes the generic types.
IsUnknown(r) == r.auto \/ r.type = Error
NeedsGenerics(f) ==
    \E node \in {f.params[i].node : i \in DOMAIN f.params} \union ToSet(f.returns) :
        IsUnknown(GetTypeFromTypeNode(Start, node, f.name))
CreateFunctionType(f, need) == Signature(WithReturns(f, Parameters(f, need)), need)

DeclareFunction ==
    /\ phase = "functions" /\ status = "running"
    /\ LET f == program.functions[at]
       IN  \E need \in {NeedsGenerics(f)} : \E made \in {CreateFunctionType(f, need)} :
           /\ table' = made.table /\ generics' = made.generics
           /\ signatures' = signatures @@ (f.name :> made.signature)
           /\ status' = IF made.failed THEN "reported" ELSE status
    /\ NextDeclaration(Len(program.functions), "bodies")
    /\ UNCHANGED <<program, order, replacements, frames, generated, bodies>>

-----------------------------------------------------------------------------
(* Calls.  A body is a sequence of statements <<"var", node>> and          *)
(* <<"call", function, expressions>>; an expression is <<"var", i>>, the   *)
(* i-th of the parameters, variables and results so far, <<"addr", e>> or  *)
(* <<"type", node>>.                                                       *)

RECURSIVE ExpressionType(_, _)
ExpressionType(env, e) ==
    CASE e[1] = "var" -> env[e[2]]
      [] e[1] = "addr" -> <<"pointer", ExpressionType(env, e[2])>>
      [] e[1] = "type" -> TypeID

\* The dictionary DefinedGenerics takes a name once.
Define(s, name, type) ==
    IF name \in DOMAIN s.bound THEN [s EXCEPT !.status = "reported"]
    ELSE [s EXCEPT !.bound = @ @@ (name :> type)]

\* First loop of GenericFunctionPolymorphSignature: what the arguments say
\* the new names mean.  arg is [type, meaning], meaning for <<"type", node>>.
DefineFromArgument(s, signature, param, i, arg) ==
    LET declared == signature.params[i]
        part == GetGenericPart(declared, declared)
        given == GetGenericPart(arg.type, declared)
        own == table[part].arguments
        theirs == table[given].arguments
        FromStruct(acc, k) ==
            IF ~own[k].auto \/ acc.status # "running" THEN acc
            ELSE IF k \notin DOMAIN theirs THEN [acc EXCEPT !.status = "overrun"]
            ELSE Define(acc, PartName(own[k].as), theirs[k].as)
    IN  IF s.status # "running" THEN s
        ELSE IF declared = TypeID THEN Define(s, <<"generic", param.name>>, arg.meaning)
        ELSE IF ~IsGeneric(table, declared) \/ ~signature.autos[i] THEN s
        ELSE IF part[1] = "generic" THEN Define(s, GetGenericName(part), given)
        ELSE IF given = Error THEN [s EXCEPT !.status = "reported"]
        ELSE FoldLeftDomain(FromStruct, s, own)

\* PolymorphGenericStruct: the struct gen with what its arguments mean.
PolymorphGenericStruct(s, gen) ==
    LET args == s.table[gen].arguments
        Known(a) == ~IsGeneric(s.table, a.as) \/ PartName(a.as) \in DOMAIN s.bound
        defined == [i \in DOMAIN args |->
            IF ~IsGeneric(s.table, args[i].as) THEN args[i]
            ELSE [args[i] EXCEPT !.as = ToNonGeneric(@, s.bound[PartName(@)])]]
        made == ResolveGenericStruct(s.table, gen, defined, s.bound)
    IN  IF \E i \in DOMAIN args : ~Known(args[i]) THEN [s EXCEPT !.status = "reported"]
        ELSE [s EXCEPT !.table = made.table, !.bound = @ @@ (gen :> made.type)]

\* The type a generic type of the signature has with these meanings.
Defined(s, t) ==
    IF IsGeneric(s.table, t) /\ PartName(t) \in DOMAIN s.bound
    THEN ToNonGeneric(t, s.bound[PartName(t)]) ELSE t

\* Second loop: the argument must have the type its parameter resolves to.
CheckArgument(s, declared, arg) ==
    LET part == GetGenericPart(declared, declared)
        made == IF part[1] = "struct" THEN PolymorphGenericStruct(s, part)
                ELSE IF GetGenericName(part) \in DOMAIN s.bound THEN s
                ELSE [s EXCEPT !.status = "reported"]
    IN  IF s.status # "running" \/ ~IsGeneric(s.table, declared) THEN s
        ELSE IF made.status = "running" /\ arg.type # Defined(made, declared)
        THEN [made EXCEPT !.status = "reported"] ELSE made

CheckReturn(s, declared) ==
    LET part == GetGenericPart(declared, declared)
    IN  IF s.status # "running" \/ ~IsGeneric(s.table, declared) THEN s
        ELSE IF part[1] = "struct" THEN PolymorphGenericStruct(s, part)
        ELSE IF GetGenericName(part) \in DOMAIN s.bound THEN s
        ELSE [s EXCEPT !.status = "reported"]

GenericFunctionPolymorphSignature(tab, f, args) ==
    LET signature == signatures[f.name]
        first == FoldLeftDomain(LAMBDA s, i : DefineFromArgument(s, signature, f.params[i], i, args[i]),
                                [table |-> tab, bound |-> <<>>, status |-> "running"], f.params)
        second == FoldLeftDomain(LAMBDA s, i : CheckArgument(s, signature.params[i], args[i]),
                                 first, f.params)
    IN  FoldLeft(CheckReturn, second, signature.returns)

\* FunctionTypeGetNonGeneric
FunctionTypeGetNonGeneric(s, f) ==
    <<f.name, [i \in DOMAIN f.params |-> Defined(s, signatures[f.name].params[i])],
      [i \in DOMAIN f.returns |-> Defined(s, signatures[f.name].returns[i])]>>

-----------------------------------------------------------------------------
(* Bodies. *)

Frame(instance, before) ==
    [instance |-> instance, env |-> instance[2], at |-> 1, calls |-> <<>>, before |-> before]

Top == frames[1]
Body == Function(Top.instance[1]).body
Statement == Body[Top.at]
InBody == phase = "bodies" /\ status = "running" /\ frames # <<>> /\ Top.at <= Len(Body)

\* Analyze: the bodies of functions that are not generic, one after another.
BeginBody ==
    /\ phase = "bodies" /\ status = "running" /\ frames = <<>> /\ at <= Len(program.functions)
    /\ LET f == program.functions[at]
           signature == signatures[f.name]
       IN  frames' = IF signature.generic THEN <<>>
                     ELSE <<Frame(<<f.name, signature.params, signature.returns>>, Len(replacements))>>
    /\ at' = at + 1
    /\ UNCHANGED <<program, order, phase, table, generics, signatures, replacements, generated, bodies, status>>

\* A variable's type, in the scope of the function that was written.
DeclareVariable ==
    /\ InBody /\ Statement[1] = "var"
    /\ \E r \in {GetTypeFromTypeNode(Start, Statement[2], Top.instance[1])} :
           /\ table' = r.table
           /\ frames' = [frames EXCEPT ![1].env = Append(@, r.type), ![1].at = @ + 1]
           /\ status' = IF r.type = Error THEN "reported" ELSE status
    /\ UNCHANGED <<program, order, phase, at, generics, signatures, replacements, generated, bodies>>

\* The arguments of a call: their types, and the types they name, which are
\* resolved in the caller's scope.
NamedType(a, r) == [at |-> r, args |-> Append(a.args, [type |-> TypeID, meaning |-> r.type])]
Arguments ==
    FoldLeft(LAMBDA a, e :
               IF e[1] = "type" THEN NamedType(a, GetTypeFromTypeNode(a.at, e[2], Top.instance[1]))
               ELSE [a EXCEPT !.args = Append(@, [type |-> ExpressionType(Top.env, e), meaning |-> Error])],
             [at |-> Start, args |-> <<>>], Statement[3])

\* The caller goes on with the result of the call.
After(frame, instance) ==
    [frame EXCEPT !.env = @ \o instance[3], !.at = @ + 1, !.calls = Append(@, instance)]

\* AST_CALL: the arguments a function's own types settle are checked first.
PlainArgumentsFit(signature, args) ==
    /\ Len(args) = Len(signature.params)
    /\ \A i \in DOMAIN args :
           IsGeneric(table, signature.params[i]) \/ args[i].type = signature.params[i]

CallPlain ==
    /\ InBody /\ Statement[1] = "call" /\ ~signatures[Statement[2]].generic
    /\ \E given \in {Arguments} :
        /\ LET signature == signatures[Statement[2]]
           IN  IF PlainArgumentsFit(signature, given.args)
               THEN /\ frames' = [frames EXCEPT ![1] =
                            After(@, <<Statement[2], signature.params, signature.returns>>)]
                    /\ UNCHANGED status
               ELSE status' = "reported" /\ UNCHANGED frames
        /\ table' = given.at.table
    /\ UNCHANGED <<program, order, phase, at, generics, signatures, replacements, generated, bodies>>

\* What the names of a signature mean in its body.  (Structs are replaced by
\* name as well, but by a name no type has.)
Meanings(bound) ==
    LET names == {n \in DOMAIN bound : n[1] = "generic"}
    IN  [i \in DOMAIN SetToSeq(names) |-> [name |-> SetToSeq(names)[i][2], as |-> bound[SetToSeq(names)[i]]]]

Instantiate(name, bound, instance) ==
    LET caller == <<After(Top, instance)>> \o Tail(frames)
    IN  IF Contains(generated[name], instance)
        THEN frames' = caller /\ UNCHANGED <<replacements, generated, status>>
        ELSE /\ frames' = <<Frame(instance, Len(replacements))>> \o caller
             /\ replacements' = replacements \o Meanings(bound)
             /\ generated' = [generated EXCEPT ![name] = Append(@, instance)]
             /\ status' = IF Len(frames) < MaxFrames THEN status ELSE "deep"

\* GenerateFunctionFromPolymorphicCall: the instance of these types is found
\* or made, and a new one is analysed before the caller goes on.
CallGeneric ==
    /\ InBody /\ Statement[1] = "call" /\ signatures[Statement[2]].generic
    /\ LET f == Function(Statement[2])
       IN  \E given \in {Arguments} :
           IF ~PlainArgumentsFit(signatures[f.name], given.args)
           THEN status' = "reported" /\ UNCHANGED <<table, frames, replacements, generated>>
           ELSE \E s \in {GenericFunctionPolymorphSignature(given.at.table, f, given.args)} :
                IF s.status # "running"
                THEN status' = s.status /\ UNCHANGED <<table, frames, replacements, generated>>
                ELSE table' = s.table /\ Instantiate(f.name, s.bound, FunctionTypeGetNonGeneric(s, f))
    /\ UNCHANGED <<program, order, phase, at, generics, signatures, bodies>>

\* A slip that could be made: the replacements of the inner body stay.
NeverCleared(count) == replacements

\* ClearGenericReplacement
Cleared(count) == SubSeq(replacements, 1, count)

FinishBody ==
    /\ phase = "bodies" /\ status = "running" /\ frames # <<>> /\ Top.at > Len(Body)
    /\ bodies' = bodies @@ (Top.instance :> [env |-> Top.env, calls |-> Top.calls])
    /\ replacements' = Cleared(Top.before)
    /\ frames' = Tail(frames)
    /\ UNCHANGED <<program, order, phase, at, table, generics, signatures, generated, status>>

Next ==
    \/ DefineStruct \/ DeclareFunction
    \/ BeginBody \/ DeclareVariable \/ CallPlain \/ CallGeneric \/ FinishBody

Spec == Init /\ [][Next]_vars

-----------------------------------------------------------------------------
(* What is meant: types by substitution, with no table and no order.       *)

RECURSIVE Meant(_, _)
Meant(node, bound) ==
    CASE node[1] = "basic" -> node
      [] node[1] = "pointer" -> <<"pointer", Meant(node[2], bound)>>
      [] node[1] = "struct" -> <<"struct", node[2], [i \in DOMAIN node[3] |-> Meant(node[3][i], bound)]>>
      [] OTHER -> IF node[2] \in DOMAIN bound THEN bound[node[2]]
                  ELSE IF node[2] \in DOMAIN program.structs THEN <<"struct", node[2], <<>>>> ELSE Error

\* The pairs of a name and what it has to mean for node to be t.
RECURSIVE Pairs(_, _)
Pairs(node, t) ==
    CASE node[1] = "basic" -> {}
      [] node[1] = "pointer" -> IF t[1] = "pointer" THEN Pairs(node[2], t[2]) ELSE {}
      [] node[1] = "struct" ->
            IF t[1] = "struct" /\ t[2] = node[2] /\ Len(t[3]) = Len(node[3])
            THEN UNION {Pairs(node[3][i], t[3][i]) : i \in DOMAIN node[3]} ELSE {}
      [] OTHER -> IF node[2] \in DOMAIN program.structs THEN {} ELSE {<<node[2], t>>}

Bound(pairs) == [n \in {p[1] : p \in pairs} |-> (CHOOSE p \in pairs : p[1] = n)[2]]

Nodes(f) == [i \in DOMAIN f.params |-> f.params[i].node]

\* The meaning of f's names in an instance.
OfInstance(instance) ==
    LET f == Function(instance[1])
        In(nodes, types) == UNION {Pairs(nodes[i], types[i]) : i \in DOMAIN nodes}
    IN  Bound(In(Nodes(f), instance[2]) \union In(f.returns, instance[3]))

\* The instance a call of f means, with arguments of these types; args is
\* [type, meaning] as above.
PairsOfCall(f, args) ==
    {<<f.params[i].name, args[i].meaning>> : i \in {j \in DOMAIN args : Nodes(f)[j] = TypeID}}
        \union UNION {Pairs(Nodes(f)[i], args[i].type) : i \in DOMAIN args}

InstanceMeant(f, args) ==
    LET bound == Bound(PairsOfCall(f, args))
    IN  <<f.name, [i \in DOMAIN f.params |-> Meant(Nodes(f)[i], bound)],
          [i \in DOMAIN f.returns |-> Meant(f.returns[i], bound)]>>

MeantArguments(env, bound, exprs) ==
    [i \in DOMAIN exprs |-> IF exprs[i][1] = "type" THEN [type |-> TypeID, meaning |-> Meant(exprs[i][2], bound)]
                            ELSE [type |-> ExpressionType(env, exprs[i]), meaning |-> Error]]

\* The types of parameters, variables and results, and the instances called,
\* when the first statements of a body are read with its names' meaning.
ReadUpTo(instance, count) ==
    LET bound == OfInstance(instance)
        Read(b, statement) ==
            LET callee == InstanceMeant(Function(statement[2]), MeantArguments(b.env, bound, statement[3]))
            IN  IF statement[1] = "var" THEN [b EXCEPT !.env = Append(@, Meant(statement[2], bound))]
                ELSE [env |-> b.env \o callee[3], calls |-> Append(b.calls, callee)]
    IN  FoldLeft(Read, [env |-> instance[2], calls |-> <<>>],
                 SubSeq(Function(instance[1]).body, 1, count))

BodyMeant(instance) == ReadUpTo(instance, Len(Function(instance[1]).body))

\* A call fits when its arguments agree on every name and have the types of
\* the parameters.
Fits(f, args) ==
    LET pairs == PairsOfCall(f, args)
    IN  /\ \A p, q \in pairs : p[1] = q[1] => p[2] = q[2]
        /\ InstanceMeant(f, args)[2] = [i \in DOMAIN args |-> args[i].type]

RECURSIVE Accepts(_, _)
Accepts(instance, seen) ==
    LET f == Function(instance[1])
        meant == BodyMeant(instance)
        bound == OfInstance(instance)
        FitsAt(k) ==
            LET before == ReadUpTo(instance, k - 1)
                callee == Function(f.body[k][2])
            IN  Fits(callee, MeantArguments(before.env, bound, f.body[k][3]))
        met == (seen \union {instance})
    IN  /\ \A k \in DOMAIN f.body :
              IF f.body[k][1] = "var" THEN Meant(f.body[k][2], bound) # Error ELSE FitsAt(k)
        /\ \A i \in DOMAIN meant.calls : meant.calls[i] \in met \/ Accepts(meant.calls[i], met)

RECURSIVE News(_)
News(node) ==
    CASE node[1] = "new" -> {node[2]}
      [] node[1] = "pointer" -> News(node[2])
      [] node[1] = "struct" -> UNION {News(node[3][i]) : i \in DOMAIN node[3]}
      [] OTHER -> {}

\* The language's own limit: one parameter says what names mean.
Declarable(f) ==
    LET says == {i \in DOMAIN f.params : Nodes(f)[i] = TypeID \/ News(Nodes(f)[i]) # {}}
    IN  Cardinality(says) <= 1

Accepted ==
    /\ \A i \in DOMAIN program.functions : Declarable(program.functions[i])
    /\ \A i \in DOMAIN program.functions :
          LET f == program.functions[i]
          IN  ~signatures[f.name].generic => Accepts(InstanceMeant(f, <<>>), {})

Done == phase = "bodies" /\ status = "running" /\ frames = <<>> /\ at > Len(program.functions)

\* In a program that was accepted, every name in an instance of a generic
\* function means what the call that made the instance says, after any calls
\* in its body and whatever instances were made on the way; every call has
\* the instance of its own types, which was analysed, once.  And a program is
\* accepted exactly when its calls fit.  (Polymorph.cpp:129-358, the
\* replacements of Type.cpp:249-295.)
InstancesMeanTheirCalls ==
    /\ Done =>
        /\ Accepted
        /\ \A instance \in DOMAIN bodies :
              /\ bodies[instance] = BodyMeant(instance)
              /\ Range(bodies[instance].calls) \subseteq DOMAIN bodies
        /\ \A f \in DOMAIN generated : IsInjective(generated[f])
    /\ status = "reported" => ~Accepted

\* A struct as its declaration says, with these arguments.
MembersMeant(t) ==
    LET decl == program.structs[t[2]]
        bound == [n \in Range(decl.params) |->
                    t[3][CHOOSE i \in DOMAIN decl.params : decl.params[i] = n]]
    IN  [i \in DOMAIN decl.members |-> Meant(decl.members[i], bound)]

\* Generic structs a node names, each with the nodes of its arguments.
RECURSIVE Named(_)
Named(node) ==
    CASE node[1] = "pointer" -> Named(node[2])
      [] node[1] = "struct" -> {<<node[2], node[3]>>} \union UNION {Named(node[3][i]) : i \in DOMAIN node[3]}
      [] OTHER -> {}

NamedBy(name) == UNION {Named(program.structs[name].members[i]) : i \in DOMAIN program.structs[name].members}

Itself(name) == [i \in DOMAIN program.structs[name].params |-> <<"name", program.structs[name].params[i]>>]

\* Known: a generic struct that another one names is made with the arguments of
\* the one that names it, so these are only right when it is named with just the
\* parameters of that one, in their order, or with types that have none.
OwnArguments ==
    \A name \in DOMAIN program.structs : \A used \in NamedBy(name) :
        used[2] = Itself(name) \/ \A i \in DOMAIN used[2] : used[2][i][1] = "basic"

\* Known: a struct that one analysed before it names is made from a declaration
\* with no members yet, and is not made again.
NamedTooEarly(name) ==
    \E i, j \in DOMAIN order : i < j /\ order[j] = name /\ \E used \in NamedBy(order[i]) : used[1] = name

\* In whatever order the files are analysed, every struct made from a generic
\* one has the members of its declaration with its arguments in place of the
\* parameters, members of generic structs and pointers to itself included,
\* whoever made it and at what time; one that is named too early has these or
\* none at all, never those of another instance or a part of them.
\* (ResolveGenericStruct, Polymorph.cpp:360-437.)
StructsAreSubstituted ==
    phase # "structs" /\ OwnArguments =>
        \A t \in DOMAIN table : t[3] # <<>> /\ ~table[t].generic =>
            \/ table[t].members = MembersMeant(t)
            \/ NamedTooEarly(t[2]) /\ table[t].members = <<>>

=============================================================================
