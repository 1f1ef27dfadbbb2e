# A TLA+ model of the ReComp compiler

This directory holds TLA+ modules about the compiler in `src/`, the TLC
configurations that model-check them on small instances, and theorems about them
that the TLAPS proof system checks. Source lines are given as `File.cpp:line`
below `src/src/`. `PROJECT.json` lists the components, the runs, the source lines
behind every definition, the hazards and the findings.

1. [The system](#the-system)
2. [The modules and the code](#the-modules-and-the-code)
3. [What is checked](#what-is-checked)
4. [What is proved](#what-is-proved)
5. [What was found](#what-was-found)
6. [What is not modelled](#what-is-not-modelled)
7. [Plan](#plan)
8. [Running it](#running-it)

## The system

ReComp compiles a language of its own (`.rv` files) through LLVM. It is one
program, a single translation unit around `Main.cpp`. A *build file* is itself
compiled to IR and its `compile()` function is interpreted; it returns the
targets to build, and each target then goes through the same pipeline.

```
 Main.cpp: for the build file, then for every target
    configure (Lookups, ConfigIDs, PTarget, RegisterBitSize, type table)
    RunPipeline  (Pipeline.cpp)
       lex and parse jobs  ---> work queue (Threading.cpp)
       module table, imports (Module.cpp)
       type checker (Semantics.cpp, TypeCheck.cpp, Polymorph.cpp)
       IR jobs (IR.cpp)    ---> work queue
       flow typing (FlowTyping.cpp)
    inspect_ast hook, compile-time globals (Interpreter.cpp)
    LLVM jobs (backend/LLVMC) ---> work queue
    linker, after_link hook
        all of them intern types in the type table (Type.cpp)
```

### Inventory

State, operations and what makes each part correct. "Hard" is what a test hardly
reaches.

| Component | State | Operations | Hard | Correct when |
|---|---|---|---|---|
| Work queue, `Threading.cpp` | ring `Jobs`, atomics `JobCount`, `AtJob`, `JobsCompleted`, `Mutex`, `Semaphore`, `WakeMain` | `PostJob`, `TryDoWork`, `ThreadProc`, `MainThreadWorkUntilDone` | lock-free claims, slots read after the claim, jobs that post jobs, sleeping and waking | every job runs once, the wait is a barrier, nobody sleeps on work |
| Pipeline, `Pipeline.cpp` | `StagedFiles`, `Lookups`, `ParseResults`, phases | `RunPipeline`, `PipelineDoFile`, lex/parse/IR jobs | imports found by jobs in any order, the same globals for every target | each reachable file is parsed once, order does not matter |
| Modules, `Module.cpp` | module table, `File->Imported` | `AddModule`, `ResolveImports`, symbol look-up | a second look-up after parsing, null slots | every import that was found is resolved |
| Errors, `Errors.cpp` | atomic error count | `RaiseError`, `ExitIfErroredOut` | exits in the middle of jobs | no crash without a report |
| Type table, `Type.cpp` | `TypeTable`, `TypeMap`, `CachedAsPointer`, cached sizes | `GetPointerTo`, `GetSliceType`, `GetOptional`, `AddTypeWithName`, `SaveTypeTableAndReset`, `RestoreTypeTable` | look-up and insertion in two critical sections, a cache read without the lock, tables swapped under saved indices | one entry per type; an index keeps its meaning |
| Build driver, `Main.cpp` | `PTarget`, `RegisterBitSize`, `ConfigIDs`, saved tables, `g_StopCompileOutput` | `main`, the loop over targets, hooks | what one target leaves behind for the next | a target is built as if it were alone |
| Lexer, `Lexer.cpp`; parser, `Parser.cpp` | position, `#if` nesting, the parser's flags | tokens, nodes, recovery | longest tokens, trials that are undone, flags put back by hand | the nodes are those written, nothing is dropped quietly, it ends |
| AST exchange, `PassAst.cpp`, `CopyASTNode` | - | node to node, field by field | 50 kinds of nodes copied by hand | a copy is whole and shares nothing |
| Type checker, `Semantics.cpp` | scopes, opaque structs, the stack of untyped constants | passes over the files, `AnalyzeNode`, promotions | constants typed from a distance, order of declarations | accepted programs are well typed |
| Polymorphism, `Polymorph.cpp` | one global stack of replacements, generated instances | instantiation from a call | bodies analysed in the middle of others, recursion | one instance per argument list, a name means what its call said |
| IR builder, `IR.cpp` | `block_builder` | one function per kind of node | blocks ended from several places, deferred bodies; four places that divide structs into registers | blocks and instructions do what the source says; caller and callee agree |
| Flow typing, `FlowTyping.cpp` | facts per block and register | fixpoint over blocks, errors | loops, the order blocks are visited in | no null is used where none is allowed |
| Interpreter, `Interpreter.cpp`, `InterpCasts.cpp`, `InterpBinaryOps.cpp`, `StackAllocator.cpp` | registers, stack, globals | one case per instruction, 400 casts | widths and signs | agrees with the compiled program |
| Code generation, `backend/LLVMC` | per-thread target machine, type maps | one function per instruction, passes | state that outlives a target | the machine is that of the target |
| Register allocator, `backend/RegAlloc.cpp` | live ranges | block order, colouring | called for the block order only | a block comes after a predecessor |
| Dictionary, `Dict.h` | open addressing table | add, find, rehash | probing over moved keys, growth; a copy shares its arrays | behaves as a map |
| Memory, `Memory.cpp`, `Stack.h` | arenas, chunks | allocate, reset | the bound is tested per chunk | allocations do not overlap |
| Rest | command line, `DotEnv.cpp`, `Test.cpp`, `DumpInfo.cpp`, platform layer | input and output | - | - |

Threads: the main thread stages files, waits, checks, and runs jobs while it
waits; workers run lex, parse, IR and LLVM jobs. They share the queue, the three
locked containers of the pipeline, the error count and the type table. Nothing is
persisted, so there is no recovery to model. `PROJECT.json` lists each hazard at
its line with the properties that cover it.

## The modules and the code

Four chains of modules meet the parts of the compiler from two sides: what its
threads and tables do while a build runs, and what becomes of a program's text.

```
 JobPool <== WorkQueue            what a build does
    ^---- Pipeline                TypeTable     BuildDriver    Mapping <== Dictionary

 Trees <- Lexing, Parsing <- FrontEnd <- Exchange, AstExchange     text to nodes
 TypeForms <- Types <- Expressions <- ExpressionIR <- Machines <- Evaluation   expressions
      ^-- Calls                                                    calls
 Structured <- Lowering <- FlowTyping                              statements
 Polymorph                                                         generic code
```
(`<==` is a refinement that TLC checks and TLAPS proves, `<-` an `EXTENDS` or
`INSTANCE`.)

### WorkQueue (`Threading.cpp`, with the semaphores of `Linux.cpp`/`Win32.cpp`)

Every atomic load, compare-exchange, increment, lock, signal and notify is an
action. `pc[t]` says where a thread is inside `TryDoWork` ("load" to "run",
"count" to "wake"), `PostJob` ("bump" to "notify") or `MainThreadWorkUntilDone`
("done" to "waiting"); `at`, `job` and `seen` are the locals that survive a step.
A job is named by its *ticket*, the value of `JobCount` when it was posted, so
the ring is a sequence of tickets and an overwritten slot shows. `phaseBase`,
`runs` and `finished` are history.

The comparison `JobsCompleted == JobCount` is two loads in the order clang emits
them. A notify reaches the main thread only in "waiting": notifiers do not hold
`MainMutex`. `InitThreadsForQueue` starts the workers or, with `--no-thread`, none: they
stay "absent" for good. A wake-up without a notify, which a condition variable may have, is
left out: it would only hide the lost wake-up.

### JobPool

What the queue promises: a posted job starts once and finishes once, jobs start
in posting order but for one per thread, and the wait ends when everything posted
is finished. `WorkQueue` implements it (`ImplementsJobPool`), and `Pipeline` is
written on top of it, so the pipeline's interleavings are those the queue really
allows without its loads and stores.

### Pipeline (`Pipeline.cpp`, `Module.cpp`, parts of `Parser.cpp`, `Errors.cpp`)

A round is one call of `RunPipeline`; `rounds` are those of a build. What a thread
does under one lock of `Lookups`, `StagedFiles` or `ParseResults` is an action; the
test and the push of `PipelineDoFile` are under one lock, so they are one action.
`FindFile` is modelled with its order (the last look-up path wins, then the
importing file's directory). A source text is a module header and imports; texts
and rounds are chosen together in `Init` from `Builds`. The checker and flow
typing are steps that may find an error.

`ResolveImports` reads through empty slots of `FileArray` (files without a header)
exactly where the code does; `status = "crash"` is that read.

### TypeTable (`Type.cpp:1542-1720, 404-435`)

One entry per type; a name is the sequence of its words. A lock-to-unlock section
is an action: the look-up of `GetPointerTo`, the look-up and insertion of
`AddTypeWithName`, the write of the cache. The read of `CachedAsPointer` without
the lock is a step of its own. The main thread also declares structs and generics
and fills opaque structs, which clears their cache.

### BuildDriver (`Main.cpp`, the saving and restoring of `Type.cpp:130-180`)

The loop over targets, one action per stage. Here the type table is on a heap: a
table, current or saved, is a sequence of pointers to objects, and a saved table
shares its dictionary with the current one, as the code's struct copies do. The
hooks, the interpreter and the code generator intern pointers in every stage.

### Dictionary and Mapping (`Dict.h`)

`Dictionary` has the arrays `Control`, `Keys` (together `slots`) and `Data_`
(`items`), the capacity and `Used`. `Add`, `AddOrReplace` and the reads are steps;
`ReHash` moves one old slot in a step, in which the `Add` that started it waits
(`call`, `old`, `at`). `Mapping` is what its users count on: at most one entry of
a key. `map_int` is the same table with an integer for a key.

### Lexing, Trees, Parsing, FrontEnd (`Lexer.cpp`, `Parser.cpp`)

`Lexing` is a lexer record (where it stands, what it reported, its conditional
compilation) and one operator per function of `Lexer.cpp`; a text is a sequence of
characters. `Trees` has the `Make` functions of the nodes. `Parsing` is the parser:
a record of `struct parser`'s fields, and one operator per function, which returns
the parser it leaves and the node; so the trial of `LooksLikeGenericTypeInit` and
the flags that are set and put back are where they are in the code. Productions call each other
through one operator, `Read`. `FrontEnd`
has the two phases of a parse job as steps, a token and a top level declaration at
a time. `parser.fate` is "exited" after the fifth error, "crashed" where the code
reads through a null pointer and "loops" where a loop took nothing.

### Exchange, AstExchange (`PassAst.cpp`, `CopyASTNode` of `Parser.cpp`)

The three functions that go over every kind of node and handle its fields one by
one are tables in `Exchange`: what becomes of each field of each kind (made anew,
shared, made anew as a list, dropped). `AstExchange` adds two uses of the nodes that `FrontEnd`
parsed: a copy of a function for a generic call, and the round trip through the
build program, whose result takes the place of the nodes of a file.

### TypeForms, Types, Expressions, ExpressionIR, Machines, Evaluation

(`Type.cpp`, `Semantics.cpp`, `IR.cpp`, `Interpreter.cpp`, `InterpCasts.cpp`,
`InterpBinaryOps.cpp`, `backend/LLVMC`.) One body on its way from statements to
two finished runs. `TypeForms` says what a type is: its kind, its parts, the flags of the
basic ones. `Types` has sizes, layouts, implicit conversions and explicit casts. `Expressions` is `AnalyzeExpression`: it inserts casts, and keeps the stack
of pointers to types that are still untyped, which whoever learns a type fills
entirely; a pointer into a node is a *slot* here. `ExpressionIR` lowers what comes
of it. `Machines` has one operator per instruction for the interpreter and for the
code LLVM generates, over bits of a fixed width, with what C++ or LLVM leave
undefined as an outcome of its own. `Evaluation` puts them in a row: a body is "parsed", then "checked" or "rejected",
"built", interpreted a basic block at a step, and then "refused" by LLVM's typing
or "compiled" and run once more. Its last part is the reference, the meaning of a statement without
registers or slots.

### Calls (`IR.cpp`, `Type.cpp`, `Interpreter.cpp`, `backend/LLVMC`)

Four places decide how a value travels: the function's type
(`FixFunctionTypeForCallConv`), each argument (`FixCallWithComplexParameter`), the call's
result and the return, and two more put it together (`OP_ARG` in the interpreter and in
the LLVM generator). Each is an operator of its own, from its own lines. A byte is
`<<i, o, age>>`: byte `o` of argument `i`, as it was evaluated ("old") or after it
was assigned to ("new"), so a byte in the wrong place shows and so does a copy
made too late. The actions are one argument, the call, one parameter, the return
and the taking of the result; `Reassign` and `Defer` assign to a variable in between.

The sizes of types and the offsets of members are constants here, `TypeSize` and
`MemberOffset`. `LayoutAssumption` has what of a layout the lowering relies on: members lie
inside their struct and one behind the other, at offset 0 in a union, two `f32` in a row
without a gap, and the handful of types that registers have are of their size.
`TypesAssumption` has what the lowering's assertions and the checker say of a type. The run
takes the layout from `Types` (`GetTypeSize`, `GetStructMemberOffset`) and so checks that it
is one of those.

### Lowering and Structured (`IR.cpp`, with the checks of `Semantics.cpp`)

`Lowering` has two halves. The first translates statements into basic blocks: the
recursion of `BuildIRFunctionLevel` is the list `todo`, with one action per kind of
node and per continuation of a caller (the second half of `BuildIRForLoopCStyle`
after its body, for instance), so that block numbers are allocated in the code's
order. A string case is `BuildStringCompare`: lengths first, `memcmp` in a block of its
own where they agree, a block each for equal and not, and one where they meet. Bodies
keep the brackets of `AST_SCOPE`; deferred bodies are nodes that are lowered again at each exit. The second half runs the blocks, choosing each
condition and each switch value. `Structured` is the reference: it walks the
statements along the trace of the run and says what should have happened, and it
has the checker's conditions on jumps, unreachable code and returns (`Accepted`).
The lowering relies on part of them, which `LoweringAssumption` states without
recursion over statements: `Ongoing` and `Leaving` are the statements that may occur,
those that jump at their end apart, in and out of a switch, and every body among
their parts is one of them in turn. A deferred body that is a jump itself is left out.

### FlowTyping (`FlowTyping.cpp`, with `SortBasicBlocks` of `backend/RegAlloc.cpp`)

Works on the blocks that `Lowering` made, between lowering and running, as the
pipeline does. Conditions and calls with names in `Tests`, `Reads` and `Stores` are
tests against null, reads through a nullable and stores to one; all others mean
nothing to it. `Mark` is the part before the loop of `FlowTypeFunction` (block
order, predecessors, marks of each block), `FlowTypeEvaluateBlock` one call of that
function, `RunAgain` the end of a round, `FlowTypeRaiseErrors` the errors. A function
with errors is not run (`ExitIfErroredOut`); in the run of one without, a pointer
that a test found null or not stays so until it is stored to (`Agrees`).

A location is a variable. The members of structs and arrays are locations of their
own per access in the code and never found not to be null there; they are left
out. So is what the code does not look at: stores *through* a nullable, members
read through it, stores of call results, and a nullable that is loaded in one
block and used in another (`f(p, a && b)`).

### Polymorph (`Polymorph.cpp`, the generic parts of `Type.cpp`, `Semantics.cpp`, `Parser.cpp`)

A program is a list of structs and functions with type parameters. The actions are
the checker's: declare the next struct, the next function, then analyse bodies, one
variable, statement or end of body at a step. A call of a generic function in a body
binds its names (`GetGenericPart`), looks for the instance and, if there is none,
pushes a frame: its body is analysed before the caller's goes on, with what names
mean in `replacements`. `GetTypeFromTypeNode` makes structs as it meets them, with the
members their declaration has at that moment. A bound on frames (`MaxFrames`) ends
recursion that never ends in the code (`status = "deep"`).

## What is checked

| Run | Module | States | Question |
|---|---|---|---|
| `queue` | MCWorkQueue | 96 108 | the main thread with two workers and with none, ring of 2 that wraps, jobs that post jobs |
| `queue_stranded` | MCWorkQueue | counterexample | the lost wake-up |
| `pipeline` | MCPipeline | 524 091 | files that import each other, errors of every kind, a build file and its target, two threads |
| `type_table` | MCTypeTable | 942 133 | two threads intern types while structs are declared |
| `build` | MCBuildDriver | 2 942 089 | a host target and a wasm32 target, with and without hooks |
| `dictionary` | MCDictionary | 174 841 | collisions, overwriting, growth by rehash |
| `front_end` | MCFrontEnd | 86 695 | files made from a grammar, files with one wrong token, short texts; copies and round trips of their nodes |
| `evaluation` | MCEvaluation | 87 037 | bodies of expressions, checked, lowered, and run twice |
| `calls` | MCCalls | 101 335 | signatures on four targets, called by generated code and by the interpreter |
| `lowering` | MCLowering | 426 388 | 688 bodies, 231 of them with nullable pointers, every outcome of their conditions |
| `flow_default` | MCLowering | counterexample | a nullable and a switch with its default first |
| `polymorph` | MCPolymorph | 15 492 | generic structs in every order, generic functions that call each other |

Each module's last section states its properties with the code they are about. In
short:

* **Queue.** `ClaimedOnce`, `SlotsIntact` (a posted job not yet read is still in its
  slot), `Accounting` (what was started, finished and counted), `WorkersAwake` (no
  worker sleeps on a semaphore nobody signals while a job waits), `BarrierHolds`
  (the wait returns only when no job is running or posted), `ImplementsJobPool`,
  and under fairness `EveryJobFinishes` and, with `--no-thread`,
  `WaitEndsWithoutWorkers`: the main thread runs what is posted, and what that posts,
  and comes to the end of its wait. (With workers it may not: `queue_stranded`.)
* **Pipeline.** `ParsedExactly` (the files parsed are those reachable from the
  initial ones, each once, in every round), `ModulesAreDetermined` (the module
  table does not depend on order), `FileImportsResolve`, `EveryFileHasIR`,
  `CrashIsReported`, and under fairness `PipelineEnds`: a build comes to its end, or
  for ever waits with every posted job finished, which is what the queue leaves open.
* **Type table.** `OneEntryPerName`, `CachedPointerIsRight`, `GivenWhatItAskedFor`.
* **Driver.** `TargetTypesAreFound`, `IndicesKeepTheirMeaning` (an index in IR is
  the type it was when the IR was made), `SizesFitTheMachine` (code is made
  at the register size of its target, interpreted at the host's, and a cached size is
  used at the register size it was computed for).
* **Dictionary.** `AlwaysRoom` (the assertion of `Add_` never fails),
  `ImplementsMapping` (whatever was moved, a key leads to its item).
* **Front end.** `LexedAsWritten` (tokens are cut where a reader of the whole text
  would cut them), `ParsedAsWritten` (a file that a grammar wrote becomes the nodes it was
  written for), `NothingIsLost` (what is accepted has each name, number and keyword of
  the text), `ComesToAnEnd`, `CopySharesNoNode`, `TakenBackAsGiven`.
* **Evaluation.** `AcceptedIsWellTyped` (LLVM can take what the checker accepts),
  `InterpretedAsCompiled`, `ComputesAsWritten`.
* **Calls.** `CallFitsFunction` (a call has the registers that the function's type
  declares), `ArgumentsArrive`, `ResultArrives` (a result is what the return
  statement evaluated, before the deferred statements change it).
* **Lowering.** `BlocksWellFormed`, `RunsAsWritten` (the blocks do what the
  statements say, deferred code included).
* **Flow typing.** `FactsAreThoseOfPaths` (the fixed point is the set of facts that
  hold on every path), `ReadsAreGuarded` (an accepted body never reads through a
  null, whatever its conditions give; it relates the analysis of the blocks to
  their runs), `NullStateKnown` (its assertion).
* **Polymorph.** `InstancesMeanTheirCalls` (a program is accepted exactly when
  every call fits by substitution; then each body has the types that substitution
  gives, and there is one instance of a list of types), `StructsAreSubstituted` (the
  members of every struct made are those of its declaration, in every order of the
  files).

Properties about translations compare with a reference in the same module that is
written without the mechanism it is about: paths instead of a fixed point,
substitution instead of a stack of names, a grammar's trees instead of flags.

Where the code is known to miss a property, the case has a name of its own
(`KnownGap`, `KnownToPart`, `AssignsToCast`, `BadSelector`, `SmallWasmResult`,
`DefaultOfStruct`, `WrappedDefault`, `LostInInterpreter`, `SliceBehindResult`, `OutOfStep`, `Variadic`,
`Hidden`, `CopiedAfterDefers`, `LeftAt32`, `NamedTooEarly`, `OwnArguments`, `PlainJumps`) and a line of [What was found](#what-was-found);
the property is about everything else.

Every property of a passing run has a mutant in `PROJECT.json`: an operator next to
the definition it changes, named for what goes wrong, which makes TLC find the
property violated.

### Bounds, and why they are enough

* `MaxJobs = 2`, `JobLimit = 3` of the queue: the smallest ring that wraps with a
  claim still open, and one more job than the ring holds. `PhaseLimit <= MaxJobs` is
  the one assumption about use: a phase posts at most 4096 jobs. `PostJob` does not
  check it; a program of more than 2048 files breaks it.
* `SemMax = 2` stands for the semaphore's maximum, so a signal at the maximum
  happens in the run.
* `ErrorLimit = 1` of the pipeline instead of 4: `RaiseError` ends the process at the
  second error instead of the fifth, so that both sides of the limit occur with few
  files. The front end has the real limit of 4.
* Four paths and four modules: two library files, a main file and one beside it,
  reached under two names; more files repeat the same relations. One worker and
  the main thread are two concurrent job runners. `JobLimit = 15` is never reached.
* `MaxTypes = 4` of the type table with one basic type, one struct and one generic:
  three entries to add by two threads, enough for a race on one name and for a
  type derived from a type derived at run time. A thread stops where the table is
  full, as `AddTypeWithName` asserts.
* `MaxTypes = 4`, `MaxObjects = 12` of the driver: each of the build table and the
  two target tables gets types of its own, and restored tables overwrite slots.
  Steps that would add beyond it are not taken; every other step is.
* `BucketCount = 2`: four keys, three of one home, fill a table of 2, a table of 4 and
  part of one of 8; probes run over the end, and both rehashes move keys that were
  displaced. The theorems are for every capacity and hash function.
* Sources of the front end: each operator beside each other one and below each
  unary one, every form of statement in every compound one, every declaration, in
  three spellings of the white space; each of the shorter ones with one token
  dropped, doubled or replaced; every text of up to three of fourteen characters
  that begin something. Recovery is where one wrong token matters.
* `ByteBits = 2`, `RegisterBytes = 8`: an `int` of 16 bits fits TLC's integers, and
  every pair of the four widths still differs in sign and range. Variables of each
  width, sign and kind; every operator over each pair, operators inside others,
  two inputs with values at and across the borders. A float has one binary digit
  behind its point, so that rounding happens.
* Types of calls on both sides of every limit: 1, 2, 4, 8, 12, 16 and 17 bytes, and
  what has and has not a member at offset 8, in one or two parameters; structs of floats
  in every order that is divided differently; unions, vectors, pointers and functions.
* `Programs` of the lowering: every statement form inside every other to depth
  two with each way to leave it (`OneDeep`, `TwoDeep`), and larger bodies by hand
  (`Others`); `Ongoing` and `Leaving` are the statements in these bodies. `MaxEvents = 6` events of a run reach the second round of a loop with
  a condition and calls in its body. Runs that are cut off count as open.
* `NullBodies` of flow typing: ifs, loops, switches and an assertion over tests of a
  pointer in four notations, with reads, stores of another nullable and stores of an
  address in each place, and a second pointer. Facts of different locations do not
  depend on each other, so two are enough; the loops need a second round, in which
  a fact is taken back.
* Programs of `Polymorph`: two generic functions of each shape of parameters (a
  type, a pointer, a struct, a type by name, two of one name) with bodies that call
  themselves and each other, mutually and with other types; all orders of four
  structs. `MaxFrames = 5` is reached only by bodies whose types grow for ever.

### Deadlock

`CHECK_DEADLOCK FALSE` stands where the system may stop: in `queue` and
`queue_stranded` the main thread may be stranded (the finding below) or the bound
on jobs be used up, in `type_table` the table is full, and a checker of `polymorph`
is done. The other runs check it; those that come to an end have a step for it.

### Fairness

`WorkQueue!Fairness` is weak fairness of each thread's steps: the operating system
runs every thread that can run, and `EveryJobFinishes` and `WaitEndsWithoutWorkers` need
no more. Nothing is assumed of who wins a
compare-exchange. `Pipeline!FairSpec` assumes the same of the main thread's steps
and of each thread's job steps, which includes that a posted job is started: that
is `EveryJobFinishes` of the queue. It does not assume that the wait returns,
because of the lost wake-up, and `PipelineEnds` says so.

## What is proved

TLC checks the instances above; the theorems hold for every value of the constants
that satisfies the modules' named assumptions.

### WorkQueueProofs (from `QueueAssumption`)

`InductiveInvariant`, `TypeCorrect`, `JobsClaimedOnce`, `RingIsSafe`,
`JobsAccounted`, `BarrierIsSound`, `NoWorkIsSleptOn`, `QueueRefinesPool`: for any
number of workers, ring size and number of jobs.

None of the safety properties is inductive. `SlotsIntact` needs that the tickets
in flight are less than a ring apart, which needs to know where they start and
that everything before is finished. `IInv` says so in parts: who holds the lock
and a job (`LockHeld`, `JobHeld`), which tickets are owned (`Ownership`), what
follows of `runs`, `finished` and `JobsCompleted` (`Started`, `Done`, `Counted`),
the window of live tickets (`Window`), the slots (`Ring`), and that a count loaded
earlier is not ahead of the counter (`SeenOld`). The barrier then is arithmetic:
when a count loaded earlier equals `JobCount`, the finished tickets are all of
them. Most steps only move a thread between places where it owns nothing;
`ControlStepKeeps` proves those once. `NoWorkIsSleptOn` adds that the `AtJob` a
thread acts on is an old value (`AtOld`), and `QueueRefinesPool` maps each step to
a step of the pool or to none.

### TypeTableProofs (from `TypeTableAssumption`)

`InductiveInvariant`, `TypeCorrect`, `TypesAreUnique`, `DerivationEnds`,
`CacheIsSound`, `InterningIsSound`: for any number of threads, basic types and
declared names. The assumption says that no word names two kinds of things: the
name of a declared struct has its module in front and that of a generic begins
with `$` (`Type.cpp:1525`), so neither is a basic type's or a kind of pointer.

That no type is added twice does not follow from itself: the second look-up of
`AddTypeWithName` must find what another thread added. `IInv` therefore has
`Mapped` (every name but a basic one is in `TypeMap`, which leads to the entry of
that name), `Kinded` (the first word of a name tells the kind, so a name found is
of the kind asked for) and `Wanted`/`Carried` (what a thread carries from one
critical section to the next is still true there, since entries are neither
removed nor renamed). The proof has a lemma for each way the table changes
(`Growth`, `CacheSet`, `TableStays`), one for a thread's step (`ThreadStep`), and a
lemma per action that puts the two together.

### DictionaryProofs (from `HashAssumption`, `BucketAssumption`, `FreeAssumption`)

`InductiveInvariant`, `TypeCorrect`, `EveryKeyIsFound`, `TheAssertionHolds`,
`DictionaryIsMap`: for any hash function, keys and capacity of at least two.

The heart is the shape that linear probing needs: between the slot a key hashes to
and the slot it lies in, over the end of the array, every slot is taken, and no key
lies in two. A key put into the first free slot keeps it, and so does every other key,
as slots are never freed. During a rehash it holds of the new arrays, and what
is not moved yet is in the old ones: the map is the union of the two. That a free
slot is found at all is counting: taken slots are `used`, at most four fifths of the
capacity and one, so fewer than there are slots (the facts about cardinalities come
from `FiniteSetTheorems`). The refinement then maps an add, a replacement and a
read each to one of `Mapping`, and every step of a rehash to none.

### BuildDriverProofs (from no assumption)

`InductiveInvariant`, `TypeCorrect`, `TargetFindsItsTypes`, `IndicesAreStable`,
`SizesAreOfTheMachine`: for any list of targets, any declared names and any bounds on
tables and types.

The properties speak of the table in use; what makes them true is about the one that
is not. While a target is built the build program's table is aside, as pointers to
objects of the same heap and the number of a dictionary, and the hooks put it back
and add types to it. `IInv` says that the saved table has the types its IR speaks of
(`SavedHas`), finds its names (`SavedFound`), and that neither table has an object,
but the basic type, or a dictionary in common with the other (`Apart`,
`SavedApart`): so what a hook adds, or caches as a pointer, cannot reach the target's
table. `Grown` says in one place what compiling or interpreting does to a table.
That the register size is the target's needs what came before: `BitsOfTargets` says that
it is 32 exactly if this target or an earlier one is a 32-bit one, or is set aside while the
interpreter runs. There is a lemma per operation (`TypeIsAdded`, `PointerIsFoundOrAdded`,
`TableIsReset`, `TableIsSaved`, `TableIsRestored`, `SizesAreInvalidated`), one per
part of the invariant and operation, and one per action of the driver.

### PipelineProofs (from `PipelineAssumption`)

`InductiveInvariant`, `TypeCorrect`, `FilesParsedOnce`, `ModulesDependOnSources`,
`ImportsAreResolved`, `CrashesAreReported`, `FilesHaveIROnce`: all safety properties of
the run `pipeline`, for any set of files with any imports (themselves and each other
included), any look-up paths, any calls of `RunPipeline` and any number of threads. The
assumption gives the constants their types and says that there are finitely many files
and workers.

The properties hold when a wait is over, so the argument is about what is on its way.
Each staged file is a token that a thread found and will post (`ToPost`), a job of the
lexer (`ToLex`), a job of the parser (`ToParse`) or a result (`ResultsOf`); a custom file
is one for each time it was given. `Balance` counts them: in all four places together
there is one for a staged file that can be read, whatever other threads do. That it is in
one at all is `StagedCovered` and `CustomCovered`, which also say that a file
with a result has its imports staged (`ImportsMet` while it is parsed). When the wait is
over no job is left (`NothingLeft`), hence every token is a result, and the staged files
are closed under imports; with `OnlyReached` (they are in every closed set) they are the
`Reachable` ones (`ParsingIsOver`). `Genuine` ties a result to the text it came of,
which gives the module table and the imports.

For the IR, the jobs of a phase are not told apart by their files, as a custom file may be
a staged one too; `IRJobs` says that the jobs that build IR are the last ones posted, the
k-th for the k-th result. Steps that move no token are proved once (`Settled`,
`Quiet`, `OutcomeKeeps`), those that move one have a lemma each. The order of `AddModule`
does not matter for a proof, so `FilesOf` keeps a file at its place in `FileArray`.

### LoweringItems, LoweringProofs (from `LoweringAssumption`)

`InductiveInvariant`, `BlocksAreWellFormed`: for any set of function bodies that the
checker accepts, with statements inside each other to any depth. The module is split:
`LoweringItems` has the invariant and the lemmas about lists of items and about the
builder's operations, `LoweringProofs` one lemma for each item that is lowered.

The property speaks of finished functions; on the way there a block's number is given
long before the block is made, by a statement whose rest is still in `todo`, and the
current block may have its terminator already. `LoweringInv` relates the two lists:

* every number that is given is that of a made block, of the current one, or is promised
  by exactly one item of `todo` (`Promises`, `Separate`): the end of a body promises the
  block behind it, a loop its four blocks until each is opened;
* an item has as many open switches and scopes behind it as the builder's stacks
  say (`Items`, `Scopes`), so that a yield finds the switch it ends and `defer` the
  list it is put on;
* a terminated block is only met by items that do not mind, the ends of scopes and
  bodies (`Tolerates`): hence the assertion of `PushInstruction` holds;
* the end of a `while` body terminates with the test's block as the next one, which is
  made: `ComesBack` says that `BuildIRForLoopWhile` throws it away before anything is
  put into it;
* the first block of each open switch has no terminator yet, and no two switches
  share it (`Starts`);
* the last thing that is lowered leaves the function (`Closing`).

Nothing of this is about what a statement contains: each step puts a body, with its
own end, in front of the rest, and a lemma for each part of the invariant says that this
may be done (`ItemInFront`, `BodyInFront`, the only induction, over the length of
the body). When `todo` is empty no number is promised any more, so the blocks
are as many as the numbers (`AllNumbered`).

### CallsProofs (from `TargetsAssumption`, `TypesAssumption`, `FunctionsAssumption`, `LayoutAssumption`)

`CallInvariant`, `CallsFit`, `EveryArgumentArrives`, `EveryResultArrives`: all properties
of the run `calls`, for any functions over any set of types, nested and laid out in any way
the assumptions allow, with any defaults and variadic arguments, on each of the four
targets, generated or interpreted.

The four places that divide a value into registers test the same things in different
orders. `Ways` is the case distinction all of them come down to: a parameter travels in one
of seven ways (a loadable value, a function, an address, the one member of a Wasm struct, an integer,
two of them, the parts of a struct of floats), and for every type and target the function's type and the call's lowering take
the same one. From it follow

* that a parameter has as many values as are passed for it, each of the declared type
  (`LoweredMatches`; for a default, which is not divided, `DefaultMatches`), hence that a call without
  the known exceptions fits (`PassedFits`);
* that only a union of floats has no result register (`OnlyUnions`).

That the k-th parameter takes the k-th argument's values is not local: the function counts
values by its own division of the parameters before it (`Start`), the call by the arguments'.
The two counts are equal in a call that fits even where single parameters are divided in
a known wrong way, as no argument has more values than its parameter, so lists as long
altogether are as long one by one (`SideBySide`, `ValuesAlign`, `SliceAligns`).

What a parameter holds is then memory to which the values are written one over the other.
`CopiedIs` and `CopiesBring` say what such memory has at a byte: what the last write over it
brought, and that copies from the right offset bring the argument's own byte. It remains that the writes reach
every member: for two registers by the member at offset 8, for floats by an induction
over the parts (`PartCovers`, `FloatPartsHold`): each part begins where its first member lies
and ends behind its last. Padding is not covered, which is why the property is about members.

`IInv` carries this from phase to phase: what is passed so far is a prefix of `Passed(call)`
(`PassingIs`), only variables that were already evaluated are changed (`ChangedAre`), which
calls come to which phase (`PhaseIs`: a callee only runs in a call that fits), how far the
frame is and what each finished parameter holds (`FrameIs`, `AllHeld`, `FaultIs`), and
the result's memory (`ResultIs`). `Reassign` and `Defer` are the steps that could break
`AllHeld` from outside; a value that was loaded or copied keeps its "old" bytes.

`Joined` and `PartsFrom` are recursive functions. Inductions over them go through
`Induction`, which is derived from the well-foundedness of finite sets for a set in place of a
predicate.

### Left to TLC

Liveness (`EveryJobFinishes`, `PipelineEnds`), as the prover has neither fairness nor
`ENABLED`. What the blocks compute (`RunsAsWritten`) and what flow typing finds, as their
references follow statements and paths recursively. The other modules about programs
(front end, expressions, generic code) are about trees and written with
`RECURSIVE` operators, about which nothing can be proved here. So are the layouts of `Types`:
that they meet `LayoutAssumption` is checked for the types of the run `calls`.

## What was found

Two runs end in a counterexample (`PROJECT.json`, findings):

* **Lost wake-up** (`queue_stranded`, `Threading.cpp:19`). The last `notify_all` is
  sent without `MainMutex` and can fall between the main thread's predicate and
  its wait. All jobs are done and the compiler hangs. `Threading.cpp:99` has a
  FIXME about threading.
* **Default taken for a block** (`flow_default`, `backend/RegAlloc.cpp:83`,
  `FlowTyping.cpp:463`). A switch's `Default` is a place in its list of cases
  (`IR.cpp:655, 734`) and is used as the number of a block. With the default first
  the entry block gets a predecessor nothing is known of, and a function that has a
  nullable pointer fails the assertion at `FlowTyping.cpp:420`. `NullBodies` has
  the default elsewhere; then some block gets the facts of one that does not lead
  to it, which can only turn them to null.

The rest was met while modelling. Where it would make a property fail, the property
excludes it by name.

**Builds.**

* 32-bit targets set `RegisterBitSize` to 32 (`Main.cpp:481-495`); nothing sets it to
  64 for a later 64-bit target (`LeftAt32`).
* A file without a module header leaves a null slot that `ResolveImports` and the
  checker read through (`Module.cpp:46`); an error has been reported by then
  (`CrashIsReported`).
* A hook that runs on the restored build table may add types to a dictionary that a
  saved table shares; a later hook can be given an index its table does not have.
* `PTarget` is set for some systems only and otherwise stays what the target before
  left (`Main.cpp:409, 439, 450`); link arguments of targets add up
  (`Main.cpp:516`). Both are in `Configure`, and no property says that a target is
  configured as if it were alone, as it is not.
* A custom file that is also staged is parsed twice, and an import of it means
  whichever is found first; nodes given back for a path go to both.
* `RaiseError` locks a mutex that is a local variable (`Errors.cpp:145`): messages of
  two threads interleave.
* Dictionaries passed by value (not modelled; a copy shares the slots but has a count
  of its own): the table of types with `#self` functions (`Semantics.cpp:1220, 1226`)
  is filled through copies, so its `Used` stays 0, it never grows, and the 33rd such type,
  or the 33rd such function of one type, stops at the assertion of `Dict.h:147`. The
  nodes given back by a build program are collected in the same way (`PassAst.cpp:399`).

**Lexer and parser.**

* A dot that no name follows and that a call or an index does, `x.(1);`, `x.[0]`,
  keeps `ParseAtom` in its loop for ever (`Parser.cpp:1580-1660, 1742-1824`).
* A text that does not end in white space gets no end token (`Lexer.cpp:105-120`), and
  the parser reads past its tokens (phase "overrun").
* `for ; c; {...}` drops the loop and keeps the condition and the body
  (`Parser.cpp:2596`). `if x }`, `defer }` and `for x }` take the closing brace for
  their statement. `?void` and `[]void` read through a null pointer.
* `a < b > c` and `f(a < b, c > d)` are taken for generic types; `x as i32 < y` is
  refused; errors reported during a trial that is undone stay; `return a + 1, b` is
  `a + (1, b)`; nested type arguments need a space between their `>`.
* A char literal without its end fails an assertion; a comment without its end is
  reported until the fifth error ends the program, and for ever when dumping information.

**Copies and round trips of nodes.** The type of `...` is the pointer 1
(`Parser.cpp:1206`): `CopyASTNode` reads through it, so a generic function with
`...` crashes, and the round trip turns it into null. The round trip drops the
calling convention and the profile callback of a function.

**Expressions.**

* Accepted, but no instruction of LLVM's: comparing two untyped constants, a float as
  a condition, `p + p`, `d &= 1` on a float (`Type.cpp:1174-1178`), casts of bool, of
  pointers to or from floats, bit casts of pointers, `null - null`, `v := (p -= q)`,
  assigning to a cast.
* A constant gets the type of an operand it does not meet: in `1.5 - (g > 1 ? 1.5 : d)`
  with a 64-bit `g` and a 32-bit `d` it is 64 bits wide. `Semantics.cpp:3318-3320`
  has a comment that says so of casts.
* The interpreter extends a narrow index with zeros and LLVM with its sign; it
  subtracts pointers in bytes and LLVM in elements; it tests a bound as a
  signed number; it stores `int` in 8 bytes for a 32-bit target as well
  (`Interpreter.cpp:1613-1621`).
* `op=` lowers its left side twice, with its side effects.

**Calls.**

* In the interpreter, a struct of floats loses the member behind its last pair, and one
  whose second register begins at offset 8 is stored with an aligned instruction that
  faults (`Interpreter.cpp:3137-3176`); of all-float structs two `f32` work.
* On wasm32 a struct or array of several members and 1, 2 or 4 bytes is returned through a
  pointer by the function's type (`IR.cpp:3788-3808`) and in a register by the call and the return
  (`IR.cpp:1493-1505, 3451-3464`).
* A union of two floats other than `f32`s has no register for its result that LLVM takes
  (phase "unlowered"); a union of two `f32` comes back as a pair, whose store passes its end.
* A default argument that is a Wasm struct around a pointer fits its parameter, and its
  address is taken for its member (`WrappedDefault`).
* A variadic function without named parameters reads `Args[-1]` in the interpreter
  (`Interpreter.cpp:3030-3034`), and generated code takes a result's address for its slice.
* Default arguments of struct types are passed as addresses (`IR.cpp:1608-1618`).
* Arguments of foreign calls in the interpreter are out of step as soon as a struct is
  split or a result goes through memory (`Interpreter.cpp:808-1122`); callbacks fail its
  assertion; enum results are "unreachable".
* Mixed structs of integers and floats are not passed as System V asks
  (`IR.cpp:3653-3660`): both sides agree, so that only foreign code would notice. An
  argument passed by address has what the variable is at the call.
* A result that goes through memory is copied after the deferred statements ran
  (`IR.cpp:3449-3468`), a result in registers is loaded before. `tests/defer/defer.rv:12` says
  of a deferred statement "Should be executed after the return value is evaluated": where
  one changes the returned variable, the caller gets the changed struct (`CopiedAfterDefers`).

**Statements.**

* Where a deferred body jumps, which the checker accepts, the next deferred body is put
  behind the jump, and the assertion of `PushInstruction` (`IR.cpp:161`) stops the
  compiler (`IR.cpp:3324-3335`).
* `break` and `continue` run the deferred bodies of the innermost braces only
  (`IR.cpp:3541`), `yield` runs none (`IR.cpp:3492`), and a `return` in a deferred
  body lowers itself without end (`IR.cpp:3468`). `PlainJumps` keeps
  `RunsAsWritten` to bodies where this makes no difference; no text in the
  repository says what a defer means there.
* An unbraced `if c defer x;` registers `x` whatever `c` is.
* The default of a string switch takes part in the comparisons with register 0
  (`IR.cpp:654, 853`) where it is not the last case. The interpreter's integer
  switch takes the last matching case and reads a value of the default
  (`Interpreter.cpp:2837`).
* Flow typing checks reads through a nullable and what is passed to calls; it does
  not check a store through one (`FlowTyping.cpp:289` looks at the value only), a
  member read through one, or a store of a call's result to a pointer that was
  found not to be null.

**Generic code.**

* A generic struct that is used before its declaration is analysed (by an earlier
  struct, another file or an alias) stays without members (`Semantics.cpp:4271-4380`,
  `Polymorph.cpp:363-436`); the order of files is the order in which parsing ended (`NamedTooEarly`).
* A member struct whose arguments are not the outer struct's own parameters gets the outer's
  arguments: `Outer<A, B> { Box<B> }` has a `Box<A, B>`, `Node<*T>` is taken for
  `Node<T>` (`Polymorph.cpp:402-404`). Too few arguments are accepted, and the
  assertion of `Polymorph.cpp:426` fails. `OwnArguments` names the programs without this.
* `Foo<*$T>` binds `T` to the pointer, `Foo<Bar<$T>>` leaves it unbound, and
  `(T: type, x: Box<Box<T>>)` is refused. An argument of another struct with fewer
  parameters is indexed out of range (`Polymorph.cpp:178`, status "overrun").
* `f(a: Box, b: Box)` with two different boxes gives the second parameter the type of the
  first. A body that calls itself with the address of its argument is instantiated for ever.
* A body that is analysed in the middle of an expression empties its caller's stack of
  untyped constants (not modelled: `Polymorph` has no constants).

## What is not modelled

* Of the checker: selectors of modules, enums and slices, type lists, switch expressions,
  lambdas, `using`, globals, symbol look-up over imports. Of the IR builder: globals, type
  information, debug information. Arm32's calling convention.
* The interpreter's foreign functions as such, its stack allocator, the debugger; LLVM's
  passes, object files and the target machine that each thread keeps
  (`LLVMBase.cpp:2197`).
* Of the pipeline: the lexer's and parser's other errors in a file (they are in `FrontEnd`), and
  an import that is staged and then dropped for a bad name behind `as`
  (`Parser.cpp:709-756`). Of the type table: that the names and look-ups of types go through
  the stack of replacements (`Type.cpp:268-295, 1366-1372`; the stack itself is in `Polymorph`).
* Of generic code: function types among the types walked (`Type.cpp:1812-1862, 1912-1934,
  1973-1995`), arguments of no type or of a type without parameters where a generic one is
  declared (`Polymorph.cpp:87-90, 106-114, 234-237`), and the promotion of an argument to its
  parameter's type (`Polymorph.cpp:251`: the model asks that they are equal, as are all
  types of its programs that promote to each other).
* Message wording, printing, `DumpInfo`, inline assembly.
* Input and output: files, threads, dynamic libraries, processes, the linker. The
  file system does not change during a build.
* Assertions are enabled, as `b.sh` builds; `CF_DisableAssert` is not modelled.
* Memory: arenas, allocation and freeing, and the sharing of dictionaries' arrays.
* The register allocation proper (`RegAlloc.cpp`), which only a disabled block of `main`
  calls, and files that are not part of the build (`IPC.cpp`, `Linearize.cpp`,
  `x64CodeWriter.cpp`, `backend/WASM.cpp` and others, listed in `PROJECT.json`). `TypeCheck.cpp`
  has a class that nothing makes an object of.
* LLVM itself, vendored headers, the standard library's programs.

## Plan

What would come next, in this order:

1. **Code generation in `BuildDriver`**: the target machine of each thread and the type
   maps, with a second target for another triple.
2. **Type checker**: scopes, selectors and symbol look-up across the modules that `Pipeline`
   resolves, `using`, and the generic stack together with the untyped one.
3. **Interpreter memory**: `StackAllocator`, globals, arenas with their maximum.
4. **Test**, **DotEnv** and the register allocation as pure algorithms.

## Running it

```
tlc -workers 2 -config MCWorkQueue.cfg MCWorkQueue
tlapm WorkQueueProofs.tla
tlapm TypeTableProofs.tla
tlapm DictionaryProofs.tla
tlapm BuildDriverProofs.tla
tlapm PipelineProofs.tla
tlapm LoweringItems.tla
tlapm LoweringProofs.tla
tlapm CallsProofs.tla
```

Every `.cfg` belongs to the module its name begins with (`MCWorkQueueStranded.cfg` to
`MCWorkQueue`, `MCFlowDefault.cfg` to `MCLowering`). `pipeline`, `evaluation` and `lowering` take
two to three minutes on two cores, the other runs less than a minute and a half; the proofs take about half an hour.
