------------------------------ MODULE Pipeline ------------------------------
(***************************************************************************)
(* RunPipeline of Pipeline.cpp: initial files are staged, lexed and parsed *)
(* by jobs of the queue, a parsed file stages the files it imports, and    *)
(* after the wait the main thread builds the module table, resolves the    *)
(* imports, type checks, and has the IR of every file built by jobs again. *)
(* A build runs the pipeline once for the build file and once per target.  *)
(*                                                                         *)
(* The queue is the JobPool that WorkQueue implements: every post, start,  *)
(* return and wait here is a step of that pool.  What a thread does inside *)
(* one lock of Lookups, StagedFiles or ParseResults is one step; FindFile  *)
(* only reads, and the file system does not change during a build.         *)
(***************************************************************************)
EXTENDS Integers, FiniteSets, Sequences

CONSTANTS
    Workers, Main,
    Dirs, Names, Paths,    \* directories, file names as written, absolute paths
    Modules,               \* module names; two of them are the next two
    Internal, Base,
    NoPath, NoModule,
    Lookups,               \* Lookups.Paths, in the order they were added
    DirOf,                 \* the directory of a path
    At,                    \* At[d][n]: the path that n is under d, or NoPath
    CustomText,            \* the content compile() gave a custom file
    Builds,                \* bound: the builds that are tried, their sources and rounds
    ErrorLimit,            \* the error count RaiseError still survives (4)
    JobLimit               \* bound: jobs posted in all

VARIABLES
    text,                  \* text[p]: what the file p declares and imports
    rounds,                \* the calls of RunPipeline: initial and custom files, entry module
    status,                \* "running", "exit" (code 1), "crash" or "done"
    round, phase,          \* the call of RunPipeline, and which wait comes next
    errors,                \* the atomic Errors of Errors.cpp
    staged,                \* StagedFiles.FilePaths
    results,               \* ParseResults.Results
    modules,               \* the module table: name -> paths of its files
    imported,              \* File->Imported: the modules each file can name
    ir,                    \* how often the IR of each file was built in this round
    pc, pos, found, ticket,
    task,                  \* the job each ticket stands for
    posted, runs, finished, waiting     \* the JobPool

sources == <<text, rounds>>
progress == <<round, phase>>
pool == <<posted, runs, finished, waiting>>
locals == <<pc, pos, found, ticket>>
tables == <<modules, imported, ir>>
vars == <<sources, status, round, phase, errors, staged, results, tables, locals, task, pool>>

Threads == Workers \cup {Main}
NoTicket == -1
Pool == INSTANCE JobPool WITH Width <- Cardinality(Threads)

\* An import directive names a file or a module.
Import == [file : Names, module : {NoModule}] \cup [file : {NoPath}, module : Modules]

\* A source text: readable from disk or not, its module header, its imports.
Text == [readable : BOOLEAN, module : Modules \cup {NoModule}, imports : Seq(Import)]

ASSUME PipelineAssumption ==
    /\ Main \notin Workers
    /\ IsFiniteSet(Workers)
    /\ NoPath \notin Paths
    /\ NoModule \notin Modules
    /\ {Internal, Base} \subseteq Modules
    /\ IsFiniteSet(Paths)
    /\ Lookups \in Seq(Dirs)
    /\ DirOf \in [Paths -> Dirs]
    /\ At \in [Dirs -> [Names -> Paths \cup {NoPath}]]
    /\ CustomText \in [Paths -> Text]
    /\ \A b \in Builds :
        /\ b.text \in [Paths -> Text]
        /\ b.rounds \in Seq([initial : Seq(Names), custom : Seq(Paths), entry : Modules])
        /\ b.rounds # << >>
    /\ ErrorLimit \in Nat
    /\ JobLimit \in Nat

\* A job, and for a parse job whether the text is a custom file's content.
Jobs == [kind : {"lex", "parse", "ir"}, path : Paths, custom : BOOLEAN]

-----------------------------------------------------------------------------
\* The last lookup path that has the file wins, then the directory of the
\* importing file, then the name itself where it is an absolute path.
FindFile(name, from) ==
    LET hits == {i \in DOMAIN Lookups : At[Lookups[i]][name] # NoPath}
        beside == IF from = NoPath THEN NoPath ELSE At[DirOf[from]][name]
    IN  CASE hits # {} ->
                At[Lookups[CHOOSE i \in hits : \A j \in hits : j <= i]][name]
          [] hits = {} /\ beside # NoPath -> beside
          [] hits = {} /\ beside = NoPath /\ name \in Paths -> name
          [] OTHER -> NoPath

Goto(t, label) == pc' = [pc EXCEPT ![t] = label]
Advance(t) == pos' = [pos EXCEPT ![t] = @ + 1]

\* RaiseError(false, ..): the fifth error ends the process.
Raise(n) ==
    /\ errors' = errors + n
    /\ status' = IF n > 0 /\ errors + n > ErrorLimit THEN "exit" ELSE status

InitialFiles == rounds[round].initial
CustomFiles == rounds[round].custom
Job(t) == task[ticket[t] + 1]
File(t) == Job(t).path
Source(t) == IF Job(t).custom THEN CustomText[File(t)] ELSE text[File(t)]
Running == status = "running"

Init ==
    /\ \E b \in Builds : text = b.text /\ rounds = b.rounds
    /\ status = "running"
    /\ round = 1
    /\ phase = "parse"
    /\ errors = 0
    /\ staged = {}
    /\ results = << >>
    /\ modules = << >>
    /\ imported = << >>
    /\ ir = [p \in Paths |-> 0]
    /\ pc = [t \in Threads |-> IF t = Main THEN "stage" ELSE "idle"]
    /\ pos = [t \in Threads |-> 1]
    /\ found = [t \in Threads |-> NoPath]
    /\ ticket = [t \in Threads |-> NoTicket]
    /\ task = << >>
    /\ Pool!PoolInit

-----------------------------------------------------------------------------
(* PipelineDoFile, called by the main thread for an initial file and by a  *)
(* parsing job for an import; Wanted(t) is the file asked for next.        *)

Staging(t) ==
    \/ t = Main /\ pc[t] = "stage" /\ pos[t] <= Len(InitialFiles)
    \/ /\ pc[t] = "imports"
       /\ pos[t] <= Len(Source(t).imports)
       /\ Source(t).imports[pos[t]].module = NoModule

Wanted(t) ==
    IF pc[t] = "stage" THEN FindFile(InitialFiles[pos[t]], NoPath)
                       ELSE FindFile(Source(t).imports[pos[t]].file, File(t))

\* The main thread counts a missing initial file and goes on; a missing import
\* is an error of the importing file.
FileNotFound(t) ==
    /\ Running
    /\ Staging(t)
    /\ Wanted(t) = NoPath
    /\ IF pc[t] = "stage" THEN errors' = errors + 1 /\ UNCHANGED status ELSE Raise(1)
    /\ Advance(t)
    /\ UNCHANGED <<sources, progress, staged, results, tables, pc, found, ticket, task, pool>>

\* Mutant: the importing file goes on to nowhere.
AlreadyStagedLoops(t) ==
    /\ Running
    /\ Staging(t)
    /\ Wanted(t) \in staged
    /\ UNCHANGED vars

AlreadyStaged(t) ==
    /\ Running
    /\ Staging(t)
    /\ Wanted(t) \in staged
    /\ Advance(t)
    /\ UNCHANGED <<sources, status, progress, errors, staged, results, tables, pc, found,
                   ticket, task, pool>>

StageNew(t) ==
    /\ Running
    /\ Staging(t)
    /\ Wanted(t) \notin staged \cup {NoPath}
    /\ staged' = staged \cup {Wanted(t)}
    /\ found' = [found EXCEPT ![t] = Wanted(t)]
    /\ Advance(t)
    /\ Goto(t, IF pc[t] = "stage" THEN "postInitial" ELSE "postImport")
    /\ UNCHANGED <<sources, status, progress, errors, results, tables, ticket, task, pool>>

Post(kind, path, custom) ==
    /\ Pool!Post
    /\ task' = Append(task, [kind |-> kind, path |-> path, custom |-> custom])

PostLexFile(t) ==
    /\ Running
    /\ pc[t] \in {"postInitial", "postImport"}
    /\ Post("lex", found[t], FALSE)
    /\ found' = [found EXCEPT ![t] = NoPath]
    /\ Goto(t, IF pc[t] = "postInitial" THEN "stage" ELSE "imports")
    /\ UNCHANGED <<sources, status, progress, errors, staged, results, tables, pos, ticket>>

-----------------------------------------------------------------------------
(* The custom files of a target are lexed by the main thread itself and     *)
(* never staged.                                                            *)

Customs == pc[Main] = "stage" /\ pos[Main] > Len(InitialFiles)
Custom == CustomFiles[pos[Main] - Len(InitialFiles)]

CustomFileMissing ==
    /\ Running
    /\ Customs
    /\ pos[Main] <= Len(InitialFiles) + Len(CustomFiles)
    /\ ~text[Custom].readable
    /\ errors' = errors + 1
    /\ Advance(Main)
    /\ UNCHANGED <<sources, status, progress, staged, results, tables, pc, found, ticket,
                   task, pool>>

LexCustomFile ==
    /\ Running
    /\ Customs
    /\ pos[Main] <= Len(InitialFiles) + Len(CustomFiles)
    /\ text[Custom].readable
    /\ Post("parse", Custom, TRUE)
    /\ Advance(Main)
    /\ UNCHANGED <<sources, status, progress, errors, staged, results, tables, pc, found, ticket>>

WaitForParsing ==
    /\ Running
    /\ Customs
    /\ pos[Main] > Len(InitialFiles) + Len(CustomFiles)
    /\ Pool!StartWait
    /\ pos' = [pos EXCEPT ![Main] = 1]
    /\ Goto(Main, "idle")
    /\ UNCHANGED <<sources, status, progress, errors, staged, results, tables, found, ticket,
                   task>>

-----------------------------------------------------------------------------
(* The jobs *)

\* The task is over and ++JobsCompleted.
Return(t) ==
    /\ Pool!Finish(ticket[t])
    /\ ticket' = [ticket EXCEPT ![t] = NoTicket]
    /\ Goto(t, "idle")
    /\ UNCHANGED task

StartJob(t) ==
    /\ Running
    /\ pc[t] = "idle"
    /\ \E k \in Pool!Tickets :
        /\ Pool!Start(k)
        /\ ticket' = [ticket EXCEPT ![t] = k]
        /\ Goto(t, task[k + 1].kind)
    /\ UNCHANGED <<sources, status, progress, errors, staged, results, tables, pos, found, task>>

\* LexFile: a file that cannot be read is counted; the others are tokenised
\* and handed to a parse job.
LexUnreadable(t) ==
    /\ Running
    /\ pc[t] = "lex"
    /\ ~text[File(t)].readable
    /\ errors' = errors + 1
    /\ Return(t)
    /\ UNCHANGED <<sources, status, progress, staged, results, tables, pos, found>>

LexFile(t) ==
    /\ Running
    /\ pc[t] = "lex"
    /\ text[File(t)].readable
    /\ Post("parse", File(t), FALSE)
    /\ Goto(t, "lexed")
    /\ UNCHANGED <<sources, status, progress, errors, staged, results, tables, pos, found, ticket>>

LexReturns(t) ==
    /\ Running
    /\ pc[t] = "lexed"
    /\ Return(t)
    /\ UNCHANGED <<sources, status, progress, errors, staged, results, tables, pos, found>>

\* The imports whose file was not found are left out of parse_result.Imports.
Kept(import, from) == import.module # NoModule \/ FindFile(import.file, from) # NoPath

\* They keep their places in the list, which only the order of errors depends on.
KeptImports(t) ==
    IF Source(t).module = NoModule THEN {}
    ELSE {j \in DOMAIN Source(t).imports : Kept(Source(t).imports[j], File(t))}

ParseResult(t) ==
    [path |-> File(t), module |-> Source(t).module,
     imports |-> [j \in KeptImports(t) |-> Source(t).imports[j]]]

\* ParseFile pushes its result under the lock of ParseResults, where the files
\* come in the order in which their parsing ends, and the job returns.
PushResult(t) ==
    /\ results' = Append(results, ParseResult(t))
    /\ pos' = [pos EXCEPT ![t] = 1]
    /\ Return(t)

\* ParseTokens: a file without a module header is an error and has no imports.
HeaderNotReported(t) ==
    /\ Running
    /\ pc[t] = "parse"
    /\ Source(t).module = NoModule
    /\ PushResult(t)
    /\ UNCHANGED <<sources, status, progress, errors, staged, tables, found>>

HeaderMissing(t) ==
    /\ Running
    /\ pc[t] = "parse"
    /\ Source(t).module = NoModule
    /\ Raise(1)
    /\ PushResult(t)
    /\ UNCHANGED <<sources, progress, staged, tables, found>>

ParseHeader(t) ==
    /\ Running
    /\ pc[t] = "parse"
    /\ Source(t).module # NoModule
    /\ pos' = [pos EXCEPT ![t] = 1]
    /\ Goto(t, "imports")
    /\ UNCHANGED <<sources, status, progress, errors, staged, results, tables, found, ticket, task,
                   pool>>

\* An import of a module by its name is only recorded.
ImportModule(t) ==
    /\ Running
    /\ pc[t] = "imports"
    /\ pos[t] <= Len(Source(t).imports)
    /\ Source(t).imports[pos[t]].module # NoModule
    /\ Advance(t)
    /\ UNCHANGED <<sources, status, progress, errors, staged, results, tables, pc, found, ticket,
                   task, pool>>

EndOfFile(t) ==
    /\ Running
    /\ pc[t] = "imports"
    /\ pos[t] > Len(Source(t).imports)
    /\ PushResult(t)
    /\ UNCHANGED <<sources, status, progress, errors, staged, tables, found>>

BuildIRJob(t) ==
    /\ Running
    /\ pc[t] = "ir"
    /\ ir' = [ir EXCEPT ![File(t)] = @ + 1]
    /\ Return(t)
    /\ UNCHANGED <<sources, status, progress, errors, staged, results, modules, imported, pos,
                   found>>

-----------------------------------------------------------------------------
(* RunPipeline after the wait: the main thread alone.                       *)

Empty(i) == results[i].module = NoModule

\* The files of a module, at their places in FileArray.
FilesOf(places) == [i \in places |-> results[i].path]
Places(m) == {i \in DOMAIN results : results[i].module = m}
Declared == {results[i].module : i \in DOMAIN results} \ {NoModule}

\* Mutant: a module that is already in the table is replaced.
LastFileOnly ==
    [m \in Declared |-> FilesOf({CHOOSE i \in Places(m) : \A k \in Places(m) : k <= i})]

\* AddModule for every result that has a module name.
ModuleTable == [m \in Declared |-> FilesOf(Places(m))]

\* Mutant: the wait ends when every job was started.
ParsingDoneEarly ==
    /\ Running
    /\ pc[Main] = "idle"
    /\ phase = "parse"
    /\ \A k \in 0 .. posted - 1 : runs[k] = 1
    /\ waiting' = FALSE
    /\ modules' = ModuleTable
    /\ Goto(Main, "resolve")
    /\ UNCHANGED <<sources, status, progress, errors, staged, results, imported, ir, pos, found,
                   ticket, task, posted, runs, finished>>

ParsingDone ==
    /\ Running
    /\ pc[Main] = "idle"
    /\ phase = "parse"
    /\ Pool!EndWait
    /\ modules' = ModuleTable
    /\ Goto(Main, "resolve")
    /\ UNCHANGED <<sources, status, progress, errors, staged, results, imported, ir, pos, found,
                   ticket, task>>

\* Mutant: the importing file's directory is not passed on.
TargetByLookup(import, from) == FindFile(import.file, NoPath)

Target(import, from) == FindFile(import.file, from)

\* The slots of FileArray that ResolveImports looks at for this import: an
\* empty slot is a null pointer it reads through.
Hits(i, j) ==
    LET import == results[i].imports[j]
    IN  {k \in DOMAIN results :
            Empty(k) \/ results[k].path = Target(import, results[i].path)}
Hit(i, j) == CHOOSE k \in Hits(i, j) : \A l \in Hits(i, j) : k <= l

FileImports(i) == {j \in DOMAIN results[i].imports : results[i].imports[j].module = NoModule}
ModuleImports(i) == DOMAIN results[i].imports \ FileImports(i)

NullReads(i) == {j \in FileImports(i) : Hits(i, j) # {} /\ Empty(Hit(i, j))}
Unresolved(i) ==
    {j \in FileImports(i) : Hits(i, j) = {}}
    \cup {j \in ModuleImports(i) : results[i].imports[j].module \notin DOMAIN modules}

\* Every file sees its imports, and internal and base without importing them.
Resolved(i) ==
    {Internal, Base}
    \cup {results[Hit(i, j)].module : j \in FileImports(i) \ Unresolved(i)}
    \cup {results[i].imports[j].module : j \in ModuleImports(i) \ Unresolved(i)}

SkipEmptySlot ==
    /\ Running
    /\ pc[Main] = "resolve"
    /\ pos[Main] <= Len(results)
    /\ Empty(pos[Main])
    /\ Advance(Main)
    /\ UNCHANGED <<sources, status, progress, errors, staged, results, tables, pc, found,
                   ticket, task, pool>>

ResolveCrashes ==
    LET i == pos[Main] IN
    /\ Running
    /\ pc[Main] = "resolve"
    /\ i <= Len(results)
    /\ ~Empty(i)
    /\ NullReads(i) # {}
    /\ LET n == Cardinality({j \in Unresolved(i) : \A k \in NullReads(i) : j < k}) IN
        /\ errors' = errors + n
        /\ status' = IF n > 0 /\ errors + n > ErrorLimit THEN "exit" ELSE "crash"
    /\ UNCHANGED <<sources, progress, staged, results, tables, locals, task, pool>>

\* The process also exits where the implicit modules are not there.
ResolveImports ==
    LET i == pos[Main]
        n == Cardinality(Unresolved(i))
    IN
    /\ Running
    /\ pc[Main] = "resolve"
    /\ i <= Len(results)
    /\ ~Empty(i)
    /\ NullReads(i) = {}
    /\ errors' = errors + n
    /\ status' = IF \/ n > 0 /\ errors + n > ErrorLimit
                    \/ ~({Internal, Base} \subseteq DOMAIN modules)
                 THEN "exit" ELSE "running"
    /\ imported' = [k \in DOMAIN imported \cup {i} |->
                        IF k = i THEN Resolved(i) ELSE imported[k]]
    /\ Advance(Main)
    /\ UNCHANGED <<sources, progress, staged, results, modules, ir, pc, found, ticket, task, pool>>

\* AnalyzeFilesForSymbols takes every slot of FileArray, the empty ones too.
TypeCheckCrashes ==
    /\ Running
    /\ pc[Main] = "resolve"
    /\ pos[Main] > Len(results)
    /\ \E i \in DOMAIN results : Empty(i)
    /\ status' = "crash"
    /\ UNCHANGED <<sources, progress, errors, staged, results, tables, locals, task, pool>>

\* The passes of the checker, the entry module, the internal module and
\* ExitIfErroredOut; the checker may find an error.
TypeCheck ==
    /\ Running
    /\ pc[Main] = "resolve"
    /\ pos[Main] > Len(results)
    /\ \A i \in DOMAIN results : ~Empty(i)
    /\ \E n \in 0 .. 1 :
        LET missing == IF rounds[round].entry \in DOMAIN modules THEN 0 ELSE 1 IN
        /\ errors' = errors + n + missing
        /\ status' = IF errors' # 0 \/ Internal \notin DOMAIN modules THEN "exit" ELSE "running"
    /\ pos' = [pos EXCEPT ![Main] = 1]
    /\ Goto(Main, "postIR")
    /\ UNCHANGED <<sources, progress, staged, results, tables, found, ticket, task, pool>>

\* Mutant: every job is given the first file.
PostFirstFileIR ==
    /\ Running
    /\ pc[Main] = "postIR"
    /\ pos[Main] <= Len(results)
    /\ Post("ir", results[1].path, FALSE)
    /\ Advance(Main)
    /\ UNCHANGED <<sources, status, progress, errors, staged, results, tables, pc, found, ticket>>

PostIRJob ==
    /\ Running
    /\ pc[Main] = "postIR"
    /\ pos[Main] <= Len(results)
    /\ Post("ir", results[pos[Main]].path, FALSE)
    /\ Advance(Main)
    /\ UNCHANGED <<sources, status, progress, errors, staged, results, tables, pc, found, ticket>>

WaitForIR ==
    /\ Running
    /\ pc[Main] = "postIR"
    /\ pos[Main] > Len(results)
    /\ Pool!StartWait
    /\ phase' = "ir"
    /\ pos' = [pos EXCEPT ![Main] = 1]
    /\ Goto(Main, "idle")
    /\ UNCHANGED <<sources, status, round, errors, staged, results, tables, found, ticket, task>>

IRDone ==
    /\ Running
    /\ pc[Main] = "idle"
    /\ phase = "ir"
    /\ Pool!EndWait
    /\ Goto(Main, "flow")
    /\ UNCHANGED <<sources, status, progress, errors, staged, results, tables, pos, found,
                   ticket, task>>

\* Flow typing may find an error; ExitIfErroredOut, and RunPipeline returns.
FlowTyping ==
    /\ Running
    /\ pc[Main] = "flow"
    /\ \E n \in 0 .. 1 :
        /\ errors' = errors + n
        /\ status' = IF errors' # 0 THEN "exit" ELSE "running"
    /\ Goto(Main, "returned")
    /\ UNCHANGED <<sources, progress, staged, results, tables, pos, found, ticket, task, pool>>

\* The next call of RunPipeline starts with ResetPipelineState.
NextRound ==
    /\ Running
    /\ pc[Main] = "returned"
    /\ round < Len(rounds)
    /\ round' = round + 1
    /\ phase' = "parse"
    /\ staged' = {}
    /\ results' = << >>
    /\ modules' = << >>
    /\ imported' = << >>
    /\ ir' = [p \in Paths |-> 0]
    /\ Goto(Main, "stage")
    /\ UNCHANGED <<sources, status, errors, pos, found, ticket, task, pool>>

AllDone ==
    /\ Running
    /\ pc[Main] = "returned"
    /\ round = Len(rounds)
    /\ status' = "done"
    /\ UNCHANGED <<sources, progress, errors, staged, results, tables, locals, task, pool>>

\* The process is over.
Terminated == ~Running /\ UNCHANGED vars

-----------------------------------------------------------------------------
PipelineDoFile(t) == FileNotFound(t) \/ AlreadyStaged(t) \/ StageNew(t) \/ PostLexFile(t)

RunJob(t) ==
    \/ LexUnreadable(t) \/ LexFile(t) \/ LexReturns(t)
    \/ HeaderMissing(t) \/ ParseHeader(t) \/ ImportModule(t) \/ EndOfFile(t)
    \/ BuildIRJob(t)

ThreadStep(t) == PipelineDoFile(t) \/ StartJob(t) \/ RunJob(t)

Stage == CustomFileMissing \/ LexCustomFile \/ WaitForParsing

Check ==
    \/ SkipEmptySlot \/ ResolveCrashes \/ ResolveImports \/ TypeCheckCrashes \/ TypeCheck
    \/ PostIRJob \/ WaitForIR \/ FlowTyping \/ NextRound \/ AllDone

WaitReturns == ParsingDone \/ IRDone

Next ==
    \/ \E t \in Threads : ThreadStep(t)
    \/ Stage \/ Check \/ WaitReturns
    \/ Terminated

Spec == Init /\ [][Next]_vars

\* The queue runs every job in the end (EveryJobFinishes of WorkQueue) and the
\* main thread gets on with its own work; nothing is assumed of the wait.
Fairness == WF_vars(Stage \/ Check) /\ \A t \in Threads : WF_vars(ThreadStep(t))
FairSpec == Spec /\ Fairness

-----------------------------------------------------------------------------
(* What must hold *)

\* A set of files that holds what the round asks for and what its readable
\* members import.
ImportsIn(source, from, S) ==
    \A j \in DOMAIN source.imports :
        source.imports[j].module = NoModule
        => FindFile(source.imports[j].file, from) \in S \cup {NoPath}

Closed(S) ==
    /\ \A j \in DOMAIN InitialFiles : FindFile(InitialFiles[j], NoPath) \in S \cup {NoPath}
    /\ \A p \in S : text[p].readable /\ text[p].module # NoModule => ImportsIn(text[p], p, S)
    /\ \A j \in DOMAIN CustomFiles :
        LET p == CustomFiles[j] IN
        text[p].readable /\ CustomText[p].module # NoModule => ImportsIn(CustomText[p], p, S)

Reachable == {p \in Paths : \A S \in SUBSET Paths : Closed(S) => p \in S}

\* The wait for parsing is over and the type checker has not begun.
AfterParsing == Running /\ pc[Main] = "resolve"

Count(p) == Cardinality({i \in DOMAIN results : results[i].path = p})
Given(p) == Cardinality({j \in DOMAIN CustomFiles : CustomFiles[j] = p /\ text[p].readable})

\* When the wait for parsing is over, the files that were parsed are the ones
\* the initial files reach through imports, each once however many files
\* import it and whichever thread met it first, and each custom file besides
\* (the test and the push of PipelineDoFile, the wait of RunPipeline).
ParsedExactly ==
    AfterParsing =>
        LET reachable == Reachable IN
        \A p \in Paths :
            Count(p) = Given(p) + (IF p \in reachable /\ text[p].readable THEN 1 ELSE 0)

\* The module table depends on the sources alone and not on the order in which
\* the files were parsed: AddModule puts every file in the module it names.
ModulesAreDetermined ==
    AfterParsing =>
        LET reachable == Reachable
            In(m) == {p \in reachable : text[p].readable /\ text[p].module = m}
                     \cup {p \in Paths : Given(p) > 0 /\ CustomText[p].module = m}
        IN  /\ DOMAIN modules = {m \in Modules : In(m) # {}}
            /\ \A m \in DOMAIN modules : {modules[m][i] : i \in DOMAIN modules[m]} = In(m)

\* ResolveImports finds, for every import that was found and read while the file
\* was parsed, the file it was found to be: "Couldn't find imported file" is never
\* raised (Module.cpp:59), since the look-up and the parsed files agree.
FileImportsResolve ==
    \A i \in DOMAIN imported : \A j \in FileImports(i) :
        LET target == FindFile(results[i].imports[j].file, results[i].path) IN
        text[target].readable =>
            \E k \in DOMAIN results :
                results[k].path = target /\ results[k].module \in imported[i]

\* The compiler does not read through an empty slot of FileArray unless the
\* file that left it empty was reported.
CrashIsReported == status = "crash" => errors > 0

\* Flow typing has the IR of every file, built once, and of no other.
EveryFileHasIR ==
    Running /\ pc[Main] \in {"flow", "returned"} =>
        \A p \in Paths : ir[p] = Count(p)

\* The build comes to an end, whatever the files import and whichever thread
\* met them first; where it does not, the main thread is left in the wait of
\* MainThreadWorkUntilDone with every job done, which is for the queue to answer.
PipelineEnds ==
    <>[](Running => waiting /\ finished = 0 .. posted - 1)
=============================================================================
