--------------------------- MODULE PipelineProofs ---------------------------
(***************************************************************************)
(* The files a build reaches are parsed once and compiled once, whichever   *)
(* thread comes across them first, for every set of files with any imports  *)
(* and any number of threads.                                               *)
(***************************************************************************)
EXTENDS Pipeline, FiniteSetTheorems, WellFoundedInduction, TLAPS

OnMain == {"stage", "postInitial", "resolve", "postIR", "flow", "returned"}
OnJob == {"lex", "lexed", "parse", "imports", "postImport", "ir"}
KindAt(label) ==
    CASE label \in {"lex", "lexed"} -> "lex"
      [] label = "ir" -> "ir"
      [] OTHER -> "parse"

ImportLists == UNION {[D -> Import] : D \in {E \in SUBSET Nat : IsFiniteSet(E)}}
Result == [path : Paths, module : Modules \cup {NoModule}, imports : ImportLists]
Round == [initial : Seq(Names), custom : Seq(Paths), entry : Modules]
NoOrPath == Paths \cup {NoPath}

FileTypes ==
    /\ text \in [Paths -> Text]
    /\ rounds \in Seq(Round)
    /\ round \in 1 .. Len(rounds)
    /\ phase \in {"parse", "ir"}
    /\ errors \in Nat
    /\ staged \in SUBSET Paths
    /\ results \in Seq(Result)
    /\ ir \in [Paths -> Nat]

ThreadTypes ==
    /\ pc \in [Threads -> OnMain \cup OnJob \cup {"idle"}]
    /\ pos \in [Threads -> Nat \ {0}]
    /\ found \in [Threads -> NoOrPath]
    /\ ticket \in [Threads -> Nat \cup {NoTicket}]
    /\ task \in Seq(Jobs)
    /\ posted = Len(task)
    /\ posted <= JobLimit
    /\ runs \in [0 .. JobLimit - 1 -> {0, 1}]
    /\ finished \in SUBSET (0 .. posted - 1)

WellTyped == FileTypes /\ ThreadTypes

-----------------------------------------------------------------------------
(* The threads and the jobs                                                 *)

Unfinished == (0 .. posted - 1) \ finished

(* A thread runs a job of its own, which is of the kind it is in.           *)
Threading ==
    /\ \A t \in Threads :
        /\ t # Main => pc[t] \notin OnMain
        /\ ticket[t] # NoTicket <=> pc[t] \in OnJob
        /\ found[t] # NoPath <=> pc[t] \in {"postInitial", "postImport"}
        /\ pc[t] \in OnJob =>
            /\ ticket[t] \in Unfinished
            /\ runs[ticket[t]] = 1
            /\ Job(t).kind = KindAt(pc[t])
        /\ pc[t] \in {"imports", "postImport"} => Source(t).module # NoModule
    /\ \A t, u \in Threads : t # u /\ ticket[t] # NoTicket => ticket[t] # ticket[u]
    /\ \A k \in finished : runs[k] = 1

(* When the main thread is past a wait, no job is left of what it waited for. *)
Waited ==
    /\ pc[Main] \in {"stage", "postInitial", "resolve", "postIR"} => phase = "parse"
    /\ pc[Main] \in {"flow", "returned"} => phase = "ir"
    /\ pc[Main] \in {"resolve", "flow", "returned"} => Unfinished = {}

-----------------------------------------------------------------------------
(* The jobs that build IR are the last ones posted, one for each result.    *)

IRPhase == pc[Main] = "postIR" \/ phase = "ir"
IRPosted == IF pc[Main] = "postIR" THEN pos[Main] - 1 ELSE Len(results)
IRFirst == posted - IRPosted
IRBuilt(p) == {i \in 1 .. IRPosted : results[i].path = p /\ IRFirst + i - 1 \in finished}

IRJobs ==
    /\ phase = "ir" => pos[Main] = 1
    /\ IRPosted <= Len(results) /\ IRPosted <= posted
    /\ \A k \in Unfinished : k >= IRFirst
    /\ \A i \in 1 .. IRPosted :
        task[IRFirst + i].kind = "ir" /\ task[IRFirst + i].path = results[i].path
    /\ \A p \in Paths : ir[p] = Cardinality(IRBuilt(p))

NoIRJobs ==
    /\ \A k \in Unfinished : task[k + 1].kind # "ir"
    /\ \A p \in Paths : ir[p] = 0

IRKept == IF IRPhase THEN IRJobs ELSE NoIRJobs

-----------------------------------------------------------------------------
(* From a file that is met to its result: where a path still is on its way. *)

Lexed == {ticket[t] : t \in {u \in Threads : pc[u] = "lexed"}}
ToPost(p) == {t \in Threads : found[t] = p}
ToLex(p) == {k \in Unfinished \ Lexed : task[k + 1].kind = "lex" /\ task[k + 1].path = p}
ToParse(p) ==
    {k \in Unfinished :
        task[k + 1].kind = "parse" /\ task[k + 1].path = p /\ ~task[k + 1].custom}
ToParseCustom(p) ==
    {k \in Unfinished :
        task[k + 1].kind = "parse" /\ task[k + 1].path = p /\ task[k + 1].custom}
ResultsOf(p) == {i \in DOMAIN results : results[i].path = p}

(* The main thread is past the j-th thing it was given.                     *)
Past(j) == pc[Main] \in {"stage", "postInitial"} => j < pos[Main]
PastCustom(j) == Past(Len(InitialFiles) + j)
Expected(p) == {j \in DOMAIN CustomFiles : CustomFiles[j] = p /\ PastCustom(j)}

IsCustom(p) == \E j \in DOMAIN CustomFiles : CustomFiles[j] = p

(* What is on its way came from a staged file or a custom one.              *)
Provenance ==
    /\ \A t \in Threads : found[t] # NoPath => found[t] \in staged
    /\ \A k \in Unfinished :
        /\ task[k + 1].kind = "lex" => task[k + 1].path \in staged /\ ~task[k + 1].custom
        /\ task[k + 1].kind = "parse" =>
            /\ text[task[k + 1].path].readable
            /\ task[k + 1].custom => IsCustom(task[k + 1].path)
            /\ ~task[k + 1].custom => task[k + 1].path \in staged

(* A staged file is in one place, and so is a custom file each time.        *)
Balance ==
    \A p \in Paths : text[p].readable =>
        Cardinality(ResultsOf(p)) + Cardinality(ToParse(p))
            + Cardinality(ToParseCustom(p)) + Cardinality(ToLex(p)) + Cardinality(ToPost(p))
        = Cardinality(Expected(p)) + (IF p \in staged THEN 1 ELSE 0)

ResultIn(rs, S, p, source) ==
    \E i \in DOMAIN rs :
        /\ rs[i].path = p
        /\ rs[i].module = source.module
        /\ source.module # NoModule => ImportsIn(source, p, S)
HasResult(p, source) == ResultIn(results, staged, p, source)

(* A file that was met has a result, and its imports were met, or is on its way. *)
StagedCovered ==
    \A p \in staged : text[p].readable =>
        \/ ToPost(p) # {} \/ ToLex(p) # {} \/ ToParse(p) # {}
        \/ HasResult(p, text[p])
CustomCovered ==
    \A j \in DOMAIN CustomFiles : text[CustomFiles[j]].readable /\ PastCustom(j) =>
        \/ ToParseCustom(CustomFiles[j]) # {}
        \/ HasResult(CustomFiles[j], CustomText[CustomFiles[j]])

InitialMet ==
    \A j \in DOMAIN InitialFiles :
        Past(j) => FindFile(InitialFiles[j], NoPath) \in staged \cup {NoPath}
ImportsMet ==
    \A t \in Threads : pc[t] \in {"imports", "postImport"} =>
        \A j \in DOMAIN Source(t).imports :
            j < pos[t] /\ Source(t).imports[j].module = NoModule
            => FindFile(Source(t).imports[j].file, File(t)) \in staged \cup {NoPath}

(* A result is that of a source, and the imports it kept were met.          *)
IsSource(p, source) ==
    /\ text[p].readable
    /\ \/ p \in staged /\ source = text[p]
       \/ IsCustom(p) /\ source = CustomText[p]
Genuine ==
    \A i \in DOMAIN results :
        /\ \E source \in {text[results[i].path], CustomText[results[i].path]} :
            IsSource(results[i].path, source) /\ results[i].module = source.module
        /\ \A j \in FileImports(i) :
            FindFile(results[i].imports[j].file, results[i].path) \in staged

OnlyReached == \A S \in SUBSET Paths : Closed(S) => staged \subseteq S

Parsing ==
    /\ Provenance /\ Balance
    /\ StagedCovered /\ CustomCovered /\ InitialMet /\ ImportsMet
    /\ Genuine /\ OnlyReached

-----------------------------------------------------------------------------
(* An empty slot of FileArray was reported.                                 *)
Reported ==
    /\ (\E i \in DOMAIN results : Empty(i)) => errors > 0
    /\ CrashIsReported

Resolving ==
    /\ pc[Main] = "resolve" => modules = ModuleTable
    /\ ~IRPhase /\ pc[Main] # "resolve" => imported = << >>
    /\ DOMAIN imported \subseteq DOMAIN results
    /\ FileImportsResolve

IInv ==
    /\ WellTyped /\ Threading /\ Waited /\ IRKept
    /\ ~IRPhase => Parsing
    /\ Reported /\ Resolving

-----------------------------------------------------------------------------
(* Smallest and largest numbers, and what the operators return              *)

(* Every non-empty set of numbers has a least member.                       *)
LEMMA Smallest ==
  ASSUME NEW S \in SUBSET Nat, S # {}
  PROVE  \E m \in S : \A k \in S : m <= k
  <1>. DEFINE T == {0 .. m : m \in S}
              R == StrictSubsetOrdering(Nat)
  <1>1. IsWellFoundedOn(R, FiniteSubsetsOf(Nat))
    BY FS_StrictSubsetOrderingWellFounded
  <1>2. T \subseteq FiniteSubsetsOf(Nat)
    <2>1. ASSUME NEW m \in S PROVE 0 .. m \in FiniteSubsetsOf(Nat)
      <3>1. IsFiniteSet(0 .. m) /\ 0 .. m \subseteq Nat
        BY FS_Interval
      <3>. QED
        BY <3>1 DEF FiniteSubsetsOf
    <2>. QED
      BY <2>1
  <1>3. \A k, m \in S : k < m => <<0 .. k, 0 .. m>> \in R
    <2>. SUFFICES ASSUME NEW k \in S, NEW m \in S, k < m
                  PROVE  <<0 .. k, 0 .. m>> \in R
      OBVIOUS
    <2>1. 0 .. k \subseteq Nat /\ 0 .. m \subseteq Nat /\ 0 .. k \subseteq 0 .. m
      OBVIOUS
    <2>2. m \in 0 .. m /\ m \notin 0 .. k
      OBVIOUS
    <2>. QED
      BY <2>1, <2>2 DEF StrictSubsetOrdering
  <1>4. T # {}
    OBVIOUS
  <1>. HIDE DEF R
  <1>7. PICK x \in T : \A y \in T : ~(<<y, x>> \in R)
    <2>. HIDE DEF T
    <2>. QED
      BY <1>1, <1>2, <1>4, WFMin
  <1>5. PICK m \in S : x = 0 .. m
    BY <1>7
  <1>6. \A k \in S : ~(k < m)
    BY <1>3, <1>7, <1>5
  <1>. QED
    BY <1>6

(* Every bounded non-empty set of numbers has a greatest member.            *)
LEMMA Largest ==
  ASSUME NEW S \in SUBSET Nat, S # {}, NEW n \in Nat, \A k \in S : k <= n
  PROVE  \E m \in S : \A k \in S : k <= m
  <1>. DEFINE U == {b \in Nat : \A k \in S : k <= b}
  <1>1. U # {} /\ U \in SUBSET Nat
    OBVIOUS
  <1>2. PICK b \in U : \A c \in U : b <= c
    <2>. HIDE DEF U
    <2>. QED
      BY <1>1, Smallest
  <1>3. b \in S
    <2>. SUFFICES ASSUME b \notin S PROVE FALSE
      OBVIOUS
    <2>1. \A k \in S : k < b
      BY <1>2
    <2>2. PICK k \in S : k \in Nat
      OBVIOUS
    <2>3. b - 1 \in Nat /\ \A l \in S : l <= b - 1
      BY <2>1, <2>2
    <2>4. b - 1 \in U
      BY <2>3
    <2>. QED
      BY <1>2, <2>4
  <1>. QED
    BY <1>2, <1>3

LEMMA FindFileType ==
  ASSUME NEW name \in Names, NEW from \in NoOrPath
  PROVE  FindFile(name, from) \in NoOrPath
  <1>. DEFINE hits == {i \in DOMAIN Lookups : At[Lookups[i]][name] # NoPath}
              last == CHOOSE i \in hits : \A j \in hits : j <= i
              beside == IF from = NoPath THEN NoPath ELSE At[DirOf[from]][name]
  <1>1. hits # {} => last \in hits
    <2>. SUFFICES ASSUME hits # {} PROVE last \in hits
      OBVIOUS
    <2>1. Len(Lookups) \in Nat /\ hits \in SUBSET Nat /\ \A k \in hits : k <= Len(Lookups)
      BY PipelineAssumption
    <2>. HIDE DEF hits
    <2>2. \E m \in hits : \A k \in hits : k <= m
      BY <2>1, Largest
    <2>. QED
      BY <2>2
  <1>2. \A d \in Dirs : At[d][name] \in NoOrPath
    BY PipelineAssumption DEF NoOrPath
  <1>3. \A i \in hits : Lookups[i] \in Dirs
    BY PipelineAssumption
  <1>4. beside \in NoOrPath
    BY <1>2, PipelineAssumption DEF NoOrPath
  <1>5. FindFile(name, from) =
          CASE hits # {} -> At[Lookups[last]][name]
            [] hits = {} /\ beside # NoPath -> beside
            [] hits = {} /\ beside = NoPath /\ name \in Paths -> name
            [] OTHER -> NoPath
    BY DEF FindFile
  <1>. HIDE DEF hits, last, beside
  <1>. QED
    BY <1>1, <1>2, <1>3, <1>4, <1>5 DEF NoOrPath

(* What is known of the job a thread runs and of the source it reads.       *)
LEMMA JobOfThread ==
  ASSUME WellTyped, Threading, NEW t \in Threads, pc[t] \in OnJob
  PROVE  /\ ticket[t] \in 0 .. posted - 1 /\ ticket[t] \notin finished
         /\ ticket[t] + 1 \in 1 .. Len(task)
         /\ Job(t) \in Jobs /\ File(t) \in Paths /\ Job(t).custom \in BOOLEAN
         /\ Job(t).kind = KindAt(pc[t])
         /\ Source(t) \in Text
         /\ Source(t).imports \in Seq(Import)
         /\ Source(t).module \in Modules \cup {NoModule}
  <1>1. /\ ticket[t] \in 0 .. posted - 1 /\ ticket[t] \notin finished
        /\ Job(t).kind = KindAt(pc[t])
    BY DEF Threading, Unfinished
  <1>2. ticket[t] + 1 \in 1 .. Len(task)
    BY <1>1 DEF WellTyped, ThreadTypes
  <1>3. Job(t) \in Jobs
    BY <1>2 DEF Job, WellTyped, ThreadTypes
  <1>4. File(t) \in Paths /\ Job(t).custom \in BOOLEAN
    BY <1>3 DEF File, Jobs
  <1>5. Source(t) \in Text
    BY <1>4, PipelineAssumption DEF Source, WellTyped, FileTypes
  <1>. QED
    BY <1>1, <1>2, <1>3, <1>4, <1>5 DEF Text

LEMMA FilesOfRound ==
  ASSUME WellTyped
  PROVE  InitialFiles \in Seq(Names) /\ CustomFiles \in Seq(Paths)
  <1>1. rounds[round] \in Round
    BY DEF WellTyped, FileTypes
  <1>. QED
    BY <1>1 DEF Round, InitialFiles, CustomFiles

(* What is asked for is a name, and a path comes of it.                     *)
LEMMA WantedType ==
  ASSUME WellTyped, Threading, NEW t \in Threads, Staging(t)
  PROVE  /\ Wanted(t) \in NoOrPath
         /\ pc[t] = "stage" => t = Main /\ pos[t] \in DOMAIN InitialFiles
         /\ pc[t] # "stage" => pc[t] = "imports" /\ pos[t] \in DOMAIN Source(t).imports
                               /\ Source(t).imports[pos[t]].module = NoModule
  <1>0. pos[t] \in Nat \ {0}
    BY DEF WellTyped, ThreadTypes
  <1>1. CASE pc[t] = "stage"
    <2>1. t = Main /\ pos[t] <= Len(InitialFiles)
      BY <1>1 DEF Staging
    <2>2. pos[t] \in DOMAIN InitialFiles /\ InitialFiles[pos[t]] \in Names
      BY <2>1, <1>0, FilesOfRound
    <2>. QED
      BY <1>1, <2>1, <2>2, FindFileType DEF Wanted, NoOrPath
  <1>2. CASE pc[t] # "stage"
    <2>1. pc[t] = "imports" /\ pos[t] <= Len(Source(t).imports)
          /\ Source(t).imports[pos[t]].module = NoModule
      BY <1>2 DEF Staging
    <2>2. Source(t).imports \in Seq(Import) /\ File(t) \in Paths
      BY <2>1, JobOfThread DEF OnJob
    <2>3. pos[t] \in DOMAIN Source(t).imports /\ Source(t).imports[pos[t]] \in Import
      BY <2>1, <2>2, <1>0
    <2>4. Source(t).imports[pos[t]].file \in Names
      BY <2>1, <2>3, PipelineAssumption DEF Import
    <2>. QED
      BY <1>2, <2>1, <2>2, <2>3, <2>4, FindFileType DEF Wanted, NoOrPath
  <1>. QED
    BY <1>1, <1>2

-----------------------------------------------------------------------------
(* What steps have in common                                                *)

SameRound == UNCHANGED <<text, rounds, round>>

(* Nothing is posted, or one job of such a kind.                            *)
TasksGrow(kinds) ==
    \/ UNCHANGED <<task, posted>>
    \/ \E job \in Jobs :
        /\ job.kind \in kinds
        /\ task' = Append(task, job)
        /\ posted' = posted + 1
        /\ posted < JobLimit

ParseKinds == {"lex", "parse"}

LEMMA TasksStay ==
  ASSUME WellTyped, NEW kinds, TasksGrow(kinds)
  PROVE  /\ task' \in Seq(Jobs) /\ posted' = Len(task') /\ posted' <= JobLimit
         /\ posted' \in {posted, posted + 1}
         /\ \A i \in 1 .. Len(task) : i \in 1 .. Len(task') /\ task'[i] = task[i]
         /\ \A i \in 1 .. Len(task') : i \notin 1 .. Len(task) =>
                i = Len(task) + 1 /\ posted' = posted + 1 /\ task'[i].kind \in kinds
  <1>0. task \in Seq(Jobs) /\ posted = Len(task) /\ posted <= JobLimit /\ JobLimit \in Nat
    BY PipelineAssumption DEF WellTyped, ThreadTypes
  <1>1. CASE UNCHANGED <<task, posted>>
    BY <1>0, <1>1
  <1>2. CASE \E job \in Jobs : /\ job.kind \in kinds
                               /\ task' = Append(task, job)
                               /\ posted' = posted + 1
                               /\ posted < JobLimit
    <2>1. PICK job \in Jobs : /\ job.kind \in kinds
                              /\ task' = Append(task, job)
                              /\ posted' = posted + 1
                              /\ posted < JobLimit
      BY <1>2
    <2>2. /\ task' \in Seq(Jobs) /\ Len(task') = Len(task) + 1
          /\ \A i \in 1 .. Len(task) : task'[i] = task[i]
          /\ task'[Len(task) + 1] = job
      BY <1>0, <2>1
    <2>. QED
      BY <1>0, <2>1, <2>2
  <1>. QED
    BY <1>1, <1>2 DEF TasksGrow

(* A thread that keeps its ticket keeps its job and its source.             *)
LEMMA SourceStays ==
  ASSUME WellTyped, Threading, NEW kinds, TasksGrow(kinds), SameRound,
         NEW u \in Threads, pc[u] \in OnJob, ticket'[u] = ticket[u]
  PROVE  Job(u)' = Job(u) /\ File(u)' = File(u) /\ Source(u)' = Source(u)
  <1>1. ticket[u] + 1 \in 1 .. Len(task)
    BY JobOfThread
  <1>2. Job(u)' = Job(u)
    BY <1>1, TasksStay DEF Job
  <1>. QED
    BY <1>2 DEF File, Source, SameRound

(* A thread goes on without starting or ending a job.                       *)
Moves(t, label, path) ==
    /\ pc' = [pc EXCEPT ![t] = label]
    /\ found' = [found EXCEPT ![t] = path]
    /\ pos' \in [Threads -> Nat \ {0}]
    /\ UNCHANGED <<ticket, runs, finished>>
    /\ SameRound
    /\ label \in OnMain => t = Main
    /\ label \in OnJob <=> pc[t] \in OnJob
    /\ label \in OnJob => KindAt(label) = KindAt(pc[t])
    /\ label \in {"imports", "postImport"} => Source(t).module # NoModule
    /\ path # NoPath <=> label \in {"postInitial", "postImport"}

(* Such a move keeps each job on a thread of its own.                       *)
LEMMA MoveKeepsThreading ==
  ASSUME WellTyped, Threading, NEW t \in Threads, NEW label, NEW path \in NoOrPath,
         label \in OnMain \cup OnJob \cup {"idle"},
         Moves(t, label, path), NEW kinds, TasksGrow(kinds)
  PROVE  ThreadTypes' /\ Threading'
  <1>1. /\ task' \in Seq(Jobs) /\ posted' = Len(task') /\ posted' <= JobLimit
        /\ posted \in Nat /\ posted' \in {posted, posted + 1}
    BY TasksStay DEF WellTyped, ThreadTypes
  <1>2. ThreadTypes'
    BY <1>1 DEF WellTyped, ThreadTypes, Moves
  <1>3. \A u \in Threads : pc[u] \in OnJob =>
            Job(u)' = Job(u) /\ Source(u)' = Source(u)
    BY SourceStays DEF Moves
  <1>4. \A u \in Threads : /\ u # t => pc'[u] = pc[u] /\ found'[u] = found[u]
                           /\ pc'[t] = label /\ found'[t] = path
    BY DEF Moves, WellTyped, ThreadTypes
  <1>5. Unfinished \subseteq Unfinished'
    BY <1>1 DEF Unfinished, Moves
  <1>6. ASSUME NEW u \in Threads
        PROVE  /\ u # Main => pc'[u] \notin OnMain
               /\ ticket'[u] # NoTicket <=> pc'[u] \in OnJob
               /\ found'[u] # NoPath <=> pc'[u] \in {"postInitial", "postImport"}
               /\ pc'[u] \in OnJob =>
                    /\ ticket'[u] \in Unfinished'
                    /\ runs'[ticket'[u]] = 1
                    /\ Job(u)'.kind = KindAt(pc'[u])
               /\ pc'[u] \in {"imports", "postImport"} => Source(u)'.module # NoModule
    <2>1. CASE u = t
      <3>1. pc[t] \in OnJob => /\ ticket[t] \in Unfinished'
                               /\ runs[ticket[t]] = 1
                               /\ Job(t)'.kind = KindAt(label)
        BY <1>3, <1>5 DEF Threading, Moves
      <3>2. label \in {"imports", "postImport"} => Source(t)'.module # NoModule
        BY <1>3 DEF Moves, OnJob
      <3>3. ticket[t] # NoTicket <=> label \in OnJob
        BY DEF Threading, Moves
      <3>. QED
        BY <2>1, <1>4, <3>1, <3>2, <3>3 DEF Moves
    <2>2. CASE u # t
      <3>1. /\ u # Main => pc[u] \notin OnMain
            /\ ticket[u] # NoTicket <=> pc[u] \in OnJob
            /\ found[u] # NoPath <=> pc[u] \in {"postInitial", "postImport"}
            /\ pc[u] \in OnJob =>
                 /\ ticket[u] \in Unfinished
                 /\ runs[ticket[u]] = 1
                 /\ Job(u).kind = KindAt(pc[u])
            /\ pc[u] \in {"imports", "postImport"} => Source(u).module # NoModule
        BY DEF Threading
      <3>2. pc[u] \in {"imports", "postImport"} => pc[u] \in OnJob
        BY DEF OnJob
      <3>. QED
        BY <2>2, <1>3, <1>4, <1>5, <3>1, <3>2 DEF Moves
    <2>. QED
      BY <2>1, <2>2
  <1>7. \A u, v \in Threads : u # v /\ ticket'[u] # NoTicket => ticket'[u] # ticket'[v]
    BY DEF Threading, Moves
  <1>8. \A k \in finished' : runs'[k] = 1
    BY DEF Threading, Moves
  <1>. QED
    BY <1>2, <1>6, <1>7, <1>8 DEF Threading

(* A step that leaves the threads where they are.                           *)
LEMMA StayKeepsThreading ==
  ASSUME WellTyped, Threading, UNCHANGED <<pc, found, ticket, runs, finished>>, SameRound,
         pos' \in [Threads -> Nat \ {0}], NEW kinds, TasksGrow(kinds)
  PROVE  ThreadTypes' /\ Threading'
  <1>1. Main \in Threads /\ pc[Main] \in OnMain \cup OnJob \cup {"idle"} /\ found[Main] \in NoOrPath
    BY DEF Threads, WellTyped, ThreadTypes
  <1>2. Moves(Main, pc[Main], found[Main])
    <2>1. pc' = [pc EXCEPT ![Main] = pc[Main]] /\ found' = [found EXCEPT ![Main] = found[Main]]
      BY DEF WellTyped, ThreadTypes
    <2>2. /\ pc[Main] \in {"imports", "postImport"} => Source(Main).module # NoModule
          /\ found[Main] # NoPath <=> pc[Main] \in {"postInitial", "postImport"}
      BY <1>1 DEF Threading
    <2>. QED
      BY <2>1, <2>2 DEF Moves
  <1>. QED
    BY <1>1, <1>2, MoveKeepsThreading

(* A job starts on an idle thread.                                          *)
LEMMA StartKeepsThreading ==
  ASSUME WellTyped, Threading, NEW t \in Threads, StartJob(t)
  PROVE  /\ ThreadTypes' /\ Threading'
         /\ pc[t] = "idle" /\ pc'[t] \in {"lex", "parse", "ir"}
         /\ \A u \in Threads : u # t => pc'[u] = pc[u] /\ ticket'[u] = ticket[u]
         /\ ticket'[t] \in Unfinished /\ pc'[t] = task[ticket'[t] + 1].kind
  <1>1. PICK k \in Pool!Tickets :
            /\ Pool!Start(k)
            /\ ticket' = [ticket EXCEPT ![t] = k]
            /\ pc' = [pc EXCEPT ![t] = task[k + 1].kind]
    BY DEF StartJob, Goto
  <1>2. /\ k \in 0 .. JobLimit - 1 /\ k < posted /\ runs[k] = 0
        /\ runs' = [runs EXCEPT ![k] = 1]
        /\ UNCHANGED <<posted, finished>>
    BY <1>1 DEF Pool!Start, Pool!Tickets
  <1>3. /\ pc[t] = "idle"
        /\ UNCHANGED <<text, rounds, round, pos, found, task>>
    BY DEF StartJob, sources, progress
  <1>4. /\ pc \in [Threads -> OnMain \cup OnJob \cup {"idle"}]
        /\ ticket \in [Threads -> Nat \cup {NoTicket}]
        /\ runs \in [0 .. JobLimit - 1 -> {0, 1}]
        /\ task \in Seq(Jobs) /\ posted = Len(task) /\ JobLimit \in Nat
    BY PipelineAssumption DEF WellTyped, ThreadTypes
  <1>5. k \in Unfinished
    BY <1>2, <1>4 DEF Threading, Unfinished
  <1>6. task[k + 1] \in Jobs /\ task[k + 1].kind \in {"lex", "parse", "ir"}
    <2>1. k + 1 \in 1 .. Len(task)
      BY <1>2, <1>4
    <2>2. task[k + 1] \in Jobs
      BY <2>1, <1>4
    <2>. QED
      BY <2>2 DEF Jobs
  <1>7. /\ pc'[t] = task[k + 1].kind /\ ticket'[t] = k /\ runs'[k] = 1
        /\ \A u \in Threads : u # t => pc'[u] = pc[u] /\ ticket'[u] = ticket[u]
        /\ \A j \in 0 .. JobLimit - 1 : j # k => runs'[j] = runs[j]
    BY <1>1, <1>2, <1>4
  <1>8. ThreadTypes'
    BY <1>1, <1>2, <1>3, <1>4, <1>6 DEF WellTyped, ThreadTypes, OnJob, Pool!Tickets
  <1>9. \A u \in Threads : u # t => Job(u)' = Job(u) /\ Source(u)' = Source(u)
    BY <1>3, <1>7 DEF Job, Source, File
  <1>10. Unfinished' = Unfinished
    BY <1>2 DEF Unfinished
  <1>11. \A u \in Threads : pc[u] \in OnJob => ticket[u] # k
    BY <1>2 DEF Threading
  <1>12. ASSUME NEW u \in Threads
         PROVE  /\ u # Main => pc'[u] \notin OnMain
                /\ ticket'[u] # NoTicket <=> pc'[u] \in OnJob
                /\ found'[u] # NoPath <=> pc'[u] \in {"postInitial", "postImport"}
                /\ pc'[u] \in OnJob =>
                     /\ ticket'[u] \in Unfinished'
                     /\ runs'[ticket'[u]] = 1
                     /\ Job(u)'.kind = KindAt(pc'[u])
                /\ pc'[u] \in {"imports", "postImport"} => Source(u)'.module # NoModule
    <2>1. CASE u = t
      <3>1. k # NoTicket /\ found[t] = NoPath
        BY <1>2, <1>3 DEF Threading, NoTicket
      <3>2. Job(t)' = task[k + 1]
        BY <1>3, <1>7 DEF Job
      <3>. QED
        BY <2>1, <3>1, <3>2, <1>3, <1>5, <1>6, <1>7, <1>10 DEF OnMain, OnJob, KindAt
    <2>2. CASE u # t
      <3>1. /\ u # Main => pc[u] \notin OnMain
            /\ ticket[u] # NoTicket <=> pc[u] \in OnJob
            /\ found[u] # NoPath <=> pc[u] \in {"postInitial", "postImport"}
            /\ pc[u] \in OnJob =>
                 /\ ticket[u] \in Unfinished
                 /\ runs[ticket[u]] = 1
                 /\ Job(u).kind = KindAt(pc[u])
            /\ pc[u] \in {"imports", "postImport"} => Source(u).module # NoModule
        BY DEF Threading
      <3>2. pc[u] \in OnJob => runs'[ticket[u]] = 1
        <4>1. \A j \in Unfinished : j \in 0 .. JobLimit - 1
          BY <1>4 DEF Unfinished, WellTyped, ThreadTypes
        <4>. QED
          BY <3>1, <1>7, <1>11, <4>1
      <3>. QED
        BY <2>2, <3>1, <3>2, <1>3, <1>7, <1>9, <1>10
    <2>. QED
      BY <2>1, <2>2
  <1>13. \A u, v \in Threads : u # v /\ ticket'[u] # NoTicket => ticket'[u] # ticket'[v]
    <2>1. \A u \in Threads : u # t /\ ticket[u] # NoTicket => ticket[u] # k
      BY <1>11 DEF Threading
    <2>2. k # NoTicket
      BY <1>2 DEF NoTicket
    <2>3. \A u, v \in Threads : u # v /\ ticket[u] # NoTicket => ticket[u] # ticket[v]
      BY DEF Threading
    <2>. QED
      BY <1>7, <2>1, <2>2, <2>3
  <1>14. \A j \in finished' : runs'[j] = 1
    <2>1. \A j \in finished : j \in 0 .. JobLimit - 1 /\ runs[j] = 1
      BY <1>4 DEF Threading, WellTyped, ThreadTypes
    <2>. QED
      BY <1>2, <1>7, <2>1
  <1>15. Threading'
    BY <1>12, <1>13, <1>14 DEF Threading
  <1>. QED
    BY <1>3, <1>5, <1>6, <1>7, <1>8, <1>15

(* A job ends and its thread is idle again.                                 *)
LEMMA ReturnKeepsThreading ==
  ASSUME WellTyped, Threading, NEW t \in Threads, Return(t), SameRound,
         pc[t] \in OnJob \ {"postImport"}, found' = found, pos' \in [Threads -> Nat \ {0}]
  PROVE  /\ ThreadTypes' /\ Threading'
         /\ UNCHANGED <<task, posted>>
         /\ ticket[t] \in Unfinished
         /\ finished' = finished \cup {ticket[t]}
         /\ Unfinished' = Unfinished \ {ticket[t]}
         /\ pc'[t] = "idle" /\ ticket'[t] = NoTicket
         /\ \A u \in Threads : u # t => pc'[u] = pc[u] /\ ticket'[u] = ticket[u]
  <1>1. /\ finished' = finished \cup {ticket[t]}
        /\ UNCHANGED <<task, posted, runs>>
        /\ ticket' = [ticket EXCEPT ![t] = NoTicket]
        /\ pc' = [pc EXCEPT ![t] = "idle"]
    BY DEF Return, Pool!Finish, Goto
  <1>2. ticket[t] \in Unfinished /\ ticket[t] \in 0 .. posted - 1 /\ runs[ticket[t]] = 1
    BY DEF Threading, Unfinished
  <1>3. /\ pc'[t] = "idle" /\ ticket'[t] = NoTicket
        /\ \A u \in Threads : u # t => pc'[u] = pc[u] /\ ticket'[u] = ticket[u]
    BY <1>1 DEF WellTyped, ThreadTypes
  <1>4. ThreadTypes'
    BY <1>1, <1>2 DEF WellTyped, ThreadTypes
  <1>5. \A u \in Threads : u # t => Job(u)' = Job(u) /\ Source(u)' = Source(u)
    BY <1>1, <1>3 DEF Job, Source, File, SameRound
  <1>6. Unfinished' = Unfinished \ {ticket[t]}
    BY <1>1 DEF Unfinished
  <1>7. ASSUME NEW u \in Threads
        PROVE  /\ u # Main => pc'[u] \notin OnMain
               /\ ticket'[u] # NoTicket <=> pc'[u] \in OnJob
               /\ found'[u] # NoPath <=> pc'[u] \in {"postInitial", "postImport"}
               /\ pc'[u] \in OnJob =>
                    /\ ticket'[u] \in Unfinished'
                    /\ runs'[ticket'[u]] = 1
                    /\ Job(u)'.kind = KindAt(pc'[u])
               /\ pc'[u] \in {"imports", "postImport"} => Source(u)'.module # NoModule
    <2>1. CASE u = t
      <3>1. found[t] = NoPath
        BY DEF Threading, OnJob
      <3>. QED
        BY <2>1, <3>1, <1>3 DEF OnMain, OnJob
    <2>2. CASE u # t
      <3>1. /\ u # Main => pc[u] \notin OnMain
            /\ ticket[u] # NoTicket <=> pc[u] \in OnJob
            /\ found[u] # NoPath <=> pc[u] \in {"postInitial", "postImport"}
            /\ pc[u] \in OnJob =>
                 /\ ticket[u] \in Unfinished
                 /\ runs[ticket[u]] = 1
                 /\ Job(u).kind = KindAt(pc[u])
            /\ pc[u] \in {"imports", "postImport"} => Source(u).module # NoModule
        BY DEF Threading
      <3>2. pc[u] \in OnJob => ticket[u] # ticket[t]
        BY <2>2, <3>1 DEF Threading
      <3>. QED
        BY <2>2, <3>1, <3>2, <1>1, <1>3, <1>5, <1>6
    <2>. QED
      BY <2>1, <2>2
  <1>8. \A u, v \in Threads : u # v /\ ticket'[u] # NoTicket => ticket'[u] # ticket'[v]
    <2>1. \A u, v \in Threads : u # v /\ ticket[u] # NoTicket => ticket[u] # ticket[v]
      BY DEF Threading
    <2>. QED
      BY <1>3, <2>1
  <1>9. \A j \in finished' : runs'[j] = 1
    BY <1>1, <1>2 DEF Threading
  <1>10. Threading'
    BY <1>7, <1>8, <1>9 DEF Threading
  <1>. QED
    BY <1>1, <1>2, <1>3, <1>4, <1>6, <1>10

(* Where the main thread is when a job runs.                                *)
LEMMA JobsPhase ==
  ASSUME IInv, NEW t \in Threads, pc[t] \in OnJob
  PROVE  /\ pc[Main] \notin {"resolve", "flow", "returned"}
         /\ pc[t] = "ir" => IRPhase
         /\ pc[t] # "ir" => ~IRPhase
  <1>1. /\ ticket[t] \in Unfinished
        /\ ticket[t] \in 0 .. posted - 1 /\ ticket[t] \notin finished
        /\ task[ticket[t] + 1].kind = KindAt(pc[t])
    BY DEF IInv, Threading, Unfinished, Job
  <1>2. pc[Main] \notin {"resolve", "flow", "returned"}
    BY <1>1 DEF IInv, Waited
  <1>3. IRPhase => task[ticket[t] + 1].kind = "ir"
    <2>. SUFFICES ASSUME IRPhase PROVE task[ticket[t] + 1].kind = "ir"
      OBVIOUS
    <2>1. IRJobs
      BY DEF IInv, IRKept
    <2>2. /\ Len(results) \in Nat /\ posted \in Nat /\ pos[Main] \in Nat
      BY DEF IInv, WellTyped, FileTypes, ThreadTypes, Threads
    <2>3. IRPosted \in Int /\ IRFirst \in Int
      BY <2>2 DEF IRPosted, IRFirst
    <2>4. ticket[t] >= IRFirst /\ ticket[t] < posted
      BY <1>1, <2>1, <2>2 DEF IRJobs
    <2>5. ticket[t] - IRFirst + 1 \in 1 .. IRPosted
      BY SMTT(60), <1>1, <2>2, <2>3, <2>4 DEF IRFirst
    <2>6. task[IRFirst + (ticket[t] - IRFirst + 1)].kind = "ir"
      BY <2>1, <2>5 DEF IRJobs
    <2>. QED
      BY <1>1, <2>3, <2>6
  <1>4. ~IRPhase => task[ticket[t] + 1].kind # "ir"
    BY <1>1 DEF IInv, IRKept, NoIRJobs
  <1>5. KindAt(pc[t]) = "ir" <=> pc[t] = "ir"
    BY DEF KindAt
  <1>. QED
    BY <1>1, <1>2, <1>3, <1>4, <1>5

-----------------------------------------------------------------------------
(* What is parsed so far                                                    *)

LEMMA OneMore ==
  ASSUME NEW S, IsFiniteSet(S), NEW x, x \notin S, NEW T, T = S \cup {x}
  PROVE  Cardinality(T) = Cardinality(S) + 1
  BY FS_AddElement

LEMMA OneLess ==
  ASSUME NEW S, IsFiniteSet(S), NEW x \in S, NEW T, T = S \ {x}
  PROVE  Cardinality(T) = Cardinality(S) - 1
  BY FS_RemoveElement

(* The places a path can be in are finite sets, with a number of tokens.    *)
LEMMA TokensFinite ==
  ASSUME WellTyped, NEW p \in Paths
  PROVE  /\ IsFiniteSet(ResultsOf(p)) /\ IsFiniteSet(Expected(p))
         /\ IsFiniteSet(ToParse(p)) /\ IsFiniteSet(ToParseCustom(p))
         /\ IsFiniteSet(ToLex(p)) /\ IsFiniteSet(ToPost(p))
         /\ Cardinality(ResultsOf(p)) \in Nat /\ Cardinality(Expected(p)) \in Nat
         /\ Cardinality(ToParse(p)) \in Nat /\ Cardinality(ToParseCustom(p)) \in Nat
         /\ Cardinality(ToLex(p)) \in Nat /\ Cardinality(ToPost(p)) \in Nat
  <1>1. IsFiniteSet(Threads)
    <2>1. IsFiniteSet(Workers \cup {Main})
      BY PipelineAssumption, FS_AddElement
    <2>. QED
      BY <2>1 DEF Threads
  <1>2. Len(results) \in Nat /\ posted \in Nat
    BY DEF WellTyped, FileTypes, ThreadTypes
  <1>3. CustomFiles \in Seq(Paths)
    BY FilesOfRound
  <1>4. /\ IsFiniteSet(1 .. Len(results)) /\ IsFiniteSet(0 .. posted - 1)
        /\ IsFiniteSet(1 .. Len(CustomFiles))
    BY <1>2, <1>3, FS_Interval
  <1>5. DOMAIN results = 1 .. Len(results) /\ DOMAIN CustomFiles = 1 .. Len(CustomFiles)
    BY <1>3 DEF WellTyped, FileTypes
  <1>6. /\ ResultsOf(p) \in SUBSET (1 .. Len(results))
        /\ Expected(p) \in SUBSET (1 .. Len(CustomFiles))
        /\ ToParse(p) \in SUBSET (0 .. posted - 1)
        /\ ToParseCustom(p) \in SUBSET (0 .. posted - 1)
        /\ ToLex(p) \in SUBSET (0 .. posted - 1)
        /\ ToPost(p) \in SUBSET Threads
    BY <1>5 DEF ResultsOf, Expected, ToParse, ToParseCustom, ToLex, ToPost, Unfinished
  <1>7. /\ IsFiniteSet(ResultsOf(p)) /\ IsFiniteSet(Expected(p))
        /\ IsFiniteSet(ToParse(p)) /\ IsFiniteSet(ToParseCustom(p))
        /\ IsFiniteSet(ToLex(p)) /\ IsFiniteSet(ToPost(p))
    BY <1>1, <1>4, <1>6, FS_Subset
  <1>. QED
    BY <1>7, FS_CardinalityType

LEMMA ImportsInGrows ==
  ASSUME NEW source, NEW p, NEW S, NEW T, S \subseteq T, ImportsIn(source, p, S)
  PROVE  ImportsIn(source, p, T)
  BY DEF ImportsIn

ResultsGrow(rs, rt) == rt = rs \/ \E r \in Result : rt = Append(rs, r)

LEMMA ResultsStay ==
  ASSUME NEW rs \in Seq(Result), NEW rt, ResultsGrow(rs, rt)
  PROVE  /\ rt \in Seq(Result) /\ Len(rt) \in {Len(rs), Len(rs) + 1}
         /\ DOMAIN rs \subseteq DOMAIN rt
         /\ \A i \in DOMAIN rs : rt[i] = rs[i]
  BY DEF ResultsGrow

LEMMA ResultInStays ==
  ASSUME NEW rs \in Seq(Result), NEW rt, ResultsGrow(rs, rt), NEW S, NEW T, S \subseteq T,
         NEW p, NEW source, ResultIn(rs, S, p, source)
  PROVE  ResultIn(rt, T, p, source)
  <1>1. PICK i \in DOMAIN rs : /\ rs[i].path = p
                               /\ rs[i].module = source.module
                               /\ source.module # NoModule => ImportsIn(source, p, S)
    BY DEF ResultIn
  <1>2. i \in DOMAIN rt /\ rt[i] = rs[i]
    BY ResultsStay
  <1>3. source.module # NoModule => ImportsIn(source, p, T)
    BY <1>1, ImportsInGrows
  <1>. QED
    BY <1>1, <1>2, <1>3 DEF ResultIn

LEMMA SameClosed ==
  ASSUME SameRound, NEW S
  PROVE  Closed(S)' <=> Closed(S)
  BY DEF SameRound, Closed, ImportsIn, InitialFiles, CustomFiles

LEMMA SameReach ==
  ASSUME SameRound, OnlyReached, staged' = staged
  PROVE  OnlyReached'
  BY SameClosed DEF OnlyReached

LEMMA SameFiles ==
  ASSUME SameRound
  PROVE  /\ InitialFiles' = InitialFiles /\ CustomFiles' = CustomFiles
         /\ \A p : IsCustom(p)' <=> IsCustom(p)
  BY DEF SameRound, InitialFiles, CustomFiles, IsCustom

LEMMA InitialStays ==
  ASSUME InitialMet, SameRound, staged \subseteq staged',
         \A j \in DOMAIN InitialFiles : Past(j)' =>
             Past(j) \/ FindFile(InitialFiles[j], NoPath) \in staged' \cup {NoPath}
  PROVE  InitialMet'
  BY SameFiles DEF InitialMet

LEMMA ImportsStay ==
  ASSUME WellTyped, Threading, ImportsMet, SameRound, NEW kinds, TasksGrow(kinds),
         staged \subseteq staged', NEW t \in Threads,
         \A u \in Threads : u # t =>
            pc'[u] = pc[u] /\ ticket'[u] = ticket[u] /\ pos'[u] = pos[u],
         pc'[t] \in {"imports", "postImport"} =>
            \A j \in DOMAIN Source(t)'.imports :
                j < pos'[t] /\ Source(t)'.imports[j].module = NoModule
                => FindFile(Source(t)'.imports[j].file, File(t)') \in staged' \cup {NoPath}
  PROVE  ImportsMet'
  <1>. SUFFICES ASSUME NEW u \in Threads, pc'[u] \in {"imports", "postImport"}
                PROVE  \A j \in DOMAIN Source(u)'.imports :
                          j < pos'[u] /\ Source(u)'.imports[j].module = NoModule
                          => FindFile(Source(u)'.imports[j].file, File(u)')
                                \in staged' \cup {NoPath}
    BY DEF ImportsMet
  <1>1. CASE u = t
    BY <1>1
  <1>2. CASE u # t
    <2>1. pc[u] \in {"imports", "postImport"} /\ pc[u] \in OnJob /\ ticket'[u] = ticket[u]
          /\ pos'[u] = pos[u]
      BY <1>2 DEF OnJob
    <2>2. Source(u)' = Source(u) /\ File(u)' = File(u)
      BY <2>1, SourceStays
    <2>. QED
      BY <2>1, <2>2 DEF ImportsMet
  <1>. QED
    BY <1>1, <1>2

LEMMA GenuineStays ==
  ASSUME Genuine, SameRound, results' = results, staged \subseteq staged'
  PROVE  Genuine'
  <1>1. \A p, s : IsSource(p, s) => IsSource(p, s)'
    BY SameFiles DEF IsSource, SameRound
  <1>2. \A i \in DOMAIN results : FileImports(i)' = FileImports(i)
    BY DEF FileImports
  <1>. QED
    BY <1>1, <1>2 DEF Genuine, SameRound

(* A step that leaves every file where it is.                               *)
Settled ==
    /\ UNCHANGED <<staged, results, found, task, posted>>
    /\ Unfinished' \subseteq Unfinished
    /\ SameRound
    /\ \A p \in Paths : text[p].readable =>
        ToLex(p)' = ToLex(p) /\ ToParse(p)' = ToParse(p)
        /\ ToParseCustom(p)' = ToParseCustom(p)
    /\ \A j \in DOMAIN CustomFiles :
        text[CustomFiles[j]].readable => (PastCustom(j)' <=> PastCustom(j))

(* A step in which nothing is posted, staged or pushed.                     *)
LEMMA SettledKeepsParsing ==
  ASSUME WellTyped, Parsing, Settled, InitialMet', ImportsMet'
  PROVE  Parsing'
  <1>1. /\ UNCHANGED <<staged, results, found, task, posted, text>>
        /\ SameRound /\ Unfinished' \subseteq Unfinished
    BY DEF Settled, SameRound
  <1>2. /\ CustomFiles' = CustomFiles /\ CustomFiles \in Seq(Paths)
        /\ \A p : IsCustom(p)' <=> IsCustom(p)
    BY <1>1, SameFiles, FilesOfRound
  <1>3. \A p : ToPost(p)' = ToPost(p) /\ ResultsOf(p)' = ResultsOf(p)
    BY <1>1 DEF ToPost, ResultsOf
  <1>4. \A p \in Paths : text[p].readable =>
            /\ ToLex(p)' = ToLex(p) /\ ToParse(p)' = ToParse(p)
            /\ ToParseCustom(p)' = ToParseCustom(p)
    BY DEF Settled
  <1>5. Provenance'
    BY <1>1, <1>2 DEF Parsing, Provenance
  <1>6. \A p \in Paths : text[p].readable => Expected(p)' = Expected(p)
    BY <1>2 DEF Expected, Settled
  <1>7. Balance'
    BY <1>1, <1>3, <1>4, <1>6 DEF Parsing, Balance
  <1>8. StagedCovered'
    <2>1. staged \subseteq Paths
      BY DEF WellTyped, FileTypes
    <2>. QED
      BY <1>1, <1>3, <1>4, <2>1 DEF Parsing, StagedCovered, HasResult
  <1>9. CustomCovered'
    <2>1. \A j \in DOMAIN CustomFiles :
            CustomFiles[j] \in Paths
            /\ (text[CustomFiles[j]].readable /\ PastCustom(j)' => PastCustom(j))
      BY <1>2 DEF Settled
    <2>. QED
      BY <1>1, <1>2, <1>3, <1>4, <2>1 DEF Parsing, CustomCovered, HasResult
  <1>10. Genuine' /\ OnlyReached'
    BY <1>1, GenuineStays, SameReach DEF Parsing
  <1>. QED
    BY <1>5, <1>7, <1>8, <1>9, <1>10 DEF Parsing

Quiet ==
    /\ UNCHANGED <<staged, results, found, task, posted, finished>>
    /\ Lexed' = Lexed
    /\ SameRound
    /\ \A j \in DOMAIN CustomFiles :
        text[CustomFiles[j]].readable => (PastCustom(j)' <=> PastCustom(j))

LEMMA QuietKeepsParsing ==
  ASSUME WellTyped, Parsing, Quiet, InitialMet', ImportsMet'
  PROVE  Parsing'
  <1>1. Unfinished' = Unfinished
    BY DEF Quiet, Unfinished
  <1>2. \A p : /\ ToLex(p)' = ToLex(p) /\ ToParse(p)' = ToParse(p)
               /\ ToParseCustom(p)' = ToParseCustom(p)
    BY <1>1 DEF Quiet, ToLex, ToParse, ToParseCustom
  <1>3. Settled
    BY <1>1, <1>2 DEF Quiet, Settled
  <1>. QED
    BY <1>3, SettledKeepsParsing
-----------------------------------------------------------------------------
(* The steps until parsing is over                                          *)

(* What such a step leaves to the rest of the invariant.                    *)
ParseStep ==
    /\ ~IRPhase /\ pc[Main] # "resolve"
    /\ pc'[Main] \notin {"resolve", "postIR", "flow", "returned"}
    /\ SameRound
    /\ UNCHANGED <<phase, ir, imported>>
    /\ errors' \in Nat /\ errors' >= errors
    /\ status' \in {status, "exit"}
    /\ staged' \in SUBSET Paths
    /\ ResultsGrow(results, results')
    /\ (\E i \in DOMAIN results' : Empty(i)') => errors' > 0
    /\ TasksGrow(ParseKinds)
    /\ finished \subseteq finished'

(* What a step before the results are read leaves as it was.                *)
LEMMA ParseStepKeeps ==
  ASSUME IInv, ParseStep, ThreadTypes', Threading', Parsing'
  PROVE  IInv'
  <1>1. phase = "parse" /\ phase' = "parse" /\ imported' = << >> /\ ~IRPhase'
    BY DEF IInv, ParseStep, IRPhase, WellTyped, FileTypes, Resolving
  <1>2. WellTyped'
    <2>1. results' \in Seq(Result)
      BY ResultsStay DEF IInv, ParseStep, WellTyped, FileTypes
    <2>. QED
      BY <2>1 DEF IInv, ParseStep, WellTyped, FileTypes, SameRound
  <1>3. Waited'
    BY <1>1 DEF Waited, ParseStep
  <1>4. NoIRJobs'
    <2>1. NoIRJobs /\ WellTyped
      BY DEF IInv, IRKept, ParseStep
    <2>2. ASSUME NEW k \in Unfinished'
          PROVE  task'[k + 1].kind # "ir"
      <3>1. k \in 0 .. posted' - 1 /\ k \notin finished /\ posted \in Nat /\ posted = Len(task)
            /\ posted' = Len(task') /\ posted' \in Nat
        BY <2>1, <1>2, <2>2 DEF Unfinished, ParseStep, WellTyped, ThreadTypes
      <3>2. k + 1 \in 1 .. Len(task')
        BY <3>1
      <3>3. TasksGrow(ParseKinds)
        BY DEF ParseStep
      <3>4. CASE k + 1 \in 1 .. Len(task)
        <4>1. k \in Unfinished /\ task'[k + 1] = task[k + 1]
          BY <3>1, <3>3, <3>4, <2>1, TasksStay DEF Unfinished
        <4>. QED
          BY <4>1, <2>1 DEF NoIRJobs
      <3>5. CASE k + 1 \notin 1 .. Len(task)
        BY <3>2, <3>3, <3>5, <2>1, TasksStay DEF ParseKinds
      <3>. QED
        BY <3>4, <3>5
    <2>. QED
      BY <2>1, <2>2 DEF NoIRJobs, ParseStep
  <1>5. IRKept'
    BY <1>1, <1>4 DEF IRKept
  <1>6. Reported'
    BY DEF IInv, Reported, CrashIsReported, ParseStep, WellTyped, FileTypes
  <1>7. Resolving'
    <2>1. DOMAIN imported' = {}
      BY <1>1
    <2>. QED
      BY <1>1, <2>1 DEF Resolving, FileImportsResolve, ParseStep
  <1>. QED
    BY <1>1, <1>2, <1>3, <1>5, <1>6, <1>7 DEF IInv

(* A file is asked for while there is parsing to do.                        *)
LEMMA StagingPhase ==
  ASSUME IInv, NEW t \in Threads, Staging(t) \/ pc[t] \in {"postInitial", "postImport"}
  PROVE  ~IRPhase /\ pc[Main] \notin {"resolve", "postIR", "flow", "returned"}
  <1>1. CASE pc[t] \in {"stage", "postInitial"}
    <2>1. t = Main
      BY <1>1 DEF IInv, Threading, OnMain
    <2>. QED
      BY <1>1, <2>1 DEF IInv, Waited, IRPhase
  <1>2. CASE pc[t] \in {"imports", "postImport"}
    <2>1. pc[t] \in OnJob /\ pc[t] # "ir"
      BY <1>2 DEF OnJob
    <2>. QED
      BY <2>1, JobsPhase DEF IRPhase
  <1>. QED
    BY <1>1, <1>2 DEF Staging

(* An import that is not to be staged is passed over.                       *)
LEMMA PassedOverKeeps ==
  ASSUME IInv, NEW t \in Threads, Staging(t), Wanted(t) \in staged \cup {NoPath},
         pos' = [pos EXCEPT ![t] = @ + 1],
         UNCHANGED <<sources, progress, staged, results, tables, pc, found, ticket, task, pool>>,
         errors' \in Nat, errors' >= errors, status' \in {status, "exit"}
  PROVE  IInv'
  <1>1. /\ WellTyped /\ Threading /\ ~IRPhase
        /\ pc[Main] \notin {"resolve", "postIR", "flow", "returned"}
        /\ Parsing
    BY StagingPhase DEF IInv
  <1>2. /\ SameRound
        /\ UNCHANGED <<phase, staged, results, ir, imported, pc, found, ticket, task, posted,
                       runs, finished>>
    BY DEF SameRound, sources, progress, tables, pool
  <1>3. TasksGrow(ParseKinds)
    BY <1>2 DEF TasksGrow
  <1>4. pos[t] \in Nat \ {0} /\ pos' \in [Threads -> Nat \ {0}] /\ pos'[t] = pos[t] + 1
        /\ \A u \in Threads : u # t => pos'[u] = pos[u]
    BY <1>1 DEF WellTyped, ThreadTypes
  <1>5. ThreadTypes' /\ Threading'
    BY <1>1, <1>2, <1>3, <1>4, StayKeepsThreading
  <1>6. ParseStep
    <2>1. (\E i \in DOMAIN results' : Empty(i)') => errors' > 0
      BY <1>2 DEF IInv, Reported, Empty, WellTyped, FileTypes
    <2>2. staged' \in SUBSET Paths
      BY <1>1, <1>2 DEF WellTyped, FileTypes
    <2>. QED
      BY <1>1, <1>2, <1>3, <2>1, <2>2 DEF ParseStep, ResultsGrow
  <1>7. Main \in Threads
    BY DEF Threads
  <1>8. /\ pc[t] = "stage" => t = Main /\ pos[t] \in DOMAIN InitialFiles
        /\ pc[t] # "stage" => pc[t] = "imports"
    BY <1>1, WantedType
  <1>9. InitialMet'
    <2>1. ASSUME NEW j \in DOMAIN InitialFiles, Past(j)'
          PROVE  Past(j) \/ FindFile(InitialFiles[j], NoPath) \in staged' \cup {NoPath}
      <3>0. j \in Nat
        BY <1>1, FilesOfRound
      <3>1. CASE pc[t] = "stage"
        <4>1. pc[Main] = "stage" /\ j < pos[t] + 1 /\ t = Main
          BY <3>1, <1>2, <1>4, <1>8, <2>1 DEF Past
        <4>2. j < pos[t] \/ j = pos[t]
          BY <4>1, <3>0, <1>4
        <4>. QED
          BY <4>1, <4>2, <1>2, <3>1 DEF Past, Wanted
      <3>2. CASE pc[t] # "stage"
        <4>1. pc[Main] \in {"stage", "postInitial"} => t # Main
          BY <3>2, <1>8
        <4>. QED
          BY <4>1, <1>2, <1>4, <1>7, <2>1 DEF Past
      <3>. QED
        BY <3>1, <3>2
    <2>. QED
      BY <1>1, <1>2, <2>1, InitialStays DEF Parsing
  <1>10. ImportsMet'
    <2>1. ASSUME pc'[t] \in {"imports", "postImport"},
                 NEW j \in DOMAIN Source(t)'.imports,
                 j < pos'[t], Source(t)'.imports[j].module = NoModule
          PROVE  FindFile(Source(t)'.imports[j].file, File(t)') \in staged' \cup {NoPath}
      <3>1. pc[t] \in {"imports", "postImport"} /\ pc[t] \in OnJob
        BY <1>2, <2>1 DEF OnJob
      <3>2. Source(t)' = Source(t) /\ File(t)' = File(t)
        BY <1>1, <1>2, <1>3, <3>1, SourceStays
      <3>3. j \in Nat
        BY <1>1, <2>1, <3>1, <3>2, JobOfThread
      <3>4. CASE j < pos[t]
        BY <1>1, <1>2, <2>1, <3>1, <3>2, <3>4 DEF Parsing, ImportsMet
      <3>5. CASE j = pos[t]
        BY <1>2, <1>8, <2>1, <3>1, <3>2, <3>5 DEF Wanted
      <3>. QED
        BY <1>4, <2>1, <3>3, <3>4, <3>5
    <2>. QED
      BY <1>1, <1>2, <1>3, <1>4, <2>1, ImportsStay DEF Parsing
  <1>11. Quiet
    <2>1. ASSUME NEW j \in DOMAIN CustomFiles
          PROVE  PastCustom(j)' <=> PastCustom(j)
      <3>0. /\ j \in Nat /\ j >= 1 /\ Len(InitialFiles) \in Nat
            /\ DOMAIN InitialFiles = 1 .. Len(InitialFiles)
        BY <1>1, FilesOfRound
      <3>1. InitialFiles' = InitialFiles
        BY <1>2, SameFiles
      <3>2. CASE pc[t] = "stage"
        BY <3>0, <3>1, <3>2, <1>2, <1>4, <1>8 DEF PastCustom, Past
      <3>3. CASE pc[t] # "stage"
        <4>1. pc[Main] \in {"stage", "postInitial"} => t # Main
          BY <3>3, <1>8
        <4>. QED
          BY <4>1, <3>1, <1>2, <1>4, <1>7 DEF PastCustom, Past
      <3>. QED
        BY <3>2, <3>3
    <2>2. Lexed' = Lexed
      BY <1>2 DEF Lexed
    <2>. QED
      BY <1>2, <2>1, <2>2 DEF Quiet
  <1>12. Parsing'
    BY <1>1, <1>9, <1>10, <1>11, QuietKeepsParsing
  <1>. QED
    BY <1>5, <1>6, <1>12, ParseStepKeeps

LEMMA FileNotFoundKeeps ==
  ASSUME IInv, NEW t \in Threads, FileNotFound(t)
  PROVE  IInv'
  <1>1. errors \in Nat
    BY DEF IInv, WellTyped, FileTypes
  <1>2. errors' \in Nat /\ errors' >= errors /\ status' \in {status, "exit"}
    BY <1>1 DEF FileNotFound, Raise
  <1>. QED
    BY <1>2, PassedOverKeeps DEF FileNotFound, Advance

LEMMA AlreadyStagedKeeps ==
  ASSUME IInv, NEW t \in Threads, AlreadyStaged(t)
  PROVE  IInv'
  <1>1. errors \in Nat
    BY DEF IInv, WellTyped, FileTypes
  <1>2. errors' \in Nat /\ errors' >= errors /\ status' \in {status, "exit"}
    BY <1>1 DEF AlreadyStaged
  <1>. QED
    BY <1>2, PassedOverKeeps DEF AlreadyStaged, Advance

(* What a thread asks for is in every closed set of files.                  *)
LEMMA WantedIsReached ==
  ASSUME IInv, Parsing, NEW t \in Threads, Staging(t), Wanted(t) # NoPath,
         NEW S \in SUBSET Paths, Closed(S)
  PROVE  Wanted(t) \in S
  <1>0. WellTyped /\ Threading
    BY DEF IInv
  <1>1. CASE pc[t] = "stage"
    <2>1. pos[t] \in DOMAIN InitialFiles
      BY <1>0, <1>1, WantedType
    <2>. QED
      BY <1>1, <2>1 DEF Wanted, Closed
  <1>2. CASE pc[t] # "stage"
    <2>1. /\ pc[t] = "imports" /\ pos[t] \in DOMAIN Source(t).imports
          /\ Source(t).imports[pos[t]].module = NoModule
          /\ pc[t] \in OnJob
      BY <1>0, <1>2, WantedType DEF OnJob
    <2>2. /\ Source(t).module # NoModule
          /\ ticket[t] \in Unfinished /\ Job(t).kind = "parse" /\ Job(t) = task[ticket[t] + 1]
          /\ File(t) = Job(t).path
      BY <1>0, <2>1 DEF Threading, KindAt, Job, File
    <2>3. /\ text[File(t)].readable
          /\ Job(t).custom => IsCustom(File(t))
          /\ ~Job(t).custom => File(t) \in staged
      BY <2>2 DEF Parsing, Provenance
    <2>4. ImportsIn(Source(t), File(t), S)
      <3>1. CASE Job(t).custom
        <4>1. PICK j \in DOMAIN CustomFiles : CustomFiles[j] = File(t)
          BY <2>3, <3>1 DEF IsCustom
        <4>2. Source(t) = CustomText[File(t)]
          BY <3>1 DEF Source
        <4>. QED
          BY <2>2, <2>3, <4>1, <4>2 DEF Closed
      <3>2. CASE ~Job(t).custom
        <4>1. Source(t) = text[File(t)] /\ File(t) \in S
          BY <2>3, <3>2 DEF Source, Parsing, OnlyReached
        <4>. QED
          BY <2>2, <2>3, <4>1 DEF Closed
      <3>. QED
        BY <3>1, <3>2
    <2>. QED
      BY <1>2, <2>1, <2>4 DEF ImportsIn, Wanted
  <1>. QED
    BY <1>1, <1>2

(* A path that no thread came across before: one more is staged, and its    *)
(* token is with the thread until the job is posted.                        *)
LEMMA StageNewKeeps ==
  ASSUME IInv, NEW t \in Threads, StageNew(t)
  PROVE  IInv'
  <1>0. PICK label \in {"postInitial", "postImport"} :
            label = (IF pc[t] = "stage" THEN "postInitial" ELSE "postImport")
    OBVIOUS
  <1>1. Staging(t) /\ WellTyped /\ Threading
    BY DEF StageNew, IInv
  <1>2. PICK q \in NoOrPath : q = Wanted(t)
    BY <1>1, WantedType
  <1>3. /\ Staging(t) /\ q = Wanted(t) /\ q \notin staged \cup {NoPath}
        /\ staged' = staged \cup {q}
        /\ found' = [found EXCEPT ![t] = q]
        /\ pos' = [pos EXCEPT ![t] = @ + 1]
        /\ pc' = [pc EXCEPT ![t] = label]
        /\ UNCHANGED <<status, errors, phase, results, ir, imported, ticket, task, posted, runs,
                       finished>>
        /\ SameRound
    BY <1>0, <1>2 DEF StageNew, Advance, Goto, SameRound, sources, progress, tables, pool
  <1>4. /\ WellTyped /\ Threading /\ ~IRPhase
        /\ pc[Main] \notin {"resolve", "postIR", "flow", "returned"}
        /\ Parsing
    BY <1>3, StagingPhase DEF IInv
  <1>5. /\ q \in NoOrPath
        /\ pc[t] = "stage" => t = Main /\ pos[t] \in DOMAIN InitialFiles
        /\ pc[t] # "stage" => pc[t] = "imports"
    BY <1>3, <1>4, WantedType
  <1>6. q \in Paths /\ Main \in Threads
    BY <1>3, <1>5 DEF NoOrPath, Threads
  <1>7. \A S \in SUBSET Paths : Closed(S) => q \in S
    BY <1>3, <1>4, WantedIsReached
  <1>8. pc[t] = "stage" => q = FindFile(InitialFiles[pos[t]], NoPath)
    BY <1>3 DEF Wanted
  <1>9. pc[t] # "stage" => q = FindFile(Source(t).imports[pos[t]].file, File(t))
    BY <1>3 DEF Wanted
  <1>10. TasksGrow(ParseKinds)
    BY <1>3 DEF TasksGrow
  <1>11. pos[t] \in Nat \ {0} /\ pos' \in [Threads -> Nat \ {0}] /\ pos'[t] = pos[t] + 1
        /\ \A u \in Threads : u # t => pos'[u] = pos[u]
    BY <1>3, <1>4 DEF WellTyped, ThreadTypes
  <1>12. /\ label \in {"postInitial", "postImport"}
         /\ label = "postInitial" <=> pc[t] = "stage"
    BY <1>0 DEF OnMain, OnJob
  <1>13. Moves(t, label, q)
    <2>1. label \in OnJob <=> pc[t] \in OnJob
      BY <1>0, <1>5 DEF OnJob
    <2>2. label \in OnMain => t = Main
      BY <1>5, <1>12 DEF OnMain
    <2>3. label \in OnJob => KindAt(label) = KindAt(pc[t])
      BY <1>5, <1>12 DEF OnJob, KindAt
    <2>4. label \in {"imports", "postImport"} => Source(t).module # NoModule
      BY <1>4, <1>5, <1>12 DEF Threading
    <2>. QED
      BY <1>3, <1>11, <1>12, <2>1, <2>2, <2>3, <2>4 DEF Moves
  <1>14. ThreadTypes' /\ Threading'
    <2>1. label \in OnMain \cup OnJob \cup {"idle"}
      BY DEF OnMain, OnJob
    <2>. QED
      BY <1>1, <1>10, <1>13, <2>1, MoveKeepsThreading
  <1>15. /\ pc'[t] = label /\ found'[t] = q /\ found[t] = NoPath
         /\ \A u \in Threads : u # t => pc'[u] = pc[u] /\ found'[u] = found[u]
    BY <1>3, <1>4, <1>5 DEF WellTyped, ThreadTypes, Threading
  <1>16. ParseStep
    <2>1. (\E i \in DOMAIN results' : Empty(i)') => errors' > 0
      BY <1>3 DEF IInv, Reported, Empty
    <2>2. staged' \in SUBSET Paths /\ errors \in Nat
      BY <1>3, <1>4, <1>6 DEF WellTyped, FileTypes
    <2>3. pc'[Main] \notin {"resolve", "postIR", "flow", "returned"}
      BY <1>4, <1>6, <1>12, <1>15
    <2>. QED
      BY <1>3, <1>4, <1>10, <2>1, <2>2, <2>3 DEF ParseStep, ResultsGrow
  <1>17. /\ Unfinished' = Unfinished /\ Lexed' = Lexed
         /\ InitialFiles' = InitialFiles /\ CustomFiles' = CustomFiles
         /\ text' = text
         /\ \A p : IsCustom(p)' <=> IsCustom(p)
    <2>1. {u \in Threads : pc'[u] = "lexed"} = {u \in Threads : pc[u] = "lexed"}
      BY <1>5, <1>12, <1>15
    <2>2. Lexed' = Lexed
      BY <1>3, <2>1 DEF Lexed
    <2>. QED
      BY <1>3, <2>2, SameFiles DEF Unfinished, SameRound
  <1>18. \A p : /\ ToLex(p)' = ToLex(p) /\ ResultsOf(p)' = ResultsOf(p)
                /\ ToParseCustom(p)' = ToParseCustom(p)
                /\ ToParse(p)' = ToParse(p)
    BY <1>3, <1>17 DEF ToLex, ToParse, ToParseCustom, ResultsOf
  <1>19. /\ \A p \in Paths : p # q => ToPost(p)' = ToPost(p)
         /\ ToPost(q)' = ToPost(q) \cup {t} /\ t \notin ToPost(q)
    <2>1. \A p \in Paths : p # NoPath
      BY PipelineAssumption
    <2>. QED
      BY <1>6, <1>15, <2>1 DEF ToPost
  <1>20. \A j \in DOMAIN CustomFiles : PastCustom(j)' <=> PastCustom(j)
    <2>. SUFFICES ASSUME NEW j \in DOMAIN CustomFiles
                  PROVE  PastCustom(j)' <=> PastCustom(j)
      OBVIOUS
    <2>0. /\ j \in Nat /\ j >= 1 /\ Len(InitialFiles) \in Nat
          /\ DOMAIN InitialFiles = 1 .. Len(InitialFiles)
      BY <1>4, FilesOfRound
    <2>1. CASE t = Main
      <3>1. pc[Main] = "stage" \/ pc[Main] = "imports"
        BY <2>1, <1>5
      <3>2. CASE pc[Main] = "imports"
        BY <2>1, <3>2, <1>0, <1>15, <1>17 DEF PastCustom, Past
      <3>3. CASE pc[Main] = "stage"
        <4>1. pos[Main] \in Nat /\ pos[Main] <= Len(InitialFiles) /\ pos'[Main] = pos[Main] + 1
          BY <2>0, <2>1, <3>3, <1>5, <1>11
        <4>. QED
          BY <2>0, <2>1, <3>3, <4>1, <1>0, <1>15, <1>17 DEF PastCustom, Past
      <3>. QED
        BY <3>1, <3>2, <3>3
    <2>2. CASE t # Main
      BY <2>2, <1>6, <1>11, <1>15, <1>17 DEF PastCustom, Past
    <2>. QED
      BY <2>1, <2>2
  <1>21. \A p \in Paths : Expected(p)' = Expected(p)
    BY <1>17, <1>20 DEF Expected
  <1>22. Provenance'
    BY <1>3, <1>4, <1>15, <1>17 DEF Parsing, Provenance
  <1>23. Balance'
    <2>. SUFFICES ASSUME NEW p \in Paths, text[p].readable
                  PROVE  Cardinality(ResultsOf(p)') + Cardinality(ToParse(p)')
                           + Cardinality(ToParseCustom(p)') + Cardinality(ToLex(p)')
                           + Cardinality(ToPost(p)')
                         = Cardinality(Expected(p)') + (IF p \in staged' THEN 1 ELSE 0)
      BY <1>17 DEF Balance
    <2>1. Cardinality(ResultsOf(p)) + Cardinality(ToParse(p))
            + Cardinality(ToParseCustom(p)) + Cardinality(ToLex(p)) + Cardinality(ToPost(p))
          = Cardinality(Expected(p)) + (IF p \in staged THEN 1 ELSE 0)
      BY <1>4 DEF Parsing, Balance
    <2>2. CASE p # q
      BY <2>1, <2>2, <1>3, <1>18, <1>19, <1>21
    <2>3. CASE p = q
      <3>1. Cardinality(ToPost(p)') = Cardinality(ToPost(p)) + 1
        BY <2>3, <1>4, <1>19, TokensFinite, OneMore
      <3>2. p \in staged' /\ p \notin staged
        BY <2>3, <1>3
      <3>3. /\ ToLex(p)' = ToLex(p) /\ ResultsOf(p)' = ResultsOf(p)
            /\ ToParseCustom(p)' = ToParseCustom(p)
            /\ ToParse(p)' = ToParse(p)
            /\ Expected(p)' = Expected(p)
        BY <1>18, <1>21
      <3>. QED
        <4>1. /\ Cardinality(ResultsOf(p)) \in Nat /\ Cardinality(Expected(p)) \in Nat
              /\ Cardinality(ToParse(p)) \in Nat /\ Cardinality(ToParseCustom(p)) \in Nat
              /\ Cardinality(ToLex(p)) \in Nat /\ Cardinality(ToPost(p)) \in Nat
          BY <1>4, TokensFinite
        <4>2. Cardinality(ResultsOf(p)) + Cardinality(ToParse(p))
                + Cardinality(ToParseCustom(p)) + Cardinality(ToLex(p)) + Cardinality(ToPost(p))
              = Cardinality(Expected(p))
          BY <2>1, <3>2, <4>1
        <4>. QED
          BY <3>1, <3>2, <3>3, <4>1, <4>2
    <2>. QED
      BY <2>2, <2>3
  <1>24. \A p, s : HasResult(p, s) => ResultIn(results', staged', p, s)
    <2>1. results \in Seq(Result) /\ ResultsGrow(results, results') /\ staged \subseteq staged'
      BY <1>3, <1>4 DEF WellTyped, FileTypes, ResultsGrow
    <2>. QED
      BY <2>1, ResultInStays DEF HasResult
  <1>25. StagedCovered'
    <2>. SUFFICES ASSUME NEW p \in staged', text[p].readable
                  PROVE  \/ ToPost(p)' # {} \/ ToLex(p)' # {} \/ ToParse(p)' # {}
                         \/ ResultIn(results', staged', p, text[p])
      BY <1>17 DEF StagedCovered, HasResult
    <2>1. CASE p = q
      BY <2>1, <1>19, <1>6
    <2>2. CASE p # q
      <3>1. p \in staged /\ p \in Paths
        BY <2>2, <1>3, <1>4 DEF WellTyped, FileTypes
      <3>. QED
        BY <2>2, <3>1, <1>4, <1>18, <1>19, <1>24 DEF Parsing, StagedCovered
    <2>. QED
      BY <2>1, <2>2
  <1>26. CustomCovered'
    BY <1>4, <1>17, <1>18, <1>20, <1>24 DEF Parsing, CustomCovered, HasResult
  <1>27. InitialMet'
    <2>1. ASSUME NEW j \in DOMAIN InitialFiles, Past(j)'
          PROVE  Past(j) \/ FindFile(InitialFiles[j], NoPath) \in staged' \cup {NoPath}
      <3>0. j \in Nat
        BY <1>4, FilesOfRound
      <3>1. CASE pc[t] = "stage"
        <4>1. pc[Main] = "stage" /\ j < pos[t] + 1 /\ t = Main
          BY <3>1, <1>5, <1>11, <1>12, <1>15, <2>1 DEF Past
        <4>2. j < pos[t] \/ j = pos[t]
          BY <4>1, <3>0, <1>11
        <4>. QED
          BY <4>1, <4>2, <1>3, <1>8, <3>1 DEF Past
      <3>2. CASE pc[t] # "stage"
        <4>1. pc[Main] \in {"stage", "postInitial"} => t # Main
          BY <3>2, <1>5
        <4>. QED
          BY <4>1, <1>6, <1>11, <1>15, <2>1 DEF Past
      <3>. QED
        BY <3>1, <3>2
    <2>. QED
      BY <1>3, <1>4, <2>1, InitialStays DEF Parsing
  <1>28. ImportsMet'
    <2>1. ASSUME pc'[t] \in {"imports", "postImport"},
                 NEW j \in DOMAIN Source(t)'.imports,
                 j < pos'[t], Source(t)'.imports[j].module = NoModule
          PROVE  FindFile(Source(t)'.imports[j].file, File(t)') \in staged' \cup {NoPath}
      <3>1. pc[t] = "imports" /\ pc[t] \in OnJob
        BY <1>5, <1>12, <1>15, <2>1 DEF OnJob
      <3>2. Source(t)' = Source(t) /\ File(t)' = File(t)
        BY <1>3, <1>4, <1>10, <3>1, SourceStays
      <3>3. j \in Nat
        BY <1>4, <2>1, <3>1, <3>2, JobOfThread
      <3>4. CASE j < pos[t]
        BY <1>3, <1>4, <2>1, <3>1, <3>2, <3>4 DEF Parsing, ImportsMet
      <3>5. CASE j = pos[t]
        BY <1>3, <1>9, <3>1, <3>2, <3>5
      <3>. QED
        BY <1>11, <2>1, <3>3, <3>4, <3>5
    <2>. QED
      BY <1>3, <1>4, <1>10, <1>11, <1>15, <2>1, ImportsStay DEF Parsing
  <1>29. Genuine' /\ OnlyReached'
    <2>1. Genuine'
      BY <1>3, <1>4, GenuineStays DEF Parsing
    <2>. QED
      BY <1>3, <1>4, <1>7, <2>1, SameClosed DEF Parsing, OnlyReached
  <1>30. Parsing'
    BY <1>22, <1>23, <1>25, <1>26, <1>27, <1>28, <1>29 DEF Parsing
  <1>. QED
    BY <1>14, <1>16, <1>30, ParseStepKeeps

(* A job is posted.                                                         *)
LEMMA PostAdds ==
  ASSUME WellTyped, Threading, NEW kind \in {"lex", "parse", "ir"}, NEW path \in Paths,
         NEW custom \in BOOLEAN, Post(kind, path, custom), NEW kinds, kind \in kinds
  PROVE  /\ TasksGrow(kinds)
         /\ posted' = posted + 1 /\ UNCHANGED <<runs, finished>>
         /\ posted \in Nat /\ posted \notin Unfinished /\ posted \notin Lexed
         /\ Unfinished' = Unfinished \cup {posted}
         /\ \A k \in Unfinished : task'[k + 1] = task[k + 1]
         /\ task'[posted + 1].kind = kind
         /\ task'[posted + 1].path = path
         /\ task'[posted + 1].custom = custom
  <1>. DEFINE job == [kind |-> kind, path |-> path, custom |-> custom]
  <1>1. /\ posted < JobLimit /\ posted' = posted + 1
        /\ UNCHANGED <<runs, finished>> /\ task' = Append(task, job)
    BY DEF Post, Pool!Post
  <1>2. job \in Jobs /\ job.kind = kind /\ job.path = path /\ job.custom = custom
    BY DEF Jobs
  <1>. HIDE DEF job
  <1>3. task \in Seq(Jobs) /\ posted = Len(task) /\ posted \in Nat
        /\ finished \in SUBSET (0 .. posted - 1)
    BY DEF WellTyped, ThreadTypes
  <1>4. TasksGrow(kinds)
    BY <1>1, <1>2 DEF TasksGrow
  <1>5. /\ \A i \in 1 .. Len(task) : task'[i] = task[i]
        /\ task'[posted + 1] = job
    BY <1>1, <1>2, <1>3
  <1>6. Unfinished' = Unfinished \cup {posted} /\ posted \notin Unfinished
    <2>1. posted \notin finished
      BY <1>3
    <2>. QED
      BY <1>1, <1>3, <2>1 DEF Unfinished
  <1>7. \A k \in Unfinished : k + 1 \in 1 .. Len(task)
    BY <1>3 DEF Unfinished
  <1>8. posted \notin Lexed
    <2>1. \A t \in Threads : pc[t] = "lexed" => ticket[t] \in Unfinished
      BY DEF Threading, OnJob
    <2>. QED
      BY <1>6, <2>1 DEF Lexed
  <1>. QED
    BY <1>1, <1>2, <1>3, <1>4, <1>5, <1>6, <1>7, <1>8

(* The token of the file goes from the thread to the job it posts.          *)
LEMMA PostLexFileKeeps ==
  ASSUME IInv, NEW t \in Threads, PostLexFile(t)
  PROVE  IInv'
  <1>1. /\ pc[t] \in {"postInitial", "postImport"} /\ WellTyped /\ Threading
        /\ found[t] # NoPath /\ found[t] \in NoOrPath /\ Main \in Threads
    BY DEF PostLexFile, IInv, Threading, WellTyped, ThreadTypes, Threads
  <1>2. PICK q \in Paths : q = found[t]
    BY <1>1 DEF NoOrPath
  <1>3. PICK label \in {"stage", "imports"} :
            label = (IF pc[t] = "postInitial" THEN "stage" ELSE "imports")
    OBVIOUS
  <1>4. /\ Post("lex", q, FALSE)
        /\ found' = [found EXCEPT ![t] = NoPath]
        /\ pc' = [pc EXCEPT ![t] = label]
        /\ UNCHANGED <<status, errors, phase, staged, results, ir, imported, pos, ticket>>
        /\ SameRound
    BY <1>2, <1>3 DEF PostLexFile, Goto, SameRound, sources, progress, tables
  <1>5. /\ TasksGrow(ParseKinds)
        /\ posted' = posted + 1 /\ UNCHANGED <<runs, finished>>
        /\ posted \in Nat /\ posted \notin Unfinished /\ posted \notin Lexed
        /\ Unfinished' = Unfinished \cup {posted}
        /\ \A k \in Unfinished : task'[k + 1] = task[k + 1]
        /\ task'[posted + 1].kind = "lex"
        /\ task'[posted + 1].path = q
        /\ task'[posted + 1].custom = FALSE
    <2>1. "lex" \in ParseKinds
      BY DEF ParseKinds
    <2>. QED
      BY <1>1, <1>4, <2>1, PostAdds
  <1>6. /\ ~IRPhase /\ pc[Main] \notin {"resolve", "postIR", "flow", "returned"}
        /\ Parsing
    BY <1>1, StagingPhase DEF IInv
  <1>7. Moves(t, label, NoPath)
    <2>1. label \in OnJob <=> pc[t] \in OnJob
      BY <1>1, <1>3 DEF OnJob
    <2>2. label \in OnMain => t = Main
      BY <1>1, <1>3 DEF OnMain, Threading
    <2>3. label \in OnJob => KindAt(label) = KindAt(pc[t])
      BY <1>1, <1>3 DEF OnJob, KindAt
    <2>4. label \in {"imports", "postImport"} => Source(t).module # NoModule
      BY <1>1, <1>3 DEF Threading
    <2>. QED
      BY <1>1, <1>3, <1>4, <1>5, <2>1, <2>2, <2>3, <2>4 DEF Moves, WellTyped, ThreadTypes
  <1>8. ThreadTypes' /\ Threading'
    <2>1. label \in OnMain \cup OnJob \cup {"idle"} /\ NoPath \in NoOrPath
      BY DEF OnMain, OnJob, NoOrPath
    <2>. QED
      BY <1>1, <1>5, <1>7, <2>1, MoveKeepsThreading
  <1>9. /\ pc'[t] = label /\ found'[t] = NoPath
        /\ \A u \in Threads : u # t => pc'[u] = pc[u] /\ found'[u] = found[u]
    BY <1>1, <1>4 DEF WellTyped, ThreadTypes
  <1>10. ParseStep
    <2>1. (\E i \in DOMAIN results' : Empty(i)') => errors' > 0
      BY <1>4 DEF IInv, Reported, Empty
    <2>2. staged' \in SUBSET Paths /\ errors \in Nat
      BY <1>1, <1>4 DEF WellTyped, FileTypes
    <2>3. pc'[Main] \notin {"resolve", "postIR", "flow", "returned"}
      BY <1>1, <1>3, <1>6, <1>9
    <2>. QED
      BY <1>4, <1>5, <1>6, <2>1, <2>2, <2>3 DEF ParseStep, ResultsGrow
  <1>11. /\ Lexed' = Lexed
         /\ InitialFiles' = InitialFiles /\ CustomFiles' = CustomFiles
         /\ text' = text
         /\ \A p : IsCustom(p)' <=> IsCustom(p)
    <2>1. {u \in Threads : pc'[u] = "lexed"} = {u \in Threads : pc[u] = "lexed"}
      BY <1>1, <1>3, <1>9
    <2>2. Lexed' = Lexed
      BY <1>4, <2>1 DEF Lexed
    <2>. QED
      BY <1>4, <2>2, SameFiles DEF SameRound
  <1>12. \A p : /\ ResultsOf(p)' = ResultsOf(p)
                /\ ToParse(p)' = ToParse(p)
                /\ ToParseCustom(p)' = ToParseCustom(p)
    BY <1>4, <1>5 DEF ToParse, ToParseCustom, ResultsOf
  <1>13. /\ \A p \in Paths : p # q => ToPost(p)' = ToPost(p) /\ ToLex(p)' = ToLex(p)
         /\ ToPost(q)' = ToPost(q) \ {t} /\ t \in ToPost(q)
         /\ ToLex(q)' = ToLex(q) \cup {posted} /\ posted \notin ToLex(q)
    <2>1. \A p \in Paths : p # NoPath
      BY PipelineAssumption
    <2>2. /\ \A p \in Paths : p # q => ToPost(p)' = ToPost(p)
          /\ ToPost(q)' = ToPost(q) \ {t} /\ t \in ToPost(q)
      BY <1>2, <1>9, <2>1 DEF ToPost
    <2>3. /\ \A p \in Paths : p # q => ToLex(p)' = ToLex(p)
          /\ ToLex(q)' = ToLex(q) \cup {posted} /\ posted \notin ToLex(q)
      BY <1>5, <1>11 DEF ToLex
    <2>. QED
      BY <2>2, <2>3
  <1>14. \A j \in Nat : Past(j)' <=> Past(j)
    <2>1. pc'[Main] \in {"stage", "postInitial"} <=> pc[Main] \in {"stage", "postInitial"}
      BY <1>1, <1>3, <1>9
    <2>. QED
      BY <1>4, <2>1 DEF Past
  <1>15. \A j \in DOMAIN CustomFiles : PastCustom(j)' <=> PastCustom(j)
    <2>1. \A j \in DOMAIN CustomFiles : Len(InitialFiles) + j \in Nat
      BY <1>1, FilesOfRound
    <2>. QED
      BY <1>11, <1>14, <2>1 DEF PastCustom
  <1>16. \A p \in Paths : Expected(p)' = Expected(p)
    BY <1>11, <1>15 DEF Expected
  <1>17. Provenance'
    <2>1. \A u \in Threads : found'[u] # NoPath => found'[u] \in staged'
      BY <1>4, <1>6, <1>9 DEF Parsing, Provenance
    <2>2. q \in staged
      BY <1>1, <1>2, <1>6 DEF Parsing, Provenance
    <2>. QED
      BY <2>1, <2>2, <1>4, <1>5, <1>6, <1>11 DEF Parsing, Provenance
  <1>18. Balance'
    <2>. SUFFICES ASSUME NEW p \in Paths, text[p].readable
                  PROVE  Cardinality(ResultsOf(p)') + Cardinality(ToParse(p)')
                           + Cardinality(ToParseCustom(p)') + Cardinality(ToLex(p)')
                           + Cardinality(ToPost(p)')
                         = Cardinality(Expected(p)') + (IF p \in staged' THEN 1 ELSE 0)
      BY <1>11 DEF Balance
    <2>1. Cardinality(ResultsOf(p)) + Cardinality(ToParse(p))
            + Cardinality(ToParseCustom(p)) + Cardinality(ToLex(p)) + Cardinality(ToPost(p))
          = Cardinality(Expected(p)) + (IF p \in staged THEN 1 ELSE 0)
      BY <1>6 DEF Parsing, Balance
    <2>2. CASE p # q
      BY <2>1, <2>2, <1>4, <1>12, <1>13, <1>16
    <2>3. CASE p = q
      <3>1. /\ Cardinality(ToPost(p)') = Cardinality(ToPost(p)) - 1
            /\ Cardinality(ToLex(p)') = Cardinality(ToLex(p)) + 1
        BY <2>3, <1>1, <1>13, TokensFinite, OneMore, OneLess
      <3>2. /\ ToParse(p)' = ToParse(p) /\ ResultsOf(p)' = ResultsOf(p)
            /\ ToParseCustom(p)' = ToParseCustom(p) /\ Expected(p)' = Expected(p)
            /\ staged' = staged
        BY <1>4, <1>12, <1>16
      <3>. QED
        BY <2>1, <3>1, <3>2, <1>1, TokensFinite
    <2>. QED
      BY <2>2, <2>3
  <1>19. \A p, s : HasResult(p, s) => ResultIn(results', staged', p, s)
    BY <1>4 DEF HasResult
  <1>20. StagedCovered'
    <2>. SUFFICES ASSUME NEW p \in staged', text[p].readable
                  PROVE  \/ ToPost(p)' # {} \/ ToLex(p)' # {} \/ ToParse(p)' # {}
                         \/ ResultIn(results', staged', p, text[p])
      BY <1>11 DEF StagedCovered, HasResult
    <2>1. CASE p = q
      BY <2>1, <1>13
    <2>2. CASE p # q
      <3>1. p \in staged /\ p \in Paths
        BY <1>1, <1>4 DEF WellTyped, FileTypes
      <3>. QED
        BY <2>2, <3>1, <1>6, <1>12, <1>13, <1>19 DEF Parsing, StagedCovered
    <2>. QED
      BY <2>1, <2>2
  <1>21. CustomCovered'
    BY <1>6, <1>11, <1>12, <1>15, <1>19 DEF Parsing, CustomCovered, HasResult
  <1>22. InitialMet'
    <2>1. \A j \in DOMAIN InitialFiles : Past(j)' => Past(j)
      BY <1>1, <1>14, FilesOfRound
    <2>. QED
      BY <1>4, <1>6, <2>1, InitialStays DEF Parsing
  <1>23. ImportsMet'
    <2>1. ASSUME pc'[t] \in {"imports", "postImport"},
                 NEW j \in DOMAIN Source(t)'.imports,
                 j < pos'[t], Source(t)'.imports[j].module = NoModule
          PROVE  FindFile(Source(t)'.imports[j].file, File(t)') \in staged' \cup {NoPath}
      <3>1. pc[t] = "postImport" /\ pc[t] \in OnJob
        BY <1>1, <1>3, <1>9, <2>1 DEF OnJob
      <3>2. Source(t)' = Source(t) /\ File(t)' = File(t)
        BY <1>1, <1>4, <1>5, <3>1, SourceStays
      <3>. QED
        BY <1>4, <1>6, <2>1, <3>1, <3>2 DEF Parsing, ImportsMet
    <2>. QED
      BY <1>1, <1>4, <1>5, <1>6, <1>9, <2>1, ImportsStay DEF Parsing
  <1>24. Genuine' /\ OnlyReached'
    BY <1>4, <1>6, GenuineStays, SameReach DEF Parsing
  <1>25. Parsing'
    BY <1>17, <1>18, <1>20, <1>21, <1>22, <1>23, <1>24 DEF Parsing
  <1>. QED
    BY <1>8, <1>10, <1>25, ParseStepKeeps

(* The main thread comes to the custom files.                               *)
LEMMA CustomsPhase ==
  ASSUME IInv, Customs
  PROVE  /\ WellTyped /\ Threading /\ Parsing /\ ~IRPhase
         /\ Main \in Threads /\ pc[Main] = "stage" /\ found[Main] = NoPath
         /\ InitialFiles \in Seq(Names) /\ CustomFiles \in Seq(Paths)
         /\ pos[Main] \in Nat /\ pos[Main] > Len(InitialFiles)
         /\ \A j \in DOMAIN InitialFiles : j \in Nat /\ j < pos[Main] /\ Past(j)
  <1>1. WellTyped /\ Threading /\ Main \in Threads /\ pc[Main] = "stage"
        /\ pos[Main] > Len(InitialFiles)
    BY DEF IInv, Customs, Threads
  <1>2. ~IRPhase /\ Parsing
    BY <1>1 DEF IInv, Waited, IRPhase
  <1>3. InitialFiles \in Seq(Names) /\ CustomFiles \in Seq(Paths)
    BY <1>1, FilesOfRound
  <1>4. pos[Main] \in Nat /\ found[Main] = NoPath
    BY <1>1 DEF WellTyped, ThreadTypes, Threading
  <1>5. \A j \in DOMAIN InitialFiles : j \in Nat /\ j < pos[Main]
    BY <1>1, <1>3, <1>4
  <1>. QED
    BY <1>1, <1>2, <1>3, <1>4, <1>5 DEF Past

LEMMA CustomFileMissingKeeps ==
  ASSUME IInv, CustomFileMissing
  PROVE  IInv'
  <1>1. /\ WellTyped /\ Threading /\ Parsing /\ ~IRPhase
        /\ Main \in Threads /\ pc[Main] = "stage" /\ found[Main] = NoPath
        /\ InitialFiles \in Seq(Names) /\ CustomFiles \in Seq(Paths)
        /\ pos[Main] \in Nat /\ pos[Main] > Len(InitialFiles)
        /\ \A j \in DOMAIN InitialFiles : j \in Nat /\ j < pos[Main] /\ Past(j)
    BY CustomsPhase DEF CustomFileMissing
  <1>2. /\ ~text[CustomFiles[pos[Main] - Len(InitialFiles)]].readable
        /\ errors' = errors + 1
        /\ pos' = [pos EXCEPT ![Main] = @ + 1]
        /\ UNCHANGED <<status, phase, staged, results, ir, imported, pc, found, ticket, task,
                       posted, runs, finished>>
        /\ SameRound
    BY DEF CustomFileMissing, Custom, Advance, SameRound, sources, progress, tables, pool
  <1>3. /\ TasksGrow(ParseKinds) /\ pos' \in [Threads -> Nat \ {0}]
        /\ pos'[Main] = pos[Main] + 1
        /\ \A u \in Threads : u # Main => pos'[u] = pos[u]
        /\ errors \in Nat /\ staged \in SUBSET Paths
    BY <1>1, <1>2 DEF TasksGrow, WellTyped, FileTypes, ThreadTypes
  <1>4. ThreadTypes' /\ Threading'
    BY <1>1, <1>2, <1>3, StayKeepsThreading
  <1>5. ParseStep
    BY <1>1, <1>2, <1>3 DEF ParseStep, ResultsGrow
  <1>6. Quiet
    <2>1. ASSUME NEW j \in DOMAIN CustomFiles, text[CustomFiles[j]].readable
          PROVE  PastCustom(j)' <=> PastCustom(j)
      <3>1. j \in Nat /\ Len(InitialFiles) \in Nat /\ j # pos[Main] - Len(InitialFiles)
        BY <1>1, <1>2, <2>1
      <3>2. Len(InitialFiles) + j < pos[Main] + 1 <=> Len(InitialFiles) + j < pos[Main]
        BY <1>1, <3>1
      <3>3. InitialFiles' = InitialFiles
        BY <1>2, SameFiles
      <3>. QED
        BY <1>1, <1>2, <1>3, <3>2, <3>3 DEF PastCustom, Past
    <2>2. Lexed' = Lexed
      BY <1>2 DEF Lexed
    <2>. QED
      BY <1>2, <2>1, <2>2 DEF Quiet
  <1>7. InitialMet'
    BY <1>1, <1>2, InitialStays DEF Parsing
  <1>8. ImportsMet'
    BY <1>1, <1>2, <1>3, ImportsStay DEF Parsing
  <1>9. Parsing'
    BY <1>1, <1>6, <1>7, <1>8, QuietKeepsParsing
  <1>. QED
    BY <1>4, <1>5, <1>9, ParseStepKeeps

(* A custom file is given to the parser once for each place in the list.    *)
LEMMA LexCustomFileKeeps ==
  ASSUME IInv, LexCustomFile
  PROVE  IInv'
  <1>1. /\ WellTyped /\ Threading /\ Parsing /\ ~IRPhase
        /\ Main \in Threads /\ pc[Main] = "stage" /\ found[Main] = NoPath
        /\ InitialFiles \in Seq(Names) /\ CustomFiles \in Seq(Paths)
        /\ pos[Main] \in Nat /\ pos[Main] > Len(InitialFiles)
        /\ \A j \in DOMAIN InitialFiles : j \in Nat /\ j < pos[Main] /\ Past(j)
    BY CustomsPhase DEF LexCustomFile
  <1>2. PICK here \in DOMAIN CustomFiles : here = pos[Main] - Len(InitialFiles)
    <2>1. pos[Main] <= Len(InitialFiles) + Len(CustomFiles)
      BY DEF LexCustomFile
    <2>. QED
      BY <1>1, <2>1
  <1>3. PICK q \in Paths : q = CustomFiles[here]
    BY <1>1
  <1>4. /\ text[q].readable
        /\ Post("parse", q, TRUE)
        /\ pos' = [pos EXCEPT ![Main] = @ + 1]
        /\ UNCHANGED <<status, errors, phase, staged, results, ir, imported, pc, found, ticket>>
        /\ SameRound
    BY <1>2, <1>3 DEF LexCustomFile, Custom, Advance, SameRound, sources, progress, tables
  <1>5. /\ TasksGrow(ParseKinds)
        /\ posted' = posted + 1 /\ UNCHANGED <<runs, finished>>
        /\ posted \in Nat /\ posted \notin Unfinished /\ posted \notin Lexed
        /\ Unfinished' = Unfinished \cup {posted}
        /\ \A k \in Unfinished : task'[k + 1] = task[k + 1]
        /\ task'[posted + 1].kind = "parse"
        /\ task'[posted + 1].path = q
        /\ task'[posted + 1].custom = TRUE
    <2>1. "parse" \in ParseKinds
      BY DEF ParseKinds
    <2>. QED
      BY <1>1, <1>4, <2>1, PostAdds
  <1>6. /\ pos' \in [Threads -> Nat \ {0}] /\ pos'[Main] = pos[Main] + 1
        /\ \A u \in Threads : u # Main => pos'[u] = pos[u]
        /\ errors \in Nat /\ staged \in SUBSET Paths
    BY SMTT(60), <1>1, <1>4 DEF WellTyped, FileTypes, ThreadTypes
  <1>7. ThreadTypes' /\ Threading'
    BY <1>1, <1>4, <1>5, <1>6, StayKeepsThreading
  <1>8. ParseStep
    <2>1. (\E i \in DOMAIN results' : Empty(i)') => errors' > 0
      BY <1>4 DEF IInv, Reported, Empty
    <2>. QED
      BY <1>1, <1>4, <1>5, <1>6, <2>1 DEF ParseStep, ResultsGrow
  <1>9. /\ InitialFiles' = InitialFiles /\ CustomFiles' = CustomFiles
        /\ text' = text /\ Lexed' = Lexed
        /\ \A p : IsCustom(p)' <=> IsCustom(p)
    BY <1>4, SameFiles DEF SameRound, Lexed
  <1>10. \A p : /\ ResultsOf(p)' = ResultsOf(p) /\ ToPost(p)' = ToPost(p)
                /\ ToLex(p)' = ToLex(p) /\ ToParse(p)' = ToParse(p)
    BY <1>4, <1>5, <1>9 DEF ToPost, ToLex, ToParse, ResultsOf
  <1>11. /\ \A p \in Paths : p # q => ToParseCustom(p)' = ToParseCustom(p)
         /\ ToParseCustom(q)' = ToParseCustom(q) \cup {posted}
         /\ posted \notin ToParseCustom(q)
    BY <1>5 DEF ToParseCustom
  <1>12. ASSUME NEW j \in DOMAIN CustomFiles
         PROVE  PastCustom(j)' <=> PastCustom(j) \/ j = here
    <2>1. j \in Nat /\ Len(InitialFiles) \in Nat /\ here \in Nat
      BY <1>1
    <2>2. Len(InitialFiles) + j < pos[Main] + 1
            <=> Len(InitialFiles) + j < pos[Main] \/ j = here
      BY <1>1, <1>2, <2>1
    <2>. QED
      BY <1>1, <1>4, <1>6, <1>9, <2>2 DEF PastCustom, Past
  <1>13. ~PastCustom(here)
    BY <1>1, <1>2 DEF PastCustom, Past
  <1>14. /\ \A p \in Paths : p # q => Expected(p)' = Expected(p)
         /\ Expected(q)' = Expected(q) \cup {here} /\ here \notin Expected(q)
    BY <1>3, <1>9, <1>12, <1>13 DEF Expected
  <1>15. Provenance'
    <2>1. IsCustom(q)
      BY <1>3 DEF IsCustom
    <2>. QED
      BY <2>1, <1>1, <1>4, <1>5, <1>9 DEF Parsing, Provenance
  <1>16. Balance'
    <2>. SUFFICES ASSUME NEW p \in Paths, text[p].readable
                  PROVE  Cardinality(ResultsOf(p)') + Cardinality(ToParse(p)')
                           + Cardinality(ToParseCustom(p)') + Cardinality(ToLex(p)')
                           + Cardinality(ToPost(p)')
                         = Cardinality(Expected(p)') + (IF p \in staged' THEN 1 ELSE 0)
      BY <1>9 DEF Balance
    <2>1. Cardinality(ResultsOf(p)) + Cardinality(ToParse(p))
            + Cardinality(ToParseCustom(p)) + Cardinality(ToLex(p)) + Cardinality(ToPost(p))
          = Cardinality(Expected(p)) + (IF p \in staged THEN 1 ELSE 0)
      BY <1>1 DEF Parsing, Balance
    <2>2. CASE p # q
      BY <2>1, <2>2, <1>4, <1>10, <1>11, <1>14
    <2>3. CASE p = q
      <3>1. /\ Cardinality(ToParseCustom(p)') = Cardinality(ToParseCustom(p)) + 1
            /\ Cardinality(Expected(p)') = Cardinality(Expected(p)) + 1
        BY <2>3, <1>1, <1>11, <1>14, TokensFinite, OneMore
      <3>2. /\ ToParse(p)' = ToParse(p) /\ ResultsOf(p)' = ResultsOf(p)
            /\ ToLex(p)' = ToLex(p) /\ ToPost(p)' = ToPost(p)
            /\ staged' = staged
        BY <1>4, <1>10
      <3>3. /\ Cardinality(ResultsOf(p)) \in Nat /\ Cardinality(Expected(p)) \in Nat
            /\ Cardinality(ToParse(p)) \in Nat /\ Cardinality(ToParseCustom(p)) \in Nat
            /\ Cardinality(ToLex(p)) \in Nat /\ Cardinality(ToPost(p)) \in Nat
        BY <1>1, TokensFinite
      <3>. QED
        BY <2>1, <3>1, <3>2, <3>3
    <2>. QED
      BY <2>2, <2>3
  <1>17. \A p, s : HasResult(p, s) => ResultIn(results', staged', p, s)
    BY <1>4 DEF HasResult
  <1>18. StagedCovered'
    BY <1>1, <1>4, <1>9, <1>10, <1>17 DEF Parsing, StagedCovered, HasResult
  <1>19. CustomCovered'
    <2>. SUFFICES ASSUME NEW j \in DOMAIN CustomFiles, text[CustomFiles[j]].readable,
                         PastCustom(j)'
                  PROVE  \/ ToParseCustom(CustomFiles[j])' # {}
                         \/ ResultIn(results', staged', CustomFiles[j],
                                     CustomText[CustomFiles[j]])
      BY <1>9 DEF CustomCovered, HasResult
    <2>1. CASE CustomFiles[j] = q
      BY <2>1, <1>9, <1>11
    <2>2. CASE CustomFiles[j] # q
      <3>1. PastCustom(j) /\ CustomFiles[j] \in Paths
        BY <2>2, <1>1, <1>3, <1>12
      <3>2. ToParseCustom(CustomFiles[j])' = ToParseCustom(CustomFiles[j])
        BY <2>2, <3>1, <1>9, <1>11
      <3>. QED
        BY <3>1, <3>2, <1>1, <1>17 DEF Parsing, CustomCovered
    <2>. QED
      BY <2>1, <2>2
  <1>20. InitialMet'
    BY <1>1, <1>4, InitialStays DEF Parsing
  <1>21. ImportsMet'
    BY <1>1, <1>4, <1>5, <1>6, ImportsStay DEF Parsing
  <1>22. Genuine' /\ OnlyReached'
    BY <1>1, <1>4, GenuineStays, SameReach DEF Parsing
  <1>23. Parsing'
    BY <1>15, <1>16, <1>18, <1>19, <1>20, <1>21, <1>22 DEF Parsing
  <1>. QED
    BY <1>7, <1>8, <1>23, ParseStepKeeps

LEMMA WaitForParsingKeeps ==
  ASSUME IInv, WaitForParsing
  PROVE  IInv'
  <1>1. /\ WellTyped /\ Threading /\ Parsing /\ ~IRPhase
        /\ Main \in Threads /\ pc[Main] = "stage" /\ found[Main] = NoPath
        /\ InitialFiles \in Seq(Names) /\ CustomFiles \in Seq(Paths)
        /\ pos[Main] \in Nat /\ pos[Main] > Len(InitialFiles)
        /\ \A j \in DOMAIN InitialFiles : j \in Nat /\ j < pos[Main] /\ Past(j)
    BY CustomsPhase DEF WaitForParsing
  <1>2. /\ pos[Main] > Len(InitialFiles) + Len(CustomFiles)
        /\ pos' = [pos EXCEPT ![Main] = 1]
        /\ pc' = [pc EXCEPT ![Main] = "idle"]
        /\ UNCHANGED <<status, errors, phase, staged, results, ir, imported, found, ticket, task,
                       posted, runs, finished>>
        /\ SameRound
    BY DEF WaitForParsing, Pool!StartWait, Goto, SameRound, sources, progress, tables
  <1>3. /\ TasksGrow(ParseKinds) /\ pos' \in [Threads -> Nat \ {0}]
        /\ pc'[Main] = "idle"
        /\ \A u \in Threads : u # Main => pos'[u] = pos[u] /\ pc'[u] = pc[u]
        /\ errors \in Nat /\ staged \in SUBSET Paths
        /\ found' = [found EXCEPT ![Main] = NoPath]
    BY <1>1, <1>2 DEF TasksGrow, WellTyped, FileTypes, ThreadTypes
  <1>4. Moves(Main, "idle", NoPath)
    BY <1>1, <1>2, <1>3 DEF Moves, OnMain, OnJob
  <1>5. ThreadTypes' /\ Threading'
    <2>1. NoPath \in NoOrPath
      BY DEF NoOrPath
    <2>. QED
      BY <1>1, <1>3, <1>4, <2>1, MoveKeepsThreading
  <1>6. ParseStep
    <2>1. (\E i \in DOMAIN results' : Empty(i)') => errors' > 0
      BY <1>2 DEF IInv, Reported, Empty
    <2>. QED
      BY <1>1, <1>2, <1>3, <2>1 DEF ParseStep, ResultsGrow
  <1>7. Quiet
    <2>1. ASSUME NEW j \in DOMAIN CustomFiles
          PROVE  PastCustom(j)' /\ PastCustom(j)
      <3>1. Len(InitialFiles) + j < pos[Main]
        BY <1>1, <1>2
      <3>. QED
        BY <1>3, <3>1 DEF PastCustom, Past
    <2>2. {u \in Threads : pc'[u] = "lexed"} = {u \in Threads : pc[u] = "lexed"}
      BY <1>1, <1>3
    <2>3. Lexed' = Lexed
      BY <1>2, <2>2 DEF Lexed
    <2>. QED
      BY <1>2, <2>1, <2>3 DEF Quiet
  <1>8. InitialMet'
    BY <1>1, <1>2, InitialStays DEF Parsing
  <1>9. ImportsMet'
    BY <1>1, <1>2, <1>3, ImportsStay DEF Parsing
  <1>10. Parsing'
    BY <1>1, <1>7, <1>8, <1>9, QuietKeepsParsing
  <1>. QED
    BY <1>5, <1>6, <1>10, ParseStepKeeps


-----------------------------------------------------------------------------
(* The steps of the jobs                                                    *)

(* The jobs that parse run while there is parsing to do.                    *)
LEMMA ParseJobPhase ==
  ASSUME IInv, NEW t \in Threads, pc[t] \in OnJob \ {"ir"}
  PROVE  /\ WellTyped /\ Threading /\ Parsing /\ ~IRPhase /\ Main \in Threads
         /\ pc[Main] \notin {"resolve", "postIR", "flow", "returned"}
         /\ errors \in Nat /\ staged \in SUBSET Paths
         /\ (\E i \in DOMAIN results : Empty(i)) => errors > 0
  <1>1. ~IRPhase /\ pc[Main] \notin {"resolve", "flow", "returned"}
    BY JobsPhase
  <1>. QED
    BY <1>1 DEF IInv, IRPhase, Threads, WellTyped, FileTypes, Reported

LEMMA IRStays ==
  ASSUME IRJobs, UNCHANGED <<results, task, posted, finished, ir, phase>>,
         pos'[Main] = pos[Main], pc'[Main] = "postIR" <=> pc[Main] = "postIR"
  PROVE  IRJobs' /\ IRPosted' = IRPosted /\ (IRPhase' <=> IRPhase)
  <1>1. IRPosted' = IRPosted
    BY DEF IRPosted
  <1>2. IRFirst' = IRFirst /\ Unfinished' = Unfinished
    BY <1>1 DEF IRFirst, Unfinished
  <1>3. \A p : IRBuilt(p)' = IRBuilt(p)
    BY <1>1, <1>2 DEF IRBuilt
  <1>. QED
    BY <1>1, <1>2, <1>3 DEF IRJobs, IRPhase

LEMMA ResolvingStays ==
  ASSUME Resolving, UNCHANGED <<text, results, modules, imported>>,
         pc'[Main] = "resolve" => pc[Main] = "resolve",
         ~IRPhase' => (imported = << >> \/ pc'[Main] = "resolve")
  PROVE  Resolving'
  <1>1. ModuleTable' = ModuleTable
    BY DEF ModuleTable, Declared, FilesOf, Places
  <1>2. \A i : FileImports(i)' = FileImports(i)
    BY DEF FileImports
  <1>3. FileImportsResolve'
    BY <1>2 DEF Resolving, FileImportsResolve
  <1>. QED
    BY <1>1, <1>3 DEF Resolving

LEMMA ReportedStays ==
  ASSUME Reported, UNCHANGED <<results, status>>, errors \in Nat, errors' \in Nat,
         errors' >= errors
  PROVE  Reported'
  <1>1. \A i : Empty(i)' <=> Empty(i)
    BY DEF Empty
  <1>. QED
    BY <1>1 DEF Reported, CrashIsReported

LEMMA StartJobKeeps ==
  ASSUME IInv, NEW t \in Threads, StartJob(t)
  PROVE  IInv'
  <1>1. /\ UNCHANGED <<status, errors, phase, staged, results, modules, imported, ir, pos, found,
                       task, posted, finished>>
        /\ SameRound /\ text' = text
    BY DEF StartJob, Pool!Start, SameRound, sources, progress, tables
  <1>2. WellTyped /\ Threading /\ Main \in Threads /\ Reported /\ Resolving
    BY DEF IInv, Threads
  <1>3. /\ ThreadTypes' /\ Threading'
        /\ pc[t] = "idle" /\ pc'[t] \in {"lex", "parse", "ir"}
        /\ \A u \in Threads : u # t => pc'[u] = pc[u] /\ ticket'[u] = ticket[u]
        /\ ticket'[t] \in Unfinished
    BY <1>2, StartKeepsThreading
  <1>4. pc[Main] \notin {"resolve", "flow", "returned"}
    <2>1. Unfinished # {} /\ Waited
      BY <1>3 DEF IInv
    <2>. QED
      BY <2>1 DEF Waited
  <1>5. \/ pc'[Main] = pc[Main]
        \/ pc[Main] = "idle" /\ pc'[Main] \in {"lex", "parse", "ir"}
    <2>1. CASE t = Main
      BY <2>1, <1>3
    <2>2. CASE t # Main
      BY <2>2, <1>2, <1>3
    <2>. QED
      BY <2>1, <2>2
  <1>6. CASE IRPhase
    <2>1. IRJobs
      BY <1>6 DEF IInv, IRKept
    <2>2. IRJobs' /\ IRPhase'
      <3>1. pos'[Main] = pos[Main] /\ (pc'[Main] = "postIR" <=> pc[Main] = "postIR")
        BY <1>1, <1>5
      <3>. QED
        BY <2>1, <3>1, <1>1, <1>6, IRStays
    <2>3. WellTyped'
      BY <1>1, <1>2, <1>3 DEF WellTyped, FileTypes, SameRound
    <2>4. Waited'
      BY <1>1, <1>4, <1>5 DEF IInv, Waited
    <2>5. Reported'
      BY <1>1, <1>2, ReportedStays DEF WellTyped, FileTypes
    <2>6. Resolving'
      BY <1>1, <1>2, <1>5, <2>2, ResolvingStays
    <2>. QED
      BY <1>3, <2>2, <2>3, <2>4, <2>5, <2>6 DEF IInv, IRKept
  <1>7. CASE ~IRPhase
    <2>1. Parsing /\ pc[Main] # "postIR"
      BY <1>7 DEF IInv, IRPhase
    <2>2. TasksGrow(ParseKinds)
      BY <1>1 DEF TasksGrow
    <2>3. ParseStep
      <3>1. (\E i \in DOMAIN results' : Empty(i)') => errors' > 0
        BY <1>1, <1>2 DEF Reported, Empty
      <3>. QED
        BY <1>1, <1>2, <1>4, <1>5, <1>7, <2>1, <2>2, <3>1
        DEF ParseStep, ResultsGrow, WellTyped, FileTypes
    <2>4. \A j \in Nat : Past(j)' <=> Past(j)
      BY <1>1, <1>5 DEF Past
    <2>5. InitialFiles \in Seq(Names) /\ CustomFiles \in Seq(Paths)
      BY <1>2, FilesOfRound
    <2>6. Quiet
      <3>1. {u \in Threads : pc'[u] = "lexed"} = {u \in Threads : pc[u] = "lexed"}
            /\ t \notin {u \in Threads : pc[u] = "lexed"}
        BY <1>3
      <3>2. Lexed' = Lexed
        BY <1>3, <3>1 DEF Lexed
      <3>3. ASSUME NEW j \in DOMAIN CustomFiles
            PROVE  PastCustom(j)' <=> PastCustom(j)
        <4>1. InitialFiles' = InitialFiles /\ Len(InitialFiles) + j \in Nat
          BY <1>1, <2>5, SameFiles
        <4>. QED
          BY <4>1, <2>4 DEF PastCustom
      <3>. QED
        BY <1>1, <3>2, <3>3 DEF Quiet
    <2>7. InitialMet'
      <3>1. \A j \in DOMAIN InitialFiles : Past(j)' => Past(j)
        BY <2>4, <2>5
      <3>. QED
        BY <1>1, <2>1, <3>1, InitialStays DEF Parsing
    <2>8. ImportsMet'
      BY <1>1, <1>2, <1>3, <2>1, <2>2, ImportsStay DEF Parsing
    <2>9. Parsing'
      BY <1>2, <2>1, <2>6, <2>7, <2>8, QuietKeepsParsing
    <2>. QED
      BY <1>3, <2>3, <2>9, ParseStepKeeps
  <1>. QED
    BY <1>6, <1>7

(* A step of a thread within its parse job.                                 *)
LEMMA WithinParseKeeps ==
  ASSUME IInv, NEW t \in Threads, pc[t] \in {"parse", "imports"},
         Source(t).module # NoModule,
         NEW n \in Nat \ {0}, pos' = [pos EXCEPT ![t] = n], pc' = [pc EXCEPT ![t] = "imports"],
         UNCHANGED <<sources, status, progress, errors, staged, results, tables, found, ticket,
                     task, pool>>,
         \A j \in DOMAIN Source(t).imports :
            j < n /\ Source(t).imports[j].module = NoModule
            => pc[t] = "imports" /\ j < pos[t]
  PROVE  IInv'
  <1>1. pc[t] \in OnJob \ {"ir"}
    BY DEF OnJob
  <1>2. /\ WellTyped /\ Threading /\ Parsing /\ ~IRPhase /\ Main \in Threads
        /\ pc[Main] \notin {"resolve", "postIR", "flow", "returned"}
        /\ errors \in Nat /\ staged \in SUBSET Paths
        /\ (\E i \in DOMAIN results : Empty(i)) => errors > 0
    BY <1>1, ParseJobPhase
  <1>3. /\ UNCHANGED <<text, status, errors, phase, staged, results, imported, ir, found, ticket,
                       task, posted, runs, finished>>
        /\ SameRound
    BY DEF SameRound, sources, progress, tables, pool
  <1>4. TasksGrow(ParseKinds)
    BY <1>3 DEF TasksGrow
  <1>5. /\ pos' \in [Threads -> Nat \ {0}] /\ pos'[t] = n /\ pc'[t] = "imports"
        /\ \A u \in Threads : u # t => pos'[u] = pos[u] /\ pc'[u] = pc[u]
        /\ found[t] = NoPath
        /\ found' = [found EXCEPT ![t] = NoPath]
    BY ZenonT(60), <1>2, <1>3 DEF WellTyped, ThreadTypes, Threading
  <1>6. Moves(t, "imports", NoPath)
    BY <1>1, <1>3, <1>5 DEF Moves, OnMain, OnJob, KindAt
  <1>7. ThreadTypes' /\ Threading'
    <2>1. NoPath \in NoOrPath /\ "imports" \in OnMain \cup OnJob \cup {"idle"}
      BY DEF NoOrPath, OnJob
    <2>. QED
      BY <1>2, <1>4, <1>6, <2>1, MoveKeepsThreading
  <1>8. t = Main \/ (pc'[Main] = pc[Main] /\ pos'[Main] = pos[Main])
    BY <1>2, <1>5
  <1>9. ParseStep
    <2>1. pc'[Main] \notin {"resolve", "postIR", "flow", "returned"}
      BY <1>2, <1>5, <1>8
    <2>2. (\E i \in DOMAIN results' : Empty(i)') => errors' > 0
      BY <1>2, <1>3 DEF Empty
    <2>. QED
      BY <1>2, <1>3, <1>4, <2>1, <2>2 DEF ParseStep, ResultsGrow
  <1>10. \A j : Past(j)' <=> Past(j)
    BY <1>5, <1>8 DEF Past
  <1>11. Quiet
    <2>1. {u \in Threads : pc'[u] = "lexed"} = {u \in Threads : pc[u] = "lexed"}
      BY <1>5
    <2>2. Lexed' = Lexed
      BY <1>3, <2>1 DEF Lexed
    <2>3. InitialFiles' = InitialFiles
      BY <1>3, SameFiles
    <2>. QED
      BY <1>3, <1>10, <2>2, <2>3 DEF Quiet, PastCustom
  <1>12. InitialMet'
    BY <1>2, <1>3, <1>10, InitialStays DEF Parsing
  <1>13. ImportsMet'
    <2>1. Source(t)' = Source(t) /\ File(t)' = File(t)
      BY <1>1, <1>2, <1>3, <1>4, SourceStays
    <2>2. ASSUME NEW j \in DOMAIN Source(t)'.imports,
                 j < pos'[t], Source(t)'.imports[j].module = NoModule
          PROVE  FindFile(Source(t)'.imports[j].file, File(t)') \in staged' \cup {NoPath}
      BY <1>2, <1>3, <1>5, <2>1, <2>2 DEF Parsing, ImportsMet
    <2>. QED
      BY <1>2, <1>3, <1>4, <1>5, <2>2, ImportsStay DEF Parsing
  <1>14. Parsing'
    BY <1>2, <1>11, <1>12, <1>13, QuietKeepsParsing
  <1>. QED
    BY <1>7, <1>9, <1>14, ParseStepKeeps

LEMMA ParseHeaderKeeps ==
  ASSUME IInv, NEW t \in Threads, ParseHeader(t)
  PROVE  IInv'
  <1>1. /\ pc[t] = "parse" /\ Source(t).module # NoModule
        /\ pos' = [pos EXCEPT ![t] = 1] /\ pc' = [pc EXCEPT ![t] = "imports"]
    BY DEF ParseHeader, Goto
  <1>2. WellTyped /\ Threading /\ pc[t] \in OnJob
    BY <1>1 DEF IInv, OnJob
  <1>3. PICK n \in Nat \ {0} : n = 1
    OBVIOUS
  <1>4. \A j \in DOMAIN Source(t).imports : ~(j < n)
    BY <1>2, <1>3, JobOfThread
  <1>. QED
    BY <1>1, <1>3, <1>4, WithinParseKeeps DEF ParseHeader

LEMMA ImportModuleKeeps ==
  ASSUME IInv, NEW t \in Threads, ImportModule(t)
  PROVE  IInv'
  <1>1. /\ pc[t] = "imports" /\ pos' = [pos EXCEPT ![t] = @ + 1]
        /\ Source(t).imports[pos[t]].module # NoModule
        /\ UNCHANGED pc
    BY DEF ImportModule, Advance
  <1>2. WellTyped /\ Threading /\ pc[t] \in OnJob
    BY <1>1 DEF IInv, OnJob
  <1>3. /\ pos[t] \in Nat \ {0} /\ Source(t).module # NoModule
        /\ pc' = [pc EXCEPT ![t] = "imports"]
        /\ pos' = [pos EXCEPT ![t] = pos[t] + 1]
    BY <1>1, <1>2 DEF WellTyped, ThreadTypes, Threading
  <1>4. \A j \in DOMAIN Source(t).imports :
            j < pos[t] + 1 /\ Source(t).imports[j].module = NoModule => j < pos[t]
    BY <1>1, <1>2, <1>3, JobOfThread
  <1>5. PICK n \in Nat \ {0} : n = pos[t] + 1
    BY <1>3
  <1>. QED
    BY <1>1, <1>3, <1>4, <1>5, WithinParseKeeps DEF ImportModule

(* The end of a job of the lexer: whether it read its file or not, no file  *)
(* that can be read is lost.                                                *)
LEMMA LexingEndsKeeps ==
  ASSUME IInv, NEW t \in Threads, Return(t),
         pc[t] = "lexed" \/ (pc[t] = "lex" /\ ~text[File(t)].readable),
         UNCHANGED <<sources, status, progress, staged, results, tables, pos, found>>,
         errors' \in Nat, errors' >= errors
  PROVE  IInv'
  <1>1. pc[t] \in OnJob \ {"ir", "postImport"}
    BY DEF OnJob
  <1>2. /\ WellTyped /\ Threading /\ Parsing /\ ~IRPhase /\ Main \in Threads
        /\ pc[Main] \notin {"resolve", "postIR", "flow", "returned"}
        /\ errors \in Nat /\ staged \in SUBSET Paths
        /\ (\E i \in DOMAIN results : Empty(i)) => errors > 0
    BY <1>1, ParseJobPhase
  <1>3. /\ UNCHANGED <<text, status, phase, staged, results, imported, ir, found, pos>>
        /\ SameRound /\ pos' \in [Threads -> Nat \ {0}]
    BY <1>2 DEF SameRound, sources, progress, tables, WellTyped, ThreadTypes
  <1>4. /\ ThreadTypes' /\ Threading'
        /\ UNCHANGED <<task, posted>>
        /\ ticket[t] \in Unfinished
        /\ finished' = finished \cup {ticket[t]}
        /\ Unfinished' = Unfinished \ {ticket[t]}
        /\ pc'[t] = "idle" /\ ticket'[t] = NoTicket
        /\ \A u \in Threads : u # t => pc'[u] = pc[u] /\ ticket'[u] = ticket[u]
    BY <1>1, <1>2, <1>3, ReturnKeepsThreading
  <1>5. PICK k \in Unfinished : k = ticket[t]
    BY <1>4
  <1>6. /\ task[k + 1].kind = "lex"
        /\ pc[t] = "lex" => ~text[task[k + 1].path].readable
    BY <1>1, <1>2, <1>5 DEF Threading, Job, File, KindAt
  <1>7. /\ pc[t] = "lexed" => Lexed' = Lexed \ {k} /\ k \in Lexed
        /\ pc[t] = "lex" => Lexed' = Lexed
    <2>1. \A u \in Threads : u # t => ticket[u] # k
      <3>1. k # NoTicket
        BY <1>1, <1>2, <1>5 DEF Threading
      <3>. QED
        BY <1>2, <1>5, <3>1 DEF Threading
    <2>2. /\ {u \in Threads : pc'[u] = "lexed"} = {u \in Threads : pc[u] = "lexed"} \ {t}
          /\ \A u \in {v \in Threads : pc[v] = "lexed"} \ {t} : ticket'[u] = ticket[u]
      BY <1>4
    <2>. QED
      BY <1>5, <2>1, <2>2 DEF Lexed
  <1>8. TasksGrow(ParseKinds)
    BY <1>4 DEF TasksGrow
  <1>9. pc'[Main] = pc[Main] \/ (t = Main /\ pc'[Main] = "idle")
    BY <1>2, <1>4
  <1>10. ParseStep
    <2>1. pc'[Main] \notin {"resolve", "postIR", "flow", "returned"}
      BY <1>2, <1>9
    <2>2. (\E i \in DOMAIN results' : Empty(i)') => errors' > 0
      BY <1>2, <1>3 DEF Empty
    <2>. QED
      BY <1>2, <1>3, <1>4, <1>8, <2>1, <2>2 DEF ParseStep, ResultsGrow
  <1>11. \A j : Past(j)' <=> Past(j)
    <2>1. t = Main => pc[Main] \notin {"stage", "postInitial"}
      BY <1>1 DEF OnJob
    <2>. QED
      BY <1>3, <1>9, <2>1 DEF Past
  <1>12. InitialFiles' = InitialFiles /\ CustomFiles' = CustomFiles
    BY <1>3, SameFiles
  <1>13. \A p \in Paths : text[p].readable =>
            /\ ToLex(p)' = ToLex(p) /\ ToParse(p)' = ToParse(p)
            /\ ToParseCustom(p)' = ToParseCustom(p)
    <2>. SUFFICES ASSUME NEW p \in Paths, text[p].readable
                  PROVE  /\ ToLex(p)' = ToLex(p) /\ ToParse(p)' = ToParse(p)
                         /\ ToParseCustom(p)' = ToParseCustom(p)
      OBVIOUS
    <2>1. ToParse(p)' = ToParse(p) /\ ToParseCustom(p)' = ToParseCustom(p)
      BY <1>4, <1>5, <1>6 DEF ToParse, ToParseCustom
    <2>2. CASE pc[t] = "lexed"
      <3>1. Unfinished' \ Lexed' = Unfinished \ Lexed
        BY <2>2, <1>4, <1>5, <1>7
      <3>. QED
        BY <2>1, <3>1, <1>4 DEF ToLex
    <2>3. CASE pc[t] = "lex"
      <3>1. Unfinished' \ Lexed' = (Unfinished \ Lexed) \ {k} /\ task[k + 1].path # p
        BY <2>3, <1>4, <1>5, <1>6, <1>7
      <3>. QED
        BY <2>1, <3>1, <1>4 DEF ToLex
    <2>. QED
      BY <2>2, <2>3
  <1>14. Settled
    BY <1>3, <1>4, <1>11, <1>12, <1>13 DEF Settled, PastCustom
  <1>15. InitialMet'
    BY <1>2, <1>3, <1>11, InitialStays DEF Parsing
  <1>16. ImportsMet'
    BY <1>2, <1>3, <1>4, <1>8, ImportsStay DEF Parsing
  <1>17. Parsing'
    BY <1>2, <1>14, <1>15, <1>16, SettledKeepsParsing
  <1>. QED
    BY <1>4, <1>10, <1>17, ParseStepKeeps

LEMMA LexUnreadableKeeps ==
  ASSUME IInv, NEW t \in Threads, LexUnreadable(t)
  PROVE  IInv'
  <1>1. errors \in Nat
    BY DEF IInv, WellTyped, FileTypes
  <1>. QED
    BY <1>1, LexingEndsKeeps DEF LexUnreadable

LEMMA LexReturnsKeeps ==
  ASSUME IInv, NEW t \in Threads, LexReturns(t)
  PROVE  IInv'
  <1>1. errors \in Nat
    BY DEF IInv, WellTyped, FileTypes
  <1>. QED
    BY <1>1, LexingEndsKeeps DEF LexReturns

(* The token goes from the job of the lexer to the job of the parser.       *)
LEMMA LexFileKeeps ==
  ASSUME IInv, NEW t \in Threads, LexFile(t)
  PROVE  IInv'
  <1>1. pc[t] = "lex" /\ pc[t] \in OnJob \ {"ir"}
    BY DEF LexFile, OnJob
  <1>2. /\ WellTyped /\ Threading /\ Parsing /\ ~IRPhase /\ Main \in Threads
        /\ pc[Main] \notin {"resolve", "postIR", "flow", "returned"}
        /\ errors \in Nat /\ staged \in SUBSET Paths
        /\ (\E i \in DOMAIN results : Empty(i)) => errors > 0
    BY <1>1, ParseJobPhase
  <1>3. PICK q \in Paths : q = File(t)
    BY <1>1, <1>2, JobOfThread
  <1>4. /\ text[q].readable
        /\ Post("parse", q, FALSE)
        /\ pc' = [pc EXCEPT ![t] = "lexed"]
        /\ UNCHANGED <<text, status, errors, phase, staged, results, imported, ir, pos, found,
                       ticket>>
        /\ SameRound
    BY <1>3 DEF LexFile, Goto, SameRound, sources, progress, tables
  <1>5. /\ TasksGrow(ParseKinds)
        /\ posted' = posted + 1 /\ UNCHANGED <<runs, finished>>
        /\ posted \in Nat /\ posted \notin Unfinished /\ posted \notin Lexed
        /\ Unfinished' = Unfinished \cup {posted}
        /\ \A j \in Unfinished : task'[j + 1] = task[j + 1]
        /\ task'[posted + 1].kind = "parse"
        /\ task'[posted + 1].path = q
        /\ task'[posted + 1].custom = FALSE
    <2>1. "parse" \in ParseKinds
      BY DEF ParseKinds
    <2>. QED
      BY <1>2, <1>4, <2>1, PostAdds
  <1>6. PICK k \in Unfinished : /\ k = ticket[t] /\ k # posted
                                /\ task[k + 1].kind = "lex" /\ task[k + 1].path = q
    BY <1>1, <1>2, <1>3, <1>5 DEF Threading, Job, File, KindAt
  <1>7. /\ pos' \in [Threads -> Nat \ {0}] /\ pc'[t] = "lexed" /\ found[t] = NoPath
        /\ found' = [found EXCEPT ![t] = NoPath]
        /\ \A u \in Threads : u # t => pc'[u] = pc[u] /\ pos'[u] = pos[u]
    BY <1>1, <1>2, <1>4 DEF WellTyped, ThreadTypes, Threading
  <1>8. Moves(t, "lexed", NoPath)
    BY <1>1, <1>4, <1>5, <1>7 DEF Moves, OnMain, OnJob, KindAt
  <1>9. ThreadTypes' /\ Threading'
    <2>1. NoPath \in NoOrPath /\ "lexed" \in OnMain \cup OnJob \cup {"idle"}
      BY DEF NoOrPath, OnJob
    <2>. QED
      BY <1>2, <1>5, <1>8, <2>1, MoveKeepsThreading
  <1>10. pc'[Main] = pc[Main] \/ (t = Main /\ pc'[Main] = "lexed")
    BY <1>2, <1>7
  <1>11. ParseStep
    <2>1. pc'[Main] \notin {"resolve", "postIR", "flow", "returned"}
      BY <1>2, <1>10
    <2>2. (\E i \in DOMAIN results' : Empty(i)') => errors' > 0
      BY <1>2, <1>4 DEF Empty
    <2>. QED
      BY <1>2, <1>4, <1>5, <2>1, <2>2 DEF ParseStep, ResultsGrow
  <1>12. Lexed' = Lexed \cup {k} /\ k \notin Lexed
    <2>1. {u \in Threads : pc'[u] = "lexed"} = {u \in Threads : pc[u] = "lexed"} \cup {t}
      BY <1>7
    <2>2. \A u \in Threads : u # t => ticket[u] # k
      <3>1. k # NoTicket
        BY <1>1, <1>2, <1>6 DEF Threading
      <3>. QED
        BY <1>2, <1>6, <3>1 DEF Threading
    <2>. QED
      BY <1>1, <1>4, <1>6, <2>1, <2>2 DEF Lexed
  <1>13. /\ InitialFiles' = InitialFiles /\ CustomFiles' = CustomFiles
         /\ \A p : IsCustom(p)' <=> IsCustom(p)
    BY <1>4, SameFiles
  <1>14. \A p : /\ ResultsOf(p)' = ResultsOf(p) /\ ToPost(p)' = ToPost(p)
                /\ ToParseCustom(p)' = ToParseCustom(p)
    BY <1>4, <1>5 DEF ToParseCustom, ResultsOf, ToPost
  <1>15. /\ \A p \in Paths : p # q => ToLex(p)' = ToLex(p) /\ ToParse(p)' = ToParse(p)
         /\ ToLex(q)' = ToLex(q) \ {k} /\ k \in ToLex(q)
         /\ ToParse(q)' = ToParse(q) \cup {posted} /\ posted \notin ToParse(q)
    <2>1. Unfinished' \ Lexed' = ((Unfinished \ Lexed) \ {k}) \cup {posted}
      BY <1>5, <1>6, <1>12
    <2>2. /\ \A p \in Paths : p # q => ToLex(p)' = ToLex(p)
          /\ ToLex(q)' = ToLex(q) \ {k} /\ k \in ToLex(q)
      BY <2>1, <1>5, <1>6, <1>12 DEF ToLex
    <2>3. /\ \A p \in Paths : p # q => ToParse(p)' = ToParse(p)
          /\ ToParse(q)' = ToParse(q) \cup {posted} /\ posted \notin ToParse(q)
      BY <1>5 DEF ToParse
    <2>. QED
      BY <2>2, <2>3
  <1>16. \A j : Past(j)' <=> Past(j)
    <2>1. t = Main => pc[Main] \notin {"stage", "postInitial"}
      BY <1>1
    <2>. QED
      BY <1>4, <1>10, <2>1 DEF Past
  <1>17. \A j : PastCustom(j)' <=> PastCustom(j)
    BY <1>13, <1>16 DEF PastCustom
  <1>18. \A p : Expected(p)' = Expected(p)
    BY <1>13, <1>17 DEF Expected
  <1>19. q \in staged
    BY <1>2, <1>6 DEF Parsing, Provenance
  <1>20. Provenance'
    BY <1>2, <1>4, <1>5, <1>13, <1>19 DEF Parsing, Provenance
  <1>21. Balance'
    <2>. SUFFICES ASSUME NEW p \in Paths, text[p].readable
                  PROVE  Cardinality(ResultsOf(p)') + Cardinality(ToParse(p)')
                           + Cardinality(ToParseCustom(p)') + Cardinality(ToLex(p)')
                           + Cardinality(ToPost(p)')
                         = Cardinality(Expected(p)') + (IF p \in staged' THEN 1 ELSE 0)
      BY <1>4 DEF Balance
    <2>1. Cardinality(ResultsOf(p)) + Cardinality(ToParse(p))
            + Cardinality(ToParseCustom(p)) + Cardinality(ToLex(p)) + Cardinality(ToPost(p))
          = Cardinality(Expected(p)) + (IF p \in staged THEN 1 ELSE 0)
      BY <1>2 DEF Parsing, Balance
    <2>2. CASE p # q
      BY <2>1, <2>2, <1>4, <1>14, <1>15, <1>18
    <2>3. CASE p = q
      <3>1. /\ Cardinality(ToLex(p)') = Cardinality(ToLex(p)) - 1
            /\ Cardinality(ToParse(p)') = Cardinality(ToParse(p)) + 1
        BY <2>3, <1>2, <1>15, TokensFinite, OneMore, OneLess
      <3>2. /\ ToPost(p)' = ToPost(p) /\ ResultsOf(p)' = ResultsOf(p)
            /\ ToParseCustom(p)' = ToParseCustom(p) /\ Expected(p)' = Expected(p)
            /\ staged' = staged
        BY <1>4, <1>14, <1>18
      <3>3. /\ Cardinality(ResultsOf(p)) \in Nat /\ Cardinality(Expected(p)) \in Nat
            /\ Cardinality(ToParse(p)) \in Nat /\ Cardinality(ToParseCustom(p)) \in Nat
            /\ Cardinality(ToLex(p)) \in Nat /\ Cardinality(ToPost(p)) \in Nat
        BY <1>2, TokensFinite
      <3>. QED
        BY <2>1, <3>1, <3>2, <3>3
    <2>. QED
      BY <2>2, <2>3
  <1>22. \A p, s : HasResult(p, s) => ResultIn(results', staged', p, s)
    BY <1>4 DEF HasResult
  <1>23. StagedCovered'
    <2>. SUFFICES ASSUME NEW p \in staged', text[p].readable
                  PROVE  \/ ToPost(p)' # {} \/ ToLex(p)' # {} \/ ToParse(p)' # {}
                         \/ ResultIn(results', staged', p, text[p])
      BY <1>4 DEF StagedCovered, HasResult
    <2>1. CASE p = q
      BY <2>1, <1>15
    <2>2. CASE p # q
      <3>1. p \in staged /\ p \in Paths
        BY <1>2, <1>4
      <3>. QED
        BY <2>2, <3>1, <1>2, <1>14, <1>15, <1>22 DEF Parsing, StagedCovered
    <2>. QED
      BY <2>1, <2>2
  <1>24. CustomCovered'
    BY <1>2, <1>4, <1>13, <1>14, <1>17, <1>22 DEF Parsing, CustomCovered, HasResult
  <1>25. InitialMet'
    BY <1>2, <1>4, <1>16, InitialStays DEF Parsing
  <1>26. ImportsMet'
    BY <1>2, <1>4, <1>5, <1>7, ImportsStay DEF Parsing
  <1>27. Genuine' /\ OnlyReached'
    BY <1>2, <1>4, GenuineStays, SameReach DEF Parsing
  <1>28. Parsing'
    BY <1>20, <1>21, <1>23, <1>24, <1>25, <1>26, <1>27 DEF Parsing
  <1>. QED
    BY <1>9, <1>11, <1>28, ParseStepKeeps

(* What a parse job pushes is a result of the file it was given.            *)
LEMMA ParseResultType ==
  ASSUME WellTyped, Threading, NEW t \in Threads, pc[t] \in OnJob
  PROVE  /\ ParseResult(t) \in Result
         /\ ParseResult(t).path = File(t) /\ ParseResult(t).module = Source(t).module
         /\ DOMAIN ParseResult(t).imports = KeptImports(t)
         /\ \A j \in KeptImports(t) : ParseResult(t).imports[j] = Source(t).imports[j]
  <1>1. /\ File(t) \in Paths /\ Source(t).imports \in Seq(Import)
        /\ Source(t).module \in Modules \cup {NoModule}
    BY JobOfThread
  <1>2. KeptImports(t) \subseteq 1 .. Len(Source(t).imports) /\ Len(Source(t).imports) \in Nat
    <2>1. /\ DOMAIN Source(t).imports = 1 .. Len(Source(t).imports)
          /\ Len(Source(t).imports) \in Nat
      BY <1>1
    <2>2. KeptImports(t) \subseteq DOMAIN Source(t).imports
      BY DEF KeptImports
    <2>. QED
      BY <2>1, <2>2
  <1>3. KeptImports(t) \in {E \in SUBSET Nat : IsFiniteSet(E)}
    <2>1. IsFiniteSet(KeptImports(t))
      <3>1. IsFiniteSet(1 .. Len(Source(t).imports))
        BY <1>2, FS_Interval
      <3>. QED
        BY <1>2, <3>1, FS_Subset
    <2>. QED
      BY <1>2, <2>1
  <1>. DEFINE imports == [j \in KeptImports(t) |-> Source(t).imports[j]]
  <1>4. imports \in [KeptImports(t) -> Import]
    BY <1>1, <1>2
  <1>5. imports \in ImportLists
    BY <1>3, <1>4 DEF ImportLists
  <1>6. ParseResult(t) = [path |-> File(t), module |-> Source(t).module, imports |-> imports]
    BY DEF ParseResult
  <1>7. DOMAIN imports = KeptImports(t)
        /\ \A j \in KeptImports(t) : imports[j] = Source(t).imports[j]
    OBVIOUS
  <1>. HIDE DEF imports
  <1>. QED
    BY <1>1, <1>5, <1>6, <1>7 DEF Result

(* A parse job ends in a result: the token is where it is going to stay, and *)
(* the imports of the file were all met.                                     *)
LEMMA PushResultKeeps ==
  ASSUME IInv, NEW t \in Threads, pc[t] \in {"parse", "imports"}, PushResult(t),
         UNCHANGED <<sources, progress, staged, tables, found>>,
         errors' \in Nat, errors' >= errors, status' \in {status, "exit"},
         Source(t).module = NoModule => errors' > 0,
         Source(t).module # NoModule => pc[t] = "imports" /\ pos[t] > Len(Source(t).imports)
  PROVE  IInv'
  <1>1. pc[t] \in OnJob \ {"ir", "postImport"}
    BY DEF OnJob
  <1>2. /\ WellTyped /\ Threading /\ Parsing /\ ~IRPhase /\ Main \in Threads
        /\ pc[Main] \notin {"resolve", "postIR", "flow", "returned"}
        /\ errors \in Nat /\ staged \in SUBSET Paths
        /\ (\E i \in DOMAIN results : Empty(i)) => errors > 0
    BY <1>1, ParseJobPhase
  <1>3. PICK r \in Result :
            /\ r.path = File(t) /\ r.module = Source(t).module
            /\ DOMAIN r.imports = KeptImports(t)
            /\ \A j \in KeptImports(t) : r.imports[j] = Source(t).imports[j]
            /\ results' = Append(results, r)
    BY <1>1, <1>2, ParseResultType DEF PushResult
  <1>4. PICK q \in Paths : q = File(t)
    BY <1>1, <1>2, JobOfThread
  <1>5. PICK source \in Text :
            /\ source = Source(t) /\ source.imports \in Seq(Import)
            /\ source.module \in Modules \cup {NoModule}
    BY <1>1, <1>2, JobOfThread
  <1>6. /\ UNCHANGED <<text, phase, staged, imported, ir, found>>
        /\ SameRound /\ pos' = [pos EXCEPT ![t] = 1] /\ pos' \in [Threads -> Nat \ {0}]
        /\ Return(t)
    BY <1>2 DEF PushResult, SameRound, sources, progress, tables, WellTyped, ThreadTypes
  <1>7. /\ ThreadTypes' /\ Threading'
        /\ UNCHANGED <<task, posted>>
        /\ ticket[t] \in Unfinished
        /\ finished' = finished \cup {ticket[t]}
        /\ Unfinished' = Unfinished \ {ticket[t]}
        /\ pc'[t] = "idle"
        /\ \A u \in Threads : u # t => pc'[u] = pc[u] /\ ticket'[u] = ticket[u]
    BY <1>1, <1>2, <1>6, ReturnKeepsThreading
  <1>8. PICK k \in Unfinished :
            /\ k = ticket[t] /\ Unfinished' = Unfinished \ {k}
            /\ task[k + 1].kind = "parse" /\ task[k + 1].path = q
            /\ task[k + 1].custom = Job(t).custom
    BY <1>1, <1>2, <1>4, <1>7 DEF Threading, Job, File, KindAt
  <1>9. /\ task[k + 1].custom \in BOOLEAN /\ text[q].readable
        /\ task[k + 1].custom => IsCustom(q) /\ source = CustomText[q]
        /\ ~task[k + 1].custom => q \in staged /\ source = text[q]
    <2>1. task[k + 1].custom \in BOOLEAN
      BY <1>1, <1>2, <1>8, JobOfThread
    <2>2. /\ task[k + 1].custom => source = CustomText[q]
          /\ ~task[k + 1].custom => source = text[q]
      BY <1>4, <1>5, <1>8 DEF Source
    <2>. QED
      BY <2>1, <2>2, <1>2, <1>8 DEF Parsing, Provenance
  <1>10. \A u \in Threads : u # t => pos'[u] = pos[u]
    BY <1>2, <1>6 DEF WellTyped, ThreadTypes
  <1>11. /\ results \in Seq(Result) /\ results' \in Seq(Result)
         /\ Len(results) \in Nat /\ Len(results') = Len(results) + 1
         /\ DOMAIN results = 1 .. Len(results) /\ DOMAIN results' = 1 .. Len(results) + 1
         /\ \A i \in 1 .. Len(results) : results'[i] = results[i]
         /\ results'[Len(results) + 1] = r
         /\ ResultsGrow(results, results')
    BY <1>2, <1>3 DEF WellTyped, FileTypes, ResultsGrow
  <1>12. TasksGrow(ParseKinds)
    BY <1>7 DEF TasksGrow
  <1>13. pc'[Main] = pc[Main] \/ (t = Main /\ pc'[Main] = "idle")
    BY <1>2, <1>7
  <1>14. ParseStep
    <2>1. pc'[Main] \notin {"resolve", "postIR", "flow", "returned"}
      BY <1>2, <1>13
    <2>2. ASSUME NEW i \in DOMAIN results', results'[i].module = NoModule
          PROVE  errors' > 0
      <3>1. CASE i = Len(results) + 1
        BY <2>2, <3>1, <1>3, <1>11
      <3>2. CASE i # Len(results) + 1
        <4>1. i \in DOMAIN results /\ results'[i] = results[i]
          BY <2>2, <3>2, <1>11
        <4>. QED
          BY <2>2, <4>1, <1>2 DEF Empty
      <3>. QED
        BY <3>1, <3>2
    <2>3. (\E i \in DOMAIN results' : Empty(i)') => errors' > 0
      BY <2>2 DEF Empty
    <2>. QED
      BY <1>2, <1>6, <1>7, <1>11, <1>12, <2>1, <2>3 DEF ParseStep
  <1>15. Lexed' = Lexed /\ k \notin Lexed
    <2>1. {u \in Threads : pc'[u] = "lexed"} = {u \in Threads : pc[u] = "lexed"}
          /\ t \notin {u \in Threads : pc[u] = "lexed"}
      BY <1>7
    <2>2. \A u \in Threads : u # t => ticket[u] # k
      <3>1. k # NoTicket
        BY <1>1, <1>2, <1>8 DEF Threading
      <3>. QED
        BY <1>2, <1>8, <3>1 DEF Threading
    <2>. QED
      BY <2>1, <2>2, <1>7 DEF Lexed
  <1>16. /\ InitialFiles' = InitialFiles /\ CustomFiles' = CustomFiles
         /\ \A p : IsCustom(p)' <=> IsCustom(p)
         /\ InitialFiles \in Seq(Names) /\ CustomFiles \in Seq(Paths)
    BY <1>2, <1>6, SameFiles, FilesOfRound
  <1>17. \A p : /\ ToPost(p)' = ToPost(p) /\ ToLex(p)' = ToLex(p)
                /\ p # q => ToParse(p)' = ToParse(p) /\ ToParseCustom(p)' = ToParseCustom(p)
                /\ p # q => ResultsOf(p)' = ResultsOf(p)
    <2>1. \A p : ToPost(p)' = ToPost(p) /\ ToLex(p)' = ToLex(p)
      BY <1>6, <1>7, <1>8, <1>15 DEF ToPost, ToLex
    <2>2. \A p : p # q => ToParse(p)' = ToParse(p) /\ ToParseCustom(p)' = ToParseCustom(p)
      BY <1>7, <1>8 DEF ToParse, ToParseCustom
    <2>3. \A p : p # q => ResultsOf(p)' = ResultsOf(p)
      BY <1>3, <1>4, <1>11 DEF ResultsOf
    <2>. QED
      BY <2>1, <2>2, <2>3
  <1>18. /\ task[k + 1].custom => /\ ToParse(q)' = ToParse(q)
                                  /\ ToParseCustom(q)' = ToParseCustom(q) \ {k}
                                  /\ k \in ToParseCustom(q)
         /\ ~task[k + 1].custom => /\ ToParseCustom(q)' = ToParseCustom(q)
                                   /\ ToParse(q)' = ToParse(q) \ {k}
                                   /\ k \in ToParse(q)
    BY <1>7, <1>8 DEF ToParse, ToParseCustom
  <1>19. /\ ResultsOf(q)' = ResultsOf(q) \cup {Len(results) + 1}
         /\ Len(results) + 1 \notin ResultsOf(q)
    BY <1>3, <1>4, <1>11 DEF ResultsOf
  <1>20. \A j : Past(j)' <=> Past(j)
    <2>1. CASE t = Main
      BY <2>1, <1>7 DEF Past
    <2>2. CASE t # Main
      BY <2>2, <1>2, <1>7, <1>10 DEF Past
    <2>. QED
      BY <2>1, <2>2
  <1>21. \A j : PastCustom(j)' <=> PastCustom(j)
    BY <1>16, <1>20 DEF PastCustom
  <1>22. \A p : Expected(p)' = Expected(p)
    BY <1>16, <1>21 DEF Expected
  <1>23. source.module # NoModule => ImportsIn(source, q, staged \cup {NoPath})
    <2>. SUFFICES ASSUME source.module # NoModule, NEW j \in DOMAIN source.imports,
                         source.imports[j].module = NoModule
                  PROVE  FindFile(source.imports[j].file, q) \in staged \cup {NoPath}
      BY DEF ImportsIn
    <2>1. pc[t] = "imports" /\ pos[t] \in Nat /\ pos[t] > Len(source.imports)
      BY <1>2, <1>5 DEF WellTyped, ThreadTypes
    <2>2. j < pos[t]
      BY <2>1, <1>5
    <2>. QED
      BY <2>1, <2>2, <1>2, <1>4, <1>5 DEF Parsing, ImportsMet
  <1>24. source.module # NoModule => ImportsIn(source, q, staged)
    BY <1>23 DEF ImportsIn
  <1>25. \A p, s : HasResult(p, s) => ResultIn(results', staged', p, s)
    BY <1>6, <1>11, ResultInStays DEF HasResult
  <1>26. ResultIn(results', staged', q, source)
    BY SMTT(60), <1>3, <1>4, <1>5, <1>6, <1>11, <1>24 DEF ResultIn
  <1>27. Provenance'
    BY <1>2, <1>6, <1>7, <1>16 DEF Parsing, Provenance
  <1>28. Balance'
    <2>. SUFFICES ASSUME NEW p \in Paths, text[p].readable
                  PROVE  Cardinality(ResultsOf(p)') + Cardinality(ToParse(p)')
                           + Cardinality(ToParseCustom(p)') + Cardinality(ToLex(p)')
                           + Cardinality(ToPost(p)')
                         = Cardinality(Expected(p)') + (IF p \in staged' THEN 1 ELSE 0)
      BY <1>6 DEF Balance
    <2>1. Cardinality(ResultsOf(p)) + Cardinality(ToParse(p))
            + Cardinality(ToParseCustom(p)) + Cardinality(ToLex(p)) + Cardinality(ToPost(p))
          = Cardinality(Expected(p)) + (IF p \in staged THEN 1 ELSE 0)
      BY <1>2 DEF Parsing, Balance
    <2>2. CASE p # q
      BY <2>1, <2>2, <1>6, <1>17, <1>22
    <2>3. CASE p = q
      <3>1. /\ ToPost(p)' = ToPost(p) /\ ToLex(p)' = ToLex(p) /\ Expected(p)' = Expected(p)
            /\ staged' = staged
        BY <1>6, <1>17, <1>22
      <3>2. /\ Cardinality(ResultsOf(p)) \in Nat /\ Cardinality(Expected(p)) \in Nat
            /\ Cardinality(ToParse(p)) \in Nat /\ Cardinality(ToParseCustom(p)) \in Nat
            /\ Cardinality(ToLex(p)) \in Nat /\ Cardinality(ToPost(p)) \in Nat
        BY <1>2, TokensFinite
      <3>3. Cardinality(ResultsOf(p)') = Cardinality(ResultsOf(p)) + 1
        BY <2>3, <1>2, <1>19, TokensFinite, OneMore
      <3>4. CASE task[k + 1].custom
        <4>1. /\ Cardinality(ToParseCustom(p)') = Cardinality(ToParseCustom(p)) - 1
              /\ ToParse(p)' = ToParse(p)
          BY <2>3, <3>4, <1>2, <1>18, TokensFinite, OneLess
        <4>. QED
          BY <2>1, <3>1, <3>2, <3>3, <4>1
      <3>5. CASE ~task[k + 1].custom
        <4>1. /\ Cardinality(ToParse(p)') = Cardinality(ToParse(p)) - 1
              /\ ToParseCustom(p)' = ToParseCustom(p)
          BY <2>3, <3>5, <1>2, <1>18, TokensFinite, OneLess
        <4>. QED
          BY <2>1, <3>1, <3>2, <3>3, <4>1
      <3>. QED
        BY <3>4, <3>5
    <2>. QED
      BY <2>2, <2>3
  <1>29. StagedCovered'
    <2>. SUFFICES ASSUME NEW p \in staged', text[p].readable
                  PROVE  \/ ToPost(p)' # {} \/ ToLex(p)' # {} \/ ToParse(p)' # {}
                         \/ ResultIn(results', staged', p, text[p])
      BY <1>6 DEF StagedCovered, HasResult
    <2>1. CASE p = q /\ ~task[k + 1].custom
      BY <2>1, <1>9, <1>26
    <2>2. CASE p # q \/ task[k + 1].custom
      <3>1. p \in staged /\ ToParse(p)' = ToParse(p)
        BY <2>2, <1>6, <1>17, <1>18
      <3>. QED
        BY <3>1, <1>2, <1>17, <1>25 DEF Parsing, StagedCovered
    <2>. QED
      BY <2>1, <2>2
  <1>30. CustomCovered'
    <2>. SUFFICES ASSUME NEW j \in DOMAIN CustomFiles, text[CustomFiles[j]].readable,
                         PastCustom(j)
                  PROVE  \/ ToParseCustom(CustomFiles[j])' # {}
                         \/ ResultIn(results', staged', CustomFiles[j],
                                     CustomText[CustomFiles[j]])
      BY <1>6, <1>16, <1>21 DEF CustomCovered, HasResult
    <2>1. CASE CustomFiles[j] = q /\ task[k + 1].custom
      BY <2>1, <1>9, <1>26
    <2>2. CASE CustomFiles[j] # q \/ ~task[k + 1].custom
      <3>1. ToParseCustom(CustomFiles[j])' = ToParseCustom(CustomFiles[j])
        BY <2>2, <1>16, <1>17, <1>18
      <3>. QED
        BY <3>1, <1>2, <1>25 DEF Parsing, CustomCovered
    <2>. QED
      BY <2>1, <2>2
  <1>31. InitialMet'
    BY <1>2, <1>6, <1>20, InitialStays DEF Parsing
  <1>32. ImportsMet'
    BY <1>2, <1>6, <1>7, <1>10, <1>12, ImportsStay DEF Parsing
  <1>33. \A p, s : IsSource(p, s)' <=> IsSource(p, s)
    BY <1>6, <1>16 DEF IsSource
  <1>34. Genuine'
    <2>. SUFFICES ASSUME NEW i \in DOMAIN results'
                  PROVE  /\ \E s \in {text[results'[i].path], CustomText[results'[i].path]} :
                              IsSource(results'[i].path, s) /\ results'[i].module = s.module
                         /\ \A j \in DOMAIN results'[i].imports :
                              results'[i].imports[j].module = NoModule
                              => FindFile(results'[i].imports[j].file, results'[i].path) \in staged
      BY <1>6, <1>33 DEF Genuine, FileImports
    <2>1. CASE i = Len(results) + 1
      <3>1. results'[i] = r
        BY <2>1, <1>11
      <3>2. IsSource(q, source) /\ source \in {text[q], CustomText[q]}
        BY <1>9 DEF IsSource
      <3>3. ASSUME NEW j \in KeptImports(t), source.imports[j].module = NoModule
            PROVE  FindFile(source.imports[j].file, q) \in staged
        <4>1. /\ source.module # NoModule /\ j \in DOMAIN source.imports
              /\ FindFile(source.imports[j].file, q) # NoPath
          BY <3>3, <1>4, <1>5 DEF KeptImports, Kept
        <4>. QED
          BY <4>1, <3>3, <1>23 DEF ImportsIn
      <3>. QED
        BY <3>1, <3>2, <3>3, <1>3, <1>4, <1>5
    <2>2. CASE i # Len(results) + 1
      <3>1. i \in DOMAIN results /\ results'[i] = results[i]
        BY <2>2, <1>11
      <3>. QED
        BY <3>1, <1>2 DEF Parsing, Genuine, FileImports
    <2>. QED
      BY <2>1, <2>2
  <1>35. OnlyReached'
    BY <1>2, <1>6, SameReach DEF Parsing
  <1>36. Parsing'
    BY <1>27, <1>28, <1>29, <1>30, <1>31, <1>32, <1>34, <1>35 DEF Parsing
  <1>. QED
    BY <1>7, <1>14, <1>36, ParseStepKeeps

LEMMA HeaderMissingKeeps ==
  ASSUME IInv, NEW t \in Threads, HeaderMissing(t)
  PROVE  IInv'
  <1>1. errors \in Nat
    BY DEF IInv, WellTyped, FileTypes
  <1>2. /\ pc[t] = "parse" /\ Source(t).module = NoModule
        /\ errors' = errors + 1 /\ status' \in {status, "exit"}
    BY DEF HeaderMissing, Raise
  <1>. QED
    BY <1>1, <1>2, PushResultKeeps DEF HeaderMissing

LEMMA EndOfFileKeeps ==
  ASSUME IInv, NEW t \in Threads, EndOfFile(t)
  PROVE  IInv'
  <1>1. errors \in Nat /\ Threading
    BY DEF IInv, WellTyped, FileTypes
  <1>2. /\ pc[t] = "imports" /\ pos[t] > Len(Source(t).imports)
        /\ UNCHANGED <<errors, status>>
    BY DEF EndOfFile
  <1>3. Source(t).module # NoModule
    BY <1>1, <1>2 DEF Threading
  <1>. QED
    BY <1>1, <1>2, <1>3, PushResultKeeps DEF EndOfFile

-----------------------------------------------------------------------------
(* The steps after parsing                                                  *)

(* What the steps that build IR leave to the rest of the invariant.         *)
LEMMA IRStepKeeps ==
  ASSUME IInv, SameRound, UNCHANGED <<staged, results, modules, imported>>,
         errors' \in Nat, errors' >= errors, status' = "crash" => status = "crash",
         ThreadTypes', Threading', Waited', phase' \in {"parse", "ir"},
         ir' \in [Paths -> Nat], pc'[Main] # "resolve", IRPhase', IRJobs'
  PROVE  IInv'
  <1>1. WellTyped /\ Reported /\ Resolving
    BY DEF IInv
  <1>2. WellTyped'
    BY <1>1 DEF WellTyped, FileTypes, SameRound
  <1>3. Reported'
    BY <1>1 DEF Reported, CrashIsReported, Empty, WellTyped, FileTypes
  <1>4. Resolving'
    BY <1>1, ResolvingStays DEF SameRound
  <1>. QED
    BY <1>2, <1>3, <1>4 DEF IInv, IRKept

LEMMA IRNumbers ==
  ASSUME WellTyped
  PROVE  /\ Len(results) \in Nat /\ DOMAIN results = 1 .. Len(results)
         /\ posted \in Nat /\ posted = Len(task) /\ pos[Main] \in Nat \ {0}
         /\ IRPosted \in Nat /\ IRFirst \in Int /\ IRFirst + IRPosted = posted
         /\ Main \in Threads
  <1>1. /\ Len(results) \in Nat /\ DOMAIN results = 1 .. Len(results)
        /\ posted \in Nat /\ posted = Len(task) /\ pos[Main] \in Nat \ {0} /\ Main \in Threads
    BY DEF WellTyped, FileTypes, ThreadTypes, Threads
  <1>2. IRPosted \in Nat
    BY <1>1 DEF IRPosted
  <1>. QED
    BY <1>1, <1>2 DEF IRFirst

(* A job that builds IR builds that of the result it was posted for.        *)
LEMMA BuildIRJobKeeps ==
  ASSUME IInv, NEW t \in Threads, BuildIRJob(t)
  PROVE  IInv'
  <1>1. /\ WellTyped /\ Threading /\ Waited
        /\ pc[t] = "ir" /\ pc[t] \in OnJob \ {"postImport"}
    BY DEF IInv, BuildIRJob, OnJob
  <1>2. IRPhase /\ pc[Main] \notin {"resolve", "flow", "returned"}
    BY <1>1, JobsPhase
  <1>3. IRJobs
    BY <1>2 DEF IInv, IRKept
  <1>4. /\ Len(results) \in Nat /\ DOMAIN results = 1 .. Len(results)
        /\ posted \in Nat /\ posted = Len(task) /\ pos[Main] \in Nat \ {0}
        /\ IRPosted \in Nat /\ IRFirst \in Int /\ IRFirst + IRPosted = posted
        /\ Main \in Threads
    BY <1>1, IRNumbers
  <1>5. PICK q \in Paths : q = File(t)
    BY <1>1, JobOfThread
  <1>6. /\ ir' = [ir EXCEPT ![q] = @ + 1] /\ Return(t)
        /\ UNCHANGED <<status, errors, phase, staged, results, modules, imported, pos, found>>
        /\ SameRound /\ pos' \in [Threads -> Nat \ {0}]
    BY <1>1, <1>5 DEF BuildIRJob, SameRound, sources, progress, WellTyped, ThreadTypes
  <1>7. /\ ThreadTypes' /\ Threading'
        /\ UNCHANGED <<task, posted>>
        /\ ticket[t] \in Unfinished
        /\ finished' = finished \cup {ticket[t]}
        /\ Unfinished' = Unfinished \ {ticket[t]}
        /\ pc'[t] = "idle"
        /\ \A u \in Threads : u # t => pc'[u] = pc[u] /\ ticket'[u] = ticket[u]
    BY <1>1, <1>6, ReturnKeepsThreading
  <1>8. PICK k \in Unfinished : /\ k = ticket[t] /\ task[k + 1].path = q
                                /\ k \notin finished /\ k \in 0 .. posted - 1 /\ k >= IRFirst
    BY <1>3, <1>5, <1>7 DEF Job, File, Unfinished, IRJobs
  <1>9. PICK n \in 1 .. IRPosted : k = IRFirst + n - 1
    <2>1. PICK i \in 1 .. IRPosted : i = k - IRFirst + 1
      BY <1>4, <1>8
    <2>2. k = IRFirst + i - 1
      <3>1. k \in Int /\ i \in Int /\ IRFirst \in Int
        BY <2>1, <1>4, <1>8
      <3>. QED
        BY <2>1, <3>1
    <2>. QED
      BY <2>2
  <1>10. results[n].path = q
    BY <1>3, <1>4, <1>8, <1>9 DEF IRJobs
  <1>11. pc'[Main] = pc[Main] \/ (t = Main /\ pc'[Main] = "idle")
    BY <1>4, <1>7
  <1>12. pc'[Main] = "postIR" <=> pc[Main] = "postIR"
    BY <1>1, <1>11
  <1>13. IRPosted' = IRPosted /\ IRFirst' = IRFirst /\ IRPhase'
    BY <1>2, <1>6, <1>7, <1>12 DEF IRPosted, IRFirst, IRPhase
  <1>14. /\ \A p \in Paths : p # q => IRBuilt(p)' = IRBuilt(p)
         /\ IRBuilt(q)' = IRBuilt(q) \cup {n} /\ n \notin IRBuilt(q)
    <2>1. \A i \in 1 .. IRPosted : IRFirst + i - 1 = k <=> i = n
      BY <1>4, <1>9
    <2>2. \A i \in 1 .. IRPosted :
            IRFirst + i - 1 \in finished' <=> IRFirst + i - 1 \in finished \/ i = n
      BY <2>1, <1>7, <1>8
    <2>3. \A p : IRBuilt(p)' =
            {i \in 1 .. IRPosted :
                results[i].path = p /\ (IRFirst + i - 1 \in finished \/ i = n)}
      BY <2>2, <1>6, <1>13 DEF IRBuilt
    <2>4. n \notin IRBuilt(q)
      BY <1>8, <1>9 DEF IRBuilt
    <2>. QED
      BY <2>3, <2>4, <1>10 DEF IRBuilt
  <1>15. Cardinality(IRBuilt(q)') = Cardinality(IRBuilt(q)) + 1
    <2>1. IsFiniteSet(1 .. IRPosted)
      BY <1>4, FS_Interval
    <2>2. IsFiniteSet(IRBuilt(q))
      <3>1. IRBuilt(q) \in SUBSET (1 .. IRPosted)
        BY DEF IRBuilt
      <3>. QED
        BY <2>1, <3>1, FS_Subset
    <2>. QED
      BY <2>2, <1>14, OneMore
  <1>16. ir \in [Paths -> Nat] /\ ir' \in [Paths -> Nat]
    BY <1>1, <1>6 DEF WellTyped, FileTypes
  <1>17. \A p \in Paths : ir'[p] = Cardinality(IRBuilt(p)')
    <2>1. \A p \in Paths : ir[p] = Cardinality(IRBuilt(p))
      BY <1>3 DEF IRJobs
    <2>. QED
      BY <2>1, <1>6, <1>14, <1>15, <1>16
  <1>18. IRJobs'
    BY <1>3, <1>6, <1>7, <1>13, <1>17 DEF IRJobs
  <1>19. Waited'
    BY <1>1, <1>2, <1>6, <1>11 DEF Waited
  <1>20. errors \in Nat /\ phase \in {"parse", "ir"} /\ pc'[Main] # "resolve"
    BY <1>1, <1>2, <1>11 DEF WellTyped, FileTypes
  <1>. QED
    BY <1>6, <1>7, <1>13, <1>16, <1>18, <1>19, <1>20, IRStepKeeps

(* The k-th job that builds IR is posted for the k-th result.               *)
LEMMA PostIRJobKeeps ==
  ASSUME IInv, PostIRJob
  PROVE  IInv'
  <1>1. /\ WellTyped /\ Threading /\ Waited /\ IRJobs /\ IRPhase /\ pc[Main] = "postIR"
        /\ pos[Main] <= Len(results)
    BY DEF IInv, IRKept, IRPhase, PostIRJob
  <1>2. /\ Len(results) \in Nat /\ DOMAIN results = 1 .. Len(results)
        /\ posted \in Nat /\ posted = Len(task) /\ pos[Main] \in Nat \ {0}
        /\ IRPosted \in Nat /\ IRFirst \in Int /\ IRFirst + IRPosted = posted
        /\ Main \in Threads
    BY <1>1, IRNumbers
  <1>3. PICK q \in Paths : q = results[pos[Main]].path
    <2>1. results[pos[Main]] \in Result
      BY <1>1, <1>2 DEF WellTyped, FileTypes
    <2>. QED
      BY <2>1 DEF Result
  <1>4. /\ Post("ir", q, FALSE) /\ pos' = [pos EXCEPT ![Main] = @ + 1]
        /\ UNCHANGED <<status, errors, phase, staged, results, modules, imported, ir, pc, found,
                       ticket>>
        /\ SameRound
    BY <1>3 DEF PostIRJob, Advance, SameRound, sources, progress, tables
  <1>5. /\ TasksGrow({"ir"})
        /\ posted' = posted + 1 /\ UNCHANGED <<runs, finished>>
        /\ posted \notin Unfinished
        /\ Unfinished' = Unfinished \cup {posted}
        /\ task'[posted + 1].kind = "ir"
        /\ task'[posted + 1].path = q
    BY <1>1, <1>4, PostAdds
  <1>6. \A i \in 1 .. posted : task'[i] = task[i]
    BY <1>1, <1>2, <1>5, TasksStay
  <1>7. pos' \in [Threads -> Nat \ {0}] /\ pos'[Main] = pos[Main] + 1
    BY <1>1, <1>2, <1>4 DEF WellTyped, ThreadTypes
  <1>8. ThreadTypes' /\ Threading'
    BY <1>1, <1>4, <1>5, <1>7, StayKeepsThreading
  <1>9. /\ IRPosted = pos[Main] - 1 /\ IRPosted' = IRPosted + 1 /\ IRFirst' = IRFirst
        /\ IRPhase'
    <2>1. IRPosted = pos[Main] - 1 /\ IRPosted' = IRPosted + 1
      BY <1>1, <1>2, <1>4, <1>7 DEF IRPosted
    <2>2. IRFirst' = IRFirst
      <3>1. posted \in Nat /\ IRPosted \in Nat /\ posted' = posted + 1
        BY <1>2, <1>5
      <3>. QED
        BY <2>1, <3>1 DEF IRFirst
    <2>. QED
      BY <2>1, <2>2, <1>1, <1>4 DEF IRPhase
  <1>10. /\ IRFirst + (IRPosted + 1) = posted + 1 /\ IRFirst >= 0 /\ IRPosted <= posted
         /\ 1 .. IRPosted + 1 = 1 .. IRPosted \cup {IRPosted + 1}
    <2>1. IRPosted <= posted
      BY <1>1 DEF IRJobs
    <2>. QED
      BY <2>1, <1>2
  <1>11. posted \notin finished
    BY <1>1, <1>2 DEF WellTyped, ThreadTypes
  <1>12. \A p : IRBuilt(p)' = IRBuilt(p)
    <2>1. IRFirst + (IRPosted + 1) - 1 \notin finished
      BY <1>2, <1>10, <1>11
    <2>. QED
      BY <2>1, <1>4, <1>5, <1>9, <1>10 DEF IRBuilt
  <1>13. ASSUME NEW i \in 1 .. IRPosted + 1
         PROVE  task'[IRFirst + i].kind = "ir" /\ task'[IRFirst + i].path = results[i].path
    <2>1. CASE i = IRPosted + 1
      <3>1. IRFirst + i = posted + 1 /\ i = pos[Main]
        BY SMTT(60), <2>1, <1>2, <1>9
      <3>. QED
        BY <3>1, <1>3, <1>5
    <2>2. CASE i \in 1 .. IRPosted
      <3>1. IRFirst + i \in 1 .. posted
        BY <2>2, <1>2, <1>10
      <3>2. task'[IRFirst + i] = task[IRFirst + i]
        BY <3>1, <1>6
      <3>. QED
        BY <2>2, <3>2, <1>1 DEF IRJobs
    <2>. QED
      BY <2>1, <2>2, <1>10
  <1>14. IRJobs'
    <2>1. IRPosted' <= Len(results') /\ IRPosted' <= posted'
      <3>1. /\ Len(results) \in Nat /\ posted \in Nat /\ pos[Main] \in Nat /\ IRPosted \in Nat
            /\ pos[Main] <= Len(results) /\ results' = results /\ posted' = posted + 1
        BY <1>1, <1>2, <1>4, <1>5
      <3>. QED
        BY <3>1, <1>9, <1>10
    <2>2. \A k \in Unfinished' : k >= IRFirst'
      BY SMTT(60), <1>1, <1>2, <1>5, <1>9, <1>10 DEF IRJobs
    <2>3. phase' # "ir"
      BY <1>1, <1>4 DEF Waited
    <2>4. \A p \in Paths : ir'[p] = Cardinality(IRBuilt(p)')
      BY <1>1, <1>4, <1>12 DEF IRJobs
    <2>. QED
      BY <2>1, <2>2, <2>3, <2>4, <1>4, <1>9, <1>13 DEF IRJobs
  <1>15. Waited'
    BY <1>1, <1>4 DEF Waited
  <1>16. errors \in Nat /\ phase \in {"parse", "ir"} /\ ir \in [Paths -> Nat]
    BY <1>1 DEF WellTyped, FileTypes
  <1>. QED
    BY <1>1, <1>4, <1>8, <1>9, <1>14, <1>15, <1>16, IRStepKeeps

(* The main thread goes from one label to the next, and no file moves.      *)
LEMMA MainMoves ==
  ASSUME WellTyped, Threading, pc[Main] \notin OnJob \cup {"postInitial"},
         NEW label \in {"idle", "resolve", "postIR", "flow", "returned"},
         pc' = [pc EXCEPT ![Main] = label],
         pos' = pos \/ pos' = [pos EXCEPT ![Main] = 1],
         UNCHANGED <<found, ticket, task, posted, runs, finished>>, SameRound
  PROVE  /\ ThreadTypes' /\ Threading' /\ Unfinished' = Unfinished
         /\ pc'[Main] = label
         /\ \A u \in Threads : u # Main => pc'[u] = pc[u] /\ pos'[u] = pos[u]
  <1>1. Main \in Threads
    BY DEF Threads
  <1>2. TasksGrow({})
    BY DEF TasksGrow
  <1>3. found[Main] = NoPath
    BY <1>1 DEF Threading, OnJob
  <1>4. /\ found' = [found EXCEPT ![Main] = NoPath]
        /\ pos' \in [Threads -> Nat \ {0}] /\ pc'[Main] = label
        /\ \A u \in Threads : u # Main => pc'[u] = pc[u] /\ pos'[u] = pos[u]
    BY <1>1, <1>3 DEF WellTyped, ThreadTypes
  <1>5. Moves(Main, label, NoPath)
    BY <1>4 DEF Moves, OnMain, OnJob
  <1>6. label \in OnMain \cup OnJob \cup {"idle"} /\ NoPath \in NoOrPath
    BY DEF OnMain, NoOrPath
  <1>7. Unfinished' = Unfinished
    BY DEF Unfinished
  <1>. QED
    BY <1>1, <1>2, <1>4, <1>5, <1>6, <1>7, MoveKeepsThreading

LEMMA WaitForIRKeeps ==
  ASSUME IInv, WaitForIR
  PROVE  IInv'
  <1>1. /\ WellTyped /\ Threading /\ IRJobs /\ pc[Main] = "postIR"
        /\ pos[Main] > Len(results)
    BY DEF IInv, IRKept, IRPhase, WaitForIR
  <1>2. /\ phase' = "ir" /\ pos' = [pos EXCEPT ![Main] = 1]
        /\ pc' = [pc EXCEPT ![Main] = "idle"]
        /\ UNCHANGED <<status, errors, staged, results, modules, imported, ir, found, ticket, task,
                       posted, runs, finished>>
        /\ SameRound
    BY DEF WaitForIR, Goto, Pool!StartWait, SameRound, sources, tables
  <1>3. /\ ThreadTypes' /\ Threading' /\ Unfinished' = Unfinished /\ pc'[Main] = "idle"
    BY <1>1, <1>2, MainMoves DEF OnJob
  <1>4. pos'[Main] = 1
    BY <1>1, <1>2 DEF WellTyped, ThreadTypes, Threads
  <1>5. IRPosted' = IRPosted
    BY <1>1, <1>2, <1>3, IRNumbers DEF IRPosted, IRJobs
  <1>6. IRFirst' = IRFirst
    BY <1>2, <1>5 DEF IRFirst
  <1>7. \A p : IRBuilt(p)' = IRBuilt(p)
    BY <1>2, <1>5, <1>6 DEF IRBuilt
  <1>8. IRJobs'
    BY <1>1, <1>2, <1>3, <1>4, <1>5, <1>6, <1>7 DEF IRJobs
  <1>9. Waited' /\ IRPhase'
    BY <1>2, <1>3 DEF Waited, IRPhase
  <1>10. errors \in Nat /\ ir \in [Paths -> Nat]
    BY <1>1 DEF WellTyped, FileTypes
  <1>. QED
    BY <1>2, <1>3, <1>8, <1>9, <1>10, IRStepKeeps

LEMMA IRDoneKeeps ==
  ASSUME IInv, IRDone
  PROVE  IInv'
  <1>1. /\ WellTyped /\ Threading /\ IRJobs /\ IRPhase /\ pc[Main] = "idle" /\ phase = "ir"
    BY DEF IInv, IRKept, IRPhase, IRDone
  <1>2. /\ pc' = [pc EXCEPT ![Main] = "flow"]
        /\ UNCHANGED <<status, errors, phase, staged, results, modules, imported, ir, pos, found,
                       ticket, task, posted, runs, finished>>
        /\ SameRound /\ finished = 0 .. posted - 1
    BY DEF IRDone, Goto, Pool!EndWait, SameRound, sources, progress, tables
  <1>3. /\ ThreadTypes' /\ Threading' /\ Unfinished' = Unfinished /\ pc'[Main] = "flow"
    BY <1>1, <1>2, MainMoves DEF OnJob
  <1>4. IRJobs' /\ IRPhase'
    BY <1>1, <1>2, <1>3, IRStays
  <1>5. Waited'
    BY <1>1, <1>2, <1>3 DEF Waited, Unfinished
  <1>6. errors \in Nat /\ ir \in [Paths -> Nat]
    BY <1>1 DEF WellTyped, FileTypes
  <1>. QED
    BY <1>1, <1>2, <1>3, <1>4, <1>5, <1>6, IRStepKeeps

LEMMA FlowTypingKeeps ==
  ASSUME IInv, FlowTyping
  PROVE  IInv'
  <1>1. /\ WellTyped /\ Threading /\ Waited /\ pc[Main] = "flow" /\ phase = "ir"
        /\ IRPhase /\ IRJobs
    BY DEF IInv, IRKept, IRPhase, Waited, FlowTyping
  <1>2. /\ pc' = [pc EXCEPT ![Main] = "returned"]
        /\ UNCHANGED <<phase, staged, results, modules, imported, ir, pos, found,
                       ticket, task, posted, runs, finished>>
        /\ SameRound /\ status' \in {"exit", "running"}
        /\ \E n \in 0 .. 1 : errors' = errors + n
    BY DEF FlowTyping, Goto, SameRound, sources, progress, tables, pool
  <1>3. /\ ThreadTypes' /\ Threading' /\ Unfinished' = Unfinished /\ pc'[Main] = "returned"
    BY <1>1, <1>2, MainMoves DEF OnJob
  <1>4. IRJobs' /\ IRPhase'
    BY <1>1, <1>2, <1>3, IRStays
  <1>5. Waited'
    BY <1>1, <1>2, <1>3 DEF Waited
  <1>6. errors \in Nat /\ ir \in [Paths -> Nat] /\ errors' \in Nat /\ errors' >= errors
    BY <1>1, <1>2 DEF WellTyped, FileTypes
  <1>. QED
    BY <1>1, <1>2, <1>3, <1>4, <1>5, <1>6, IRStepKeeps

LEMMA TypeCheckKeeps ==
  ASSUME IInv, TypeCheck
  PROVE  IInv'
  <1>1. /\ WellTyped /\ Threading /\ Waited /\ pc[Main] = "resolve" /\ phase = "parse"
        /\ ~IRPhase /\ NoIRJobs /\ Unfinished = {}
    BY DEF IInv, IRKept, IRPhase, Waited, TypeCheck
  <1>2. /\ pc' = [pc EXCEPT ![Main] = "postIR"] /\ pos' = [pos EXCEPT ![Main] = 1]
        /\ UNCHANGED <<phase, staged, results, modules, imported, ir, found,
                       ticket, task, posted, runs, finished>>
        /\ SameRound /\ status' \in {"exit", "running"}
        /\ \E n, missing \in 0 .. 1 : errors' = errors + n + missing
    BY DEF TypeCheck, Goto, SameRound, sources, progress, tables, pool
  <1>3. /\ ThreadTypes' /\ Threading' /\ Unfinished' = Unfinished /\ pc'[Main] = "postIR"
    BY <1>1, <1>2, MainMoves DEF OnJob
  <1>4. pos'[Main] = 1 /\ posted \in Nat /\ Len(results) \in Nat
    BY <1>1, <1>2 DEF WellTyped, ThreadTypes, FileTypes, Threads
  <1>5. IRPosted' = 0
    BY <1>3, <1>4 DEF IRPosted
  <1>6. \A p : IRBuilt(p)' = {}
    BY <1>5 DEF IRBuilt
  <1>7. \A p \in Paths : ir'[p] = Cardinality(IRBuilt(p)')
    BY <1>1, <1>2, <1>6, FS_EmptySet DEF NoIRJobs
  <1>8. IRJobs'
    BY <1>1, <1>2, <1>3, <1>4, <1>5, <1>7 DEF IRJobs
  <1>9. Waited' /\ IRPhase'
    BY <1>1, <1>2, <1>3 DEF Waited, IRPhase
  <1>10. errors \in Nat /\ ir \in [Paths -> Nat] /\ errors' \in Nat /\ errors' >= errors
    BY <1>1, <1>2 DEF WellTyped, FileTypes
  <1>. QED
    BY <1>1, <1>2, <1>3, <1>8, <1>9, <1>10, IRStepKeeps

(* A step that moves no file and no job: the main thread decides something. *)
LEMMA OutcomeKeeps ==
  ASSUME IInv, SameRound,
         UNCHANGED <<phase, staged, results, modules, ir, pc, found, ticket, task, posted, runs,
                     finished>>,
         pos' = pos \/ (pc[Main] = "resolve" /\ pos' = [pos EXCEPT ![Main] = @ + 1]),
         errors' \in Nat, errors' >= errors, status' = "crash" => errors' > 0,
         Resolving'
  PROVE  IInv'
  <1>1. WellTyped /\ Threading /\ Waited /\ Reported /\ Main \in Threads
    BY DEF IInv, Threads
  <1>2. /\ pos' \in [Threads -> Nat \ {0}]
        /\ \A u \in Threads : u # Main => pos'[u] = pos[u]
        /\ pc[Main] # "resolve" => pos' = pos
    <2>1. pos \in [Threads -> Nat \ {0}]
      BY <1>1 DEF WellTyped, ThreadTypes
    <2>2. CASE pos' = pos
      BY <2>1, <2>2
    <2>3. CASE pc[Main] = "resolve" /\ pos' = [pos EXCEPT ![Main] = @ + 1]
      BY <2>1, <2>3, <1>1
    <2>. QED
      BY <2>2, <2>3
  <1>3. TasksGrow({})
    BY DEF TasksGrow
  <1>4. ThreadTypes' /\ Threading'
    BY <1>1, <1>2, <1>3, StayKeepsThreading
  <1>5. WellTyped'
    BY <1>1, <1>4 DEF WellTyped, FileTypes, SameRound
  <1>6. Unfinished' = Unfinished /\ Lexed' = Lexed
    BY DEF Unfinished, Lexed
  <1>7. Waited'
    BY <1>1, <1>6 DEF Waited
  <1>8. Reported'
    BY <1>1 DEF Reported, CrashIsReported, Empty, WellTyped, FileTypes
  <1>9. IRPhase' <=> IRPhase
    BY DEF IRPhase
  <1>10. CASE IRPhase
    <2>1. pc[Main] # "resolve"
      BY <1>1, <1>10 DEF Waited, IRPhase
    <2>2. IRJobs
      BY <1>10 DEF IInv, IRKept
    <2>3. IRJobs'
      BY <1>2, <2>1, <2>2, IRStays
    <2>. QED
      BY <1>4, <1>5, <1>7, <1>8, <1>9, <1>10, <2>3 DEF IInv, IRKept
  <1>11. CASE ~IRPhase
    <2>1. Parsing /\ NoIRJobs
      BY <1>11 DEF IInv, IRKept
    <2>2. NoIRJobs'
      BY <2>1, <1>6 DEF NoIRJobs
    <2>3. \A j : Past(j)' <=> Past(j)
      BY <1>2 DEF Past
    <2>4. InitialFiles' = InitialFiles /\ text' = text
      BY SameFiles DEF SameRound
    <2>5. Quiet
      BY <1>6, <2>3, <2>4 DEF Quiet, PastCustom
    <2>6. InitialMet'
      BY <2>1, <2>3, InitialStays DEF Parsing
    <2>7. ImportsMet'
      <3>1. pc'[Main] \in {"imports", "postImport"} => pos'[Main] = pos[Main]
        BY <1>2
      <3>2. ASSUME pc'[Main] \in {"imports", "postImport"},
                   NEW j \in DOMAIN Source(Main)'.imports,
                   j < pos'[Main], Source(Main)'.imports[j].module = NoModule
            PROVE  FindFile(Source(Main)'.imports[j].file, File(Main)')
                        \in staged' \cup {NoPath}
        <4>1. Source(Main)' = Source(Main) /\ File(Main)' = File(Main)
          BY <2>4 DEF Source, File, Job
        <4>. QED
          BY <1>1, <2>1, <3>1, <3>2, <4>1 DEF Parsing, ImportsMet
      <3>. QED
        BY <1>1, <1>2, <1>3, <2>1, <3>2, ImportsStay DEF Parsing
    <2>8. Parsing'
      BY <1>1, <2>1, <2>5, <2>6, <2>7, QuietKeepsParsing
    <2>. QED
      BY <1>4, <1>5, <1>7, <1>8, <1>9, <1>11, <2>2, <2>8 DEF IInv, IRKept
  <1>. QED
    BY <1>10, <1>11

(* Nothing changes, or only how the build ends.                             *)
LEMMA EndingKeeps ==
  ASSUME IInv,
         UNCHANGED <<sources, progress, staged, results, tables, locals, task, pool>>,
         errors' \in Nat, errors' >= errors, status' = "crash" => errors' > 0
  PROVE  IInv'
  <1>1. /\ SameRound /\ text' = text
        /\ UNCHANGED <<phase, staged, results, modules, imported, ir, pc, pos, found, ticket, task,
                       posted, runs, finished>>
    BY DEF SameRound, sources, progress, tables, locals, pool
  <1>2. Resolving
    BY DEF IInv
  <1>3. ~IRPhase' => (imported = << >> \/ pc'[Main] = "resolve")
    BY <1>1, <1>2 DEF Resolving, IRPhase
  <1>4. Resolving'
    BY <1>1, <1>2, <1>3, ResolvingStays
  <1>. QED
    BY <1>1, <1>4, OutcomeKeeps

LEMMA StutteringKeeps ==
  ASSUME IInv, UNCHANGED vars
  PROVE  IInv'
  <1>1. errors \in Nat /\ (status = "crash" => errors > 0)
    BY DEF IInv, WellTyped, FileTypes, Reported, CrashIsReported
  <1>. QED
    BY <1>1, EndingKeeps DEF vars, progress

LEMMA AllDoneKeeps ==
  ASSUME IInv, AllDone
  PROVE  IInv'
  <1>1. errors \in Nat
    BY DEF IInv, WellTyped, FileTypes
  <1>. QED
    BY <1>1, EndingKeeps DEF AllDone

LEMMA TypeCheckCrashesKeeps ==
  ASSUME IInv, TypeCheckCrashes
  PROVE  IInv'
  <1>1. errors \in Nat /\ errors > 0
    BY DEF IInv, WellTyped, FileTypes, Reported, TypeCheckCrashes
  <1>. QED
    BY <1>1, EndingKeeps DEF TypeCheckCrashes

LEMMA SkipEmptySlotKeeps ==
  ASSUME IInv, SkipEmptySlot
  PROVE  IInv'
  <1>1. /\ SameRound /\ text' = text
        /\ UNCHANGED <<phase, staged, results, modules, imported, ir, pc, found, ticket, task,
                       posted, runs, finished, status, errors>>
        /\ pc[Main] = "resolve" /\ pos' = [pos EXCEPT ![Main] = @ + 1]
    BY DEF SkipEmptySlot, Advance, SameRound, sources, progress, tables, pool
  <1>2. Resolving /\ errors \in Nat /\ (status = "crash" => errors > 0)
    BY DEF IInv, WellTyped, FileTypes, Reported, CrashIsReported
  <1>3. Resolving'
    BY <1>1, <1>2, ResolvingStays
  <1>. QED
    BY <1>1, <1>2, <1>3, OutcomeKeeps

(* The slots a result's imports are looked up in, and the first that fits.  *)
LEMMA HitFits ==
  ASSUME WellTyped, NEW i \in DOMAIN results
  PROVE  /\ results[i] \in Result
         /\ IsFiniteSet(DOMAIN results[i].imports)
         /\ \A j : Hits(i, j) # {} => Hit(i, j) \in Hits(i, j) /\ Hit(i, j) \in DOMAIN results
         /\ \A S \in SUBSET Unresolved(i) : Cardinality(S) \in Nat
  <1>1. results \in Seq(Result)
    BY DEF WellTyped, FileTypes
  <1>2. results[i] \in Result
    BY <1>1
  <1>3. IsFiniteSet(DOMAIN results[i].imports)
    <2>1. results[i].imports \in ImportLists
      BY <1>2 DEF Result
    <2>2. PICK D \in {E \in SUBSET Nat : IsFiniteSet(E)} : results[i].imports \in [D -> Import]
      BY <2>1 DEF ImportLists
    <2>. QED
      BY <2>2
  <1>4. ASSUME NEW j, Hits(i, j) # {}
        PROVE  Hit(i, j) \in Hits(i, j) /\ Hit(i, j) \in DOMAIN results
    <2>1. Hits(i, j) \subseteq DOMAIN results /\ DOMAIN results \subseteq Nat
      BY <1>1 DEF Hits
    <2>2. \E k \in Hits(i, j) : \A l \in Hits(i, j) : k <= l
      BY <1>4, <2>1, Smallest
    <2>. QED
      BY <2>1, <2>2 DEF Hit
  <1>5. ASSUME NEW S \in SUBSET Unresolved(i)
        PROVE  Cardinality(S) \in Nat
    <2>1. S \in SUBSET DOMAIN results[i].imports
      BY DEF Unresolved, ModuleImports, FileImports
    <2>. QED
      BY <1>3, <2>1, FS_Subset, FS_CardinalityType
  <1>. QED
    BY <1>2, <1>3, <1>4, <1>5

LEMMA ResolveCrashesKeeps ==
  ASSUME IInv, ResolveCrashes
  PROVE  IInv'
  <1>1. PICK i : i = pos[Main]
    OBVIOUS
  <1>2. /\ i <= Len(results) /\ NullReads(i) # {}
        /\ \E n : /\ n = Cardinality({j \in Unresolved(i) : \A k \in NullReads(i) : j < k})
                  /\ errors' = errors + n
        /\ status' \in {"exit", "crash"}
        /\ UNCHANGED <<sources, progress, staged, results, tables, locals, task, pool>>
    BY <1>1 DEF ResolveCrashes
  <1>3. /\ WellTyped /\ errors \in Nat
        /\ (\E k \in DOMAIN results : Empty(k)) => errors > 0
    BY DEF IInv, WellTyped, FileTypes, Reported
  <1>4. i \in DOMAIN results
    BY <1>1, <1>2, <1>3, IRNumbers
  <1>5. PICK j \in FileImports(i) : Hits(i, j) # {} /\ Empty(Hit(i, j))
    BY <1>2 DEF NullReads
  <1>6. Hit(i, j) \in DOMAIN results
    BY <1>3, <1>4, <1>5, HitFits
  <1>7. errors > 0
    BY <1>3, <1>5, <1>6
  <1>8. errors' \in Nat /\ errors' >= errors
    <2>1. Cardinality({l \in Unresolved(i) : \A k \in NullReads(i) : l < k}) \in Nat
      BY <1>3, <1>4, HitFits
    <2>. QED
      BY <1>2, <1>3, <2>1
  <1>. QED
    BY <1>2, <1>3, <1>7, <1>8, EndingKeeps

(* When parsing is over, no file is on its way any more.                    *)
LEMMA NothingLeft ==
  ASSUME WellTyped, Threading, Unfinished = {}, pc[Main] \notin {"postInitial"}
  PROVE  /\ \A t \in Threads : pc[t] \notin OnJob /\ found[t] = NoPath /\ ticket[t] = NoTicket
         /\ \A p \in Paths : /\ ToPost(p) = {} /\ ToLex(p) = {} /\ ToParse(p) = {}
                             /\ ToParseCustom(p) = {}
  <1>1. \A t \in Threads : pc[t] \notin OnJob
    BY DEF Threading
  <1>2. \A t \in Threads : pc[t] \notin {"postInitial", "postImport"}
    BY <1>1 DEF OnJob, OnMain, Threading
  <1>3. \A t \in Threads : found[t] = NoPath /\ ticket[t] = NoTicket
    BY <1>1, <1>2 DEF Threading
  <1>4. \A p \in Paths : p # NoPath
    BY PipelineAssumption
  <1>. QED
    BY <1>1, <1>3, <1>4 DEF ToPost, ToLex, ToParse, ToParseCustom

(* The first slot that fits is looked up, and the module has the file.      *)
LEMMA ResolveImportsKeeps ==
  ASSUME IInv, ResolveImports
  PROVE  IInv'
  <1>1. PICK i \in Nat : i = pos[Main]
    BY IRNumbers DEF IInv
  <1>2. /\ pc[Main] = "resolve" /\ i <= Len(results) /\ NullReads(i) = {}
        /\ errors' = errors + Cardinality(Unresolved(i))
        /\ status' \in {"exit", "running"}
        /\ imported' = [k \in DOMAIN imported \cup {i} |->
                            IF k = i THEN Resolved(i) ELSE imported[k]]
        /\ pos' = [pos EXCEPT ![Main] = @ + 1]
        /\ UNCHANGED <<phase, staged, results, modules, ir, pc, found, ticket, task, posted, runs,
                       finished>>
        /\ SameRound /\ text' = text
    BY <1>1 DEF ResolveImports, Advance, SameRound, sources, progress, pool
  <1>3. /\ WellTyped /\ Threading /\ Resolving /\ errors \in Nat /\ Parsing
        /\ Unfinished = {} /\ ~IRPhase
    BY <1>2 DEF IInv, WellTyped, FileTypes, Waited, IRPhase
  <1>4. i \in DOMAIN results
    BY <1>1, <1>2, <1>3, IRNumbers
  <1>5. Cardinality(Unresolved(i)) \in Nat
    BY <1>3, <1>4, HitFits
  <1>6. ASSUME NEW j \in FileImports(i),
               text[FindFile(results[i].imports[j].file, results[i].path)].readable
        PROVE  \E k \in DOMAIN results :
                  /\ results[k].path = FindFile(results[i].imports[j].file, results[i].path)
                  /\ results[k].module \in Resolved(i)
    <2>1. PICK p \in staged : p = FindFile(results[i].imports[j].file, results[i].path)
      BY <1>3, <1>4 DEF Parsing, Genuine
    <2>2. p \in Paths
      BY <1>3 DEF WellTyped, FileTypes
    <2>3. HasResult(p, text[p])
      BY <1>2, <1>3, <1>6, <2>1, <2>2, NothingLeft DEF Parsing, StagedCovered
    <2>4. PICK k \in DOMAIN results : results[k].path = p
      BY <2>3 DEF HasResult, ResultIn
    <2>5. k \in Hits(i, j)
      BY <2>1, <2>4 DEF Hits, Target
    <2>6. Hit(i, j) \in Hits(i, j) /\ Hit(i, j) \in DOMAIN results
      BY <1>3, <1>4, <2>5, HitFits
    <2>7. ~Empty(Hit(i, j))
      BY <1>2, <2>5 DEF NullReads
    <2>8. results[Hit(i, j)].path = p
      BY <2>1, <2>6, <2>7 DEF Hits, Target
    <2>9. j \notin Unresolved(i)
      BY <2>5 DEF Unresolved, ModuleImports
    <2>10. results[Hit(i, j)].module \in Resolved(i)
      BY <2>9 DEF Resolved
    <2>. QED
      BY <2>1, <2>6, <2>8, <2>10
  <1>7. \A n : FileImports(n)' = FileImports(n)
    BY <1>2 DEF FileImports
  <1>8. FileImportsResolve'
    <2>. SUFFICES ASSUME NEW n \in DOMAIN imported', NEW j \in FileImports(n),
                         text[FindFile(results[n].imports[j].file, results[n].path)].readable
                  PROVE  \E k \in DOMAIN results :
                            /\ results[k].path =
                                FindFile(results[n].imports[j].file, results[n].path)
                            /\ results[k].module \in imported'[n]
      BY <1>2, <1>7 DEF FileImportsResolve
    <2>1. CASE n = i
      BY <2>1, <1>2, <1>6
    <2>2. CASE n # i
      <3>1. n \in DOMAIN imported /\ imported'[n] = imported[n]
        BY <2>2, <1>2
      <3>. QED
        BY <3>1, <1>3 DEF Resolving, FileImportsResolve
    <2>. QED
      BY <2>1, <2>2
  <1>9. ModuleTable' = ModuleTable
    BY <1>2 DEF ModuleTable, Declared, FilesOf, Places
  <1>10. DOMAIN imported' \subseteq DOMAIN results'
    BY <1>2, <1>3, <1>4 DEF Resolving
  <1>11. Resolving'
    BY <1>2, <1>3, <1>8, <1>9, <1>10 DEF Resolving
  <1>. QED
    BY <1>2, <1>3, <1>5, <1>11, OutcomeKeeps

(* The wait is over when no job is left: AddModule runs over the results.   *)
LEMMA ParsingDoneKeeps ==
  ASSUME IInv, ParsingDone
  PROVE  IInv'
  <1>1. /\ pc[Main] = "idle" /\ phase = "parse"
        /\ finished = 0 .. posted - 1
        /\ modules' = ModuleTable
        /\ pc' = [pc EXCEPT ![Main] = "resolve"]
        /\ UNCHANGED <<status, errors, phase, staged, results, imported, ir, pos, found, ticket,
                       task, posted, runs, finished>>
        /\ SameRound /\ text' = text
    BY DEF ParsingDone, Goto, Pool!EndWait, SameRound, sources, progress
  <1>2. /\ WellTyped /\ Threading /\ ~IRPhase /\ NoIRJobs /\ Parsing /\ Reported /\ Resolving
        /\ imported = << >> /\ Main \in Threads
    BY <1>1 DEF IInv, IRKept, IRPhase, Resolving, Threads
  <1>3. /\ ThreadTypes' /\ Threading' /\ Unfinished' = Unfinished /\ pc'[Main] = "resolve"
        /\ \A u \in Threads : u # Main => pc'[u] = pc[u] /\ pos'[u] = pos[u]
    BY <1>1, <1>2, MainMoves DEF OnJob
  <1>4. TasksGrow(ParseKinds)
    BY <1>1 DEF TasksGrow
  <1>5. \A j : Past(j)' <=> Past(j)
    BY <1>1, <1>3 DEF Past
  <1>6. Quiet
    <2>1. {u \in Threads : pc'[u] = "lexed"} = {u \in Threads : pc[u] = "lexed"}
      BY <1>1, <1>3
    <2>2. Lexed' = Lexed
      BY <1>1, <2>1 DEF Lexed
    <2>3. InitialFiles' = InitialFiles
      BY <1>1, SameFiles
    <2>. QED
      BY <1>1, <1>5, <2>2, <2>3 DEF Quiet, PastCustom
  <1>7. InitialMet'
    BY <1>1, <1>2, <1>5, InitialStays DEF Parsing
  <1>8. ImportsMet'
    BY <1>1, <1>2, <1>3, <1>4, ImportsStay DEF Parsing
  <1>9. Parsing'
    BY <1>2, <1>6, <1>7, <1>8, QuietKeepsParsing
  <1>10. WellTyped'
    BY <1>1, <1>2, <1>3 DEF WellTyped, FileTypes, SameRound
  <1>11. Waited'
    BY <1>1, <1>3 DEF Waited, Unfinished
  <1>12. ~IRPhase' /\ NoIRJobs'
    BY <1>1, <1>2, <1>3 DEF IRPhase, NoIRJobs
  <1>13. Reported'
    BY <1>1, <1>2 DEF Reported, CrashIsReported, Empty
  <1>14. Resolving'
    <2>1. ModuleTable' = ModuleTable
      BY <1>1 DEF ModuleTable, Declared, FilesOf, Places
    <2>2. DOMAIN imported' = {}
      BY <1>1, <1>2
    <2>. QED
      BY <1>1, <1>3, <2>1, <2>2 DEF Resolving, FileImportsResolve
  <1>. QED
    BY <1>3, <1>9, <1>10, <1>11, <1>12, <1>13, <1>14 DEF IInv, IRKept

(* A call of RunPipeline starts with nothing on its way.                    *)
Fresh ==
    /\ WellTyped
    /\ pc[Main] = "stage" /\ pos[Main] = 1
    /\ staged = {} /\ results = << >> /\ Unfinished = {}
    /\ \A t \in Threads : pc[t] \notin OnJob /\ found[t] = NoPath

LEMMA FreshParsing == Fresh => Parsing
  <1>. SUFFICES ASSUME Fresh PROVE Parsing
    OBVIOUS
  <1>1. /\ WellTyped /\ pc[Main] = "stage" /\ pos[Main] = 1
        /\ staged = {} /\ results = << >> /\ Unfinished = {}
        /\ \A t \in Threads : pc[t] \notin OnJob /\ found[t] = NoPath
    BY DEF Fresh
  <1>2. InitialFiles \in Seq(Names) /\ CustomFiles \in Seq(Paths)
    BY <1>1, FilesOfRound
  <1>3. /\ \A j \in DOMAIN InitialFiles : ~Past(j)
        /\ \A j \in DOMAIN CustomFiles : ~PastCustom(j)
    BY <1>1, <1>2 DEF Past, PastCustom
  <1>4. \A p \in Paths : p # NoPath
    BY PipelineAssumption
  <1>5. \A p \in Paths : /\ ToPost(p) = {} /\ ToLex(p) = {} /\ ToParse(p) = {}
                         /\ ToParseCustom(p) = {}
                         /\ ResultsOf(p) = {} /\ Expected(p) = {}
    BY <1>1, <1>3, <1>4
    DEF ToPost, ToLex, ToParse, ToParseCustom, ResultsOf, Expected
  <1>6. Provenance /\ Balance
    <2>1. Provenance
      BY <1>1 DEF Provenance
    <2>2. ASSUME NEW p \in Paths
          PROVE  Cardinality(ResultsOf(p)) + Cardinality(ToParse(p))
                   + Cardinality(ToParseCustom(p)) + Cardinality(ToLex(p)) + Cardinality(ToPost(p))
                 = Cardinality(Expected(p)) + (IF p \in staged THEN 1 ELSE 0)
      <3>1. Cardinality({}) = 0 /\ p \notin staged
        BY <1>1, FS_EmptySet
      <3>. QED
        BY <1>5, <3>1
    <2>. QED
      BY <2>1, <2>2 DEF Balance
  <1>7. StagedCovered /\ CustomCovered /\ InitialMet
    BY <1>1, <1>3 DEF StagedCovered, CustomCovered, InitialMet
  <1>8. ImportsMet
    BY <1>1 DEF ImportsMet, OnJob
  <1>9. Genuine /\ OnlyReached
    BY <1>1 DEF Genuine, OnlyReached
  <1>. QED
    BY <1>6, <1>7, <1>8, <1>9 DEF Parsing

LEMMA InitKeeps == Init => IInv
  <1>. SUFFICES ASSUME Init PROVE IInv
    OBVIOUS
  <1>1. PICK b \in Builds : text = b.text /\ rounds = b.rounds
    BY DEF Init
  <1>2. /\ status = "running" /\ round = 1 /\ phase = "parse" /\ errors = 0
        /\ staged = {} /\ results = << >> /\ imported = << >>
        /\ ir = [p \in Paths |-> 0]
        /\ pc = [t \in Threads |-> IF t = Main THEN "stage" ELSE "idle"]
        /\ pos = [t \in Threads |-> 1]
        /\ found = [t \in Threads |-> NoPath]
        /\ ticket = [t \in Threads |-> NoTicket]
        /\ task = << >>
        /\ posted = 0 /\ runs = [k \in 0 .. JobLimit - 1 |-> 0] /\ finished = {}
    BY DEF Init, Pool!PoolInit, Pool!Tickets
  <1>3. /\ Main \in Threads /\ JobLimit \in Nat
        /\ b.text \in [Paths -> Text] /\ b.rounds \in Seq(Round) /\ b.rounds # << >>
    BY PipelineAssumption DEF Round, Threads
  <1>4. WellTyped
    <2>1. 1 \in 1 .. Len(rounds)
      BY <1>1, <1>3
    <2>2. results \in Seq(Result) /\ task \in Seq(Jobs) /\ Len(task) = 0
      BY <1>2
    <2>3. FileTypes
      BY <1>1, <1>2, <1>3, <2>1, <2>2 DEF FileTypes
    <2>4. ThreadTypes
      BY <1>2, <1>3, <2>2 DEF ThreadTypes, OnMain, OnJob, NoOrPath
    <2>. QED
      BY <2>3, <2>4 DEF WellTyped
  <1>5. Unfinished = {} /\ Main \in Threads /\ pc[Main] = "stage" /\ pos[Main] = 1
        /\ \A t \in Threads : pc[t] \in {"stage", "idle"} /\ found[t] = NoPath
                              /\ ticket[t] = NoTicket /\ (t # Main => pc[t] = "idle")
    BY <1>2, <1>3 DEF Unfinished
  <1>6. Threading
    BY <1>2, <1>5 DEF Threading, OnMain, OnJob
  <1>7. Waited
    BY <1>2, <1>5 DEF Waited
  <1>8. ~IRPhase /\ NoIRJobs
    BY <1>2, <1>5 DEF IRPhase, NoIRJobs
  <1>9. Fresh
    BY <1>2, <1>4, <1>5 DEF Fresh, OnJob
  <1>10. Reported
    BY <1>2 DEF Reported, CrashIsReported
  <1>11. Resolving
    <2>1. DOMAIN imported = {}
      BY <1>2
    <2>. QED
      BY <1>2, <1>5, <2>1 DEF Resolving, FileImportsResolve
  <1>. QED
    BY <1>4, <1>6, <1>7, <1>8, <1>9, <1>10, <1>11, FreshParsing DEF IInv, IRKept

(* Another call of RunPipeline, for the next target of the build.           *)
LEMMA NextRoundKeeps ==
  ASSUME IInv, NextRound
  PROVE  IInv'
  <1>1. /\ pc[Main] = "returned" /\ round < Len(rounds) /\ round' = round + 1
        /\ phase' = "parse" /\ staged' = {} /\ results' = << >> /\ imported' = << >>
        /\ ir' = [p \in Paths |-> 0]
        /\ pc' = [pc EXCEPT ![Main] = "stage"]
        /\ UNCHANGED <<text, rounds, status, errors, pos, found, ticket, task, posted, runs,
                       finished>>
    BY DEF NextRound, Goto, sources, pool
  <1>2. /\ WellTyped /\ Threading /\ Main \in Threads /\ Unfinished = {} /\ phase = "ir"
        /\ pos[Main] = 1 /\ Reported
    <2>1. Waited /\ IRKept /\ Reported
      BY DEF IInv
    <2>2. phase = "ir" /\ Unfinished = {}
      BY <1>1, <2>1 DEF Waited
    <2>3. IRJobs
      BY <2>1, <2>2 DEF IRKept, IRPhase
    <2>. QED
      BY <2>1, <2>2, <2>3 DEF IInv, IRJobs, Threads
  <1>3. \A t \in Threads : pc[t] \notin OnJob /\ found[t] = NoPath /\ ticket[t] = NoTicket
    BY <1>1, <1>2, NothingLeft
  <1>4. /\ pc'[Main] = "stage"
        /\ \A t \in Threads : t # Main => pc'[t] = pc[t]
        /\ \A t \in Threads : pc'[t] \notin OnJob
    BY <1>1, <1>2, <1>3 DEF WellTyped, ThreadTypes, OnJob
  <1>5. WellTyped'
    <2>1. FileTypes'
      <3>1. rounds \in Seq(Round) /\ round \in 1 .. Len(rounds)
        BY <1>2 DEF WellTyped, FileTypes
      <3>2. round + 1 \in 1 .. Len(rounds)
        BY <1>1, <3>1
      <3>. QED
        BY <1>1, <1>2, <3>2 DEF WellTyped, FileTypes
    <2>2. ThreadTypes'
      BY <1>1, <1>2 DEF WellTyped, ThreadTypes, OnMain
    <2>. QED
      BY <2>1, <2>2 DEF WellTyped
  <1>6. Unfinished' = {}
    BY <1>1, <1>2 DEF Unfinished
  <1>7. Threading'
    <2>1. ASSUME NEW t \in Threads
          PROVE  /\ t # Main => pc'[t] \notin OnMain
                 /\ ticket'[t] = NoTicket /\ found'[t] = NoPath
                 /\ pc'[t] \notin {"postInitial", "postImport", "imports"}
      <3>1. t # Main => pc'[t] \notin OnMain
        BY <1>2, <1>4 DEF Threading
      <3>. QED
        BY <3>1, <1>1, <1>3, <1>4 DEF OnMain, OnJob
    <2>2. \A k \in finished' : runs'[k] = 1
      BY <1>1, <1>2 DEF Threading
    <2>. QED
      BY <2>1, <2>2, <1>4 DEF Threading
  <1>8. Waited'
    BY <1>1, <1>4 DEF Waited
  <1>9. ~IRPhase' /\ NoIRJobs'
    BY <1>1, <1>4, <1>6 DEF IRPhase, NoIRJobs
  <1>10. Fresh'
    BY <1>1, <1>2, <1>3, <1>4, <1>5, <1>6 DEF Fresh
  <1>11. Parsing'
    BY <1>10, FreshParsing, PTL
  <1>12. Reported'
    BY <1>1, <1>2 DEF Reported, CrashIsReported
  <1>13. Resolving'
    <2>1. DOMAIN imported' = {}
      BY <1>1
    <2>. QED
      BY <1>1, <1>4, <2>1 DEF Resolving, FileImportsResolve
  <1>. QED
    BY <1>5, <1>7, <1>8, <1>9, <1>11, <1>12, <1>13 DEF IInv, IRKept

(* Every step keeps the inductive invariant: one lemma for each action.     *)
LEMMA StepKeeps == IInv /\ [Next]_vars => IInv'
  <1>. SUFFICES ASSUME IInv, [Next]_vars PROVE IInv'
    OBVIOUS
  <1>1. ASSUME NEW t \in Threads, PipelineDoFile(t) PROVE IInv'
    BY <1>1, FileNotFoundKeeps, AlreadyStagedKeeps, StageNewKeeps, PostLexFileKeeps
    DEF PipelineDoFile
  <1>2. ASSUME NEW t \in Threads, RunJob(t) PROVE IInv'
    BY <1>2, LexUnreadableKeeps, LexFileKeeps, LexReturnsKeeps, HeaderMissingKeeps,
       ParseHeaderKeeps, ImportModuleKeeps, EndOfFileKeeps, BuildIRJobKeeps
    DEF RunJob
  <1>3. ASSUME NEW t \in Threads, StartJob(t) PROVE IInv'
    BY <1>3, StartJobKeeps
  <1>4. CASE Stage
    BY <1>4, CustomFileMissingKeeps, LexCustomFileKeeps, WaitForParsingKeeps DEF Stage
  <1>5. CASE Check
    BY <1>5, SkipEmptySlotKeeps, ResolveCrashesKeeps, ResolveImportsKeeps,
       TypeCheckCrashesKeeps, TypeCheckKeeps, PostIRJobKeeps, WaitForIRKeeps,
       FlowTypingKeeps, NextRoundKeeps, AllDoneKeeps
    DEF Check
  <1>6. CASE WaitReturns
    BY <1>6, ParsingDoneKeeps, IRDoneKeeps DEF WaitReturns
  <1>7. CASE Terminated
    BY <1>7, StutteringKeeps DEF Terminated
  <1>8. CASE UNCHANGED vars
    BY <1>8, StutteringKeeps
  <1>. QED
    BY <1>1, <1>2, <1>3, <1>4, <1>5, <1>6, <1>7, <1>8 DEF Next, ThreadStep

-----------------------------------------------------------------------------
(* What follows                                                             *)

(* The inductive invariant: every path is in one place on its way from the  *)
(* staged file to its result, and every job that builds IR is for a result. *)
THEOREM InductiveInvariant == Spec => []IInv
  BY InitKeeps, StepKeeps, PTL DEF Spec

(* The state RunPipeline and its jobs work on keeps its types, and each job is *)
(* on one thread at a time.                                                    *)
THEOREM TypeCorrect == Spec => []WellTyped
  <1>1. IInv => WellTyped
    BY DEF IInv
  <1>. QED
    BY <1>1, InductiveInvariant, PTL

(* When parsing is over, the staged files are the reachable ones.           *)
LEMMA ParsingIsOver ==
  ASSUME IInv, AfterParsing
  PROVE  /\ WellTyped /\ Parsing /\ modules = ModuleTable
         /\ Reachable = staged /\ staged \subseteq Paths
         /\ \A p \in Paths : /\ ToPost(p) = {} /\ ToLex(p) = {} /\ ToParse(p) = {}
                             /\ ToParseCustom(p) = {}
         /\ \A p \in staged : text[p].readable => HasResult(p, text[p])
         /\ \A j \in DOMAIN CustomFiles : text[CustomFiles[j]].readable =>
                HasResult(CustomFiles[j], CustomText[CustomFiles[j]])
         /\ \A p : Expected(p) = {j \in DOMAIN CustomFiles : CustomFiles[j] = p}
  <1>1. /\ WellTyped /\ Threading /\ pc[Main] = "resolve" /\ phase = "parse" /\ Unfinished = {}
        /\ Parsing /\ modules = ModuleTable /\ staged \subseteq Paths
    BY DEF IInv, AfterParsing, Waited, IRPhase, Resolving, WellTyped, FileTypes
  <1>2. \A p \in Paths : /\ ToPost(p) = {} /\ ToLex(p) = {} /\ ToParse(p) = {}
                         /\ ToParseCustom(p) = {}
    BY <1>1, NothingLeft
  <1>3. \A j : Past(j) /\ PastCustom(j)
    BY <1>1 DEF Past, PastCustom
  <1>4. \A p \in staged : text[p].readable => HasResult(p, text[p])
    BY <1>1, <1>2 DEF Parsing, StagedCovered
  <1>5. \A j \in DOMAIN CustomFiles : text[CustomFiles[j]].readable =>
            HasResult(CustomFiles[j], CustomText[CustomFiles[j]])
    <2>1. \A j \in DOMAIN CustomFiles : CustomFiles[j] \in Paths
      BY <1>1, FilesOfRound
    <2>. QED
      BY <1>1, <1>2, <1>3, <2>1 DEF Parsing, CustomCovered
  <1>6. \A p, s : HasResult(p, s) /\ s.module # NoModule => ImportsIn(s, p, staged)
    BY DEF HasResult, ResultIn
  <1>7. Closed(staged)
    <2>1. \A j \in DOMAIN InitialFiles : FindFile(InitialFiles[j], NoPath) \in staged \cup {NoPath}
      BY <1>1, <1>3 DEF Parsing, InitialMet
    <2>2. \A p \in staged : text[p].readable /\ text[p].module # NoModule
                            => ImportsIn(text[p], p, staged)
      BY <1>4, <1>6
    <2>3. \A j \in DOMAIN CustomFiles :
            text[CustomFiles[j]].readable /\ CustomText[CustomFiles[j]].module # NoModule
            => ImportsIn(CustomText[CustomFiles[j]], CustomFiles[j], staged)
      BY <1>5, <1>6
    <2>. QED
      BY <2>1, <2>2, <2>3 DEF Closed
  <1>8. Reachable = staged
    BY <1>1, <1>7 DEF Reachable, Parsing, OnlyReached
  <1>9. \A p : Expected(p) = {j \in DOMAIN CustomFiles : CustomFiles[j] = p}
    BY <1>3 DEF Expected
  <1>. QED
    BY <1>1, <1>2, <1>4, <1>5, <1>8, <1>9

LEMMA ResultsAreRead ==
  ASSUME Genuine, NEW i \in DOMAIN results
  PROVE  text[results[i].path].readable
  BY DEF Genuine, IsSource

(* PipelineDoFile tests and adds a path under one lock, and RunPipeline goes  *)
(* on only when every job is done: each file that is reached from the initial *)
(* and the custom files is parsed once, and no other file is.                 *)
THEOREM FilesParsedOnce == Spec => []ParsedExactly
  <1>1. IInv => ParsedExactly
    <2>. SUFFICES ASSUME IInv, AfterParsing, NEW p \in Paths
                  PROVE  Count(p) = Given(p)
                            + (IF p \in Reachable /\ text[p].readable THEN 1 ELSE 0)
      BY DEF ParsedExactly
    <2>1. /\ WellTyped /\ Parsing /\ Reachable = staged
          /\ ToPost(p) = {} /\ ToLex(p) = {} /\ ToParse(p) = {} /\ ToParseCustom(p) = {}
          /\ Expected(p) = {j \in DOMAIN CustomFiles : CustomFiles[j] = p}
      BY ParsingIsOver
    <2>2. Count(p) = Cardinality(ResultsOf(p))
      BY DEF Count, ResultsOf
    <2>3. Cardinality({}) = 0
      BY FS_EmptySet
    <2>4. Cardinality(ResultsOf(p)) \in Nat /\ Cardinality(Expected(p)) \in Nat
      BY <2>1, TokensFinite
    <2>5. CASE text[p].readable
      <3>1. Cardinality(ResultsOf(p)) + Cardinality(ToParse(p))
              + Cardinality(ToParseCustom(p)) + Cardinality(ToLex(p)) + Cardinality(ToPost(p))
            = Cardinality(Expected(p)) + (IF p \in staged THEN 1 ELSE 0)
        BY <2>1, <2>5 DEF Parsing, Balance
      <3>2. Given(p) = Cardinality(Expected(p))
        BY <2>1, <2>5 DEF Given
      <3>. QED
        BY <2>1, <2>2, <2>3, <2>4, <2>5, <3>1, <3>2
    <2>6. CASE ~text[p].readable
      <3>1. ResultsOf(p) = {}
        BY <2>1, <2>6, ResultsAreRead DEF ResultsOf, Parsing
      <3>2. {j \in DOMAIN CustomFiles : CustomFiles[j] = p /\ text[p].readable} = {}
        BY <2>6
      <3>3. Given(p) = 0
        BY <2>3, <3>2 DEF Given
      <3>. QED
        BY <2>2, <2>3, <2>6, <3>1, <3>3
    <2>. QED
      BY <2>5, <2>6
  <1>. QED
    BY <1>1, InductiveInvariant, PTL

(* A custom file that can be read is given as often as it is listed.        *)
LEMMA GivenIsListed ==
  ASSUME WellTyped, NEW p
  PROVE  Given(p) > 0 <=> IsCustom(p) /\ text[p].readable
  <1>. DEFINE S == {j \in DOMAIN CustomFiles : CustomFiles[j] = p /\ text[p].readable}
  <1>1. CustomFiles \in Seq(Paths)
    BY FilesOfRound
  <1>2. IsFiniteSet(S)
    <2>1. IsFiniteSet(1 .. Len(CustomFiles)) /\ S \in SUBSET (1 .. Len(CustomFiles))
      <3>1. Len(CustomFiles) \in Nat /\ DOMAIN CustomFiles = 1 .. Len(CustomFiles)
        BY <1>1
      <3>2. IsFiniteSet(1 .. Len(CustomFiles))
        BY <3>1, FS_Interval
      <3>. QED
        BY <3>1, <3>2
    <2>. HIDE DEF S
    <2>. QED
      BY <2>1, FS_Subset
  <1>3. S # {} <=> IsCustom(p) /\ text[p].readable
    BY DEF IsCustom
  <1>4. Given(p) = Cardinality(S)
    BY DEF Given
  <1>. HIDE DEF S
  <1>5. Cardinality(S) \in Nat /\ (Cardinality(S) = 0 <=> S = {})
    BY <1>2, FS_CardinalityType, FS_EmptySet
  <1>. QED
    BY <1>3, <1>4, <1>5

(* AddModule puts every file in the module its header names: the module table *)
(* after the wait is a function of the sources, in whichever order the jobs   *)
(* pushed their results.                                                      *)
THEOREM ModulesDependOnSources == Spec => []ModulesAreDetermined
  <1>. DEFINE In(m) == {p \in staged : text[p].readable /\ text[p].module = m}
                       \cup {p \in Paths : Given(p) > 0 /\ CustomText[p].module = m}
  <1>1. ASSUME IInv, AfterParsing
        PROVE  /\ DOMAIN modules = {m \in Modules : In(m) # {}}
               /\ \A m \in DOMAIN modules : {modules[m][i] : i \in DOMAIN modules[m]} = In(m)
    <2>1. /\ WellTyped /\ Parsing /\ modules = ModuleTable /\ staged \subseteq Paths
          /\ \A p \in staged : text[p].readable => HasResult(p, text[p])
          /\ \A j \in DOMAIN CustomFiles : text[CustomFiles[j]].readable =>
                HasResult(CustomFiles[j], CustomText[CustomFiles[j]])
      BY <1>1, ParsingIsOver
    <2>2. results \in Seq(Result) /\ \A i \in DOMAIN results : results[i] \in Result
      BY <2>1 DEF WellTyped, FileTypes
    <2>3. \A i \in DOMAIN results : /\ results[i].path \in Paths
                                    /\ results[i].module \in Modules \cup {NoModule}
      BY <2>2 DEF Result
    <2>4. \A p : Given(p) > 0 <=> IsCustom(p) /\ text[p].readable
      BY <2>1, GivenIsListed
    <2>5. ASSUME NEW i \in DOMAIN results
          PROVE  results[i].path \in In(results[i].module)
      <3>1. PICK s \in {text[results[i].path], CustomText[results[i].path]} :
                IsSource(results[i].path, s) /\ results[i].module = s.module
        BY <2>1 DEF Parsing, Genuine
      <3>. QED
        BY <2>3, <2>4, <3>1 DEF IsSource
    <2>6. ASSUME NEW m, NEW p \in In(m)
          PROVE  \E i \in DOMAIN results : results[i].path = p /\ results[i].module = m
      <3>1. CASE p \in staged /\ text[p].readable /\ text[p].module = m
        <4>1. HasResult(p, text[p])
          BY <2>1, <3>1
        <4>. QED
          BY <3>1, <4>1 DEF HasResult, ResultIn
      <3>2. CASE Given(p) > 0 /\ CustomText[p].module = m
        <4>1. PICK j \in DOMAIN CustomFiles : CustomFiles[j] = p /\ text[p].readable
          BY <2>4, <3>2 DEF IsCustom
        <4>2. HasResult(p, CustomText[p])
          BY <2>1, <4>1
        <4>. QED
          BY <3>2, <4>2 DEF HasResult, ResultIn
      <3>. QED
        BY <2>6, <3>1, <3>2
    <2>. HIDE DEF In
    <2>7. DOMAIN modules = Declared
      BY <2>1 DEF ModuleTable
    <2>8. Declared = {m \in Modules : In(m) # {}}
      <3>1. NoModule \notin Modules
        BY PipelineAssumption
      <3>. QED
        BY <2>3, <2>5, <2>6, <3>1 DEF Declared
    <2>9. ASSUME NEW m \in DOMAIN modules
          PROVE  {modules[m][i] : i \in DOMAIN modules[m]} = In(m)
      <3>1. modules[m] = FilesOf(Places(m))
        BY <2>1, <2>7, <2>9 DEF ModuleTable
      <3>2. DOMAIN modules[m] = Places(m) /\ \A i \in Places(m) : modules[m][i] = results[i].path
        BY <3>1 DEF FilesOf
      <3>. QED
        BY <2>5, <2>6, <3>2 DEF Places
    <2>. QED
      BY <2>7, <2>8, <2>9
  <1>2. IInv => ModulesAreDetermined
    <2>. SUFFICES ASSUME IInv, AfterParsing PROVE ModulesAreDetermined
      BY DEF ModulesAreDetermined
    <2>1. Reachable = staged
      BY ParsingIsOver
    <2>. QED
      BY <1>1, <2>1 DEF ModulesAreDetermined
  <1>. QED
    BY <1>2, InductiveInvariant, PTL

(* ResolveImports looks an import up once more, by the path FindFile gave while *)
(* the file was parsed: the file it finds is the imported one, and it is there  *)
(* whenever it could be read.                                                   *)
THEOREM ImportsAreResolved == Spec => []FileImportsResolve
  <1>1. IInv => FileImportsResolve
    BY DEF IInv, Resolving
  <1>. QED
    BY <1>1, InductiveInvariant, PTL

(* The null pointers ResolveImports and AnalyzeFilesForSymbols would read are *)
(* those of files whose missing header RaiseError has counted.                *)
THEOREM CrashesAreReported == Spec => []CrashIsReported
  <1>1. IInv => CrashIsReported
    BY DEF IInv, Reported
  <1>. QED
    BY <1>1, InductiveInvariant, PTL

(* The second wait of RunPipeline leaves no BuildIRJob undone: FlowTyping finds *)
(* the IR of every file, built by one job of its own.                           *)
THEOREM FilesHaveIROnce == Spec => []EveryFileHasIR
  <1>1. IInv => EveryFileHasIR
    <2>. SUFFICES ASSUME IInv, pc[Main] \in {"flow", "returned"}, NEW p \in Paths
                  PROVE  ir[p] = Count(p)
      BY DEF EveryFileHasIR
    <2>1. /\ WellTyped /\ Unfinished = {} /\ phase = "ir"
      BY DEF IInv, Waited
    <2>2. IRJobs
      BY <2>1 DEF IInv, IRKept, IRPhase
    <2>3. /\ Len(results) \in Nat /\ DOMAIN results = 1 .. Len(results)
          /\ posted \in Nat /\ IRFirst \in Int /\ IRPosted \in Nat /\ IRFirst + IRPosted = posted
      BY <2>1, IRNumbers
    <2>4. IRPosted = Len(results)
      BY DEF IRPosted
    <2>5. \A i \in 1 .. IRPosted : IRFirst + i - 1 \in finished
      <3>1. IRPosted <= posted
        BY <2>2 DEF IRJobs
      <3>2. \A i \in 1 .. IRPosted : IRFirst + i - 1 \in 0 .. posted - 1
        BY <2>3, <3>1
      <3>. QED
        BY <2>1, <3>2 DEF Unfinished
    <2>6. IRBuilt(p) = {i \in DOMAIN results : results[i].path = p}
      BY <2>3, <2>4, <2>5 DEF IRBuilt
    <2>. QED
      BY <2>2, <2>6 DEF IRJobs, Count
  <1>. QED
    BY <1>1, InductiveInvariant, PTL
=============================================================================
