----------------------------- MODULE WorkQueue -----------------------------
(***************************************************************************)
(* The work queue of Threading.cpp: a ring of MAX_JOBS slots, three atomic *)
(* counters, a semaphore the workers sleep on and a condition variable the *)
(* main thread sleeps on.  Every atomic load, compare-exchange, increment, *)
(* lock, signal and notify that another thread can observe is a step of    *)
(* its own; the operands of a comparison are loaded left to right, as the  *)
(* compiler both build scripts call (clang++) does.                        *)
(*                                                                         *)
(* A job is named by its ticket: the value of JobCount when it was posted. *)
(* A job posts more jobs while it runs (a parsed file posts its imports),  *)
(* and the main thread runs jobs too while it waits.  A local variable that *)
(* is out of scope is 0.                                                    *)
(***************************************************************************)
EXTENDS Integers, FiniteSets

CONSTANTS
    Workers,          \* the threads InitThreadsForQueue creates without --no-thread
    Main,             \* the thread that stages jobs and waits for them
    NoThread,         \* the owner of a mutex nobody holds
    MaxJobs,          \* MAX_JOBS, the slots of the ring
    SemMax,           \* the count at which PlatformSignalSemaphore has no effect
    PhaseLimit,       \* bound: jobs posted from one return of the wait to the next
    JobLimit          \* bound: jobs posted in all

\* A phase (one parse, IR or code generation pass) posts at most MAX_JOBS (4096)
\* jobs: parsing posts two for a file.  PostJob itself does not check it.
ASSUME QueueAssumption ==
    /\ Main \notin Workers
    /\ NoThread \notin Workers \cup {Main}
    /\ IsFiniteSet(Workers)
    /\ MaxJobs \in Nat \ {0}
    /\ SemMax \in Nat \ {0}
    /\ PhaseLimit \in 0 .. MaxJobs
    /\ JobLimit \in Nat

VARIABLES
    Jobs,             \* the ring
    JobCount, AtJob, JobsCompleted,
    Semaphore,
    mutex,            \* the thread that holds Queue->Mutex, or NoThread
    pc,               \* where each thread is
    at,               \* OriginalAtJob / JobIndex of TryDoWork
    job,              \* the job a thread is running, or NoJob
    seen,             \* the operand already loaded by a comparison
    phaseBase,        \* history: JobCount when the last wait returned
    runs,             \* history: how often each ticket was started
    finished          \* history: the tickets whose task returned

counters == <<JobCount, AtJob, JobsCompleted>>
history == <<phaseBase, runs, finished>>
vars == <<Jobs, counters, Semaphore, mutex, pc, at, job, seen, history>>

Threads == Workers \cup {Main}
Tickets == 0 .. JobLimit - 1
Slots == 0 .. MaxJobs - 1
SlotOf(k) == k % MaxJobs
NoJob == -1

\* Where a thread may be.  "load" to "run" and "count" to "wake" are inside
\* TryDoWork, "bump" to "notify" inside PostJob, "done" to "waiting" inside
\* MainThreadWorkUntilDone; "stage" is the main thread outside the queue.  With
\* --no-thread the workers are never created: they stay "absent".
WorkPcs == {"load", "check", "cas", "fetch", "run", "count", "compare", "wake",
            "bump", "signal", "unlock", "notify"}
MainPcs == {"stage", "done", "doneCompare", "predAt", "predCount", "predDone",
            "predCompare", "block", "waiting"}

TypeOK ==
    /\ Jobs \in [Slots -> Tickets \cup {NoJob}]
    /\ JobCount \in 0 .. JobLimit
    /\ AtJob \in 0 .. JobLimit
    /\ JobsCompleted \in 0 .. JobLimit
    /\ Semaphore \in 0 .. SemMax
    /\ mutex \in Threads \cup {NoThread}
    /\ pc \in [Threads -> WorkPcs \cup MainPcs \cup {"sleep", "absent"}]
    /\ \A w \in Workers : pc[w] \notin MainPcs
    /\ pc[Main] \notin {"sleep", "absent"}
    /\ at \in [Threads -> 0 .. JobLimit]
    /\ job \in [Threads -> Tickets \cup {NoJob}]
    /\ seen \in [Threads -> 0 .. JobLimit]
    /\ phaseBase \in 0 .. JobLimit
    /\ runs \in [Tickets -> Nat]
    /\ finished \in SUBSET Tickets

\* With --no-thread (NoThreads) no worker is created; PostJob signals all the same.
InitThreadsForQueue ==
    \E NoThreads \in BOOLEAN :
        pc = [t \in Threads |-> IF t = Main THEN "stage"
                                ELSE IF NoThreads THEN "absent" ELSE "load"]

Init ==
    /\ Jobs = [s \in Slots |-> NoJob]
    /\ JobCount = 0
    /\ AtJob = 0
    /\ JobsCompleted = 0
    /\ Semaphore = 0
    /\ mutex = NoThread
    /\ InitThreadsForQueue
    /\ at = [t \in Threads |-> 0]
    /\ job = [t \in Threads |-> NoJob]
    /\ seen = [t \in Threads |-> 0]
    /\ phaseBase = 0
    /\ runs = [k \in Tickets |-> 0]
    /\ finished = {}

Goto(t, label) == pc' = [pc EXCEPT ![t] = label]

\* notify_all on WakeMain: a main thread that is blocked goes back to its
\* predicate; one that is not yet blocked notices nothing.
NotifyAll(t, label) ==
    pc' = [u \in Threads |-> IF u = t THEN label
                             ELSE IF pc[u] = "waiting" THEN "predAt" ELSE pc[u]]

\* Where TryDoWork returns to when it did a job, and when it found none.
AfterWork(t) == IF t = Main THEN "done" ELSE "load"
AfterNoWork(t) == IF t = Main THEN "predAt" ELSE "sleep"

-----------------------------------------------------------------------------
(* TryDoWork *)

LoadAtJob(t) ==
    /\ pc[t] = "load"
    /\ at' = [at EXCEPT ![t] = AtJob]
    /\ Goto(t, "check")
    /\ UNCHANGED <<Jobs, counters, Semaphore, mutex, job, seen, history>>

\* Mutant: the last job of the ring is not seen.
FindNoWorkMissesLast(t) ==
    /\ pc[t] = "check"
    /\ JobCount <= at[t] + 1
    /\ at' = [at EXCEPT ![t] = 0]
    /\ Goto(t, AfterNoWork(t))
    /\ UNCHANGED <<Jobs, counters, Semaphore, mutex, job, seen, history>>

FindNoWork(t) ==
    /\ pc[t] = "check"
    /\ JobCount <= at[t]
    /\ at' = [at EXCEPT ![t] = 0]
    /\ Goto(t, AfterNoWork(t))
    /\ UNCHANGED <<Jobs, counters, Semaphore, mutex, job, seen, history>>

\* Mutant: < written for <=.
FindWorkPastEnd(t) ==
    /\ pc[t] = "check"
    /\ JobCount >= at[t]
    /\ Goto(t, "cas")
    /\ UNCHANGED <<Jobs, counters, Semaphore, mutex, at, job, seen, history>>

FindWork(t) ==
    /\ pc[t] = "check"
    /\ JobCount > at[t]
    /\ Goto(t, "cas")
    /\ UNCHANGED <<Jobs, counters, Semaphore, mutex, at, job, seen, history>>

\* Mutant: a store instead of compare-exchange.
ClaimByStore(t) ==
    /\ pc[t] = "cas"
    /\ AtJob' = at[t] + 1
    /\ Goto(t, "fetch")
    /\ UNCHANGED <<Jobs, JobCount, JobsCompleted, Semaphore, mutex, at, job, seen,
                   history>>

Claim(t) ==
    /\ pc[t] = "cas"
    /\ AtJob = at[t]
    /\ AtJob' = AtJob + 1
    /\ Goto(t, "fetch")
    /\ UNCHANGED <<Jobs, JobCount, JobsCompleted, Semaphore, mutex, at, job, seen,
                   history>>

ClaimFails(t) ==
    /\ pc[t] = "cas"
    /\ AtJob # at[t]
    /\ at' = [at EXCEPT ![t] = 0]
    /\ Goto(t, "load")
    /\ UNCHANGED <<Jobs, counters, Semaphore, mutex, job, seen, history>>

\* The slot is read after the claim, without a lock, and the task is called.
Fetch(t) ==
    LET k == Jobs[SlotOf(at[t])] IN
    /\ pc[t] = "fetch"
    /\ job' = [job EXCEPT ![t] = k]
    /\ runs' = [runs EXCEPT ![k] = @ + 1]
    /\ Goto(t, "run")
    /\ UNCHANGED <<Jobs, counters, Semaphore, mutex, at, seen, phaseBase, finished>>

\* The task returns and ++JobsCompleted.
Complete(t) ==
    /\ pc[t] = "run"
    /\ JobsCompleted' = JobsCompleted + 1
    /\ finished' = finished \cup {job[t]}
    /\ job' = [job EXCEPT ![t] = NoJob]
    /\ at' = [at EXCEPT ![t] = 0]
    /\ Goto(t, "count")
    /\ UNCHANGED <<Jobs, JobCount, AtJob, Semaphore, mutex, seen, phaseBase, runs>>

LoadCompleted(t) ==
    /\ pc[t] = "count"
    /\ seen' = [seen EXCEPT ![t] = JobsCompleted]
    /\ Goto(t, "compare")
    /\ UNCHANGED <<Jobs, counters, Semaphore, mutex, at, job, history>>

CompareCompleted(t) ==
    /\ pc[t] = "compare"
    /\ seen' = [seen EXCEPT ![t] = 0]
    /\ Goto(t, IF seen[t] = JobCount THEN "wake" ELSE AfterWork(t))
    /\ UNCHANGED <<Jobs, counters, Semaphore, mutex, at, job, history>>

WakeMain(t) ==
    /\ pc[t] = "wake"
    /\ NotifyAll(t, AfterWork(t))
    /\ UNCHANGED <<Jobs, counters, Semaphore, mutex, at, job, seen, history>>

-----------------------------------------------------------------------------
(* ThreadProc *)

SleepOnSemaphore(t) ==
    /\ pc[t] = "sleep"
    /\ Semaphore > 0
    /\ Semaphore' = Semaphore - 1
    /\ Goto(t, "load")
    /\ UNCHANGED <<Jobs, counters, mutex, at, job, seen, history>>

-----------------------------------------------------------------------------
(* PostJob, called by the main thread while it stages work and by a running *)
(* job.  The slot is written and counted under Mutex; the semaphore is      *)
(* signalled under it too, the condition variable after it is released.     *)

\* Mutant: Mutex is not taken.
PostWriteUnlocked(t) ==
    /\ pc[t] \in {"run", "stage"}
    /\ JobCount < phaseBase + PhaseLimit
    /\ JobCount < JobLimit
    /\ mutex' = t
    /\ Jobs' = [Jobs EXCEPT ![SlotOf(JobCount)] = JobCount]
    /\ Goto(t, "bump")
    /\ UNCHANGED <<counters, Semaphore, at, job, seen, history>>

\* Mutant: the slot after the one that is counted is written.
PostWriteNextSlot(t) ==
    /\ pc[t] \in {"run", "stage"}
    /\ mutex = NoThread
    /\ JobCount < phaseBase + PhaseLimit
    /\ JobCount < JobLimit
    /\ mutex' = t
    /\ Jobs' = [Jobs EXCEPT ![SlotOf(JobCount + 1)] = JobCount]
    /\ Goto(t, "bump")
    /\ UNCHANGED <<counters, Semaphore, at, job, seen, history>>

PostWrite(t) ==
    /\ pc[t] \in {"run", "stage"}
    /\ mutex = NoThread
    /\ JobCount < phaseBase + PhaseLimit
    /\ JobCount < JobLimit
    /\ mutex' = t
    /\ Jobs' = [Jobs EXCEPT ![SlotOf(JobCount)] = JobCount]
    /\ Goto(t, "bump")
    /\ UNCHANGED <<counters, Semaphore, at, job, seen, history>>

PostCount(t) ==
    /\ pc[t] = "bump"
    /\ JobCount' = JobCount + 1
    /\ Goto(t, "signal")
    /\ UNCHANGED <<Jobs, AtJob, JobsCompleted, Semaphore, mutex, at, job, seen, history>>

\* Mutant: the semaphore is not signalled.
PostSignalSkipped(t) ==
    /\ pc[t] = "signal"
    /\ Goto(t, "unlock")
    /\ UNCHANGED <<Jobs, counters, Semaphore, mutex, at, job, seen, history>>

PostSignal(t) ==
    /\ pc[t] = "signal"
    /\ Semaphore' = IF Semaphore < SemMax THEN Semaphore + 1 ELSE Semaphore
    /\ Goto(t, "unlock")
    /\ UNCHANGED <<Jobs, counters, mutex, at, job, seen, history>>

PostUnlock(t) ==
    /\ pc[t] = "unlock"
    /\ mutex' = NoThread
    /\ Goto(t, "notify")
    /\ UNCHANGED <<Jobs, counters, Semaphore, at, job, seen, history>>

PostNotify(t) ==
    /\ pc[t] = "notify"
    /\ NotifyAll(t, IF job[t] = NoJob THEN "stage" ELSE "run")
    /\ UNCHANGED <<Jobs, counters, Semaphore, mutex, at, job, seen, history>>

-----------------------------------------------------------------------------
(* MainThreadWorkUntilDone.  MainMutex is taken by nobody but the main      *)
(* thread, so it excludes nothing and is left out.                          *)

EnterWait ==
    /\ pc[Main] = "stage"
    /\ Goto(Main, "done")
    /\ UNCHANGED <<Jobs, counters, Semaphore, mutex, at, job, seen, history>>

\* Mutant: the queue counts as done when every job was claimed.
LoadClaimed ==
    /\ pc[Main] = "done"
    /\ seen' = [seen EXCEPT ![Main] = AtJob]
    /\ Goto(Main, "doneCompare")
    /\ UNCHANGED <<Jobs, counters, Semaphore, mutex, at, job, history>>

\* IsQueueDone, first operand.
LoadDone ==
    /\ pc[Main] = "done"
    /\ seen' = [seen EXCEPT ![Main] = JobsCompleted]
    /\ Goto(Main, "doneCompare")
    /\ UNCHANGED <<Jobs, counters, Semaphore, mutex, at, job, history>>

\* Mutant: the wait does not try to do a job itself.
NotDoneOnlyWaits ==
    /\ pc[Main] = "doneCompare"
    /\ seen[Main] # JobCount
    /\ seen' = [seen EXCEPT ![Main] = 0]
    /\ Goto(Main, "predAt")
    /\ UNCHANGED <<Jobs, counters, Semaphore, mutex, at, job, history>>

\* IsQueueDone, second operand: the wait returns.
ReturnFromWait ==
    /\ pc[Main] = "doneCompare"
    /\ seen[Main] = JobCount
    /\ phaseBase' = JobCount
    /\ seen' = [seen EXCEPT ![Main] = 0]
    /\ Goto(Main, "stage")
    /\ UNCHANGED <<Jobs, counters, Semaphore, mutex, at, job, runs, finished>>

NotDone ==
    /\ pc[Main] = "doneCompare"
    /\ seen[Main] # JobCount
    /\ seen' = [seen EXCEPT ![Main] = 0]
    /\ Goto(Main, "load")
    /\ UNCHANGED <<Jobs, counters, Semaphore, mutex, at, job, history>>

\* The predicate of WakeMain.wait: AtJob < JobCount, or IsQueueDone.
PredLoadAtJob ==
    /\ pc[Main] = "predAt"
    /\ seen' = [seen EXCEPT ![Main] = AtJob]
    /\ Goto(Main, "predCount")
    /\ UNCHANGED <<Jobs, counters, Semaphore, mutex, at, job, history>>

PredCompareAtJob ==
    /\ pc[Main] = "predCount"
    /\ seen' = [seen EXCEPT ![Main] = 0]
    /\ Goto(Main, IF seen[Main] < JobCount THEN "done" ELSE "predDone")
    /\ UNCHANGED <<Jobs, counters, Semaphore, mutex, at, job, history>>

PredLoadDone ==
    /\ pc[Main] = "predDone"
    /\ seen' = [seen EXCEPT ![Main] = JobsCompleted]
    /\ Goto(Main, "predCompare")
    /\ UNCHANGED <<Jobs, counters, Semaphore, mutex, at, job, history>>

PredCompareDone ==
    /\ pc[Main] = "predCompare"
    /\ seen' = [seen EXCEPT ![Main] = 0]
    /\ Goto(Main, IF seen[Main] = JobCount THEN "done" ELSE "block")
    /\ UNCHANGED <<Jobs, counters, Semaphore, mutex, at, job, history>>

\* A notify_all that comes before this step is lost: notifiers do not hold
\* MainMutex.
Block ==
    /\ pc[Main] = "block"
    /\ Goto(Main, "waiting")
    /\ UNCHANGED <<Jobs, counters, Semaphore, mutex, at, job, seen, history>>

-----------------------------------------------------------------------------
TryDoWork(t) ==
    \/ LoadAtJob(t) \/ FindNoWork(t) \/ FindWork(t) \/ Claim(t) \/ ClaimFails(t)
    \/ Fetch(t) \/ Complete(t)
    \/ LoadCompleted(t) \/ CompareCompleted(t) \/ WakeMain(t)

PostJob(t) ==
    PostWrite(t) \/ PostCount(t) \/ PostSignal(t) \/ PostUnlock(t) \/ PostNotify(t)

MainThreadWorkUntilDone ==
    \/ EnterWait \/ LoadDone \/ ReturnFromWait \/ NotDone
    \/ PredLoadAtJob \/ PredCompareAtJob \/ PredLoadDone \/ PredCompareDone \/ Block

WorkerStep(w) == TryDoWork(w) \/ PostJob(w) \/ SleepOnSemaphore(w)
MainStep == TryDoWork(Main) \/ PostJob(Main) \/ MainThreadWorkUntilDone

Next == MainStep \/ \E w \in Workers : WorkerStep(w)

\* Fairness: the scheduler runs every thread that can run.
Fairness == WF_vars(MainStep) /\ \A w \in Workers : WF_vars(WorkerStep(w))

Spec == Init /\ [][Next]_vars
FairSpec == Spec /\ Fairness

-----------------------------------------------------------------------------
(* What must hold *)

\* Thread t owns the ticket at[t]: it claimed it and has not finished it.
Holds(t) == pc[t] = "fetch" \/ job[t] # NoJob

\* Two threads never own the same ticket, and a thread that has read its slot
\* runs the very job that was posted with its ticket, even where the ring has
\* wrapped (TryDoWork reads the slot after the claim, Threading.cpp:12-16).
ClaimedOnce ==
    /\ \A t, u \in Threads : Holds(t) /\ Holds(u) /\ t # u => at[t] # at[u]
    /\ \A t \in Threads : job[t] # NoJob => job[t] = at[t]

\* A job that was posted and not yet read is still in its slot: PostJob never
\* overwrites it (Threading.cpp:78), though it does not look at AtJob.
SlotsIntact ==
    \A k \in Tickets :
        k < JobCount /\ (k >= AtJob \/ \E t \in Threads : pc[t] = "fetch" /\ at[t] = k)
        => Jobs[SlotOf(k)] = k

\* Every ticket below AtJob has been started once, or is about to be by the one
\* thread that claimed it; no other ticket has been started; the finished ones
\* are those nobody owns any more, and JobsCompleted counts them.
Accounting ==
    /\ \A k \in Tickets :
        runs[k] = IF k < AtJob /\ ~\E t \in Threads : pc[t] = "fetch" /\ at[t] = k
                  THEN 1 ELSE 0
    /\ \A k \in Tickets :
        k \in finished <=> k < AtJob /\ ~\E t \in Threads : Holds(t) /\ at[t] = k
    /\ JobsCompleted = Cardinality(finished)
    /\ AtJob <= JobCount

\* While a job waits to be claimed the workers are not all asleep on a semaphore
\* that nobody is going to signal: a worker that goes to sleep on a stale view
\* of the queue finds the post's count there (Threading.cpp:65-67, 79-81).  It asks
\* nothing where there are no workers.
WorkersAwake ==
    AtJob < JobCount =>
        \/ Semaphore > 0
        \/ \E w \in Workers : pc[w] # "sleep"
        \/ \E t \in Threads : pc[t] = "signal"

\* The wait returns to the main thread only when every posted job has finished
\* and no job is running that could post another (Threading.cpp:31, 50).
BarrierHolds ==
    [][pc[Main] = "doneCompare" /\ pc'[Main] = "stage"
       => finished = 0 .. JobCount - 1 /\ \A t \in Threads : ~Holds(t)]_vars

\* The main thread is never left blocked on WakeMain when all work is done and
\* every other thread is asleep (Threading.cpp:18-19, 35-44).
MainNotStranded ==
    ~ /\ pc[Main] = "waiting"
      /\ JobsCompleted = JobCount
      /\ Semaphore = 0
      /\ \A w \in Workers : pc[w] = "sleep"

\* A posted job is eventually run to its end, whether or not the main thread
\* is ever woken again.
EveryJobFinishes ==
    \A k \in Tickets : (k < JobCount) ~> (k \in finished)

\* With --no-thread every wait ends: the main thread runs what is posted, and what
\* that posts, by itself, and never blocks on WakeMain, which nobody would notify
\* (Threading.cpp:30-44, 104-105).
WaitEndsWithoutWorkers ==
    (pc[Main] # "stage" /\ \A w \in Workers : pc[w] = "absent") ~> pc[Main] = "stage"

Pool == INSTANCE JobPool WITH
    Width <- Cardinality(Threads),
    posted <- JobCount,
    waiting <- pc[Main] # "stage" /\ ~(pc[Main] \in {"bump", "signal", "unlock", "notify"}
                                      /\ job[Main] = NoJob)

\* The queue implements JobPool: every step of a thread is a step of the pool
\* or leaves it unchanged.
ImplementsJobPool == Pool!PoolSpec
=============================================================================
