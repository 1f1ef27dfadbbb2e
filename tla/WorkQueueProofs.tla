-------------------------- MODULE WorkQueueProofs --------------------------
(***************************************************************************)
(* Proofs about the work queue, for every number of workers, ring size and *)
(* bound.  The argument: between two returns of the wait at most MaxJobs   *)
(* jobs are posted, so the tickets from phaseBase on live in different     *)
(* slots and nothing is overwritten before it is read; a ticket is owned   *)
(* by the thread whose compare-exchange took AtJob past it; what is below  *)
(* AtJob and owned by nobody is finished, and JobsCompleted counts it.     *)
(* When a count loaded earlier equals JobCount, everything is finished.    *)
(***************************************************************************)
EXTENDS WorkQueue, FiniteSetTheorems, TLAPS

InPost == {"bump", "signal", "unlock", "notify"}

\* Mutex is held exactly by the thread between lock and unlock of PostJob.
LockHeld ==
    \A t \in Threads : pc[t] \in {"bump", "signal", "unlock"} <=> mutex = t

\* A thread has a job exactly while its task runs or posts.
JobHeld ==
    \A t \in Threads :
        /\ pc[t] = "run" => job[t] # NoJob
        /\ pc[t] \in InPost => job[t] # NoJob \/ t = Main
        /\ job[t] # NoJob => pc[t] \in InPost \cup {"run"}

\* Owners.
Ownership ==
    /\ ClaimedOnce
    /\ \A t \in Threads : Holds(t) => at[t] < AtJob
    /\ \A t \in Threads : pc[t] = "cas" => at[t] < JobCount

\* What has happened to each ticket.
Started ==
    \A k \in Tickets :
        runs[k] = IF k < AtJob /\ ~\E t \in Threads : pc[t] = "fetch" /\ at[t] = k
                  THEN 1 ELSE 0

Done ==
    \A k \in Tickets :
        k \in finished <=> k < AtJob /\ ~\E t \in Threads : Holds(t) /\ at[t] = k

Counted == JobsCompleted = Cardinality(finished)

\* The tickets of the phase, and where their jobs are.
Window ==
    /\ phaseBase <= AtJob
    /\ AtJob <= JobCount
    /\ JobCount <= phaseBase + PhaseLimit
    /\ \A k \in Tickets : k < phaseBase => k \in finished

Ring ==
    /\ \A k \in Tickets : phaseBase <= k /\ k < JobCount => Jobs[SlotOf(k)] = k
    /\ \A t \in Threads : pc[t] = "bump" =>
           /\ JobCount < phaseBase + PhaseLimit
           /\ JobCount < JobLimit
           /\ Jobs[SlotOf(JobCount)] = JobCount

SeenOld == pc[Main] = "doneCompare" => seen[Main] <= JobsCompleted

IInv ==
    /\ TypeOK
    /\ LockHeld
    /\ JobHeld
    /\ Ownership
    /\ Started
    /\ Done
    /\ Counted
    /\ Window
    /\ Ring
    /\ SeenOld

-----------------------------------------------------------------------------
\* A slot number is in range (TryDoWork and PostJob index Jobs with it).
LEMMA SlotInRange ==
    ASSUME NEW k \in Nat
    PROVE  SlotOf(k) \in Slots
BY QueueAssumption DEF SlotOf, Slots

\* Two tickets less than a ring apart never share a slot.
LEMMA SlotsDiffer ==
    ASSUME NEW a \in Nat, NEW b \in Nat, a < b, b - a < MaxJobs
    PROVE  SlotOf(a) # SlotOf(b)
<1> DEFINE qa == a \div MaxJobs
           qb == b \div MaxJobs
<1> SUFFICES ASSUME a % MaxJobs = b % MaxJobs PROVE FALSE
  BY DEF SlotOf
<1>1. MaxJobs \in Nat /\ MaxJobs > 0
  BY QueueAssumption
<1>2. a = MaxJobs * qa + (a % MaxJobs) /\ qa \in Int
  BY <1>1
<1>3. b = MaxJobs * qb + (b % MaxJobs) /\ qb \in Int
  BY <1>1
<1> HIDE DEF qa, qb
<1>4. a % MaxJobs \in Int
  BY <1>1
<1>5. b - a = MaxJobs * (qb - qa)
  BY <1>1, <1>2, <1>3, <1>4
<1>6. CASE qb - qa >= 1
  <2>1. MaxJobs * (qb - qa) >= MaxJobs
    BY <1>1, <1>2, <1>3, <1>6
  <2> QED BY <2>1, <1>5, <1>1
<1>7. CASE qb - qa <= 0
  <2>1. MaxJobs * (qb - qa) <= 0
    BY <1>1, <1>2, <1>3, <1>7
  <2> QED BY <2>1, <1>5, <1>1
<1> QED BY <1>6, <1>7, <1>2, <1>3
-----------------------------------------------------------------------------
\* Places where a thread neither owns a ticket nor holds the mutex.
Free == {"load", "check", "count", "compare", "wake", "sleep", "absent"} \cup (MainPcs \ {"doneCompare"})

\* A step that moves thread t between places where it owns nothing, and perhaps
\* wakes the main thread, keeps everything but the types in order.
ControlStep(t) ==
    /\ pc[t] \in Free \cup {"cas", "doneCompare"}
    /\ pc'[t] \in Free
    /\ \A u \in Threads \ {t} : pc'[u] = pc[u] \/ (pc[u] \in Free /\ pc'[u] \in Free)
    /\ \A u \in Threads \ {t} : at'[u] = at[u] /\ seen'[u] = seen[u]
    /\ UNCHANGED <<Jobs, counters, mutex, job, history>>

LEMMA ControlStepKeeps ==
    ASSUME IInv, TypeOK', NEW t \in Threads, ControlStep(t)
    PROVE  IInv'
<1> USE DEF counters, history, Free, MainPcs, InPost
<1>1. LockHeld'
  BY DEF IInv, LockHeld, ControlStep
<1>2. JobHeld' /\ job[t] = NoJob
  BY DEF IInv, JobHeld, ControlStep
<1>3. \A u \in Threads : Holds(u)' <=> Holds(u)
  BY <1>2 DEF Holds, ControlStep
<1>4. ~Holds(t)
  BY <1>2 DEF Holds, ControlStep
<1>5. \A u \in Threads : Holds(u) => at'[u] = at[u]
  BY <1>4 DEF ControlStep
<1>6. \A u \in Threads : (pc'[u] = "fetch" <=> pc[u] = "fetch") /\ (pc[u] = "fetch" => at'[u] = at[u])
  BY DEF ControlStep
<1>7. Ownership'
  BY <1>3, <1>5, <1>2 DEF IInv, Ownership, ClaimedOnce, ControlStep, Holds
<1>8. Started'
  BY <1>6 DEF IInv, Started, ControlStep
<1>9. Done'
  BY <1>3, <1>5 DEF IInv, Done, ControlStep
<1>10. Counted' /\ Window'
  BY DEF IInv, Counted, Window, ControlStep
<1>11. Ring'
  BY DEF IInv, Ring, ControlStep
<1>12. SeenOld'
  BY DEF IInv, SeenOld, ControlStep, Threads
<1> QED BY <1>1, <1>2, <1>7, <1>8, <1>9, <1>10, <1>11, <1>12 DEF IInv

\* With and without --no-thread the main thread stages work first.
LEMMA InitialPlaces ==
    ASSUME Init
    PROVE  /\ pc \in [Threads -> {"stage", "load", "absent"}]
           /\ pc[Main] = "stage"
           /\ \A w \in Workers : pc[w] \in {"load", "absent"}
<1>1. PICK NoThreads \in BOOLEAN :
          pc = [t \in Threads |-> IF t = Main THEN "stage"
                                  ELSE IF NoThreads THEN "absent" ELSE "load"]
  BY DEF Init, InitThreadsForQueue
<1> QED BY <1>1, QueueAssumption DEF Threads

LEMMA InitIInv == Init => IInv
<1> SUFFICES ASSUME Init PROVE IInv
  OBVIOUS
<1> USE QueueAssumption, InitialPlaces DEF Init, Threads
<1>1. TypeOK
  BY DEF TypeOK, Tickets, NoJob, WorkPcs, MainPcs
<1>2. LockHeld /\ JobHeld
  BY DEF LockHeld, JobHeld, InPost
<1>3. Ownership
  BY DEF Ownership, ClaimedOnce, Holds
<1>4. Started /\ Done
  BY DEF Started, Done, Tickets
<1>5. Counted
  BY FS_EmptySet DEF Counted
<1>6. Window /\ Ring /\ SeenOld
  BY DEF Window, Ring, SeenOld, Tickets
<1> QED BY <1>1, <1>2, <1>3, <1>4, <1>5, <1>6 DEF IInv

\* The steps that only move a thread or load a counter.
LEMMA ControlActions ==
    ASSUME IInv, NEW t \in Threads,
           \/ LoadAtJob(t) \/ FindNoWork(t) \/ ClaimFails(t)
           \/ LoadCompleted(t) \/ CompareCompleted(t) \/ WakeMain(t)
    PROVE  IInv'
<1> USE QueueAssumption DEF IInv, TypeOK, Threads, Goto, NotifyAll, WorkPcs, MainPcs,
        counters, history, AfterWork, AfterNoWork, ControlStep, Free
<1>1. CASE LoadAtJob(t)
  <2>1. TypeOK' BY <1>1 DEF LoadAtJob
  <2>2. ControlStep(t) BY <1>1 DEF LoadAtJob
  <2> QED BY <2>1, <2>2, ControlStepKeeps
<1>2. CASE FindNoWork(t)
  <2>1. TypeOK' BY <1>2 DEF FindNoWork
  <2>2. ControlStep(t) BY <1>2 DEF FindNoWork
  <2> QED BY <2>1, <2>2, ControlStepKeeps
<1>3. CASE ClaimFails(t)
  <2>1. TypeOK' BY <1>3 DEF ClaimFails
  <2>2. ControlStep(t) BY <1>3 DEF ClaimFails
  <2> QED BY <2>1, <2>2, ControlStepKeeps
<1>4. CASE LoadCompleted(t)
  <2>1. TypeOK' BY <1>4 DEF LoadCompleted
  <2>2. ControlStep(t) BY <1>4 DEF LoadCompleted
  <2> QED BY <2>1, <2>2, ControlStepKeeps
<1>5. CASE CompareCompleted(t)
  <2>1. TypeOK' BY <1>5 DEF CompareCompleted
  <2>2. ControlStep(t) BY <1>5 DEF CompareCompleted
  <2> QED BY <2>1, <2>2, ControlStepKeeps
<1>6. CASE WakeMain(t)
  <2>1. TypeOK' BY <1>6 DEF WakeMain
  <2>2. ControlStep(t) BY <1>6 DEF WakeMain
  <2> QED BY <2>1, <2>2, ControlStepKeeps
<1> QED BY <1>1, <1>2, <1>3, <1>4, <1>5, <1>6

\* The steps of MainThreadWorkUntilDone that do not return, and the worker's
\* sleep, are of the same kind.
LEMMA WaitActions ==
    ASSUME IInv,
           \/ EnterWait \/ NotDone \/ PredLoadAtJob \/ PredCompareAtJob
           \/ PredLoadDone \/ PredCompareDone \/ Block
    PROVE  IInv'
<1> USE QueueAssumption DEF IInv, TypeOK, Threads, Goto, WorkPcs, MainPcs,
        counters, history, ControlStep, Free
<1>1. CASE EnterWait
  <2>1. TypeOK' BY <1>1 DEF EnterWait
  <2>2. ControlStep(Main) BY <1>1 DEF EnterWait
  <2> QED BY <2>1, <2>2, ControlStepKeeps
<1>2. CASE NotDone
  <2>1. TypeOK' BY <1>2 DEF NotDone
  <2>2. ControlStep(Main) BY <1>2 DEF NotDone
  <2> QED BY <2>1, <2>2, ControlStepKeeps
<1>3. CASE PredLoadAtJob
  <2>1. TypeOK' BY <1>3 DEF PredLoadAtJob
  <2>2. ControlStep(Main) BY <1>3 DEF PredLoadAtJob
  <2> QED BY <2>1, <2>2, ControlStepKeeps
<1>4. CASE PredCompareAtJob
  <2>1. TypeOK' BY <1>4 DEF PredCompareAtJob
  <2>2. ControlStep(Main) BY <1>4 DEF PredCompareAtJob
  <2> QED BY <2>1, <2>2, ControlStepKeeps
<1>5. CASE PredLoadDone
  <2>1. TypeOK' BY <1>5 DEF PredLoadDone
  <2>2. ControlStep(Main) BY <1>5 DEF PredLoadDone
  <2> QED BY <2>1, <2>2, ControlStepKeeps
<1>6. CASE PredCompareDone
  <2>1. TypeOK' BY <1>6 DEF PredCompareDone
  <2>2. ControlStep(Main) BY <1>6 DEF PredCompareDone
  <2> QED BY <2>1, <2>2, ControlStepKeeps
<1>7. CASE Block
  <2>1. TypeOK' BY <1>7 DEF Block
  <2>2. ControlStep(Main) BY <1>7 DEF Block
  <2> QED BY <2>1, <2>2, ControlStepKeeps
<1> QED BY <1>1, <1>2, <1>3, <1>4, <1>5, <1>6, <1>7

LEMMA SleepAction ==
    ASSUME IInv, NEW w \in Workers, SleepOnSemaphore(w)
    PROVE  IInv'
<1> USE QueueAssumption DEF IInv, TypeOK, Threads, Goto, WorkPcs, MainPcs,
        counters, history, ControlStep, Free, SleepOnSemaphore
<1>1. TypeOK' OBVIOUS
<1>2. ControlStep(w) OBVIOUS
<1> QED BY <1>1, <1>2, ControlStepKeeps

\* The counter the main thread loads is not ahead of the one it will compare.
LEMMA LoadDoneAction == ASSUME IInv, LoadDone PROVE IInv'
<1> USE QueueAssumption DEF IInv, TypeOK, Threads, Goto, WorkPcs, MainPcs,
        counters, history, LoadDone
<1>1. TypeOK' OBVIOUS
<1>2. LockHeld' /\ JobHeld' BY DEF LockHeld, JobHeld, InPost
<1>3. \A u \in Threads : (Holds(u)' <=> Holds(u)) /\ (pc'[u] = "fetch" <=> pc[u] = "fetch")
  BY DEF Holds
<1>4. Ownership' BY <1>3 DEF Ownership, ClaimedOnce
<1>5. Started' /\ Done' BY <1>3 DEF Started, Done
<1>6. Counted' /\ Window' /\ Ring' BY DEF Counted, Window, Ring
<1>7. SeenOld' BY DEF SeenOld
<1> QED BY <1>1, <1>2, <1>4, <1>5, <1>6, <1>7

\* Finding work records that the ticket about to be claimed was posted.
LEMMA FindWorkAction == ASSUME IInv, NEW t \in Threads, FindWork(t) PROVE IInv'
<1> USE QueueAssumption DEF IInv, TypeOK, Threads, Goto, WorkPcs, MainPcs,
        counters, history, FindWork
<1>1. TypeOK' OBVIOUS
<1>2. LockHeld' /\ JobHeld' BY DEF LockHeld, JobHeld, InPost
<1>3. \A u \in Threads : (Holds(u)' <=> Holds(u)) /\ (pc'[u] = "fetch" <=> pc[u] = "fetch")
  BY DEF Holds
<1>4. Ownership' BY <1>3 DEF Ownership, ClaimedOnce
<1>5. Started' /\ Done' BY <1>3 DEF Started, Done
<1>6. Counted' /\ Window' /\ Ring' BY DEF Counted, Window, Ring
<1>7. SeenOld' BY DEF SeenOld
<1> QED BY <1>1, <1>2, <1>4, <1>5, <1>6, <1>7

\* The compare-exchange makes t the only owner of ticket AtJob.
LEMMA ClaimAction == ASSUME IInv, NEW t \in Threads, Claim(t) PROVE IInv'
<1> USE QueueAssumption DEF IInv, Threads, Goto, counters, history, Claim
<1>0. at[t] < JobCount /\ at[t] = AtJob /\ AtJob \in Nat /\ JobCount \in 0 .. JobLimit
  BY DEF TypeOK, Ownership
<1>1. TypeOK' BY <1>0 DEF TypeOK, WorkPcs, MainPcs
<1>2. LockHeld' /\ JobHeld' BY DEF LockHeld, JobHeld, InPost, TypeOK
<1>3. Holds(t)' /\ ~Holds(t) /\ \A u \in Threads \ {t} : Holds(u)' <=> Holds(u)
  BY DEF Holds, TypeOK, JobHeld, InPost
<1>4. Ownership'
  BY <1>0, <1>3 DEF Ownership, ClaimedOnce, TypeOK, JobHeld, InPost
<1>5. Started'
  <2> SUFFICES ASSUME NEW k \in Tickets
               PROVE  runs[k] = IF k < AtJob' /\ ~\E u \in Threads : pc'[u] = "fetch" /\ at[u] = k
                                THEN 1 ELSE 0
    BY DEF Started
  <2>1. CASE k = AtJob
    <3>1. runs[k] = 0 BY <2>1, <1>0 DEF Started
    <3>2. pc'[t] = "fetch" /\ at[t] = k BY <2>1, <1>0 DEF TypeOK
    <3> QED BY <3>1, <3>2
  <2>2. CASE k # AtJob
    <3>1. \A u \in Threads : pc'[u] = "fetch" /\ at[u] = k <=> pc[u] = "fetch" /\ at[u] = k
      BY <2>2, <1>0 DEF TypeOK
    <3>2. k < AtJob' <=> k < AtJob BY <2>2, <1>0 DEF Tickets
    <3> QED BY <3>1, <3>2 DEF Started
  <2> QED BY <2>1, <2>2
<1>6. Done'
  <2> SUFFICES ASSUME NEW k \in Tickets
               PROVE  k \in finished <=> k < AtJob' /\ ~\E u \in Threads : Holds(u)' /\ at[u] = k
    BY DEF Done
  <2>1. CASE k = AtJob
    BY <2>1, <1>0, <1>3 DEF Done
  <2>2. CASE k # AtJob
    BY <2>2, <1>0, <1>3 DEF Done, Tickets
  <2> QED BY <2>1, <2>2
<1>7. Counted' BY DEF Counted
<1>8. Window' BY <1>0 DEF Window, TypeOK
<1>9. Ring' BY DEF Ring, TypeOK
<1>10. SeenOld' BY DEF SeenOld, TypeOK
<1> QED BY <1>1, <1>2, <1>4, <1>5, <1>6, <1>7, <1>8, <1>9, <1>10

\* The slot still holds the job of the ticket: the ticket is not finished, so it
\* is of this phase, and the phase fits the ring.
LEMMA FetchReadsOwnJob ==
    ASSUME IInv, NEW t \in Threads, pc[t] = "fetch"
    PROVE  /\ at[t] \in Tickets
           /\ at[t] < AtJob
           /\ Jobs[SlotOf(at[t])] = at[t]
<1>1. Holds(t) /\ at[t] < AtJob /\ at[t] \in Tickets /\ AtJob <= JobCount
  BY QueueAssumption DEF IInv, Ownership, Holds, TypeOK, Tickets, Window
<1>2. at[t] \notin finished
  BY <1>1 DEF IInv, Done
<1>3. phaseBase <= at[t]
  BY <1>1, <1>2 DEF IInv, Window, TypeOK, Tickets
<1> QED BY <1>1, <1>3 DEF IInv, Ring, TypeOK, Tickets

LEMMA FetchAction == ASSUME IInv, NEW t \in Threads, Fetch(t) PROVE IInv'
<1> USE QueueAssumption DEF IInv, Threads, Goto, counters, history, Fetch
<1>0. /\ at[t] \in Tickets /\ at[t] < AtJob /\ Jobs[SlotOf(at[t])] = at[t]
      /\ job[t] = NoJob /\ at[t] # NoJob
  <2>1. job[t] = NoJob BY DEF JobHeld, InPost
  <2> QED BY <2>1, FetchReadsOwnJob DEF Tickets, NoJob
<1>a. job' = [job EXCEPT ![t] = at[t]] /\ runs' = [runs EXCEPT ![at[t]] = @ + 1]
  BY <1>0
<1>1. TypeOK' BY <1>0, <1>a DEF TypeOK, WorkPcs, MainPcs
<1>2. LockHeld' BY DEF LockHeld, TypeOK
<1>3. JobHeld' BY <1>0, <1>a DEF JobHeld, InPost, TypeOK
<1>4. \A u \in Threads : Holds(u)' <=> Holds(u)
  BY <1>0, <1>a DEF Holds, TypeOK
<1>5. Ownership'
  BY <1>0, <1>a, <1>4 DEF Ownership, ClaimedOnce, TypeOK
<1>6. Started'
  <2> SUFFICES ASSUME NEW k \in Tickets
               PROVE  runs'[k] = IF k < AtJob /\ ~\E u \in Threads : pc'[u] = "fetch" /\ at[u] = k
                                 THEN 1 ELSE 0
    BY DEF Started
  <2>1. CASE k = at[t]
    <3>1. runs[k] = 0
      <4>1. pc[t] = "fetch" /\ at[t] = k BY <2>1
      <4> QED BY <4>1 DEF Started
    <3>2. ~\E u \in Threads : pc'[u] = "fetch" /\ at[u] = k
      BY <2>1 DEF Ownership, ClaimedOnce, Holds, TypeOK
    <3> QED BY <2>1, <3>1, <3>2, <1>0, <1>a DEF TypeOK
  <2>2. CASE k # at[t]
    <3>1. runs'[k] = runs[k] BY <2>2, <1>a DEF TypeOK
    <3>2. \A u \in Threads : pc'[u] = "fetch" /\ at[u] = k <=> pc[u] = "fetch" /\ at[u] = k
      BY <2>2 DEF TypeOK
    <3> QED BY <3>1, <3>2 DEF Started
  <2> QED BY <2>1, <2>2
<1>7. Done' BY <1>4 DEF Done
<1>8. Counted' /\ Window' BY DEF Counted, Window
<1>9. Ring' BY DEF Ring, TypeOK
<1>10. SeenOld' BY DEF SeenOld, TypeOK
<1> QED BY <1>1, <1>2, <1>3, <1>5, <1>6, <1>7, <1>8, <1>9, <1>10

\* A set of tickets below n has at most n members.
LEMMA TicketCount ==
    ASSUME NEW n \in Nat, NEW S \in SUBSET (0 .. n - 1)
    PROVE  /\ IsFiniteSet(S)
           /\ Cardinality(S) \in 0 .. n
           /\ Cardinality(S) = n => S = 0 .. n - 1
<1>1. IsFiniteSet(0 .. n - 1) /\ Cardinality(0 .. n - 1) = n
  BY FS_Interval
<1>2. IsFiniteSet(S) /\ Cardinality(S) <= Cardinality(0 .. n - 1)
      /\ (Cardinality(0 .. n - 1) = Cardinality(S) => 0 .. n - 1 = S)
  BY <1>1, FS_Subset
<1>3. Cardinality(S) \in Nat
  BY <1>2, FS_CardinalityType
<1> QED BY <1>1, <1>2, <1>3

\* Finishing a job moves its ticket from the owned to the finished ones.
LEMMA CompleteAction == ASSUME IInv, NEW t \in Threads, Complete(t) PROVE IInv'
<1> USE QueueAssumption DEF IInv, Threads, Goto, counters, history, Complete
<1>0. /\ job[t] = at[t] /\ at[t] \in Tickets /\ Holds(t) /\ at[t] < AtJob
      /\ at[t] \notin finished
  <2>1. job[t] # NoJob BY DEF JobHeld
  <2>2. Holds(t) BY <2>1 DEF Holds
  <2>3. job[t] = at[t] /\ at[t] < AtJob BY <2>1, <2>2 DEF Ownership, ClaimedOnce
  <2>4. at[t] \in Tickets BY <2>1, <2>3 DEF TypeOK
  <2> QED BY <2>2, <2>3, <2>4 DEF Done
<1>1. finished' \in SUBSET Tickets BY <1>0 DEF TypeOK
<1>2. Counted' /\ JobsCompleted' = JobsCompleted + 1
  <2>1. IsFiniteSet(finished)
    BY TicketCount DEF TypeOK, Tickets
  <2>2. Cardinality(finished \cup {job[t]}) = Cardinality(finished) + 1
    BY <2>1, <1>0, FS_AddElement
  <2> QED BY <2>2 DEF Counted
<1>3. JobsCompleted' \in 0 .. JobLimit
  BY <1>1, <1>2, TicketCount DEF Counted, Tickets
<1>4. TypeOK' BY <1>1, <1>3 DEF TypeOK, WorkPcs, MainPcs
<1>5. LockHeld' /\ JobHeld' BY DEF LockHeld, JobHeld, InPost, TypeOK
<1>6. ~Holds(t)' /\ \A u \in Threads \ {t} : (Holds(u)' <=> Holds(u)) /\ at'[u] = at[u]
  BY DEF Holds, TypeOK
<1>7. Ownership' BY <1>6 DEF Ownership, ClaimedOnce, TypeOK
<1>8. \A u \in Threads : (pc'[u] = "fetch" <=> pc[u] = "fetch") /\ (pc[u] = "fetch" => at'[u] = at[u])
  BY DEF TypeOK
<1>9. Started' BY <1>8 DEF Started
<1>10. Done'
  <2> SUFFICES ASSUME NEW k \in Tickets
               PROVE  k \in finished' <=> k < AtJob /\ ~\E u \in Threads : Holds(u)' /\ at'[u] = k
    BY DEF Done
  <2>1. CASE k = at[t]
    <3>1. \A u \in Threads \ {t} : Holds(u) => at[u] # at[t]
      BY <1>0 DEF Ownership, ClaimedOnce
    <3> QED BY <2>1, <3>1, <1>0, <1>6
  <2>2. CASE k # at[t]
    BY <2>2, <1>0, <1>6 DEF Done
  <2> QED BY <2>1, <2>2
<1>11. Window' BY DEF Window
<1>12. Ring' BY DEF Ring, TypeOK
<1>13. SeenOld' BY <1>2 DEF SeenOld, TypeOK
<1> QED BY <1>2, <1>4, <1>5, <1>7, <1>9, <1>10, <1>11, <1>12, <1>13

-----------------------------------------------------------------------------
(* PostJob *)

\* Writing the slot of ticket JobCount overwrites no job of this phase.
LEMMA PostWriteAction == ASSUME IInv, NEW t \in Threads, PostWrite(t) PROVE IInv'
<1> USE QueueAssumption DEF IInv, Threads, Goto, counters, history, PostWrite
<1>0. JobCount \in Tickets /\ JobCount \in Nat /\ SlotOf(JobCount) \in Slots
  BY SlotInRange DEF TypeOK, Tickets
<1>1. TypeOK' BY <1>0 DEF TypeOK, WorkPcs, MainPcs
<1>2. LockHeld' BY DEF LockHeld, TypeOK
<1>3. JobHeld' BY DEF JobHeld, InPost, TypeOK, MainPcs
<1>4. \A u \in Threads : (Holds(u)' <=> Holds(u)) /\ (pc'[u] = "fetch" <=> pc[u] = "fetch")
  BY DEF Holds, TypeOK, JobHeld
<1>5. Ownership' BY <1>4 DEF Ownership, ClaimedOnce, TypeOK
<1>6. Started' /\ Done' BY <1>4 DEF Started, Done
<1>7. Counted' /\ Window' BY DEF Counted, Window
<1>8. \A k \in Tickets : phaseBase <= k /\ k < JobCount => Jobs'[SlotOf(k)] = k
  <2> SUFFICES ASSUME NEW k \in Tickets, phaseBase <= k, k < JobCount
               PROVE  Jobs'[SlotOf(k)] = k
    OBVIOUS
  <2>1. SlotOf(k) # SlotOf(JobCount)
    BY <1>0, SlotsDiffer DEF Window, TypeOK, Tickets
  <2> QED BY <2>1 DEF Ring, TypeOK
<1>9. Jobs'[SlotOf(JobCount)] = JobCount
  BY <1>0 DEF TypeOK
<1>10. Ring' BY <1>8, <1>9 DEF Ring
<1>11. SeenOld' BY DEF SeenOld, TypeOK
<1> QED BY <1>1, <1>2, <1>3, <1>5, <1>6, <1>7, <1>10, <1>11

\* Counting the written slot opens it to TryDoWork.
LEMMA PostCountAction == ASSUME IInv, NEW t \in Threads, PostCount(t) PROVE IInv'
<1> USE QueueAssumption DEF IInv, Threads, Goto, counters, history, PostCount
<1>0. /\ JobCount < phaseBase + PhaseLimit /\ JobCount < JobLimit
      /\ Jobs[SlotOf(JobCount)] = JobCount
  BY DEF Ring
<1>1. TypeOK' BY <1>0 DEF TypeOK, WorkPcs, MainPcs
<1>2. LockHeld' BY DEF LockHeld, TypeOK
<1>3. JobHeld' BY DEF JobHeld, InPost, TypeOK
<1>4. \A u \in Threads : (Holds(u)' <=> Holds(u)) /\ (pc'[u] = "fetch" <=> pc[u] = "fetch")
  BY DEF Holds, TypeOK
<1>5. Ownership' BY <1>4 DEF Ownership, ClaimedOnce, TypeOK
<1>6. Started' /\ Done' BY <1>4 DEF Started, Done
<1>7. Counted' BY DEF Counted
<1>8. Window' BY <1>0 DEF Window, TypeOK, Tickets
<1>9. \A u \in Threads : pc'[u] # "bump"
  BY DEF LockHeld, TypeOK
<1>10. Ring' BY <1>0, <1>9 DEF Ring, TypeOK, Tickets
<1>11. SeenOld' BY DEF SeenOld, TypeOK
<1> QED BY <1>1, <1>2, <1>3, <1>5, <1>6, <1>7, <1>8, <1>10, <1>11

\* The rest of PostJob signals, unlocks and notifies.
LEMMA PostRestActions ==
    ASSUME IInv, NEW t \in Threads, PostSignal(t) \/ PostUnlock(t) \/ PostNotify(t)
    PROVE  IInv'
<1> USE QueueAssumption DEF IInv, Threads, Goto, NotifyAll, counters, history,
        PostSignal, PostUnlock, PostNotify
<1>1. TypeOK' BY DEF TypeOK, WorkPcs, MainPcs, JobHeld, InPost
<1>2. LockHeld' BY DEF LockHeld, TypeOK
<1>3. JobHeld' BY DEF JobHeld, InPost, TypeOK
<1>4. \A u \in Threads : (Holds(u)' <=> Holds(u)) /\ (pc'[u] = "fetch" <=> pc[u] = "fetch")
  BY DEF Holds, TypeOK
<1>5. Ownership' BY <1>4 DEF Ownership, ClaimedOnce, TypeOK
<1>6. Started' /\ Done' BY <1>4 DEF Started, Done
<1>7. Counted' /\ Window' BY DEF Counted, Window
<1>8. Ring' BY DEF Ring, TypeOK
<1>9. SeenOld' BY DEF SeenOld, TypeOK
<1> QED BY <1>1, <1>2, <1>3, <1>5, <1>6, <1>7, <1>8, <1>9

-----------------------------------------------------------------------------
(* The barrier *)

\* When the wait returns, everything posted is finished and nobody owns a ticket.
LEMMA BarrierLemma ==
    ASSUME IInv, ReturnFromWait
    PROVE  finished = 0 .. JobCount - 1 /\ \A t \in Threads : ~Holds(t)
<1> USE QueueAssumption DEF IInv, ReturnFromWait
<1>1. JobCount <= JobsCompleted /\ JobCount \in Nat
  BY DEF SeenOld, TypeOK, Threads
<1>2. finished \in SUBSET (0 .. JobCount - 1)
  BY DEF Done, Window, TypeOK, Tickets
<1>3. finished = 0 .. JobCount - 1
  BY <1>1, <1>2, TicketCount DEF Counted
<1>4. ASSUME NEW t \in Threads, Holds(t) PROVE FALSE
  <2>1. at[t] < AtJob /\ at[t] \in Tickets
    BY <1>4 DEF Ownership, TypeOK, Window, Tickets
  <2>2. at[t] \notin finished BY <1>4, <2>1 DEF Done
  <2> QED BY <2>1, <2>2, <1>3 DEF Window, TypeOK, Tickets
<1> QED BY <1>3, <1>4

LEMMA ReturnAction == ASSUME IInv, ReturnFromWait PROVE IInv'
<1> USE QueueAssumption DEF IInv, Threads, Goto, counters, history, ReturnFromWait
<1>0. finished = 0 .. JobCount - 1 /\ \A t \in Threads : ~Holds(t)
  BY BarrierLemma
<1>a. AtJob = JobCount
  <2>1. CASE JobCount = 0 BY <2>1 DEF Window, TypeOK
  <2>2. CASE JobCount > 0
    <3>1. JobCount - 1 \in finished BY <1>0, <2>2 DEF TypeOK
    <3> QED BY <3>1, <2>2 DEF Done, Window, TypeOK, Tickets
  <2> QED BY <2>1, <2>2 DEF TypeOK
<1>1. TypeOK' BY DEF TypeOK, WorkPcs, MainPcs
<1>2. LockHeld' BY DEF LockHeld, TypeOK
<1>3. JobHeld' BY DEF JobHeld, InPost, TypeOK
<1>4. \A u \in Threads : (Holds(u)' <=> Holds(u)) /\ (pc'[u] = "fetch" <=> pc[u] = "fetch")
  BY DEF Holds, TypeOK
<1>5. Ownership' BY <1>4 DEF Ownership, ClaimedOnce, TypeOK
<1>6. Started' /\ Done' BY <1>4 DEF Started, Done
<1>7. Counted' BY DEF Counted
<1>8. Window' BY <1>0, <1>a DEF Window, TypeOK, Tickets
<1>9. \A u \in Threads : pc[u] # "bump"
  <2>1. pc[Main] = "doneCompare" OBVIOUS
  <2> QED BY <2>1, <1>0 DEF JobHeld, InPost, Holds
<1>10. Ring' BY <1>9 DEF Ring, TypeOK, Tickets
<1>11. SeenOld' BY DEF SeenOld, TypeOK
<1> QED BY <1>1, <1>2, <1>3, <1>5, <1>6, <1>7, <1>8, <1>10, <1>11

-----------------------------------------------------------------------------
(* The theorems *)

LEMMA NextKeepsIInv == IInv /\ [Next]_vars => IInv'
<1> SUFFICES ASSUME IInv, [Next]_vars PROVE IInv'
  OBVIOUS
<1>1. ASSUME NEW t \in Threads, TryDoWork(t) PROVE IInv'
  BY <1>1, ControlActions, FindWorkAction, ClaimAction, FetchAction, CompleteAction
  DEF TryDoWork
<1>2. ASSUME NEW t \in Threads, PostJob(t) PROVE IInv'
  BY <1>2, PostWriteAction, PostCountAction, PostRestActions DEF PostJob
<1>3. ASSUME MainThreadWorkUntilDone PROVE IInv'
  BY <1>3, WaitActions, LoadDoneAction, ReturnAction DEF MainThreadWorkUntilDone
<1>4. CASE MainStep
  BY <1>1, <1>2, <1>3, <1>4 DEF MainStep, Threads
<1>5. ASSUME NEW w \in Workers, WorkerStep(w) PROVE IInv'
  BY <1>1, <1>2, <1>5, SleepAction DEF WorkerStep, Threads
<1>6. CASE UNCHANGED vars
  <2> USE <1>6 DEF vars, counters, history
  <2>1. TypeOK' BY DEF IInv, TypeOK
  <2>2. LockHeld' /\ JobHeld' BY DEF IInv, LockHeld, JobHeld
  <2>3. Ownership' BY DEF IInv, Ownership, ClaimedOnce, Holds
  <2>4. Started' /\ Done' BY DEF IInv, Started, Done, Holds
  <2>5. Counted' /\ Window' /\ Ring' /\ SeenOld'
    BY DEF IInv, Counted, Window, Ring, SeenOld
  <2> QED BY <2>1, <2>2, <2>3, <2>4, <2>5 DEF IInv
<1> QED BY <1>4, <1>5, <1>6 DEF Next

\* The inductive invariant holds in every reachable state.
LEMMA InductiveInvariant == Spec => []IInv
<1>1. Init => IInv BY InitIInv
<1>2. IInv /\ [Next]_vars => IInv' BY NextKeepsIInv
<1> QED BY <1>1, <1>2, PTL DEF Spec

\* Every variable of the queue keeps its type; in particular the counters stay
\* within the jobs posted (Threading.h:19-30).
THEOREM TypeCorrect == Spec => []TypeOK
<1>1. IInv => TypeOK BY DEF IInv
<1> QED BY <1>1, InductiveInvariant, PTL

\* No ticket is ever run by two threads, and a thread runs the job posted with
\* its ticket, however often the ring has wrapped (Threading.cpp:12-16).
THEOREM JobsClaimedOnce == Spec => []ClaimedOnce
<1>1. IInv => ClaimedOnce BY DEF IInv, Ownership
<1> QED BY <1>1, InductiveInvariant, PTL

\* PostJob never overwrites a job that was not read yet (Threading.cpp:78), as
\* long as a phase posts at most MAX_JOBS jobs.
THEOREM RingIsSafe == Spec => []SlotsIntact
<1>1. ASSUME IInv PROVE SlotsIntact
  <2> SUFFICES ASSUME NEW k \in Tickets, k < JobCount,
                      k >= AtJob \/ \E t \in Threads : pc[t] = "fetch" /\ at[t] = k
               PROVE  Jobs[SlotOf(k)] = k
    BY DEF SlotsIntact
  <2>1. CASE k >= AtJob
    BY <1>1, <2>1 DEF IInv, Window, Ring, TypeOK, Tickets
  <2>2. ASSUME NEW t \in Threads, pc[t] = "fetch", at[t] = k
        PROVE  Jobs[SlotOf(k)] = k
    BY <1>1, <2>2, FetchReadsOwnJob
  <2> QED BY <2>1, <2>2
<1> QED BY <1>1, InductiveInvariant, PTL

\* Every ticket is started once and finished once, and JobsCompleted counts the
\* finished ones, which IsQueueDone relies on (Threading.cpp:15-17, 50).
THEOREM JobsAccounted == Spec => []Accounting
<1>1. IInv => Accounting BY DEF IInv, Accounting, Started, Done, Counted, Window
<1> QED BY <1>1, InductiveInvariant, PTL

\* MainThreadWorkUntilDone returns only when every posted job has finished and
\* no thread owns one (Threading.cpp:31, 50).
THEOREM BarrierIsSound == Spec => BarrierHolds
<1>1. ASSUME IInv, [Next]_vars
      PROVE  [pc[Main] = "doneCompare" /\ pc'[Main] = "stage"
              => finished = 0 .. JobCount - 1 /\ \A t \in Threads : ~Holds(t)]_vars
  <2> SUFFICES ASSUME Next, pc[Main] = "doneCompare", pc'[Main] = "stage"
               PROVE  finished = 0 .. JobCount - 1 /\ \A t \in Threads : ~Holds(t)
    BY <1>1
  <2> USE <1>1, QueueAssumption DEF IInv, TypeOK, Threads, Goto, NotifyAll
  <2>1. CASE ReturnFromWait BY <2>1, BarrierLemma
  <2>2. CASE MainStep /\ ~ReturnFromWait
    <3>1. ASSUME TryDoWork(Main) PROVE FALSE
      BY <3>1 DEF TryDoWork, LoadAtJob, FindNoWork, FindWork, Claim, ClaimFails, Fetch,
         Complete, LoadCompleted, CompareCompleted, WakeMain
    <3>2. ASSUME PostJob(Main) PROVE FALSE
      BY <3>2 DEF PostJob, PostWrite, PostCount, PostSignal, PostUnlock, PostNotify
    <3>3. ASSUME MainThreadWorkUntilDone PROVE FALSE
      BY <2>2, <3>3 DEF MainThreadWorkUntilDone, EnterWait, LoadDone, NotDone,
         PredLoadAtJob, PredCompareAtJob, PredLoadDone, PredCompareDone, Block
    <3> QED BY <2>2, <3>1, <3>2, <3>3 DEF MainStep
  <2>3. ASSUME NEW w \in Workers, WorkerStep(w) PROVE FALSE
    <3>1. w # Main /\ pc'[Main] # pc[Main] OBVIOUS
    <3>2. ~TryDoWork(w)
      BY <3>1 DEF TryDoWork, LoadAtJob, FindNoWork, FindWork, Claim, ClaimFails, Fetch,
         Complete, LoadCompleted, CompareCompleted, WakeMain
    <3>3. ~PostJob(w)
      BY <3>1 DEF PostJob, PostWrite, PostCount, PostSignal, PostUnlock, PostNotify
    <3> QED BY <2>3, <3>1, <3>2, <3>3 DEF WorkerStep, SleepOnSemaphore
  <2> QED BY <2>1, <2>2, <2>3 DEF Next
<1> QED BY <1>1, InductiveInvariant, PTL DEF Spec, BarrierHolds

-----------------------------------------------------------------------------
(* Nobody sleeps on work *)

\* The value of AtJob a thread acts on is an old one.
AtOld == \A t \in Threads : pc[t] \in {"check", "cas"} => at[t] <= AtJob

LEMMA NextKeepsAtOld == IInv /\ AtOld /\ [Next]_vars => AtOld'
<1> SUFFICES ASSUME IInv, AtOld, [Next]_vars PROVE AtOld'
  OBVIOUS
<1> USE QueueAssumption DEF IInv, TypeOK, Threads, Goto, NotifyAll, AtOld, AfterWork,
        AfterNoWork, counters, history
<1>1. ASSUME NEW t \in Threads, TryDoWork(t) PROVE AtOld'
  BY <1>1 DEF TryDoWork, LoadAtJob, FindNoWork, FindWork, Claim, ClaimFails, Fetch,
     Complete, LoadCompleted, CompareCompleted, WakeMain
<1>2. ASSUME NEW t \in Threads, PostJob(t) PROVE AtOld'
  BY <1>2 DEF PostJob, PostWrite, PostCount, PostSignal, PostUnlock, PostNotify
<1>3. ASSUME MainThreadWorkUntilDone PROVE AtOld'
  BY <1>3 DEF MainThreadWorkUntilDone, EnterWait, LoadDone, ReturnFromWait, NotDone,
     PredLoadAtJob, PredCompareAtJob, PredLoadDone, PredCompareDone, Block
<1>4. ASSUME NEW w \in Workers, SleepOnSemaphore(w) PROVE AtOld'
  BY <1>4 DEF SleepOnSemaphore
<1>5. CASE UNCHANGED vars BY <1>5 DEF vars
<1> QED BY <1>1, <1>2, <1>3, <1>4, <1>5 DEF Next, MainStep, WorkerStep

LEMMA NextKeepsWorkersAwake == IInv /\ AtOld /\ WorkersAwake /\ [Next]_vars => WorkersAwake'
<1> SUFFICES ASSUME IInv, AtOld, WorkersAwake, [Next]_vars PROVE WorkersAwake'
  OBVIOUS
<1> USE QueueAssumption DEF IInv, TypeOK, Threads, Goto, NotifyAll, AtOld, AfterWork,
        AfterNoWork, counters, history, WorkersAwake, MainPcs
<1>1. ASSUME NEW t \in Threads, TryDoWork(t) PROVE WorkersAwake'
  <2>1. CASE FindNoWork(t) BY <2>1 DEF FindNoWork
  <2>2. CASE Claim(t) BY <2>2 DEF Claim
  <2>3. CASE LoadAtJob(t) \/ FindWork(t) \/ ClaimFails(t)
    BY <2>3 DEF LoadAtJob, FindWork, ClaimFails
  <2>4. CASE Fetch(t) \/ Complete(t) BY <2>4 DEF Fetch, Complete
  <2>5. CASE LoadCompleted(t) \/ CompareCompleted(t) \/ WakeMain(t)
    BY <2>5 DEF LoadCompleted, CompareCompleted, WakeMain
  <2> QED BY <1>1, <2>1, <2>2, <2>3, <2>4, <2>5 DEF TryDoWork
<1>2. ASSUME NEW t \in Threads, PostJob(t) PROVE WorkersAwake'
  <2>1. CASE PostWrite(t) BY <2>1 DEF PostWrite
  <2>2. CASE PostCount(t) BY <2>2 DEF PostCount
  <2>3. CASE PostSignal(t) BY <2>3 DEF PostSignal
  <2>4. CASE PostUnlock(t) BY <2>4 DEF PostUnlock
  <2>5. CASE PostNotify(t) BY <2>5 DEF PostNotify
  <2> QED BY <1>2, <2>1, <2>2, <2>3, <2>4, <2>5 DEF PostJob
<1>3. ASSUME MainThreadWorkUntilDone PROVE WorkersAwake'
  BY <1>3 DEF MainThreadWorkUntilDone, EnterWait, LoadDone, ReturnFromWait, NotDone,
     PredLoadAtJob, PredCompareAtJob, PredLoadDone, PredCompareDone, Block
<1>4. ASSUME NEW w \in Workers, SleepOnSemaphore(w) PROVE WorkersAwake'
  BY <1>4 DEF SleepOnSemaphore
<1>5. CASE UNCHANGED vars BY <1>5 DEF vars
<1> QED BY <1>1, <1>2, <1>3, <1>4, <1>5 DEF Next, MainStep, WorkerStep

\* A claimable job never waits for workers that are all asleep with nothing
\* left to wake them (Threading.cpp:65-67, 79-81).
THEOREM NoWorkIsSleptOn == Spec => []WorkersAwake
<1>1. Init => AtOld /\ WorkersAwake
  BY QueueAssumption, InitialPlaces DEF Init, AtOld, WorkersAwake, Threads
<1> QED BY <1>1, NextKeepsAtOld, NextKeepsWorkersAwake, InductiveInvariant, PTL DEF Spec

-----------------------------------------------------------------------------
(* Refinement of JobPool *)

\* Steps that neither post, start nor finish a job nor cross the barrier.
LEMMA PoolStutter ==
    ASSUME UNCHANGED <<JobCount, runs, finished>>,
           (pc'[Main] # "stage" /\ ~(pc'[Main] \in InPost /\ job'[Main] = NoJob))
           <=> (pc[Main] # "stage" /\ ~(pc[Main] \in InPost /\ job[Main] = NoJob))
    PROVE  UNCHANGED Pool!poolVars
BY DEF Pool!poolVars, InPost

\* The jobs up to the one a thread is about to start that are not started yet
\* are held by threads at "fetch", a thread holding one.
LEMMA StartsInOrder ==
    ASSUME IInv, NEW t \in Threads, pc[t] = "fetch"
    PROVE  Cardinality({j \in 0 .. at[t] : runs[j] = 0}) <= Cardinality(Threads)
<1> DEFINE f == [u \in Threads |-> at[u]]
           Held == {at[u] : u \in Threads}
           Unstarted == {j \in 0 .. at[t] : runs[j] = 0}
<1>1. IsFiniteSet(Threads)
  BY QueueAssumption, FS_Union, FS_Singleton DEF Threads
<1>2. f \in Surjection(Threads, Held)
  BY DEF Surjection
<1>3. IsFiniteSet(Held) /\ Cardinality(Held) <= Cardinality(Threads)
  BY <1>1, <1>2, FS_Surjection
<1>4. Unstarted \subseteq Held
  <2> SUFFICES ASSUME NEW j \in 0 .. at[t], runs[j] = 0 PROVE j \in Held
    OBVIOUS
  <2>1. at[t] \in Tickets /\ at[t] < AtJob
    BY FetchReadsOwnJob
  <2>2. j \in Tickets /\ j < AtJob
    BY <2>1, QueueAssumption DEF Tickets, IInv, TypeOK
  <2>3. \E u \in Threads : pc[u] = "fetch" /\ at[u] = j
    BY <2>2 DEF IInv, Started
  <2> QED BY <2>3
<1>5. Cardinality(Unstarted) <= Cardinality(Held)
  BY <1>3, <1>4, FS_Subset
<1>6. /\ Cardinality(Unstarted) \in Nat
      /\ Cardinality(Held) \in Nat
      /\ Cardinality(Threads) \in Nat
  BY <1>1, <1>3, <1>4, FS_Subset, FS_CardinalityType
<1> HIDE DEF Unstarted, Held
<1>7. Cardinality(Unstarted) <= Cardinality(Threads)
  BY <1>3, <1>5, <1>6
<1> QED BY <1>7 DEF Unstarted

\* The pool's instance of Cardinality is Cardinality.
LEMMA SameCardinality == \A S : Pool!Cardinality(S) = Cardinality(S)
  BY DEF Pool!Cardinality, Cardinality

LEMMA NextImplementsPool == IInv /\ IInv' /\ [Next]_vars => [Pool!PoolNext]_(Pool!poolVars)
<1> SUFFICES ASSUME IInv, IInv', [Next]_vars PROVE [Pool!PoolNext]_(Pool!poolVars)
  OBVIOUS
<1>0. ASSUME NEW t \in Threads, pc[t] = "fetch"
      PROVE  at[t] \in Tickets /\ at[t] < AtJob /\ Jobs[SlotOf(at[t])] = at[t]
  BY <1>0, FetchReadsOwnJob
<1> USE QueueAssumption DEF IInv, TypeOK, Threads, Goto, NotifyAll, AfterWork,
        AfterNoWork, counters, history, MainPcs
<1>1. ASSUME NEW t \in Threads, TryDoWork(t) PROVE [Pool!PoolNext]_(Pool!poolVars)
  <2>1. CASE Fetch(t)
    <3>1. at[t] \in Tickets /\ at[t] < JobCount /\ Jobs[SlotOf(at[t])] = at[t]
      BY <2>1, <1>0 DEF Fetch, Window, Tickets
    <3>2. runs[at[t]] = 0 BY <2>1, <3>1 DEF Started, Fetch
    <3>3. job[t] = NoJob BY <2>1 DEF Fetch, JobHeld, InPost
    <3>4. Cardinality({j \in 0 .. at[t] : runs[j] = 0}) <= Cardinality(Threads)
      BY <2>1, StartsInOrder DEF Fetch
    <3>5. Pool!Start(at[t])
      BY <2>1, <3>1, <3>2, <3>3, <3>4, SameCardinality DEF Fetch, Pool!Start
    <3> QED BY <3>1, <3>5 DEF Pool!PoolNext, Pool!Tickets, Tickets
  <2>2. CASE Complete(t)
    <3>1. job[t] # NoJob /\ job[t] = at[t] /\ at[t] \in Tickets /\ Holds(t) /\ at[t] < AtJob
      BY <2>2 DEF Complete, JobHeld, Holds, Ownership, ClaimedOnce
    <3>2. runs[at[t]] = 1
      BY <2>2, <3>1 DEF Started, Ownership, ClaimedOnce, Holds, Complete
    <3>3. at[t] \notin finished BY <3>1 DEF Done
    <3>4. Pool!Finish(at[t])
      BY <2>2, <3>1, <3>2, <3>3 DEF Complete, Pool!Finish, Pool!Running, Pool!Tickets, Tickets
    <3> QED BY <3>1, <3>4 DEF Pool!PoolNext, Pool!Tickets, Tickets
  <2>3. CASE LoadAtJob(t) \/ FindNoWork(t) \/ FindWork(t) \/ Claim(t) \/ ClaimFails(t)
    BY <2>3, PoolStutter DEF LoadAtJob, FindNoWork, FindWork, Claim, ClaimFails, InPost
  <2>4. CASE LoadCompleted(t) \/ CompareCompleted(t) \/ WakeMain(t)
    BY <2>4, PoolStutter DEF LoadCompleted, CompareCompleted, WakeMain, InPost
  <2> QED BY <1>1, <2>1, <2>2, <2>3, <2>4 DEF TryDoWork
<1>2. ASSUME NEW t \in Threads, PostJob(t) PROVE [Pool!PoolNext]_(Pool!poolVars)
  <2>1. CASE PostCount(t)
    <3>1. JobCount < JobLimit BY <2>1 DEF PostCount, Ring
    <3>2. job[t] # NoJob => job[t] \in Pool!Running
      <4> SUFFICES ASSUME job[t] # NoJob PROVE job[t] \in Pool!Running
        OBVIOUS
      <4>1. job[t] = at[t] /\ at[t] \in Tickets /\ Holds(t) /\ at[t] < AtJob
        BY DEF Holds, Ownership, ClaimedOnce
      <4>2. runs[at[t]] = 1
        BY <2>1, <4>1 DEF Started, Ownership, ClaimedOnce, Holds, PostCount
      <4>3. at[t] \notin finished BY <4>1 DEF Done
      <4> QED BY <4>1, <4>2, <4>3 DEF Pool!Running, Pool!Tickets, Tickets
    <3>3. job[t] = NoJob => t = Main BY <2>1 DEF PostCount, JobHeld, InPost
    <3>4. Pool!Post BY <2>1, <3>1, <3>2, <3>3 DEF PostCount, Pool!Post
    <3> QED BY <3>4 DEF Pool!PoolNext
  <2>2. CASE PostWrite(t)
    BY <2>2, PoolStutter DEF PostWrite, InPost, JobHeld
  <2>3. CASE PostSignal(t) \/ PostUnlock(t)
    BY <2>3, PoolStutter DEF PostSignal, PostUnlock, InPost
  <2>4. CASE PostNotify(t)
    BY <2>4, PoolStutter DEF PostNotify, InPost, JobHeld
  <2> QED BY <1>2, <2>1, <2>2, <2>3, <2>4 DEF PostJob
<1>3. ASSUME MainThreadWorkUntilDone PROVE [Pool!PoolNext]_(Pool!poolVars)
  <2>1. CASE EnterWait
    <3>1. Pool!StartWait BY <2>1 DEF EnterWait, Pool!StartWait
    <3> QED BY <3>1 DEF Pool!PoolNext
  <2>2. CASE ReturnFromWait
    <3>1. finished = 0 .. JobCount - 1 BY <2>2, BarrierLemma
    <3>2. Pool!EndWait BY <2>2, <3>1 DEF ReturnFromWait, Pool!EndWait
    <3> QED BY <3>2 DEF Pool!PoolNext
  <2>3. CASE LoadDone \/ NotDone \/ PredLoadAtJob \/ PredCompareAtJob
    BY <2>3, PoolStutter DEF LoadDone, NotDone, PredLoadAtJob, PredCompareAtJob, InPost
  <2>4. CASE PredLoadDone \/ PredCompareDone \/ Block
    BY <2>4, PoolStutter DEF PredLoadDone, PredCompareDone, Block, InPost
  <2> QED BY <1>3, <2>1, <2>2, <2>3, <2>4 DEF MainThreadWorkUntilDone
<1>4. ASSUME NEW w \in Workers, SleepOnSemaphore(w) PROVE [Pool!PoolNext]_(Pool!poolVars)
  BY <1>4, PoolStutter DEF SleepOnSemaphore
<1>5. CASE UNCHANGED vars
  BY <1>5, PoolStutter DEF vars
<1> QED BY <1>1, <1>2, <1>3, <1>4, <1>5 DEF Next, MainStep, WorkerStep

\* The queue implements the job pool: every posted job is started and finished
\* exactly once, in the order of posting but for one job per thread, jobs are
\* posted only by running jobs or by the main thread
\* outside the wait, and the wait ends with nothing left to do.
THEOREM QueueRefinesPool == Spec => ImplementsJobPool
<1>1. Init => Pool!PoolInit
  BY QueueAssumption, InitialPlaces DEF Init, Pool!PoolInit, Threads, Tickets, Pool!Tickets
<1> QED BY <1>1, NextImplementsPool, InductiveInvariant, PTL DEF Spec, ImplementsJobPool, Pool!PoolSpec
=============================================================================
