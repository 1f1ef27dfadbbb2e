------------------------------ MODULE JobPool ------------------------------
(***************************************************************************)
(* What the work queue of Threading.cpp promises the compiler pipeline.    *)
(* Jobs are named by the order in which they are posted.  A posted job is  *)
(* started once and finished once, jobs are posted either by the main      *)
(* thread while it stages work or by a job that is still running, and the  *)
(* main thread gets through MainThreadWorkUntilDone only when every posted *)
(* job has finished.  Threads, the ring and the counters are not visible   *)
(* here.                                                                   *)
(***************************************************************************)
EXTENDS Naturals, FiniteSets

CONSTANTS
    Width,                 \* how many threads start jobs
    JobLimit               \* bound on the number of jobs ever posted

VARIABLES
    posted,                \* number of jobs posted so far
    runs,                  \* how many times each job was started
    finished,              \* the jobs whose task has returned
    waiting                \* the main thread is inside MainThreadWorkUntilDone

poolVars == <<posted, runs, finished, waiting>>

Tickets == 0 .. JobLimit - 1

PoolInit ==
    /\ posted = 0
    /\ runs = [k \in Tickets |-> 0]
    /\ finished = {}
    /\ waiting = FALSE

Running == {k \in Tickets : runs[k] = 1 /\ k \notin finished}

Post ==
    /\ posted < JobLimit
    /\ waiting => Running # {}
    /\ posted' = posted + 1
    /\ UNCHANGED <<runs, finished, waiting>>

\* Jobs start in the order in which they were posted, but for one job that
\* each thread may have claimed and not started yet.
Start(k) ==
    /\ k < posted
    /\ runs[k] = 0
    /\ Cardinality({j \in 0 .. k : runs[j] = 0}) <= Width
    /\ runs' = [runs EXCEPT ![k] = 1]
    /\ UNCHANGED <<posted, finished, waiting>>

Finish(k) ==
    /\ k \in Running
    /\ finished' = finished \cup {k}
    /\ UNCHANGED <<posted, runs, waiting>>

StartWait ==
    /\ ~waiting
    /\ waiting' = TRUE
    /\ UNCHANGED <<posted, runs, finished>>

EndWait ==
    /\ waiting
    /\ finished = 0 .. posted - 1
    /\ waiting' = FALSE
    /\ UNCHANGED <<posted, runs, finished>>

PoolNext ==
    \/ Post
    \/ \E k \in Tickets : Start(k) \/ Finish(k)
    \/ StartWait
    \/ EndWait

PoolSpec == PoolInit /\ [][PoolNext]_poolVars
=============================================================================
