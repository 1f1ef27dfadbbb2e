SPECIFICATION FairSpec
CONSTANTS
    w1 = w1
    w2 = w2
    Workers = {w1, w2}
    Main = main
    NoThread = noThread
    MaxJobs = 2
    SemMax = 2
    PhaseLimit = 2
    JobLimit = 3
INVARIANTS
    ClaimedOnce
    SlotsIntact
    Accounting
    WorkersAwake
PROPERTIES
    BarrierHolds
    ImplementsJobPool
    EveryJobFinishes
    WaitEndsWithoutWorkers
CHECK_DEADLOCK FALSE
