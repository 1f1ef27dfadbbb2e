\* One worker and the main thread: the wake-up that is lost.
SPECIFICATION Spec
CONSTANTS
    w1 = w1
    w2 = w2
    Workers = {w1}
    Main = main
    NoThread = noThread
    MaxJobs = 2
    SemMax = 2
    PhaseLimit = 1
    JobLimit = 1
INVARIANTS
    MainNotStranded
CHECK_DEADLOCK FALSE
