SPECIFICATION FlowSpec
CONSTANTS
    Programs <- AllBodies
    Ongoing <- MCOngoing
    Leaving <- MCLeaving
    Tests <- NullTests
    Reads <- NullReads
    Stores <- NullStores
    MaxEvents = 6
INVARIANTS
    BlocksWellFormed
    RunsAsWritten
    FactsAreThoseOfPaths
    ReadsAreGuarded

