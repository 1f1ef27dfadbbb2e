SPECIFICATION FlowSpec
CONSTANTS
    Programs <- DefaultFirst
    Ongoing <- MCOngoing
    Leaving <- MCLeaving
    Tests <- NullTests
    Reads <- NullReads
    Stores <- NullStores
    MaxEvents = 6
INVARIANT
    NullStateKnown
