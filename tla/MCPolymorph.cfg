SPECIFICATION Spec
CONSTANTS
    Programs <- MCPrograms
    MaxFrames = 5
INVARIANTS
    InstancesMeanTheirCalls
    StructsAreSubstituted
CHECK_DEADLOCK FALSE
