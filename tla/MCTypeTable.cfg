SPECIFICATION Spec
CONSTANTS
    Main = main
    Workers = {w1}
    Basic <- OneBasic
    Structs = {"S"}
    Generics = {"T"}
    MaxTypes = 4
INVARIANTS
    OneEntryPerName
    CachedPointerIsRight
    GivenWhatItAskedFor
CHECK_DEADLOCK FALSE
