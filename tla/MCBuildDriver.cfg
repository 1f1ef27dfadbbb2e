SPECIFICATION Spec
CONSTANTS
    Targets <- HostThenWasm
    HostOS = "Unix"
    Basic = "int"
    Structs = {"S"}
    MaxTypes = 4
    MaxObjects = 12
INVARIANTS
    TargetTypesAreFound
    IndicesKeepTheirMeaning
    SizesFitTheMachine
