SPECIFICATION Spec
CONSTANTS
    RegisterBytes = 8
    ByteBits = 2
    BoundsChecks = TRUE
    VarType <- MCVarType
    FnType <- MCFnType
    VarRegister <- MCVarRegister
    Bodies <- MCBodies
    Inputs <- MCInputs
    Address <- MCAddress
INVARIANTS
    AcceptedIsWellTyped
    InterpretedAsCompiled
    ComputesAsWritten
