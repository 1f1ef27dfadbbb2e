SPECIFICATION Spec
CONSTANTS
    Targets <- MCTargets
    Functions <- MCFunctions
    Extras <- MCExtras
    DataTypes <- MCDataTypes
    TypeSize <- MCTypeSize
    MemberOffset <- MCMemberOffset
INVARIANTS
    CallFitsFunction
    ArgumentsArrive
    ResultArrives
