SPECIFICATION FairSpec
CONSTANTS
    Workers = {w1}
    Main = main
    NoPath = "none"
    NoModule = "-"
    Internal = "internal"
    Base = "base"
    Dirs <- ProjectDirs
    Names <- ProjectNames
    Paths <- ProjectPaths
    Modules <- ProjectModules
    Lookups <- ProjectLookups
    DirOf <- ProjectDirOf
    At <- ProjectAt
    CustomText <- ProjectCustom
    Builds <- MCBuilds
    ErrorLimit = 1
    JobLimit = 15
INVARIANTS
    ParsedExactly
    ModulesAreDetermined
    FileImportsResolve
    EveryFileHasIR
    CrashIsReported
PROPERTIES
    PipelineEnds
