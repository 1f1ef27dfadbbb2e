SPECIFICATION ExchangeSpec
CONSTANTS
    Letters <- MCLetters
    Keywords <- MCKeywords
    ErrorLimit = 4
    ReportLimit = 4
    FilesFound <- MCFilesFound
    ReservedIDs <- MCReserved
    Config <- MCConfig
    Sources <- MCSources
    ShortText = 8
INVARIANTS
    LexedAsWritten
    ParsedAsWritten
    NothingIsLost
    ComesToAnEnd
    CopySharesNoNode
    TakenBackAsGiven
