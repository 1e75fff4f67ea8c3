SPECIFICATION Spec
CONSTANTS
    Messages <- MCMessages
    Replacements <- MCReplacements
    Files <- MCFiles
    Alias <- MCAlias
    CounterParty = "EXORG"
    TrailPrice = 9
    Error = Error
    None = None
INVARIANTS
    TypeOK
    ConvertedFaithfully
    TypeReported
    FlagsAndPegReported
    LimitReported
    SideAndSymbolReported
CHECK_DEADLOCK FALSE
