SPECIFICATION Spec
CONSTANTS
    Messages <- MCPegged
    Replacements <- MCReplacements
    Files <- MCFiles
    Alias <- MCAlias
    CounterParty = "EXORG"
    TrailPrice = 9
    Error = Error
    None = None
INVARIANT StopLimitReported
CHECK_DEADLOCK FALSE
