SPECIFICATION Spec
CONSTANTS
    Messages <- MCImmediate
    Replacements <- MCReplacements
    Files <- MCFiles
    Alias <- MCAlias
    CounterParty = "EXORG"
    TrailPrice = 9
    Error = Error
    None = None
INVARIANT ImmediateReported
CHECK_DEADLOCK FALSE
