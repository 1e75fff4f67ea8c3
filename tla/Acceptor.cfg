CONSTANTS
    MaxSeq = 6
    None = None
SPECIFICATION Spec
INVARIANTS
    TypeOK
    EveryMessageArrives
    StrictlyTracked
    NeverRefused
    HandledOnce
    CountedIsHandled
