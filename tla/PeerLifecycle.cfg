\* Two sessions, or one and its successor, sharing the lock and Service.listen.
CONSTANTS
    Session = {s1, s2}
    Peer = {p1, p2}
    NoSession = NoSession
    NoPeer = NoPeer
    Main = Main
    Free = Free
SPECIFICATION FairSpec
\* After Stop, or a panic, nothing is left to do.
CHECK_DEADLOCK FALSE
INVARIANTS
    TypeOK
    LoggedOnHasPeer
    NoDoubleClose
    CloseWaitsForListen
    ReporterIsHeard
    UntrackedPeerHasCause
    PanicNeedsOpenWebsocket
PROPERTIES
    RemovedPeerIsClosed
    ReportCompletes
    CloseStallsOnlyOnService
