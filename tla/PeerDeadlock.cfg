CONSTANTS
    Session = {s1}
    Peer = {p1, p2}
    NoSession = NoSession
    NoPeer = NoPeer
    Main = Main
    Free = Free
SPECIFICATION FairSpec
CHECK_DEADLOCK FALSE
PROPERTY RemovePeerReturns
