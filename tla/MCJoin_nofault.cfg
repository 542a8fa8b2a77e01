SPECIFICATION FairSpec
CONSTANTS
    p1 = p1
    p2 = p2
    p3 = p3
    p4 = p4
    p5 = p5
    None = None
    Pid = {p1, p2, p3, p4, p5}
    Group <- Group32
    JoinCt <- Ct32
    Faults = {}
CHECK_DEADLOCK FALSE
INVARIANTS TypeOK MutualExclusion LosersSeeWinner CountIsExact IPCClean NoErrorExit
PROPERTIES OneContainerPerGroup EveryPeerRuns
