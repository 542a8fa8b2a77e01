SPECIFICATION FairSpec
CONSTANTS
    p1 = p1
    p2 = p2
    p3 = p3
    p4 = p4
    p5 = p5
    None = None
    Pid = {p1, p2, p3}
    Group <- Group3
    JoinCt <- Ct3
    Faults = {"crash", "timeout", "early_exit"}
CHECK_DEADLOCK FALSE
PROPERTIES OneContainerPerGroup EveryPeerSettles
