SPECIFICATION Spec
CONSTANTS
    b = b
    s = s
    i = i
    j = j
    x = x
    y = y
    e = e
    None = None
    Ref = {b, s, i, j}
    Stages <- StagesOfJ
    Dockerfile <- Dockerfiles
    Registry <- Registry2
    PullArgs <- Pulls
    ImportArgs = {i}
    Mode = {"enabled", "rebuild"}
    Outcome = {1, 2}
    Faults = {"fail"}
    MaxCmds = 3
CHECK_DEADLOCK FALSE
INVARIANTS SidIsPath WorktreeOnParent TreeFromSid
PROPERTIES ReadyStaysCached RebuiltStays
