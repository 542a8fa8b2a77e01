SPECIFICATION Spec
CONSTANTS
    b = b
    s = s
    i = i
    j = j
    x = x
    y = y
    e = e
    None = None
    Ref = {b, s, i, j}
    Stages <- StagesOfJ
    Dockerfile <- Dockerfiles
    Registry <- Registry1
    PullArgs <- PullB
    ImportArgs = {}
    Mode = {"enabled"}
    Outcome = {1}
    Faults = {"fail"}
    MaxCmds = 3
CHECK_DEADLOCK FALSE
INVARIANTS EnvFromSid
