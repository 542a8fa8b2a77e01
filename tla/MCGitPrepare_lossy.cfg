SPECIFICATION Spec
CONSTANTS
    g = g
    e = e
    f = f
    i = i
    r = r
    k = k
    d = d
    u = u
    None = None
    Store = Store
    Path <- Paths
    PreOrder <- Pre
    PostOrder <- Post
    GitName <- GitNames
    DbName <- DbNames
    Images <- AllImages
    NewFile <- NewFiles
    Lossy = {"db_only"}
    KillAt = {"prepare", "quick", "switch", "restore"}
    MaxEdits = 1
    MaxCommits = 2
CHECK_DEADLOCK FALSE
INVARIANTS NeverFatal
