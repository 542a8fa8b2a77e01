SPECIFICATION Spec
CONSTANTS
  Proc = {p1, p2}
  Src = {"a"}
  Dst = {"x", "y"}
  Manifest = {"m1", "m2"}
  BlobsOf <- MCBlobsOf
  Listing <- MCListing
  ArchFor <- MCArchMixed
  None = None
  ResetAlone = TRUE
  MaxCommands = 2
  MaxKills = 0
  LastLayer = {}
  PullsPerCommand = 1
  MaxUpdates = 1
CHECK_DEADLOCK FALSE
PROPERTY PullsUpToDate
