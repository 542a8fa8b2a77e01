SPECIFICATION Spec
CONSTANTS
  Proc = {p1, p2}
  Src = {"a"}
  Dst = {"x", "y"}
  Manifest = {"m1", "m2"}
  BlobsOf <- MCBlobsOf
  Listing <- MCListing
  ArchFor <- MCArchApart
  None = None
  ResetAlone = FALSE
  MaxCommands = 2
  MaxKills = 0
  LastLayer = {}
  PullsPerCommand = 1
  MaxUpdates = 0
CHECK_DEADLOCK FALSE
INVARIANT Exclusive
