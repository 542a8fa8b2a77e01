SPECIFICATION Spec
CONSTANTS
  Proc = {p1, p2}
  Src = {"a"}
  Dst = {"x", "y"}
  Manifest = {"m1", "m2"}
  BlobsOf <- MCBlobsOf
  Listing <- MCListing
  ArchFor <- MCArchApart
  None = None
  ResetAlone = TRUE
  MaxCommands = 3
  MaxKills = 1
  LastLayer = {}
  PullsPerCommand = 1
  MaxUpdates = 1
SYMMETRY Sym
CHECK_DEADLOCK FALSE

PROPERTY CleanupGoesOn
