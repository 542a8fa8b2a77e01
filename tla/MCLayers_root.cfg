SPECIFICATION Spec
CONSTANTS
  RootWhiteouts = TRUE
  Hash <- MCHash
  Tar <- MCTar
  GitNames = {".git", ".gitignore"}
  MaxLayers = 2
  Lasts = {9}
INVARIANTS
  WhiteoutsRemove
