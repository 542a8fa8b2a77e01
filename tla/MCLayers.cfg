SPECIFICATION Spec
CONSTANTS
  RootWhiteouts = FALSE
  Hash <- MCHash
  Tar <- MCTar
  GitNames = {".git", ".gitignore"}
  MaxLayers = 3
  Lasts = {2, 9}
INVARIANTS FlattenIsApply LastLayerIsPartial
