SPECIFICATION Spec
CONSTANTS
  Names <- MCNames
  Contexts <- MCContexts
  Images <- MCImages
  Instrs <- MCInstrs
  Workdir <- MCWorkdir
  HostFiles <- MCHostFiles
INVARIANT CopyIsMerge
