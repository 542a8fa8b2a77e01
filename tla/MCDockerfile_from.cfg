SPECIFICATION Spec
CONSTANTS
  Odd = "from"
  Files <- MCFiles
  BuildArgs <- MCBuildArgs
  HostEnvs <- MCHostEnvs
  BaseEnv <- MCBaseEnv
  ARGS_MAGIC = {"USER"}
  ARG_DEFAULTS <- MCDefaults
  Uses <- MCUses
  MaxBuilds = 2
  None = None
CHECK_DEADLOCK FALSE
INVARIANT CacheTransparent
