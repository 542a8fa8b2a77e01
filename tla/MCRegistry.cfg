SPECIFICATION Spec
CONSTANTS
  LayerCount = 1
  Histories <- MCHistories
  Policies <- MCPolicies
  MaxCommands = 3
  MaxFaults = 2
CHECK_DEADLOCK FALSE
INVARIANTS ManifestComplete HistoryMatches FailsForAReason
PROPERTY CommandsEnd
