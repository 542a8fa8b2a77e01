SPECIFICATION Spec
CONSTANTS
  LayerCount = 1
  Histories <- MCHistories
  Policies <- MCPolicies
  MaxCommands = 1
  MaxFaults = 0
CHECK_DEADLOCK FALSE
INVARIANT CredentialsRemembered
