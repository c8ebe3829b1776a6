SPECIFICATION Spec
CONSTANTS
  MaxMints = 2
  MaxActs = 2
  MaxFaults = 0
INVARIANT OneServerName
CHECK_DEADLOCK FALSE
