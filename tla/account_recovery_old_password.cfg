SPECIFICATION Spec
CONSTANTS
  Requests = {r1, r2}
  CodesPerBatch = 1
  MaxBatches = 1
  MaxLinks = 0
  MaxSessions = 3
INVARIANTS NoSessionByOldPassword
CHECK_DEADLOCK FALSE
