SPECIFICATION DesktopSpec
CONSTANTS
  MaxMints = 2
  MaxActs = 4
  MaxFaults = 1
  Servers = {s1, s2}
  NoServer = none
  Addresses = {a1, a2, a3}
  Requests = {r1, r2}
  Calls = {e1, e2}
  MaxMoves = 1
  MaxOpens = 3
  CodesPerBatch = 1
  MaxBatches = 2
  MaxLinks = 2
  MaxSessions = 2
  Providers = {"github"}
  Emails = {e1, e2}
  NoEmail = noemail
  MaxAccounts = 2
  MaxAttempts = 2
  MaxCodes = 1
  MaxKeys = 2
SYMMETRY Symmetry
INVARIANTS OneNameKept QuitLeavesNothing RememberedOnce SpentOnce OldAccessEnds ProvenOnly RevocationHolds OutageHarmless
CHECK_DEADLOCK FALSE
