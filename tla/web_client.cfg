SPECIFICATION WebSpec
CONSTANTS
  Tabs = {t1, t2}
  NoUser = nobody
  Names = {n1, n2, n3}
  NoName = unnamed
  Runs = {r1, r2, r3}
  NoRun = norun
  Texts = {x1, x2}
  NoText = notext
  MaxTokens = 2
  MaxTroubles = 2
  MaxServed = 2
  MaxSetups = 3
  MaxFaults = 1
  MaxFailures = 3
SYMMETRY Symmetry
INVARIANTS OwnAccount StoredTokenWorks NoOrphanMachine RecoveryWorks KeyOrRemoved PanelIsRight
PROPERTIES IdentityKept DeviceKept
CHECK_DEADLOCK FALSE
