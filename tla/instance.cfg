SPECIFICATION InstanceSpec
CONSTANTS
  Subjects = {s1, s2}
  Unbound = unbound
  Requests = {r1, r2}
  EnvPolicy = "open"
  MaxAccounts = 3
  MaxFaults = 1
  MaxChanges = 1
  MaxTroubles = 1
SYMMETRY Symmetry
INVARIANTS HonestInstanceConforms WalksThrough
PROPERTIES AdminsGranted AdmittedByPolicy
CHECK_DEADLOCK FALSE
