SPECIFICATION Spec
CONSTANTS
  Subjects = {s1}
  Unbound = unbound
  Requests = {r1, r2}
  EnvPolicy = "open"
  MaxAccounts = 2
  MaxFaults = 0
INVARIANTS AdminRemains
CHECK_DEADLOCK FALSE
