SPECIFICATION Spec
CONSTANTS
  Owner = owner
  Users = {owner, alice}
  Requests = {r1, r2}
  MaxCodes = 1
SYMMETRY Symmetry
INVARIANTS BannedStayOut
CHECK_DEADLOCK FALSE
