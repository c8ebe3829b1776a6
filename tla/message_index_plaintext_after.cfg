SPECIFICATION Spec
CONSTANTS
  Users = {mod}
  Locals = {mod}
  Moderators = {mod}
  Admins = {mod}
  Requests = {r1}
  Deliveries = {d1}
  MaxEvents = 2
  MaxFaults = 0
INVARIANTS NoPlaintextAfterEncryption
CHECK_DEADLOCK FALSE
