SPECIFICATION Spec
CONSTANTS
  Texts = {x1}
  NoText = notext
  MaxFaults = 2
INVARIANTS MessageNotLost
CHECK_DEADLOCK FALSE
