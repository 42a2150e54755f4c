SPECIFICATION Spec
CONSTANTS
  Sessions = {s1}
  Timeout = 2
  Amounts = {1}
  OtherAmounts = {}
  SlowFunding = TRUE
  CrashPoints = {}
  MaxBlock = 4
  MaxNotes = 2
INVARIANTS OneOpenNotePerKind
CHECK_DEADLOCK FALSE
