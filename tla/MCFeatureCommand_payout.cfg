SPECIFICATION Spec
CONSTANTS
  Sessions = {s1}
  Timeout = 2
  Amounts = {1}
  OtherAmounts = {}
  SlowFunding = FALSE
  CrashPoints = {}
  MaxBlock = 6
  MaxNotes = 2
INVARIANTS MissingPayoutIsMissing
CHECK_DEADLOCK FALSE
