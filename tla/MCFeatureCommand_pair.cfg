SPECIFICATION Spec
CONSTANTS
  Sessions = {s1, s2}
  Timeout = 1
  Amounts = {1}
  OtherAmounts = {1}
  SlowFunding = TRUE
  CrashPoints <- Anywhere
  MaxBlock = 3
  MaxNotes = 2
SYMMETRY SessionSymmetry
INVARIANTS PendingIsOnChain SuccessIsReal
CHECK_DEADLOCK FALSE
