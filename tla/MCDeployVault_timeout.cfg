SPECIFICATION Spec
CONSTANTS
  Timeout = 5
  StartsFunded = TRUE
  Strangers = FALSE
  Configured = {}
  Nameable = {}
  FaultPoints = {}
  MaxFaults = 0
INVARIANTS ChangedMeansChanged
CHECK_DEADLOCK FALSE
