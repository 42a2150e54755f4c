SPECIFICATION Spec
CONSTANTS
  Timeout = 10
  StartsFunded = FALSE
  Strangers = FALSE
  Configured = {}
  Nameable = {}
  FaultPoints = {}
  MaxFaults = 0
INVARIANTS RetryDeploys
CHECK_DEADLOCK FALSE
