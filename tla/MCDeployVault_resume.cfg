SPECIFICATION FairSpec
CONSTANTS
  Timeout = 10
  StartsFunded = FALSE
  Strangers = TRUE
  Configured = {"asked", "other_faucet", "other"}
  Nameable = {"named", "other"}
  FaultPoints <- Anywhere
  MaxFaults = 3
INVARIANTS TypeOK NamedBeforeSpent RecordedIsFrozen ActivationAfterCleanup
PROPERTIES DeploymentCompletes RecordedWithItsPolicy VerifiedStaysVerified
CHECK_DEADLOCK FALSE
