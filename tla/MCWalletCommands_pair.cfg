SPECIFICATION MCSpec
CONSTANTS
  Sessions = {s1, s2}
  Caps = {"default", "other"}
  Forces = {FALSE, TRUE}
  MaxRuns = 2
  MaxTxs = 6
  MaxFaucets = 2
  MaxFaults = 1
INVARIANTS TypeOK ConfiguredFaucetUsable RecordsAreReal OneFaucetOnFile
CHECK_DEADLOCK FALSE
PROPERTIES FaucetGetsDeployed PayoutGetsConsumed
