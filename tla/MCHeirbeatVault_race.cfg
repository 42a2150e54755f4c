SPECIFICATION Spec
CONSTANTS
  Accounts <- MCAccounts
  Owner = "owner"
  Beneficiary = "heir"
  Timeout = 1
  MaxHeight = 3
  U32Max = 3
  MaxInputs = 1
  Notes <- RaceNotes
  Executors = {x1, x2}
  NoTx = NoTx
INVARIANTS PayoutOnce CustodyConserved
PROPERTIES ClaimedIsTerminal HeartbeatNeverRewinds
CHECK_DEADLOCK FALSE
