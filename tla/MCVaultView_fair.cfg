SPECIFICATION FairViewSpec
CONSTANTS
  Accounts <- MCAccounts
  Owner = "owner"
  Beneficiary = "heir"
  Timeout = 2
  MaxHeight = 3
  U32Max = 3
  MaxInputs = 1
  Notes <- FairNotes
  Executors = {x1}
  NoTx = NoTx
  NoAccount = NoAccount
  MaxReads = 3
INVARIANTS NothingMissed CountdownSuffices
PROPERTIES EventuallyPaid
CHECK_DEADLOCK FALSE
