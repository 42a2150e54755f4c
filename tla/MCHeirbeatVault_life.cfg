SPECIFICATION Spec
CONSTANTS
  Accounts <- MCAccounts
  Owner = "owner"
  Beneficiary = "heir"
  Timeout = 1
  MaxHeight = 2
  U32Max = 2
  MaxInputs = 3
  Notes <- LifeNotes
  Executors = {x1}
  NoTx = NoTx
INVARIANTS TypeOK SurfaceFrozen
PROPERTIES KeepsContract PolicyNeverChanges ClaimOnlyAfterSilence ChangesAreAuthorised NoForeignAssetLocked
CHECK_DEADLOCK FALSE
