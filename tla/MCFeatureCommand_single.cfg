SPECIFICATION FairSpec
CONSTANTS
  Sessions = {s1}
  Timeout = 2
  Amounts = {1}
  OtherAmounts = {1}
  SlowFunding = FALSE
  CrashPoints <- OutsideFunding
  MaxBlock = 5
  MaxNotes = 3
INVARIANTS TypeOK OneOpenNotePerKind RecordedPayoutIsReal
PROPERTIES CommandsEnd
CHECK_DEADLOCK FALSE
