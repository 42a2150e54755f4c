SPECIFICATION MCSpec
CONSTANTS
  Accounts = {owner, other}
  Owner = owner
  NoAccount = NoAccount
  MaxClicks = 6
  MaxSwitches = 2
INVARIANTS TypeOK OneRequestPerKind RequestsAreSafe NotInvokedMeansNoRequest OpenRequestIsShown EvidenceMatchesRequest
PROPERTIES PreviewsEnd
CHECK_DEADLOCK FALSE
