SPECIFICATION WindowSpec
CONSTANTS
  SettingsChoices <- WithOff
  MinGrant = 2
  Uptimes = {0, 1}
  MaxNow = 6
  CapsChoices <- TwoCaps
  Requests = {0, 2, 4}
  DefaultPause = 2
  RevertRetry = 1
INVARIANTS
  WindowTypeOK WithinCap CloseIsDue LedgerFollowsWindow
  PromisedInstantHonoured RemainingIsHonest RelaxationIsBounded
PROPERTY DeadlineOnlyExtends
CHECK_DEADLOCK FALSE
