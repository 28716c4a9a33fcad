SPECIFICATION UpSpec
CONSTANTS
  Latest = 3
  Broken = {2}
INVARIANT KnownGoodIsKept
CHECK_DEADLOCK FALSE
