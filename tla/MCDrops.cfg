SPECIFICATION DropSpec
CONSTANTS
  Configs <- OnlyAuto
  Thresholds = {2}
  Clients = {"socket"}
  Outsiders = {}
  Faults = {"apply"}
  WindowRestricted = FALSE
  ProviderAddrs = {"live"}
  Rotation = TRUE
PROPERTIES KeepsThePromise OneWindowPerDrop HeldDropStaysCut
