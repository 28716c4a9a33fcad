SPECIFICATION Spec
CONSTANTS
  Configs <- OneConfig
  Thresholds = {2}
  Clients = {"socket"}
  Outsiders = {}
  Faults = {}
  WindowRestricted = FALSE
  ProviderAddrs = {"live"}
  Rotation = FALSE
PROPERTY OnlyAReadingOfItsKind
