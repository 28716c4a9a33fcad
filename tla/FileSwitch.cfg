SPECIFICATION Spec
CONSTANTS
  Configs <- OneConfig
  Thresholds = {2}
  Clients = {"file", "socket"}
  Outsiders = {}
  Faults = {}
  WindowRestricted = FALSE
  ProviderAddrs = {"live"}
  Rotation = FALSE
INVARIANT ManualBlockHeld
