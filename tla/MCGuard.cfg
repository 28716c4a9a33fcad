SPECIFICATION Spec
CONSTANTS
  Configs <- OneConfig
  Thresholds = {2}
  Clients = {"socket"}
  Outsiders = {"panic", "flush"}
  Faults = {"apply"}
  WindowRestricted = FALSE
  ProviderAddrs = {"live"}
  Rotation = FALSE
INVARIANTS TypeOK FailClosed ManualBlockHeld
PROPERTIES PanicRespected ManualBlockReleased AutoWindowEarned WindowRevertsHome
