SPECIFICATION FairSpec
CONSTANTS
  Configs <- OneConfig
  Thresholds = {2}
  Clients = {"socket"}
  Outsiders = {"flush"}
  Faults = {"apply"}
  WindowRestricted = FALSE
  ProviderAddrs = {"live"}
  Rotation = FALSE
PROPERTIES AutoWindowEnds RulesRestored StandbyArms BlockLifts
