SPECIFICATION Spec
CONSTANTS
  Configs <- AutoOrPlain
  Thresholds = {1}
  Clients = {"socket", "file"}
  Outsiders = {"panic", "unblock", "block"}
  Faults = {"cleanup", "marker"}
  WindowRestricted = TRUE
  ProviderAddrs = {"none"}
  Rotation = TRUE
INVARIANTS LookupSuspended ZombieNeedsTunnel RefusalAnswered
