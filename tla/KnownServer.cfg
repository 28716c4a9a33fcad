SPECIFICATION DaemonSpec
CONSTANTS
  Thresholds = {0, 1, 2, 3, 5, 8, 13}
  Ifaces = {"a", "b"}
  PinChoices <- MCPins
  DownDebounce = 2
  Addrs = {"a", "b", "c"}
  Literals = {}
  Hosted = {"a"}
  Internal = {"c"}
  Sockets <- MCSockets
  Grace = 1
  Names = {"p", "q"}
  Servers = {"a", "b"}
  MaxPerEntry = 1
  TTL = 1
  Providers <- MCProviders
  Codes = {"IR", "US"}
  Ips = {"i", "j"}
  Replies <- MCReplies
  V6Answers <- MCV6
  V6Interval = 2
  V6Rearm = 1
  PublishBuffer = 2
  MaxSnapshots = 6
  Daemons = {"d1", "d2"}
INVARIANT LiveSocketIsEvidence
