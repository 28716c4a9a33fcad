SPECIFICATION HostSpec
CONSTANTS
  Callers = {"x", "y"}
  Ops = {"block", "pause", "config-write"}
  Gates <- MCGates
  QueueLimit = 1
  HandoffTimeout = 1
  ReplyTimeout = 1
  WriteDeadline = 0
  FileMax = 1
  FileBackups = 2
  MaxRecords = 5
  RuleTexts = {"guard", "fullblock"}
  Nics = {"lo", "utun4", "utun9", "en0"}
  Lo = "lo"
  Classes = {"utun"}
  Members <- MCMembers
  Dests = {"server4", "server6", "provider4", "lan6", "public4"}
  SixDests = {"server6", "lan6"}
  Lan = {"lan6"}
  L4 = {"udp", "tcp", "icmp"}
  Ports = {53, 443, 80}
  Dns = 53
  Procs = {"daemon"}
  Perils = {"apply"}
  Profiles = {"Private", "Public"}
  Latest = 3
  Broken = {2}
  Highest = 2
  DefaultCap = 1
  Batches <- MCBatches
  Resets <- MCResets
  Presets <- MCPresets
  Countries = {"IR", "FR"}
  Offered = {"IR"}
  Recommended = {"IR"}
  Pinnable = {"utun4"}
  Hosts = {"in", "out"}
  Inside <- MCInside
  Files <- MCFiles
  Existing <- MCExisting
INVARIANTS LogPromise RecordPromise UpgradePromise
PROPERTIES
   RulesetsPromise BackendsPromise ConfigPromise
CHECK_DEADLOCK FALSE
