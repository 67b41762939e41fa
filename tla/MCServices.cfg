SPECIFICATION Spec
SYMMETRY Symmetry
CONSTANTS
  Users = {alice, bob}
  Values = {0, 1}
  FirstValue = 0
  Timeout = 1
  HistoryMax = 2
  MaxVersion = 3
  MaxEdits = 2
  Account = {"a", "b"}
  Handler = {1, 2}
  TokenLife = 2
  Overlap = 2
  Rotators = 2
  MaxKey = 4
  MaxNow = 4
  Port = {"p1"}
  Vrf = {"v"}
  Main = "main"
  MaxFaults = 2
  Peer = {"x"}
  PoolIp = {"i"}
  HttpThread = {"h", "k"}
  MaxLogins = 2
  MaxCrashes = 1
  Endpoints = {0, 1}
  Wild = any
  Policies <- MCPolicies
  Malformed = malformed
  Hash <- MCHash
  FlowSlots = 2
  Commands <- MCCommands
  CmdMax = 1
  EvtMax = 1
  Handle = {"h", "g"}
  Flow = {"t"}
  Tcp = {"t"}
  MaxBirths = 2
  Worker = {"w"}
  ArenaSize = 3
  MaxFrames = 3
INVARIANTS TokensFollowKeys  SessionsAreSound CacheIsSound 
PROPERTIES CommitIsExact  LeasesAreExact
