SPECIFICATION Spec
CONSTANTS
  File = {"f", "g"}
  Touches <- MCTouches
  Before <- MCBefore
  Releases = {1, 2}
  JobId = {1, 2}
  MaxFaults = 2
  Slot = {"a", "b"}
  MaxImage = 2
  Bad = {1}
  AutoArm = TRUE
  Careful = TRUE
  Sample = {"a", "b"}
  Drainer = {"daemon", "operator"}
  BatchSize = 2
  MaxSubmits = 3
  MaxDeaths = 1
  Users = {"alice", "bob", "carol"}
  Timeout = 2
  MaxBack = 3
  HwTimeout = 16
  Interval = 4
  StrikesToBite = 3
  Grace = 6
  Latency = 1
  MaxStarts = 2
  Thread = {"t", "u"}
  MaxSets = 3
  MaxLosses = 1
  Items = {v1, v2}
  Torn = torn
  Slots = 4
  Radix = 16
  Modulus = 16
 
PROPERTIES InstallIsChecked PatchRecovers  NoTheft NotLockedOut WatchdogBites DiskCatchesUp IsQueue
CHECK_DEADLOCK FALSE
