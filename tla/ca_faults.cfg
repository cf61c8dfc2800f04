SPECIFICATION Spec
CONSTANTS
  Century = 10
  ExpiryPivot = 7
  StampPivot = 5
  Procs = {p1}
  Names = {"CN=alice", "CN=ali", "CN", "unknown"}
  Subjects = {"CN=alice", "CN=ali"}
  Beginnings <- NameBeginnings
  Unknown = "unknown"
  Lifetimes = {10}
  Presented = {1, 2}
  FirstSerial = 1
  InitAttr = {"no", "other"}
  CrlCapacity = 1
  Solo = TRUE
  MaxRuns = 3
  MaxFaults = 2
  MaxClock = 1
  NoFile = NoFile
  NoDate = NoDate
  NoSerial = NoSerial
  Horizon = 6
INVARIANTS TypeOK SerialsDistinct NoPhantom CrlSound
PROPERTIES BackupKept
CHECK_DEADLOCK FALSE
