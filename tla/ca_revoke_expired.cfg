SPECIFICATION Spec
CONSTANTS
  Century = 10
  ExpiryPivot = 7
  StampPivot = 5
  Procs = {p1}
  Names = {"CN=alice", "CN=ali", "CN", "unknown"}
  Subjects = {"CN=alice", "CN=ali"}
  Beginnings <- NameBeginnings
  Unknown = "unknown"
  Lifetimes = {0, 4}
  Presented = {1, 2}
  FirstSerial = 1
  InitAttr = {"yes", "no"}
  CrlCapacity = 2
  Solo = TRUE
  MaxRuns = 2
  MaxFaults = 0
  MaxClock = 1
  NoFile = NoFile
  NoDate = NoDate
  NoSerial = NoSerial
  Horizon = 6

PROPERTIES RevokedIsMarkedR
CHECK_DEADLOCK FALSE
