SPECIFICATION Spec
CONSTANTS
  Century = 10
  ExpiryPivot = 7
  StampPivot = 5
  Procs = {p1}
  Names = {"CN=alice", "CN=ali", "CN", "unknown"}
  Subjects = {"CN=alice", "CN=ali"}
  Beginnings <- NameBeginnings
  Unknown = "unknown"
  Lifetimes = {0, 8}
  Presented = {1, 2}
  FirstSerial = 1
  InitAttr = {"yes", "no"}
  CrlCapacity = 2
  Solo = TRUE
  MaxRuns = 1
  MaxFaults = 0
  MaxClock = 1
  NoFile = NoFile
  NoDate = NoDate
  NoSerial = NoSerial
  Horizon = 9

PROPERTIES SignedIsMarkedV
CHECK_DEADLOCK FALSE
