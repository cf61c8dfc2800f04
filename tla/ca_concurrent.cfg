SPECIFICATION Spec
CONSTANTS
  Century = 10
  ExpiryPivot = 7
  StampPivot = 5
  Procs = {p1, p2, p3}
  Names = {"CN=alice", "CN", "unknown"}
  Subjects = {"CN=alice"}
  Beginnings <- NameBeginnings
  Unknown = "unknown"
  Lifetimes = {0}
  Presented = {1}
  FirstSerial = 1
  InitAttr = {"no"}
  CrlCapacity = 1
  Solo = FALSE
  MaxRuns = 3
  MaxFaults = 0
  MaxClock = 0
  NoFile = NoFile
  NoDate = NoDate
  NoSerial = NoSerial
  Horizon = 6
INVARIANTS OneRewriter NoPhantom CrlSound

SYMMETRY ProcSymmetry
CHECK_DEADLOCK FALSE
