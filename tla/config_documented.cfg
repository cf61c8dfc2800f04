SPECIFICATION ConfigSpec
CONSTANTS
  NULL = NULL
  RequestFiles <- NoFiles
  CAFiles <- AllDifferences
INVARIANT ConfigAsDocumented
CHECK_DEADLOCK FALSE
