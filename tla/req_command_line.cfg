SPECIFICATION Spec
CONSTANTS
  NULL = NULL
  RequestFiles <- MCRequestFiles
  CAFiles <- MCCAFiles
  Subjects <- MCSubjects
  ConfFiles <- MCConfFiles
  Faults = {}
  MaxBits = 8192
  MaxCommands = 1
  Block = 2
  Chunk = 4
  EncFaults = {"entropy", "fopen", "fread", "fwrite"}
  Lengths = {0, 1, 2, 3, 4, 5, 8}
  Values = {1, 2, 3}
  Kinds = {"override"}
INVARIANT CommandLineWins
CHECK_DEADLOCK FALSE
