SPECIFICATION Spec
CONSTANTS
  NULL = NULL
  RequestFiles <- MCRequestFiles
  CAFiles <- MCCAFiles
  Subjects <- MCSubjects
  ConfFiles <- MCConfFiles
  Faults = {"entropy", "fopen", "fwrite", "fclose", "undefined"}
  MaxBits = 8192
  MaxCommands = 2
  Block = 2
  Chunk = 4
  EncFaults = {"entropy", "fopen", "fread", "fwrite"}
  Lengths = {0, 1, 2, 3, 4, 5, 8}
  Values = {1, 2, 3}
  Kinds = {"config", "subject", "tools", "override", "dhparam", "crl", "enc"}
INVARIANTS ConfigCorrect SubjectRoundTrip GeneratedAsAsked RequestDone CertificateExtensions DhparamDone CrlDone
           RoundTrip PrefixOnly CipherFormat
CHECK_DEADLOCK FALSE
