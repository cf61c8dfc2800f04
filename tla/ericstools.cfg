SPECIFICATION Spec
CONSTANTS
  NULL = NULL
  MapKeys = {1, 2, 3, 4, 5, 6, 7, 8, 9, 10, 11, 12}
  FewKeys = {1, 2, 3, 4, 5}
  MapValues = {v1, v2}
  ListNodes = {1, 2, 3, 4}
  QueueNodes = {1, 2, 3}
  MaxIndex = 5
  Priorities = {1, 2, 3}
  Ids = {1, 2, 3}
  Chars = {" ", "=", "a"}
  MaxLen = 4
  Limits <- MCLimits
  Olds <- MCOlds
  News <- MCNews
  Hash <- MCHash
INVARIANTS MapOrdered MapBalanced QueuePointers SplitCorrect TrimCorrect ReplaceFits
PROPERTIES MapImplementsDictionary ListImplementsDeque QueueImplementsStable
CHECK_DEADLOCK FALSE
