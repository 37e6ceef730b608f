SPECIFICATION Spec
CHECK_DEADLOCK FALSE
CONSTANTS
  A = A
  B = B
  Threads = {A, B}
  First = A
  Caps <- MCCaps
  Operations <- MCOperations
  RawCalls <- MCRawCalls
  COUNT = 3
  ISIZE_LIMIT = 32
  U32_LIMIT = 16
INVARIANTS
  GoesOnAsItLeft
  TakenAsAsked
  AnswerArrives
PROPERTY
  SomebodyGoesOn
