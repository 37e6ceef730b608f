SPECIFICATION FairSpec
CONSTANTS
  Threads = {t1, t2, t3}
  Words = {0, 1}
  NoWord = NoWord
  Initial <- MCInitial
INVARIANT
  Exclusive
PROPERTIES
  Atomic
  SomebodyProceeds
