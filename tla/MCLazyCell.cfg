SPECIFICATION LazySpec
CONSTANTS
  Threads = {t1, t2, t3, t4}
  Values = {v1}
  Uninit = Uninit
  Torn = Torn
INVARIANTS
  SharedIsWritten
  FunRunsOnce
PROPERTY
  EndsUnlessPoisoned
