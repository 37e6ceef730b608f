SPECIFICATION Spec
CONSTANTS
  Threads = {t1, t2, t3}
  Values = {v1, v2}
  Uninit = Uninit
  Torn = Torn
INVARIANTS
  SharedIsWritten
  ResultsHold
PROPERTY
  Immutable
