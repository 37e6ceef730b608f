SPECIFICATION Spec
CONSTANTS
  Threads = {t1, t2, t3, t4}
  Values = {1, 2, 3, 4}
  Initial = 1
  NoGuard = NoGuard
INVARIANT
  Undisturbed
