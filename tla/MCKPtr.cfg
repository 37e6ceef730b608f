CONSTANTS
  a1 = a1
  f1 = f1
  f2 = f2
  fb = fb
  Actors = {a1}
  Frames = {f1, f2, fb}
  UsableFrames = {f1, f2}
  BootFrames = {fb}
  MAX_REF_COUNT = 3
  RefBound = 4
SPECIFICATION KSpec
\* The kernel stops when it panics.
CHECK_DEADLOCK FALSE
INVARIANT
  PointsToLive
PROPERTY
  NoLiveOverwrite
