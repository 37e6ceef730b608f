CONSTANTS
  a1 = a1
  a2 = a2
  f1 = f1
  f2 = f2
  fb = fb
  fx = fx
  Actors = {a1, a2}
  Frames = {f1, fb}
  UsableFrames = {f1}
  BootFrames = {fb}
  MAX_REF_COUNT = 3
  RefBound = 3
SPECIFICATION Spec
INVARIANT
  HandleTyped
