CONSTANTS
  a1 = a1
  a2 = a2
  f1 = f1
  f2 = f2
  fb = fb
  fx = fx
  Actors = {a1, a2}
  Frames = {f1, f2, fb, fx}
  UsableFrames = {f1, f2}
  BootFrames = {fb}
  MAX_REF_COUNT = 4
  RefBound = 3
SPECIFICATION Spec
INVARIANTS
  CountExact
  HandleTyped
  BootFramesStayKernel
  NeverPanics
PROPERTIES
  PromiseKept
