SPECIFICATION CSpec
CHECK_DEADLOCK FALSE
CONSTANTS
  COUNT = 3
  Nodes = {0, 1, 2, 3, 4}
  Root = 0
  NoNode = NoNode
  MaxId = 26
  CapIds = {0, 1, 2, 4}
  MAX_REF_COUNT = 7
  PAGE_SIZE = 2
  Regions = {2, 6, 7, 8, 10}
  Boots <- MCBoots
INVARIANTS
  FindsTheWalk
  IdsAreUnambiguous
  SlotZeroOfChildren
  PointersTyped
  
  EveryPointerCounted
PROPERTIES
  ErrorsChangeNothing
  OnlyConnectivity
