SPECIFICATION LoadSpec
CONSTANTS
  MemoryMaps <- MCMemoryMaps
  EntriesPerFrame = 8
  MaxEntries = 3
  Allocators = {loader, kmain}
  MAX_REF_COUNT = 3
  PAGE_SIZE = 2
  RADIX = 5
  LEVELS = 3
  Programs <- MCPrograms
  STACK_PAGES = 2
  UNTYPED_MEMORY_OFFSET = 25
  Loader = loader
  Kmain = kmain
INVARIANTS
  TableMatchesMap
  TableFits
  ReachesItsOwn
  FramesAccounted
  ImageLoaded
  WindowComplete
  KernelHalfMapped
  FailsForAReason
\* The kernel stops when it panics, and the model ends in user space.
CHECK_DEADLOCK FALSE
