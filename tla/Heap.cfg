SPECIFICATION MemorySpec
CONSTANTS
  Holders = {h1, h2, h3, h4}
  Nothing = Nothing
  Requests <- SmallRequests
  KHEAP_START = 2
  KHEAP_BYTES = 8
  KHEAP_SIZE = 6
  WORD = 1
  Space <- ThreeSpaces
  Kernel = 0
  TABLE_ENTRIES = 4
  PHYS_TASKS_SPACE_START = 4
  PHYS_TASKS_SPACE_END = 9
  INT_BITS = 4
  KERNEL_EXTENDED_PAGES = 2
  Bars = {1}
  PAGE_SIZE = 2
  Images <- SmallImages
SYMMETRY HolderSymmetry
INVARIANTS
  MemoryTypeOK
  Tiles
  Coalesced
  Backed
  NoLeak
  LiveDisjoint
  FaultsOnlyWhenFragmented
  PagesOwned
  ProgramIntact
  CopyIsBound
PROPERTIES
  KeepsPromise
CHECK_DEADLOCK FALSE
