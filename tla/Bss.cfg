SPECIFICATION ProgSpec
CONSTANTS
  Space <- ThreeSpaces
  Kernel = 0
  TABLE_ENTRIES = 4
  PHYS_TASKS_SPACE_START = 4
  PHYS_TASKS_SPACE_END = 8
  INT_BITS = 4
  KERNEL_EXTENDED_PAGES = 2
  Bars = {}
  PAGE_SIZE = 2
  Images <- SmallImages
INVARIANTS
  BssZeroed
CHECK_DEADLOCK FALSE
