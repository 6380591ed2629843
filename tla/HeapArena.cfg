SPECIFICATION Spec
CONSTANTS
  Holders = {h1, h2, h3, h4}
  Nothing = Nothing
  Requests <- SmallRequests
  KHEAP_START = 2
  KHEAP_BYTES = 8
  KHEAP_SIZE = 6
  WORD = 1
INVARIANTS
  InArena
CHECK_DEADLOCK FALSE
