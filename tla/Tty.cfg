SPECIFICATION FilesSpec
CONSTANTS
  Readers = {r1}
  VGA_COLS = 3
  VGA_ROWS = 2
  UINT16 = 65536
  MAX_DRIFT = 1
  Writers = {w1, w2}
  Requests = {1, 4}
  Name <- Names
  Image <- SmallImage
  Root = 10
  Dev = 12
  BootDevices <- TwoBoot
  LateDevices <- OneLate
  Paths <- TestPaths
  MAX_PARTS = 3
  Task = {t1}
  MAX_OPEN = 2
  MAX_POS = 1
INVARIANTS
  FilesTypeOK
  ReadInBounds
  ResolvesAsTree
  DescriptorsSound
  CursorOnScreen
  StoresOnScreen
PROPERTIES
  ReadOnce
  LineRead
