SPECIFICATION Spec
CONSTANTS
  SlotCount = 3
  NULL = NULL
  Node = {n1, n2, n3, n4}
  NoNode = NoNode
INVARIANTS
  TypeOK
  LinksAgree
  WalkSafe
  RingAgrees
PROPERTIES
  ImplementsList
  OrderKept
