SPECIFICATION Spec
CONSTANTS
  Idle = Idle
  Dq = Dq
  w1 = w1
  r1 = r1
  c1 = c1
  Workers = {w1}
  Readers = {r1}
  SyscallClients = {c1}
  KernelClients = {}
  NoTask = NoTask
  BootRing <- RingBoot
  TASK_QUOTA = 2
  TIME_MOD = 4
  Leftovers <- Unzeroed
  TASK_MSG_BUFF_SIZE = 2
  Blocks = {b1, b2, b3}
  NoBlock = NoBlock
SYMMETRY BlockSymmetry
INVARIANTS
  TypeOK
  CurrentIsRunning
  NoLostWakeup
  CountInRange
  CopyInBounds
  NoZombies
PROPERTIES
  NoSpuriousWake
  
