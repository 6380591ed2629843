SPECIFICATION Spec
CONSTANTS
  Boot <- KernelMain
  NoTask = 0
INVARIANTS
  NotTooEarly
CHECK_DEADLOCK FALSE
