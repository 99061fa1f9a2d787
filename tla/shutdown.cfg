SPECIFICATION Spec
CONSTANTS
  RING = 4
  Period = 2
  Packets = {1, 3, 5}
  MaxQueued = 8
INVARIANTS MixLocksLiveMutex
CHECK_DEADLOCK FALSE
