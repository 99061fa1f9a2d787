SPECIFICATION Spec
CONSTANTS
  Threads = {t1}
  Refs = {r1, r2, r3}
  NoRef = NoRef
  MAX_LOCALS = 3
  MAX_FRAMES = 2
  MaxDepth = 2
  FrameUsers = {t1}
  MaxGlobals = 1
  Habits = {"return"}
SYMMETRY Symmetry
INVARIANTS GlobalsSurvive
