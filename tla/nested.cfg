SPECIFICATION Spec
CONSTANTS
  b1 = b1
  b2 = b2
  Threads = {t1}
  Players = {p1, p2}
  Buffers = {b1, b2}
  BufFrames <- MixedFrames
  BQ_SLOTS = 2
  MAX_PLAYERS = 2
  Period = 2
  Audio = Audio
  Nobody = Nobody
  NoPlayer = NoPlayer
  NoBuffer = NoBuffer
  EngineClears = FALSE
  LifecycleUnderMutex = TRUE
INVARIANTS NoCircularWait
