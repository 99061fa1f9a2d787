SPECIFICATION FairSpec
CONSTANTS
  b1 = b1
  b2 = b2
  Threads = {t1}
  Players = {p1}
  Buffers = {b1, b2}
  BufFrames <- MixedFrames
  BQ_SLOTS = 3
  MAX_PLAYERS = 1
  Period = 2
  Audio = Audio
  Nobody = Nobody
  NoPlayer = NoPlayer
  NoBuffer = NoBuffer
  EngineClears = FALSE
  LifecycleUnderMutex = FALSE
PROPERTIES Implements CallbackReturns LifecycleReturns QueueAdvances
