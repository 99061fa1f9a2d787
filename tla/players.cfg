SPECIFICATION Spec
CONSTANTS
  b1 = b1
  b2 = b2
  Threads = {t1, t2}
  Players = {p1, p2}
  Buffers = {b1}
  BufFrames <- ShortFrames
  BQ_SLOTS = 2
  MAX_PLAYERS = 1
  Period = 1
  Audio = Audio
  Nobody = Nobody
  NoPlayer = NoPlayer
  NoBuffer = NoBuffer
  EngineClears = TRUE
  LifecycleUnderMutex = FALSE
SYMMETRY Symmetry
INVARIANTS TypeOK AudioTouchesOnlyLivePlayers RegistrySound
PROPERTIES SilentOnlyWhenFull
