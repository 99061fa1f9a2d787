SPECIFICATION FairSpec
CONSTANTS
  RING = 2
  Period = 1
  Packets = {2}
  MaxQueued = 20
  NUM_VFRAMES = 1
  APACKET = 2
  VDUR = 1
  PREFILL = 1
  MaxUnits = 4
  Files <- LongFiles
  MaxTick = 3
  MaxSessions = 1
PROPERTIES StopTerminates MovieEnds SoundQueueReturns
