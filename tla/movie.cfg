SPECIFICATION Spec
CONSTANTS
  RING = 4
  Period = 2
  Packets = {3}
  MaxQueued = 20
  NUM_VFRAMES = 2
  APACKET = 3
  VDUR = 2
  PREFILL = 2
  MaxUnits = 3
  Files <- AllFiles
  MaxTick = 4
  MaxSessions = 2
INVARIANTS TypeOK FramesInOrder SessionOutlivesDecoder SoundRingHoldsUnplayed SoundDeviceHandedBack
PROPERTIES NaturalEndIsTheEnd ClockNeverGoesBack
