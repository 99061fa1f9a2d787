SPECIFICATION ServicesSpec
CONSTANTS
  Threads = {t1, t2}
  Readers = {}
  Refs = {r1, r2, r3}
  NoRef = NoRef
  MAX_LOCALS = 2
  MAX_FRAMES = 1
  MaxDepth = 0
  FrameUsers = {}
  MaxGlobals = 1
  Habits = {}
  Archive <- SmallArchive
  Loose <- LooseFiles
  Files = {"menu"}
  Sounds = {"bell"}
  AssetPaths <- Asked
  Languages = {"ja"}
  Known = {"ja", "en"}
  EN = "en"
  AssetSize = 1
SYMMETRY Symmetry
INVARIANTS RegistrySound
CHECK_DEADLOCK FALSE
