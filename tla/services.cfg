SPECIFICATION ServicesSpec
CONSTANTS
  Threads = {t1}
  Readers = {w1}
  Refs = {r1, r2, r3}
  NoRef = NoRef
  MAX_LOCALS = 2
  MAX_FRAMES = 2
  MaxDepth = 2
  FrameUsers = {t1}
  MaxGlobals = 1
  Habits = {}
  Archive <- SmallArchive
  Loose <- LooseFiles
  Files = {"menu"}
  Sounds = {"bell"}
  AssetPaths <- Asked
  Languages = {"ja", "xx"}
  Known = {"ja", "en"}
  EN = "en"
  AssetSize = 1
SYMMETRY Symmetry
INVARIANTS ServicesTypeOK RegistrySound GlobalsSurvive LocalsSurvive NothingLeaks FirstCandidateServed OwnLanguageFirst
CHECK_DEADLOCK FALSE
