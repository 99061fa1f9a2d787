SPECIFICATION Spec
CONSTANTS
  PageWords = 4
  RelrBits = 2
  Table = {"malloc"}
  Programs <- AllPrograms
  HeapSizes = {24, 26, 60}
  MemoryCap = 28
  SizeRange = 256
  ConfigFiles <- AllFiles
  Boots <- AllBoots
  NoFile = NoFile
  FailingOpens = {}
  EntryPoints = {"render", "resume"}
  Points = {p1, p2}
  Origin = Origin
  Buttons = {"Up", "StickUp"}
  KeyBit <- PadBits
  Rates = {20, 200}
  SaveSize = 3
  Zeros = 2
INVARIANTS TypeOK EngineSeesFinishedImage LoaderStaysInItsMemory SettingsKept ViewportFits NoLatchedKeys RateMatchesTarget
PROPERTIES PermissionOnce ReleaseAtLastPress SavesKept
CHECK_DEADLOCK FALSE
