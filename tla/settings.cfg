SPECIFICATION Spec
CONSTANTS
  PageWords = 4
  RelrBits = 2
  Table = {"malloc"}
  Programs <- AllPrograms
  HeapSizes = {60}
  MemoryCap = 28
  SizeRange = 256
  ConfigFiles <- AllFiles
  Boots <- FileBoots
  NoFile = NoFile
  FailingOpens = {"config.txt"}
  EntryPoints = {"render", "resume"}
  Points = {p1}
  Origin = Origin
  Buttons = {"Up"}
  KeyBit <- OneBit
  Rates = {20}
  SaveSize = 1
  Zeros = 1
INVARIANT SettingsKept
CHECK_DEADLOCK FALSE
