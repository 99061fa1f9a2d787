CONSTANTS
  Threads = {"main", "a", "b"}
  MainThread = "main"
  Nobody = "nobody"
  Mutexes = {"m", "static"}
  Conds = {"c"}
  RwLocks = {"r"}
  Onces = {"o"}
  StaticRecursive = {"static"}
  MutexOf <- MCMutexOf
  Objects = {40000, 40100, 40200, 40300, 40400}
  Offer <- MCOffer
  Scripts <- MCScripts
  FirstUsesApart = FALSE
SPECIFICATION Spec
CHECK_DEADLOCK FALSE
INVARIANT LocksExclude
