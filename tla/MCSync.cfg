CONSTANTS
  Goroutines = {g1, g2, g3}
  Spawned = {}
  Timers = {}
  Mutexes = {"mu", "mu2"}
  Values = {}
  Nil = Nil
  Conds = {"cond"}
  MutexOf <- MCMutexOf
  WaitGroups = {"wg"}
  Deltas <- MCDeltas
  MaxCount = 2
SPECIFICATION MCSpec
SYMMETRY Symmetry
INVARIANTS
  SyncTypeOK
  NoIdleLock
  OnePlace
  NobodyWaitsAtZero
PROPERTIES
  ReturnsWithTheLock
CHECK_DEADLOCK FALSE
