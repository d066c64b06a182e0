CONSTANTS
  Goroutines = {g1, g2}
  Spawned = {g2}
  Timers = {"tm"}
  Mutexes = {}
  Values = {"v"}
  Channels = {"c1"}
  Capacity <- MCCapacity
  Contexts = {}
  Nil = Nil
  MaxParks = 2
  MaxBorn = 1
  MaxCases = 2
SPECIFICATION MCSpec
INVARIANTS
  CommTypeOK
  FiresOnce
  NoMissedSignal
  TokensInPlace
CHECK_DEADLOCK FALSE
