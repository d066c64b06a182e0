CONSTANTS
  Goroutines = {g1, g2, g3}
  Spawned = {}
  Timers = {}
  Mutexes = {}
  Values = {"v"}
  Channels = {"c0"}
  Capacity <- MCCapacity
  Contexts = {}
  Nil = Nil
  MaxParks = 3
  MaxBorn = 1
  MaxCases = 2
SPECIFICATION MCSpec
SYMMETRY Symmetry
INVARIANTS
  NoMissedRendezvous
  ReadyExact
  NoLostWakeup
PROPERTIES
  WaitsSpec
CHECK_DEADLOCK FALSE
