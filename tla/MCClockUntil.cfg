CONSTANTS
  Goroutines = {"main", "g"}
  Spawned = {}
  Timers = {"tm"}
  Mutexes = {}
  Values = {}
  Channels = {}
  Capacity <- MCCapacity
  Contexts = {"late"}
  Nil = Nil
  MaxCases = 2
  Main = "main"
  Until = 3
  After <- MCAfter
  Deadline <- MCDeadline
  Rank <- MCRank
  Durations <- MCDurations
  Forever <- MCForever
  MaxParks = 1
  MaxBorn = 1
  MaxTime = 4
SPECIFICATION MCSpec
INVARIANTS
  VerdictIsFinal
CHECK_DEADLOCK FALSE
