CONSTANTS
  Goroutines = {"main", "g"}
  Spawned = {}
  Timers = {"tm"}
  Mutexes = {}
  Values = {}
  Channels = {}
  Capacity <- MCCapacity
  Contexts = {"ctx"}
  Nil = Nil
  MaxCases = 2
  Main = "main"
  Until = Nil
  After <- MCAfter
  Deadline <- MCDeadline
  Rank <- MCRank
  Durations <- MCDurations
  Forever <- MCForever
  MaxParks = 1
  MaxBorn = 1
  MaxTime = 4
SPECIFICATION MCSpec
INVARIANTS
  ClockInv
  VerdictIsFinal
PROPERTIES
  OnTime
CHECK_DEADLOCK FALSE
