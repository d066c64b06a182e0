SPECIFICATION ReplaySpec
CONSTANTS
  Slow = 4
  BatchVia = 7
  BatchMove = 5
  BatchState = 3
  Eps = 1
  Runs <- ThreeRuns
  None = None
  Advances = {3, 4}
  Jump = 5
  Autoplay = TRUE
  MaxNew = 2
  Goroutines = {m, w}
  Main = m
  Size = 2
  Tests = {A, B}
  Judged = {A}
  MaxSteps = 2
  MaxMade = 3
  MaxTime = 1
  Questions <- Everything
INVARIANTS TimelineRight PlayerInv RecordingInv EndingInv
PROPERTIES PlaybackEnds
CHECK_DEADLOCK FALSE
