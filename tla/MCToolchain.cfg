SPECIFICATION FairSpec
CONSTANTS
  Requests <- Kinds
  MaxId = 3
  Traps = TRUE
INVARIANTS OneBuild BuildsAreReal
PROPERTIES CallsSpec EveryCallEnds
CHECK_DEADLOCK FALSE
