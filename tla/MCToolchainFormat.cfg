SPECIFICATION Spec
CONSTANTS
  Requests <- Kinds
  MaxId = 2
  Traps = FALSE
INVARIANTS AnswersAreReal
CHECK_DEADLOCK FALSE
