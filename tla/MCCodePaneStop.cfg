SPECIFICATION Spec
CONSTANTS
  Codes <- FewCodes
  Scaffolds <- OnePublished
  Behaves <- FewBehaves
  Formatted <- FewFormatted
  None = None
  MaxPanes = 2
  MaxJobs = 1
  MaxEdits = 1
  MaxFaults = 0
INVARIANTS StopReaches
CHECK_DEADLOCK FALSE
