SPECIFICATION FairSpec
CONSTANTS
  Codes <- AllCodes
  Scaffolds <- Published
  Behaves <- CodeBehaves
  Formatted <- CodeFormatted
  None = None
  MaxPanes = 2
  MaxJobs = 1
  MaxEdits = 1
  MaxFaults = 1
INVARIANTS PaneInv VerdictFitsCode
PROPERTIES FormatKeepsEdits PaneSettles
CHECK_DEADLOCK FALSE
