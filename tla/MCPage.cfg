SPECIFICATION PageSpec
CONSTANTS
  Exercises = {"twoDoors", "oneDoor", "noDoor"}
  Doors <- MCDoors
  Today <- MCToday
  Home = Home
  None = None
  MaxFails = 1
  MaxClicks = 2
  Pages = {P, Q}
  MaxThemeNews = 3
  Catalogue = {"A", "B"}
  Recommended = {"A"}
  MaxShellNews = 4
  Whole = 7
  Low = 2
  High = 5
  Step = 1
  Fallback = 3
  MaxRenders = 3
  Tests = {T1}
  Named = {T1}
  Lazy = TRUE
  NL = NL
  MaxLines = 2
  MaxPiece = 2
  MaxMarks = 3
  MaxRuns = 2
INVARIANTS SiteInv ThemeInv ConsoleInv
PROPERTIES PageSettles SplitterKeeps ShellKeeps
CHECK_DEADLOCK FALSE
