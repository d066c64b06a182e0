SPECIFICATION ProgSpec
CONSTANTS
  N = 3
  Cpus = 4
  Runs = 2
  None = None
  Chars = {"x", "y"}
  OutputLimit = 2
  MaxPrints = 3
  Position = Position
  Bytes = {0, 1}
  MinCap = 2
  MaxLen = 3
  MaxFd = 4
  MaxIno = 3
  Paths <- MCPaths
  FlagSets <- MCFlagSets
INVARIANTS CheckInv
PROPERTIES ProgramsEnd RunKeeps TreeKeeps FileSpec
CHECK_DEADLOCK FALSE
