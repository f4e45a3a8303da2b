SPECIFICATION PathsSpec
CONSTANTS
  Name <- MCName
  Empty = ""
  Dot = "."
  DotDot = ".."
  Drive = "C:"
  MaxNames = 4
INVARIANTS
  DetailsAreRight
  ResolvesRight
CHECK_DEADLOCK FALSE
