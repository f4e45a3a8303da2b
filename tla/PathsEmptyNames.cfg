SPECIFICATION PathsSpec
CONSTANTS
  Name <- MCName
  Empty = ""
  Dot = "."
  DotDot = ".."
  Drive = "C:"
  MaxNames = 4
INVARIANTS
  ResolvedLeadsToSame
CHECK_DEADLOCK FALSE
