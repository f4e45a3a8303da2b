SPECIFICATION Spec
CONSTANTS
  data = data
  new = new
  None = None
  Dir = Dir
  NoPath = NoPath
  Paths <- MCPaths
  Files <- MCFiles
  MaxHops = 4
  Trees <- MCTrees
  Sharp <- MCSharp
  MaxRenames = 2
  New = new
  ObjectPaths <- MCObjectPaths
  Bare <- MCBare
  Words <- MCWords
  Signs <- MCSigns
  Destinations <- MCDestinations
  EnvPaths <- MCEnvPaths
  EnvNodes <- MCEnvNodes
INVARIANTS
  TypeOK
  RemoveHitsOnlyNamed
  CreateIsRight
  MoveAndCopyKeepData
  LinksAreRight
CHECK_DEADLOCK FALSE
