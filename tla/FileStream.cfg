SPECIFICATION FileSpec
CONSTANTS
  inode1 = inode1
  inode2 = inode2
  inode3 = inode3
  None = None
  Dir = Dir
  NoPath = NoPath
  Paths <- MCPaths
  Files <- MCFiles
  MaxHops = 3
  Trees <- MCTrees
  Sharp <- MCSharp
  MaxRenames = 1
  New = inode3
  ObjectPaths <- MCObjectPaths
  Bare <- MCBare
  Words <- MCWords
  Signs = {}
  Destinations <- MCDestinations
  EnvPaths <- MCEnvPaths
  EnvNodes <- MCEnvNodes
  Old = "old"
  Word = "word"
INVARIANTS
  OpensOnlyNamed
  StreamFollowsPath
  MovedIsComplete
CHECK_DEADLOCK FALSE
