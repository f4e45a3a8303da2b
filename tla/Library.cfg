SPECIFICATION LibrarySpec
CONSTANTS
  left = left
  right = right
  object1 = object1
  object2 = object2
  None = None
  FILE = FILE
  Fd <- MCFd
  Handle <- MCHandle
  Object <- MCObject
  PageSize = 32
  MaxBytes = 2
  MaxAddresses = 2
  RmemMax = 1
  Content <- MCContent
  MaxLink = 3
INVARIANTS
  NothingLeaks
  ConnectsRight
  ReceivesAreRight
  TransfersAreWhole
PROPERTY
  EveryCallReturns
