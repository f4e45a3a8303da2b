SPECIFICATION Spec
CONSTANTS
  t1 = t1
  t2 = t2
  NoThread = NoThread
  Thread <- MCThread
  StderrLogger = StderrLogger
  StdioLogger = StdioLogger
  DefaultAborter = DefaultAborter
  NoopAborter = NoopAborter
  Crash = Crash
  Does <- MCDoes
  NoTag = NoTag
  ProgName = ProgName
  WrongSpec = WrongSpec
  a = a
  b = b
  Programs <- MCPrograms
INVARIANTS
  TypeOK
  MessagesWhole
PROPERTIES
  FatalIsFinal
  NothingChangesUnderCall
  AllFinish
