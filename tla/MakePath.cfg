SPECIFICATION Spec
CONSTANTS
  a = a
  b = b
  c = c
  d = d
  NoProc = NoProc
  Proc <- MCProc
  LogProc <- MCLogProc
  Overlong <- MCOverlong
  Depth = 3
  target <- MCTarget
INVARIANTS
  TypeOK
  AnswersUnlessRaced
  SomeoneSucceeds
PROPERTIES
  AllReturn
