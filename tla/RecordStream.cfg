SPECIFICATION Spec
CONSTANTS
  MaxRecordLen = 4
  Records <- MCRecords
  MaxSent = 3
  Uninit = Uninit
INVARIANTS
  TypeOK
  Aligned
  ResultsAreRight
PROPERTIES
  TooBigIsFinal
  AllDelivered
  ChannelSpec
