SPECIFICATION Spec
CONSTANTS
  Statements <- MCSampleStatements
  Scripts <- MCProducerSample
  MaxLines = 20
  MaxDepth = 3
  Capacity = 8
  JunkFields = {"key_param", "default_key"}
INVARIANT SampleAccepted
CHECK_DEADLOCK FALSE
