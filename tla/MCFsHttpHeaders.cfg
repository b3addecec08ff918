SPECIFICATION Spec
CONSTANTS
  MaxHeaders = 2
  Lengths = {0, 1, 2}
  MaxSize = 3
INVARIANTS
  TypeOK
  HeadersAsSent
  OverrunOnlyIfSplit
CHECK_DEADLOCK FALSE
