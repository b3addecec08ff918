SPECIFICATION Spec
CONSTANTS
  Listened <- MCSampleListened
  Names <- MCSampleNames
  MaxMsgs = 2
  MayFail = {"error"}
  Hasty = {}
  LongKeys = {}
  Execs <- MCSampleExecs
  JunkArgs = {}
  MaxArgs = 64
PROPERTY EveryMessageConsumed
CHECK_DEADLOCK FALSE
