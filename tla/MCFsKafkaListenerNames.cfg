SPECIFICATION Spec
CONSTANTS
  Listened <- MCNumbered
  Names <- MCNumberedNames
  MaxMsgs = 2
  MayFail = {}
  Hasty = {}
  LongKeys = {}
  Execs <- MCNumberedExecs
  JunkArgs = {}
  MaxArgs = 64
INVARIANT RunsBlockOfItsTopic
CHECK_DEADLOCK FALSE
