SPECIFICATION Spec
CONSTANTS
  Listened <- MCListened
  Names <- MCNames
  MaxMsgs = 3
  MayFail = {"error", "malloc", "spawn", "write"}
  Hasty = {1}
  LongKeys = {2}
  Execs <- MCExecs
  JunkArgs = {2}
  MaxArgs = 5
INVARIANTS
  TypeOK
  WakeupPending
  PayloadAlive
  FaultHasCause
  RunsBlockOfItsTopic
  HeldUntilWritten
PROPERTIES
  EveryMessageTaken
  InputIsClosed
CHECK_DEADLOCK FALSE
