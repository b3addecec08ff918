SPECIFICATION ProgramSpec
CONSTANTS
  Statements <- MCProgramStatements
  Scripts <- MCScripts
  MaxLines = 6
  MaxDepth = 3
  Capacity = 2
  JunkFields = {"key_param"}
  Argvs <- MCArgvs
  Times = {1, 2}
  MaxRun = 1
INVARIANTS
  ProgramTypeOK
  HandlersExclusive
  SubblocksShareContext
  CompletedIsFinal
  OnlyAcceptedStarts
  StaleOnlyIfMoved
  ReusedOnlyIfOverlap
PROPERTY
  EndsByItself
CHECK_DEADLOCK FALSE
