SPECIFICATION Spec
CONSTANTS
  Texts <- MCTexts
  Chars <- MCChars
  Junk = {"x", "{", "$"}
  Captures = 2
  GroupNames <- MCGroupNames
  Requests <- MCRequests
  NameRoom = 3
INVARIANTS
  TypeOK
  CutsHarmOnlyOpenWords
  Expressible
  TokenFaultOnlyIfTorn
  PathAsConfigured
  PathFaultOnlyByVariable
CHECK_DEADLOCK FALSE
