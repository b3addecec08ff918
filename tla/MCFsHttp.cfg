SPECIFICATION Spec
CONSTANTS
  c1 = c1
  c2 = c2
  Conns = {c1, c2}
  NRoutes = 2
  Kafka = {1}
  MaxMsgs = 2
  Eager = {c1}
  Splitting = {c2}
INVARIANTS
  Inv
  TypeOK
  FaultOnlyIfProvoked
  AnsweredOnce
  ValuesReleased
  PublishesOwnBody
PROPERTIES
  AnsweredIsClosed
  EndedIsClosed
CHECK_DEADLOCK FALSE
