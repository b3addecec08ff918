SPECIFICATION Spec
CONSTANTS
  ParamFields = {"unset", "set", "junk"}
  DefaultFields = {"unset", "set", "junk"}
INVARIANTS
  TypeOK
  TopicByPriority
  HandlesDestroyed
  LeaksOnlyOnFailure
PROPERTIES
  ImplementsRoute
  Terminates
CHECK_DEADLOCK FALSE
