SPECIFICATION Spec
CONSTANTS
  ParamFields = {"unset", "set", "junk"}
  DefaultFields = {"unset", "set", "junk"}
INVARIANT OkMeansDelivered
CHECK_DEADLOCK FALSE
