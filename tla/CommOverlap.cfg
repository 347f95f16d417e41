CONSTANTS
  Configs <- MCConfigs
  CommSms = 2
  Empty = Empty
SPECIFICATION Spec
INVARIANTS TypeOK GatheredExact ReducedExact
PROPERTIES CallsEnd
CHECK_DEADLOCK FALSE
