CONSTANTS
  Configs <- MultiBlock
  CommSms = 2
  Empty = Empty
SPECIFICATION Spec
INVARIANTS GatheredExact
CHECK_DEADLOCK FALSE
