\* Three ranks: rank 1 has a lower and an upper tile, ranks 0 and 2 are both even.
CONSTANTS
  CpSize = 3
  CausalMasks = {TRUE, FALSE}
  BatchComm = {TRUE, FALSE}
  Precisions = {"f16", "delayed", "current"}
SPECIFICATION Spec
INVARIANTS TypeOK AttentionExact QueryGradients KeyGradients
PROPERTIES AllFinish
CHECK_DEADLOCK FALSE
