\* The FP8 backward of two ranks: gradients of the keys stay where they were computed.
CONSTANTS
  CpSize = 2
  CausalMasks = {TRUE, FALSE}
  BatchComm = {FALSE}
  Precisions = {"delayed", "current"}
SPECIFICATION Spec
INVARIANTS FP8KeyGradients
CHECK_DEADLOCK FALSE
