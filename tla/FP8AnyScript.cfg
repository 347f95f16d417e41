\* Any script: every policy allowed.
CONSTANTS
  Modules = {a}
  HistoryLen = 2
  MostRecent = FALSE
  Fused = TRUE
  Overflow = {}
  MaxIter = 2
  MaxInFlight = 2
  MaxDepth = 2
  MaxRegionOps = 3
  Reentrant = {TRUE, FALSE}
  Enabled = {TRUE, FALSE}
  FP8Only = {}
  HighOnly = {}
  EnableInDisabled = TRUE
  InnerAutocast = TRUE
  LifoBackward = TRUE
  SkipBackward = TRUE
  NoModule = NoModule
  NoTensor = NoTensor
SPECIFICATION Spec
INVARIANTS
  ContextsRestored
\* The script model may open a callable where no call is possible.
CHECK_DEADLOCK FALSE
