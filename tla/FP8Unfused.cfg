\* The unfused update, every module in FP8: backwards in any order, dropped
\* microbatches, autocasts in the callables.
CONSTANTS
  Modules = {a, b}
  HistoryLen = 2
  MostRecent = TRUE
  Fused = FALSE
  Overflow = {2}
  MaxIter = 2
  MaxInFlight = 2
  MaxDepth = 1
  MaxRegionOps = 2
  Reentrant = {TRUE, FALSE}
  Enabled = {TRUE, FALSE}
  FP8Only = {a, b}
  HighOnly = {}
  EnableInDisabled = TRUE
  InnerAutocast = TRUE
  LifoBackward = TRUE
  SkipBackward = TRUE
  NoModule = NoModule
  NoTensor = NoTensor
SPECIFICATION Spec
PROPERTY ImplementsWindow
\* The script model may open a callable where no call is possible.
CHECK_DEADLOCK FALSE
