\* One autocast per microbatch around the model, checkpoints inside it, FIFO
\* backward as in a 1F1B pipeline.
CONSTANTS
  Modules = {a, b}
  HistoryLen = 3
  MostRecent = FALSE
  Fused = TRUE
  Overflow = {2}
  MaxIter = 3
  MaxInFlight = 2
  MaxDepth = 1
  MaxRegionOps = 2
  Reentrant = {TRUE, FALSE}
  Enabled = {TRUE}
  FP8Only = {a, b}
  HighOnly = {}
  EnableInDisabled = FALSE
  InnerAutocast = FALSE
  LifoBackward = FALSE
  SkipBackward = FALSE
  NoModule = NoModule
  NoTensor = NoTensor
SPECIFICATION Spec
INVARIANTS
  TypeOK
  RecomputeSameScale
  NoRaise
  NothingLeftInStash
  ForwardAmaxesRolled
  GradientAmaxesRolled
  HistoryIsWindow
PROPERTY ImplementsWindow
