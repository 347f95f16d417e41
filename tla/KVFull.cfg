\* A pool of two pages for batches that may need four: pre_step runs out of
\* pages. The new ids are visited in any order.
CONSTANTS
  Seqs = {a, b, c}
  MaxBatch = 2
  MaxLen = 4
  NumLayers = 1
  ContextLens = {2, 3}
  DecodeLens = {1}
  AnyOrder = TRUE
  MaxSteps = 4
  NoToken = NoToken
  PageSize = 2
  TotalPages = 2
SPECIFICATION Spec
INVARIANTS PagePartition RaisesOnlyWhenFull
SYMMETRY Symmetry
CHECK_DEADLOCK FALSE
