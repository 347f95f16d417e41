\* Three ids over batches of two and pages of two tokens; the pool is the one
\* InferenceParams insists on.
CONSTANTS
  Seqs = {a, b, c}
  MaxBatch = 2
  MaxLen = 4
  NumLayers = 2
  ContextLens = {2, 3}
  DecodeLens = {1}
  AnyOrder = FALSE
  MaxSteps = 4
  NoToken = NoToken
  PageSize = 2
  TotalPages = 4
SPECIFICATION Spec
INVARIANTS TypeOK PagesCoverTokens NeverFull CacheFaithful
SYMMETRY Symmetry
CHECK_DEADLOCK FALSE
