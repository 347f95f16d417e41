\* Four ids over batches of three, so that rows move over one another, and two
\* layers that reindex from the same batch_indices.
CONSTANTS
  Seqs = {a, b, c, d}
  MaxBatch = 3
  MaxLen = 3
  NumLayers = 2
  ContextLens = {1, 2}
  DecodeLens = {1}
  AnyOrder = FALSE
  MaxSteps = 3
  NoToken = NoToken
SPECIFICATION Spec
INVARIANTS TypeOK CacheFaithful
SYMMETRY Symmetry
CHECK_DEADLOCK FALSE
