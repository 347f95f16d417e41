\* Models of three and four layers under the default schedule, of one and two under
\* a manual one; a layer saves one tensor twice and one too small to be offloaded.
CONSTANTS
  Configs <- MCConfigs
  Saves <- MCSaves
  Kept = {2}
  Blocks = {1, 2, 3, 4, 5, 6, 7, 8, 9, 10, 11, 12}
  SkipBackward = TRUE
  StopEarly = FALSE
  None = None
SPECIFICATION Spec
INVARIANTS TypeOK Faithful NoRaise PeakMemory NothingKept
PROPERTIES BackwardRuns
CHECK_DEADLOCK FALSE
