CONSTANTS
  Configs <- MCConfigs
  Iterations = 2
SPECIFICATION Spec
INVARIANTS TypeOK GradientsExact SentExact InputsMinimal AcceptsAlternating
CHECK_DEADLOCK FALSE
