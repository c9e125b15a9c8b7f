SPECIFICATION Spec
CONSTANTS
  Programs <- MCPrograms
  Compiled <- MCCompiled
  RecursionLimit = 4
  TryMax = 8
  ArgMax = 3
  GenMax = 2
  DepthMax = 12
INVARIANTS RunsVerifiedCode SavedFits RunningAsActivation
CHECK_DEADLOCK FALSE
