SPECIFICATION Spec
CONSTANTS
  Programs <- MCPrograms
  Compiled <- MCCompiled
  RecursionLimit = 4
  TryMax = 8
  ArgMax = 3
  GenMax = 2
  DepthMax = 12
INVARIANTS CompilesStructured OutputAsReference StackAsVerified SavedAsVerified
PROPERTIES Terminates ImplementsActivation
CHECK_DEADLOCK FALSE
