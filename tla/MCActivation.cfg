SPECIFICATION Spec
CONSTANTS
  Gens = {g1, g2}
  NoGen = NoGen
  RecursionLimit = 3
  TryMax = 1
  StackMax = 3
  Capacity = 1
  ArgMax = 1
  RefMax = 2
SYMMETRY Symmetry
INVARIANTS TypeOK RunningIffActive SlicesNested KeptWithinSaved
PROPERTY DoneForever
