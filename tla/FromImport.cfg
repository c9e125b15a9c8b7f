SPECIFICATION Spec
CONSTANTS
  MaxBound = 12
  MaxFree = 16
  MaxDecisions = 2
  Programs <- FromPrograms
INVARIANTS
  EvaluatesAsWritten
CHECK_DEADLOCK FALSE
