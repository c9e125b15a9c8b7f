SPECIFICATION Spec
CONSTANTS
  MaxBound = 12
  MaxFree = 16
  MaxDecisions = 3
  Programs <- MCPrograms
INVARIANTS
  EvaluatesAsWritten
  OperandsAsVerified
CHECK_DEADLOCK FALSE
