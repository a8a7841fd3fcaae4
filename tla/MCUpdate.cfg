CONSTANTS
  Cases <- AllCases
  Order <- NameOrder
  MaxSessions = 3
  MaxEdits = 1
SPECIFICATION Spec
INVARIANTS UpdatedIsNew OldChunksAreThere EstimateIsLowerBound
CHECK_DEADLOCK FALSE
