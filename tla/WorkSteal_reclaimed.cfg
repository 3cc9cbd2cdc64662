SPECIFICATION Spec
CONSTANTS
  NumVPs = 2
  MaxThreads = 3
  CreateInRun = TRUE
  Parking = FALSE
INVARIANTS StackKept
