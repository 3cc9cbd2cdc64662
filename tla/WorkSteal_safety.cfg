SPECIFICATION ExitingSpec
CONSTANTS
  NumVPs = 3
  MaxThreads = 3
  CreateInRun = TRUE
  Parking = TRUE
INVARIANTS TypeOK ReadyOnce OneProcessor ContextSaved StopsWhenDone
PROPERTY RunReturns
