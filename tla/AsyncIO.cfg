SPECIFICATION IoSpec
CONSTANTS
  MaxThreads = 2
  MaxNest = 2
  Priorities <- OnePriority
  Policies <- RoundRobin
  Fd = {f}
  MaxUnits = 1
INVARIANT RunningUnlessNested
PROPERTIES FailsOnlyCrossed ReadyRuns WaiterWoken ReturnsUnlessNested
