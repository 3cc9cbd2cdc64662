SPECIFICATION FairSpec
CONSTANTS
  MaxThreads = 1
  MaxNest = 2
  Priorities <- OnePriority
  Policies <- RoundRobin
PROPERTY DueReturns
