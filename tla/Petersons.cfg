SPECIFICATION DemoSpec
CONSTANTS
  MaxThreads = 2
  MaxNest = 1
  Priorities <- OnePriority
  Policies <- RoundRobin
  Iterations = 3
INVARIANTS WorkersExclude CountsAll BoundedWaiting
PROPERTY Reports
