SPECIFICATION ChannelSpec
CONSTANTS
  MaxThreads = 2
  MaxNest = 2
  Priorities <- OnePriority
  Policies <- RoundRobin
  mutex = mutex
  space = space
  messages = messages
  Mutexes <- OneMutex
  Sems <- TwoSems
  SemInit <- ChannelUnits
  MaxUnits = 2
  Capacity = 2
  Message = {1}
  NoMessage = 0
PROPERTIES LockGranted CallsComplete
