SPECIFICATION ChannelSpec
CONSTANTS
  MaxThreads = 2
  MaxNest = 2
  Priorities <- OnePriority
  Policies <- RoundRobin
  mutex = mutex
  space = space
  messages = messages
  Mutexes <- OneMutex
  Sems <- TwoSems
  SemInit <- ChannelUnits
  MaxUnits = 2
  Capacity = 2
  Message = {1, 2}
  NoMessage = 0
INVARIANT SlotsAccounted
PROPERTY FifoImplemented
