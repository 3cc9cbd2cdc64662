SPECIFICATION SyncSpec
CONSTANTS
  MaxThreads = 2
  MaxNest = 2
  Priorities <- TwoPriorities
  Policies <- AllPolicies
  Mutexes = {m1}
  Sems = {s1}
  SemInit <- OneUnit
  MaxUnits = 2
INVARIANTS TypeOK ReadyListed ParkedSound UserRuns CurrentKept
INVARIANTS WaitListed MutualExclusion LockHeld SemConserved SemNoIdleUnit
PROPERTIES FollowsLifeCycle BestDispatched
