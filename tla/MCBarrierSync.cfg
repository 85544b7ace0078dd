SPECIFICATION MCSpec
CONSTANTS
  Cores = {1, 2, 3}
  Quantum = 1
  HostCounts = {1}
  Steps = {1}
  Timeouts = {1}
  Callers = {2}
  Spawners = {1}
  Lead = 1
INVARIANTS GlobalTimeIsPast RestartedBeforeNextBarrier OnlyWaitersInList
PROPERTY TimedWaitsEnd
\* Threads exit and the simulation ends.
CHECK_DEADLOCK FALSE
