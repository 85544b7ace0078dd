SPECIFICATION FairSpec
CONSTANTS
  Threads = {t1, t2, t3}
  Main = t1
  Mutexes = {m1}
  Conds = {c1}
  Futexes = {f1, f2}
  Count = 2
  None = none
INVARIANTS StatusKnown InOnePlace HoldersOwn JoinNotStranded
PROPERTY TimedWaitsReturn
\* Threads end, and an application may deadlock.
CHECK_DEADLOCK FALSE
