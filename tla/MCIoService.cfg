\* The io service has one thread, and the writer and a reader post to it; the
\* reader service has three.
SPECIFICATION ServicesSpec
CONSTANTS
  Threads = {io}
  Posters = {w, r}
  HasTask = TRUE
  Descriptors = {0, 1}
  MaxPosts = 2
  MaxActs = 2
  PoolThreads = {t1, t2, t3}
  Main = m
INVARIANTS WorkCounted DescriptorsOnce NoWakeupLost
           PoolDrained
PROPERTIES PostRuns PoolPostRuns PoolRunReturns
CHECK_DEADLOCK FALSE
