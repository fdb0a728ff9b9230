SPECIFICATION FairSpec
CONSTANTS
  Threads = {t1, t2, t3}
  Jobs = {j1, j2, j3, j4}
  NoJob = NoJob
  Loops = {j1, j2, j3}
INVARIANTS TypeOK JobTakenOnce NoIdleWorker NoSleeperLeft
PROPERTIES AllStart DestructorReturns
CHECK_DEADLOCK FALSE
