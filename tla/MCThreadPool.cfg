SPECIFICATION Spec
CONSTANTS
  Threads = {t1, t2, t3}
  Jobs = {j1, j2, j3}
  Main = main
  NoThread = NoThread
  NoJob = NoJob
  MayDestroy = TRUE
CHECK_DEADLOCK FALSE
INVARIANTS
  TypeOK
  HeadExists
  CounterMatchesList
  NothingLostOrReordered
  OneOwner
  NoLostWakeup
  NoSleeperAfterBroadcast
PROPERTIES
  NothingTakenAfterShutdown
  EveryJobProcessed
  DestroyReturns
  ThreadsLeave
  ImplementsJobPool
