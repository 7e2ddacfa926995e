SPECIFICATION IpcSpec
CONSTANTS
  t1 = t1
  t2 = t2
  t3 = t3
  m1 = m1
  m2 = m2
  s1 = s1
  Tasks <- MCTasks
  FirstTask = t1
  IdleTask = idle
  NoTask = none
  TASK_TIME_SLICE_DEFAULT = 1
  OS_TICK_MS = 2
  UINT32 = 4
  SleepMs <- NoSleep
  Mutexes <- OneMutex
  MaxDepth = 2
  Sems <- OneSem
  MaxCount = 2
  InitCount <- Zero
PROPERTIES LockGranted HolderRuns
