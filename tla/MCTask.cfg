SPECIFICATION TaskSpec
CONSTANTS
  t1 = t1
  t2 = t2
  t3 = t3
  Tasks <- MCTasks
  FirstTask = t1
  IdleTask = idle
  NoTask = none
  TASK_TIME_SLICE_DEFAULT = 2
  OS_TICK_MS = 2
  UINT32 = 8
  SleepMs <- MCSleepMs
INVARIANTS TaskTypeOK NoTaskLost RunnerIsHead StateMatchesLists
PROPERTIES NoOvertaking WakesOnTime ReadyRuns SleeperWakes
