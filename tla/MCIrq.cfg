SPECIFICATION IrqSpec
CONSTANTS
  t1 = t1
  t2 = t2
  Tasks <- MCTasks
  FirstTask = t1
  Idle = idle
  Boot = bootcode
  Sites <- MCSites
INVARIANTS FlagsKept NeverInterrupted ContextKept
PROPERTIES TickDelivered
CHECK_DEADLOCK FALSE
