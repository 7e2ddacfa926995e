SPECIFICATION ForkSpec
CONSTANTS
  p1 = p1
  p2 = p2
  Parents <- TwoParents
  TASK_NR = 2
  GDT_FREE = 2
  PageNr = 6
INVARIANTS PidsDistinct
CHECK_DEADLOCK FALSE
