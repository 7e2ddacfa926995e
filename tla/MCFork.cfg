SPECIFICATION ForkSpec
CONSTANTS
  p1 = p1
  p2 = p2
  Parents <- OneParent
  TASK_NR = 3
  GDT_FREE = 3
  PageNr = 7
INVARIANTS ResourcesOwned NoDirectoryErased 
CHECK_DEADLOCK FALSE
