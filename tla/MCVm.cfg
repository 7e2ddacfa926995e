SPECIFICATION VmSpec
CONSTANTS
  a = a
  b = b
  Tasks <- MCTasks
  FirstTask = a
  PageNr = 24
  PDE_CNT = 4
  MEM_PAGE_SIZE = 30
  ImagePages = 2
  StackPages = 2
  Words <- Stored
  Written <- MCWritten
  Files <- AnyFile
  Incrs <- MCIncrs
  HeapLimit = 240
INVARIANTS  HeapMapped
PROPERTIES ImplementsSpaces
CHECK_DEADLOCK FALSE
