SPECIFICATION LoaderSpec
CONSTANTS
  a = a
  b = b
  Tasks <- TwoTasks
  Volumes <- SmallVolume
  MEM_PAGE_SIZE = 6
  Pages <- ThreePages
  Strings <- NoStrings
  ArgPages = 1
  ArgMax = 0
INVARIANTS PositionKept
CHECK_DEADLOCK FALSE
