SPECIFICATION LoaderSpec
CONSTANTS
  a = a
  b = b
  Tasks <- OneTask
  Volumes <- MCVolumes
  MEM_PAGE_SIZE = 6
  Pages <- ThreePages
  Strings <- MCStrings
  ArgPages = 2
  ArgMax = 4
INVARIANTS PositionKept
PROPERTIES ArgsArrive   ExecveReturns
CHECK_DEADLOCK FALSE
