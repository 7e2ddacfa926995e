SPECIFICATION PageSpec
CONSTANTS
  h1 = h1
  h2 = h2
  Holders <- MCHolders
  PageCount = 6
  PageSize = 6
  Start = 4
INVARIANTS OnePageCorrect 
