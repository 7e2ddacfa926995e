SPECIFICATION ListSpec
CONSTANTS
  n1 = n1
  n2 = n2
  n3 = n3
  n4 = n4
  l1 = l1
  l2 = l2
  Nodes <- MCNodes
  Lists <- MCLists
  Null = null
INVARIANTS WellLinked
PROPERTIES ImplementsSequences WalkVisitsAll
