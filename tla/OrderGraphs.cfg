CONSTANTS
  db = db
  cache = cache
  web = web
  Containers <- ThreeContainers
  Graphs <- SmallGraphs
  Explicits <- AnySet
  Roles <- AllRoles
SPECIFICATION FairSpec
INVARIANTS TypeOK OrderIsRight MarkedIsClosure SortIsTopological FailsExactlyOnCycles
PROPERTIES Terminates
CHECK_DEADLOCK FALSE
