CONSTANTS
  w1 = w1
  w2 = w2
  c1 = c1
  c2 = c2
  p1 = p1
  NoProject = NoProject
  Workers <- TwoWorkers
  Containers <- TwoContainers
  Projects <- OneProject
  MayUpdate <- OwnContainers
  MaxUpdates = 5
SPECIFICATION FairReaderSpec
INVARIANTS UpdatingIsListed StatusIsCurrent
PROPERTIES AtomicSpec EveryUpdateEnds
CHECK_DEADLOCK FALSE
