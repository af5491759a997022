CONSTANTS
  app1 = app1
  app2 = app2
  db = db
  a1 = a1
  a2 = a2
  b1 = b1
  b2 = b2
  d1 = d1
  d2 = d2
  c1 = c1
  c2 = c2
  c3 = c3
  same = same
  next = next
  dbs = dbs
  NoRef = NoRef
  ByID = ByID
  NoImage = NoImage
  Refs <- TwoRefs
  Images <- AllImages
  Containers <- TwoContainers
  Records <- SameAndDb
  OldRef <- Old
  LatestVersion <- Tags
  RecordID <- NoIDs
  Serves <- Own
  FirstRefs <- TwoRefs
  Composed <- Services
  Targets = {}
  Dependents <- SomeDependents
  Modes <- Normal
  LateInspects = FALSE
  MaxPublished = 3
  MaxFaults = 0
SPECIFICATION FairSpec
PROPERTY EveryUpdateIsApplied
CHECK_DEADLOCK FALSE
