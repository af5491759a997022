CONSTANTS
  app1 = app1
  app2 = app2
  db = db
  a1 = a1
  a2 = a2
  b1 = b1
  b2 = b2
  d1 = d1
  d2 = d2
  c1 = c1
  c2 = c2
  c3 = c3
  same = same
  next = next
  dbs = dbs
  NoRef = NoRef
  ByID = ByID
  NoImage = NoImage
  Refs <- TagRefs
  Images <- AllImages
  Containers <- ThreeContainers
  Records <- NextAndDb
  OldRef <- Old
  LatestVersion <- Tags
  RecordID <- FirstIDs
  Serves <- Own
  FirstRefs <- TwoRefs
  Composed <- Services
  Targets <- Targeted
  Dependents <- SomeDependents
  Modes <- AllModes
  LateInspects = FALSE
  MaxPublished = 1
  MaxFaults = 2
SPECIFICATION Spec
INVARIANT TypeOK
PROPERTIES FailedRestartKeepsRecord ClearedWasPulled FollowsItsRecord
CHECK_DEADLOCK FALSE
