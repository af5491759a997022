CONSTANTS
  u = u
  v = v
  c1 = c1
  c2 = c2
  app1 = app1
  app2 = app2
  same = same
  next = next
  Calls <- TwoCalls
  Containers <- TwoContainers
  Refs <- TwoTags
  Ref <- OneOfEach
  Routes <- RoutesOfEach
  Records <- TwoRecords
  OldRef <- Old
  NewRef <- New
  Modes <- AllModes
  MaxVersion = 1
  MaxFaults = 2
SPECIFICATION Spec
SYMMETRY CallSymmetry
INVARIANTS TypeOK ReportIsTrue OutageIsReported
PROPERTY ClearedWasApplied
CHECK_DEADLOCK FALSE
