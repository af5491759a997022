CONSTANTS
  r1 = r1
  r2 = r2
  r3 = r3
  Original = Original
  Deployed <- RunningOrStopped
  Runs <- ThreeRuns
  FaultsFirst = FALSE
  ExtraNetworks = TRUE
  AutoRemove = TRUE
  Faults <- AllFaults
  MaxFaults = 3
SPECIFICATION Spec
SYMMETRY RunSymmetry
INVARIANTS TypeOK ExclusiveReplacement ReportedContainerServes
PROPERTY NamePassesOn
CHECK_DEADLOCK FALSE
