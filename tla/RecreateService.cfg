CONSTANTS
  r1 = r1
  r2 = r2
  r3 = r3
  Original = Original
  Deployed <- Running
  Runs <- ThreeRuns
  FaultsFirst = TRUE
  ExtraNetworks = TRUE
  AutoRemove = FALSE
  Faults <- ReplacementTrouble
  MaxFaults = 1
SPECIFICATION FairSpec
INVARIANTS ServiceSurvives
PROPERTIES RunningReplacementKept EveryCallReturns
CHECK_DEADLOCK FALSE
