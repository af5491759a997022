CONSTANTS
  a = a
  b = b
  c = c
  k1 = k1
  k2 = k2
  k3 = k3
  NoClient = NoClient
  Callers <- ThreeCallers
  Clients <- ThreeClients
  MaxCalls = 4
SPECIFICATION FairSpec
INVARIANTS TypeOK CurrentIsOpen NoLeak ClosedOnce
PROPERTIES EveryCallReturns
CHECK_DEADLOCK FALSE
