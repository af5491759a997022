CONSTANTS
  only = only
  a1 = a1
  a2 = a2
  b1 = b1
  a = a
  b = b
  NoImage = NoImage
  NoDigest = NoDigest
  Calls <- OneCall
  Kinds <- AllKinds
  Digests <- ThreeDigests
  Images <- TwoImages
  ImageOf <- Stands
  Accesses <- AllAccesses
  Logins <- AllLogins
  MaxChanges = 2
  MaxFaults = 2
SPECIFICATION FairSpec
INVARIANTS TypeOK UpToDateIsTrue RefusalsHaveAReason
PROPERTY EveryCallEnds
CHECK_DEADLOCK FALSE
