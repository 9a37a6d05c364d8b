CONSTANTS
  Policies <- BothPolicies
  Faults <- AllFaults
  MaxVer = 3
SPECIFICATION FairSpec
INVARIANTS
  RunningKept
  VerifiedIsWhole
  AlwaysBoots
  NoDowngrade
PROPERTIES
  ImplementsUpdate
  UpdateTakesHold
