SPECIFICATION FairSpec
CONSTANTS
  N = 3
  MaxParallel = 2
  d1 = d1
  d2 = d2
  Dir = {d1, d2}
  DirOf <- MCDirOf
INVARIANTS
  TypeOK
  NoRemoveDuringChecks
  CheckedBeforeRemoved
  SendNeverBlocks
  LimitRespected
  SuccessMeansGone
PROPERTIES
  ImplementsSegmentRemoval
  Termination
