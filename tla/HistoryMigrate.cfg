SPECIFICATION FairSpec
CONSTANTS
  Proc = {p1, p2}
  File = {"a", "b"}
  Backup = {1, 2, 3, 4}
  Initial <- MCInitial
  Existing = {{}, {1}}
  Args <- MCArgs
  Written <- MCWritten
  Overlap = TRUE
  Faults = TRUE
  MayCrash = TRUE
INVARIANTS
  TypeOK
  MigratedMeansStored
PROPERTIES
  NothingLost
  Exit0MeansMigrated
  Termination
