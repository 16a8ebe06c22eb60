SPECIFICATION FairSpec
CONSTANTS
  Proc = {p1, p2}
  File = {"a", "b"}
  Backup = {1, 2, 3, 4}
  Initial <- TwoBackups
  Existing = {{}}
  Args <- MCArgs
  Written <- MCWritten
  Overlap = FALSE
  Faults = FALSE
  MayCrash = TRUE
INVARIANTS
  InterruptedCanResume
