SPECIFICATION OverlapSpec
CONSTANTS
  Proc = {p1, p2}
  Backup = {1, 2, 3}
  SegDir = {d1, d2}
  Command <- OverlapCommands
  Scenario <- OverlapScenarios
  Overlap = TRUE
  DBFaults = FALSE
  MayCrash = TRUE
INVARIANTS
  DeletedMeansGone
  ActiveMeansWhole
  InProgressHasOwner
PROPERTIES
  Termination
