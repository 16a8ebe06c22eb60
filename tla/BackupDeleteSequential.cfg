SPECIFICATION SequentialSpec
CONSTANTS
  Proc = {p1, p2}
  Backup = {1, 2, 3}
  SegDir = {d1, d2}
  Command <- SequentialCommands
  Scenario <- AllScenarios
  Overlap = FALSE
  DBFaults = TRUE
  MayCrash = TRUE
INVARIANTS
  TypeOK
  DeletedMeansGone
  ActiveMeansWhole
  InProgressHasOwner
  DependentsFirst
PROPERTIES
  DeletedOnce
  ImplementsDeletionStatus
SYMMETRY Symmetry
VIEW View
