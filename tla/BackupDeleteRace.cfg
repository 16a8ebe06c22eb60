SPECIFICATION FairSpec
CONSTANTS
  Proc = {p1, p2}
  Backup = {1, 2, 3}
  SegDir = {d1, d2}
  Command <- LocalCommands
  Scenario <- LocalChain
  Overlap = TRUE
  DBFaults = FALSE
  MayCrash = FALSE
PROPERTIES
  DeletedOnce
