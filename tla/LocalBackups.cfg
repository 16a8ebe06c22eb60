SPECIFICATION BoundedSpec
CONSTANTS
  Proc = {1, 2}
  Lines <- MCLines
  Cluster <- MCCluster
  Scenario <- MCScenario
INVARIANTS
  TypeOK
  AcceptedFitsModels
  DatedMeansGone
PROPERTIES
  ReportFailsForCause
