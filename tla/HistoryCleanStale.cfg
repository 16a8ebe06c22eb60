SPECIFICATION BoundedSpec
CONSTANTS
  Backup = {1, 2, 3, 4, 5, 6}
  Cutoff = {5}
  BatchSize = 2
  MaxRuns = 2
  Initially <- CleanDatabases
  Plans <- MCPlans
  Details <- MCDetails
  Faults = FALSE
  Forced = TRUE
  Name = {"a", "b"}
  Listing <- MCListing
  Ask <- MCAsk
  Arrives <- MCArrives
PROPERTIES
  OnlyDeletedCleaned
