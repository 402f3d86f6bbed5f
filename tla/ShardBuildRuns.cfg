SPECIFICATION FairSpec
CONSTANTS
  Packages = {1, 2, 3}
  Shards = {"s1"}
  Manifests = {1}
  Entry <- MixedEntry
  Versions = {"v1"}
  Contents = {"a", "c", "junk"}
  Declares <- MixedDeclares
  Receipts = {"regular", "irregular"}
  Builders = {"x"}
  Jobs <- AllJobs
  MaxRuns = 2
INVARIANTS ReportWhole
PROPERTIES CleanExit Terminates
CHECK_DEADLOCK FALSE
