SPECIFICATION Spec
CONSTANTS
  Packages = {1, 2}
  Shards = {"s1", "s2"}
  Manifests = {1, 2}
  Entry <- MovingEntry
  Versions = {"v1", "v2"}
  Contents = {"a", "b"}
  Declares <- MovingDeclares
  Receipts = {"regular"}
  Builders = {x, y}
  Jobs <- ResumeJobs
  MaxRuns = 3
INVARIANTS TypeOK ReportTruthful
PROPERTIES ResumeKeepsAccepted ShardsPartition ImplementsLedger
SYMMETRY BuilderSymmetry
CHECK_DEADLOCK FALSE
