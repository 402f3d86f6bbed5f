SPECIFICATION ASpec
CONSTANTS
  Packages = {1, 2}
  Shards = {"s1"}
  Manifests = {1, 2}
  Entry <- UpgradedEntry
  Versions = {"v1", "v2"}
  Contents = {"a", "b"}
  Declares <- TwoDeclares
  Receipts = {"regular"}
  Builders = {"x"}
  Jobs <- ResumeJobs
  MaxRuns = 2
  Audits <- SomeAudits
INVARIANTS ATypeOK CompleteIsPublished CompleteIsOneManifest
CHECK_DEADLOCK FALSE
