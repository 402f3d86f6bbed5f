SPECIFICATION Spec
CONSTANTS
  Revisions = {"g", "h", "c"}
  Dirs = {"a", "b", "c", "B", "C"}
  Lower <- MCLower
  Shard <- MCShard
  Versions = {"v1", "v2"}
  Trees <- MCTrees
  Jobs <- CaseJobs
  Outs = {"out"}
  PipeSize = 1
  ErrSize = 1
  ChunkSize = 2
  MaxRecords = 2
  MaxErrors = 2
  MaxRuns = 1
INVARIANTS OwnDocumentAccepted
CHECK_DEADLOCK FALSE
