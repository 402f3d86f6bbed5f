SPECIFICATION FairSpec
CONSTANTS
  Revisions = {"g", "h", "c"}
  Dirs = {"a", "b", "c", "B", "C"}
  Lower <- MCLower
  Shard <- MCShard
  Versions = {"v1", "v2"}
  Trees <- MCTrees
  Jobs <- MCJobs
  Outs = {"out"}
  PipeSize = 1
  ErrSize = 1
  ChunkSize = 2
  MaxRecords = 2
  MaxErrors = 2
  MaxRuns = 2
INVARIANTS TypeOK WrittenIsWhole VerifiedIsWhole RefusedForCase
PROPERTIES Finishes
CHECK_DEADLOCK FALSE
