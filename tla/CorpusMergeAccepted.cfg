SPECIFICATION Spec
CONSTANTS
  Upstreams <- ThreeUpstreams
  Alphabetical <- Dictionary
  StaticUpstreams = {"arch", "alpine"}
  Names <- AllNames
  FileOf <- Denoted
  Normal <- PlainNames
  Inputs <- CompleteInputs
  Target = 4
  Runs = {"x"}
INVARIANTS CompleteManifestAccepted
