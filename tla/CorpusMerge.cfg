SPECIFICATION Spec
CONSTANTS
  Upstreams <- ThreeUpstreams
  Alphabetical <- Dictionary
  StaticUpstreams = {"arch", "alpine"}
  Names <- AllNames
  FileOf <- Denoted
  Normal <- PlainNames
  Inputs <- SomeInputs
  Target = 4
  Runs = {x, y}
SYMMETRY RunSymmetry
INVARIANTS TypeOK OneFilePerEntry OrderDecidesNothing
PROPERTIES PublishesMerge
