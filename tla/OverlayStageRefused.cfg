SPECIFICATION Spec
CONSTANTS
  Paths <- MCPaths
  Packages <- MCPackages
  Named = {1, 2, 3, 4}
  KernelPaths = {4}
  KernelPackages = {4}
  Vocabulary <- MCVocabulary
  Versions = {"v1", "v2"}
  Target = 3
  Trees <- MCTrees
  Later <- MCLater
  Variants = {"plain", "pgo", "default"}
  Policies <- MCPolicies
  Ids <- MCIds
  Id <- MCId
  Preparers = {"x"}
  MaxEmissions = 2
  Emitters = {"e"}
INVARIANTS InventoryAccepted
CHECK_DEADLOCK FALSE
