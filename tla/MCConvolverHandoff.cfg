CONSTANTS
  c1 = c1
  c2 = c2
  Controllers <- MCControllers
  Rates = {1, 2}
  DefaultRate = 1
  MaxKernels = 2
  RampBlocks = 2
  TailBlocks = 1
  Blocks = {0, 1}
  MaxTeardowns = 1
SPECIFICATION Spec
SYMMETRY Symmetry
INVARIANTS
  UniqueOwnership
  QuiescentMeansEmpty
  FinishLockHolds
  FadesBeforeRetiring
