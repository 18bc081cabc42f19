CONSTANTS
  c1 = c1
  c2 = c2
  Controllers <- MCControllers
  Rates = {1, 2}
  DefaultRate = 1
  MaxKernels = 2
  RampBlocks = 1
  TailBlocks = 1
  Blocks = {0, 1}
  MaxTeardowns = 0
SPECIFICATION Spec
SYMMETRY Symmetry
PROPERTIES BypassKeepsKernel
