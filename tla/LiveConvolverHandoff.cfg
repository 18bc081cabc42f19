CONSTANTS
  c1 = c1
  c2 = c2
  Controllers <- OneController
  Rates = {1}
  DefaultRate = 1
  MaxKernels = 3
  RampBlocks = 1
  TailBlocks = 1
  Blocks = {1}
  MaxTeardowns = 0
SPECIFICATION FairSpec
PROPERTIES
  EventuallyQuiescent
  PublicationsResolve
