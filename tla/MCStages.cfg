CONSTANTS
  direct = direct
  x2 = x2
  x4 = x4
  NoTarget = NoTarget
  Qualities = {direct, x2, x4}
  DefaultQuality = direct
  Transition = 3
  Latency = 1
  FilterTail <- MCFilterTail
  Blocks = {0, 2}
  Settings <- MCSettings
  Errors = {0, 1}
  Peaks = {0, 5, 8}
  GainUnit = 16
  Window = 3
  Settle = 1
  Release = 2
  Period = 8
  BasePeriod = 4
  EdgeGuard = 1
  TransformWeight = 2
  Geometries <- MCGeometries
  Threshold = 4
  MinLateTaps = 24
  Responses <- MCResponses
  ChunkSizes = {1, 5}
  MaxConvolved = 42
  MaxResets = 1
  Kernels <- MCKernels
  CallInputs = {0, 1, 3, 5}
  CallOutputs = {0, 1, 4, 7}
  StallLimit = 4
  MaxInput = 9
  Capacity = 3
  Sizes <- MCSizes
  MaxFrames = 11
  LateAdvance = FALSE
  ShortTaps = 2
  LongTaps = 3
  ShaperChannels = 2
  Curves <- MCCurves
SPECIFICATION Spec
SYMMETRY Symmetry
INVARIANTS
  TransitionsAreClean
  CeilingHolds
  ConvolutionIsExact
  ResamplerIsExact
  FeedbackIsHistory
PROPERTIES
  LatencyFrozen
  ImplementsWindow
CHECK_DEADLOCK FALSE
