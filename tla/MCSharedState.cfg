CONSTANTS
  w1 = w1
  w2 = w2
  r1 = r1
  r2 = r2
  a1 = a1
  a2 = a2
  a3 = a3
  a4 = a4
  Writers = {w1, w2}
  Readers = {r1, r2}
  Addrs = {a1, a2, a3, a4}
  FirstAddr = a1
  ControlReads = FALSE
  MaxPublishes = 3
  scanner = scanner
  reader = reader
  file = file
  web = web
  Workers = {scanner, reader}
  Roles <- MCRoles
  Locals = {file}
  Webs = {web}
  Albums <- MCAlbums
  Gains = {1}
  Builds = {1, 2}
  None = None
  MaxBatch = 2
  MaxContent = 1
  MaxCrashes = 1
  MaxCalls = 3
  StageRates = {1, 2}
  RampFrames <- MCRampFrames
  FadeFrames = 3
  Wishes <- MCWishes
  SettleEpsilon = 1
  VolumeFrames = 3
  UnityGain = 16
  DefaultTuning <- MCDefaultTuning
  LoudnessParams <- MCLoudnessParams
  Tunings <- MCTunings
  UpdateEpsilon = 2
  Targets = {0}
  Loudnesses = {2}
  StoredGains = {1}
  StreamingMost = 1
  LimiterDelay = 1
  NormalizerBlocks = {0, 1, 2}
  MaxGiven = 3
  MaxStores = 2
SPECIFICATION PartSpec
SYMMETRY Symmetry
INVARIANTS
  NoUseAfterFree
PROPERTIES
  NeverGoesBack
  ImplementsCache
  FreshIsVouched
  RampsArrive
  LoudnessIsGradual
CHECK_DEADLOCK FALSE
