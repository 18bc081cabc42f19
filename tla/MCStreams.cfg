CONSTANTS
  Analyzers <- MCAnalyzers
  FftSize = 16
  PushStep = 20
  EvenHistory = 1
  PushSizes = {11, 64}
  AnalyzeRates = {1600, 3200}
  AlphaUnit = 4
  AttackAlpha = 3
  ReleaseAlpha = 1
  DecayPerSecond = 3200
  Levels <- MCLevels
  BandEdges <- MCBandEdges
  MaxPushed = 264
  AnalyzeAfter = 230
  CoreQualities = {"direct", "x2", "x4"}
  Ratios <- MCRatios
  Taps <- MCTaps
  LatencyFrames = 2
  HistoryFrames = 6
  CoreRates = {1}
  MaxCoreFrames = 8
  MaxChanges = 2
  SincConfigs <- MCSincConfigs
  SincBlock = 12
  SincInputs = {0, 1, 3, 26}
  SincRooms = {0, 1, 5}
  MaxAccepted = 40
  Kernels <- MCKernels
  BlockSizes = {1, 2, 3, 4, 5, 7}
  MaxFrames = 26
  Layouts <- MCLayouts
  Lookahead = 1
  StreamingMaxInput = 2
  OneShotChunk = 2
  Slack = 0
  InputSizes = {0, 3}
  OutputSizes = {0, 1, 4}
  MaxTaken = 6
  Editors = {e1, e2}
  Excess = {0, 20}
  NotFinite = NotFinite
  Absent = Absent
  Nobody = nobody
  MaxEdits = 2
  GainBands = 2
  MaxMeterUpdates = 3
SPECIFICATION Streams
INVARIANTS
  SpectrumIsExact
  CoreIsSeamless
  SincIsExact
  KernelsAreExact
  ChannelsStayTogether
  FacadeIsFaithful
CHECK_DEADLOCK FALSE
