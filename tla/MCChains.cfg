CONSTANTS
  Kinds <- ThreeKinds
  MaxStages = 3
  Policies <- MCPolicies
  Capacities = {0, 2}
  MaxFailures = 1
  Chains <- MCSources
  Ratios <- MCRatios
  Programmes = {1, 5}
  Hold = 2
  MaxTail = 4
  Limiters = {0, 2}
  Loudness <- MCLoudness
  Blocks = {1, 8}
  DefaultBlock = 8
  Lookahead = 3
  LiveStages <- MCLive
SPECIFICATION FairParts
INVARIANTS
  TailsEndInTime
  RenderKeepsProgramme
  ReportIsTruthful
PROPERTIES
  KeepsContract
  DrainTerminates
  RenderEnds
