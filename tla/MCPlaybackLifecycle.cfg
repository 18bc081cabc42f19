CONSTANTS
  p1 = p1
  p2 = p2
  Publishers <- MCPublishers
  RampFrames = {0, 3}
  TailFrames = 3
  Blocks = {0, 2}
  GenModulus = 100
  MaxRequests = 2
  Hosts <- MCHosts
SPECIFICATION LifecycleFairSpec
INVARIANTS
  NeverRefused
  FadeNeverRises
PROPERTIES
  SettledIsTruthful
  RequestsSettle
