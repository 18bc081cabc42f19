CONSTANTS
  w1 = w1
  w2 = w2
  r1 = r1
  a1 = a1
  a2 = a2
  a3 = a3
  Writers = {w1, w2}
  Readers = {r1}
  Addrs = {a1, a2, a3}
  FirstAddr = a1
  ControlReads = TRUE
  MaxPublishes = 2
  Versions = {1, 3}
  LengthOf <- MCLengthOf
  Prefetch = 2
  ReadSizes = {1, 3}
  MaxAttempts = 2
  MaxDownload = 4
  PacketFrames = 2
  Foreign = {1}
  Delay = 3
  Padding = 1
SPECIFICATION FairParts
INVARIANTS
  Coherent
  ReadsAreFaithful
  TrimIsExact
PROPERTIES
  ReadersCatchUp
  CallsReturn
