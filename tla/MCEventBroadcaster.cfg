CONSTANTS
  c1 = c1
  c2 = c2
  Clients = {c1}
  MaxFrames = 2
  MaxBytes = 3
  HistoryMax = 2
  Sizes = {1, 2}
  MaxSeq = 3
  MaxEpoch = 2
  MaxGen = 2
  MaxLost = 1
SPECIFICATION FairSpec
INVARIANTS
  NothingIsMissed
  ResyncComesFirst
PROPERTIES
  ImplementsContract
  FramesArrive
  ReplacedConnectionsAnnounced
