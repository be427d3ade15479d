CONSTANTS
  p1 = p1
  p2 = p2
  k1 = k1
  NoEntry = NoEntry
  NoKey = NoKey
  NoConfig = NoConfig
  Requests <- MCRequests
  Keys <- MCOneKey
  ProfileKeys <- MCOneKey
  Chunks = 2
  MaxVersion = 2
SPECIFICATION Spec
SYMMETRY Symmetry
INVARIANTS
  TypeOK
  StaleOnlyFromOverlap
  ReplaysWhatWasSent
