CONSTANTS
  r1 = r1
  r2 = r2
  e1 = e1
  e2 = e2
  NoEncoder = NoEncoder
  Discard = Discard
  Responses <- MCResponses
  Encoders <- MCEncoders
  MinSize = 2
  MaxChunks = 3
SPECIFICATION Spec
SYMMETRY Symmetry
INVARIANTS
  TypeOK
  EncodersExclusive
  BodyIntact
  HeldBack
  StatusSent
PROPERTIES
  FlushDelivers
