CONSTANTS
  x = x
  y = y
  Items <- MCItems
  Events <- MCEvents
  DownFormats <- AllFormats
  UpFormats <- Sequential
  MaxItems = 2
  Window = 4
SPECIFICATION Spec
CHECK_DEADLOCK FALSE
INVARIANTS
  TypeOK
  Faithful
  CleanEndIsWhole
  DecodersAgree
PROPERTIES
  ProducerEnds
  Prompt
