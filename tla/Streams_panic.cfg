CONSTANTS
  x = x
  y = y
  Items <- MCItems
  Events <- MCEvents
  DownFormats <- JustLines
  UpFormats <- NoFormat
  MaxItems = 2
  Window = 4
SPECIFICATION Spec
CHECK_DEADLOCK FALSE
INVARIANT
  PanicClosesStream
