SPECIFICATION Spec
CONSTANTS
  a = a
  b = b
  Symbols <- MCSymbol
  Required = {a}
  Registered = {}
  MaxDate = 3
  Listed <- MCListedFirst
  Lookback = 0
  Overlap = 1
  StaleAfter = 1
  MinBars = 1
  ChunkSize = 1
  MaxStarts = 3
INVARIANT
  CertifiedHistoryHasNoHoles
CHECK_DEADLOCK FALSE
