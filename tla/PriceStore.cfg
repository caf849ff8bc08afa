SPECIFICATION Spec
CONSTANTS
  a = a
  b = b
  Symbols <- MCSymbols
  Required = {a}
  Registered = {a, b}
  MaxDate = 3
  Listed <- MCListed
  Lookback = 0
  Overlap = 1
  StaleAfter = 1
  MinBars = 1
  ChunkSize = 1
  MaxStarts = 3
INVARIANTS
  CertifiedWindow
  QuarantineTellsFailures
PROPERTIES
  FinalStaysUnlessRaced
  IncrementalLeavesNoGap
CHECK_DEADLOCK FALSE
