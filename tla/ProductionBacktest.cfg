SPECIFICATION Spec
CONSTANTS
  a = a
  b = b
  Assets = {a, b}
  Capital = 4
  Prices = {1, 2}
  Payments = {0, 1}
  Ratio = 2
  Fee = 1
  MaxStale = 1
  Lookback = 1
  MinObserved = 1
  MaxSession = 4
  MaxShares = 2
  MaxActions = 2
SYMMETRY Symmetry
INVARIANTS
  TypeOK
  ProfitReconciles
  HeldIsAccounted
PROPERTIES
  DividendsAreOvernight
  TradesOnThePast
\* The calendar ends, and a failed check ends the run: no deadlock check.
CHECK_DEADLOCK FALSE
