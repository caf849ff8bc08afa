\* Reviews, fills, cancellations and modifications, and snapshots entered
\* by hand or from a CSV between them.
SPECIFICATION Spec
CONSTANTS
  buyA = buyA  sellA = sellA  resellA = resellA  ungated = ungated
  A = A
  Recs <- OrderRecs
  Stocks = {A}
  FillIds = {f1, f2}
  MaxDate = 2
  Quantities = {1, 2}
  Prices = {2}
  Fees = {3}
  Balances = {7}
  StockOf <- OrderStockOf
  SideOf <- OrderSideOf
  Suggested <- OrderSuggested
  GateApproved <- OrderGate
  Earliest <- OrderEarliest
  Expires <- OrderExpires
  ClosedDates = {}
  InitialCash = 5
  InitialHoldings <- OrderHoldings
SYMMETRY FillSymmetry
INVARIANTS
  FilledWithinApproval
  StatusMatchesFills
  OnlyApprovedIsExecuted
  UniqueKeys
  FilledIsSumOfRows
PROPERTIES
  ClosedOrderIsFinal
  FillMovesHoldingsByItsTrade
  CashMovesWithLedger
  KeepsPromise
\* The user may simply stop: no deadlock check.
CHECK_DEADLOCK FALSE
