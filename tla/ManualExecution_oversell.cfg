\* A position sold out, then sold again.
SPECIFICATION FillSpec
CONSTANTS
  buyA = buyA  sellA = sellA  resellA = resellA  ungated = ungated
  A = A
  Recs <- SellRecs
  Stocks = {A}
  FillIds = {f1, f2}
  MaxDate = 2
  Quantities = {1}
  Prices = {1}
  Fees = {0}
  Balances = {0}
  ClosedDates = {}
  InitialCash = 0
  StockOf <- SellStockOf
  SideOf <- SellSideOf
  Suggested <- SellSuggested
  GateApproved <- SellRecs
  Earliest <- SellEarliest
  Expires <- SellExpires
  InitialHoldings <- SellHoldings
INVARIANTS
  NoOversell
\* The user may simply stop: no deadlock check.
CHECK_DEADLOCK FALSE
