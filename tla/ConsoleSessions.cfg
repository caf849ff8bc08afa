\* Two consoles on one database.
SPECIFICATION SessionSpec
CONSTANTS
  p1 = p1  p2 = p2  buyA = buyA  sellA = sellA  A = A
  Procs = {p1, p2}
  Killable = {p2}
  Reusable = {}
  NoPid = NoPid
  Recs <- SessionRecs
  Stocks = {A}
  FillIds = {f1, f2}
  MaxDate = 2
  Quantities = {1, 2}
  Prices = {1}
  Fees = {2}
  Balances = {0}
  ClosedDates = {2}
  InitialCash = 4
  StockOf <- SessionStockOf
  SideOf <- SessionSideOf
  Suggested <- SessionSuggested
  GateApproved <- SessionRecs
  Earliest <- SessionDates
  Expires <- SessionDates
  InitialHoldings <- SessionHoldings
INVARIANTS
  UniqueKeys
  NegativeCashHasASellFee
PROPERTIES
  AtomicUnlessOverlapped
\* The user may simply stop: no deadlock check.
CHECK_DEADLOCK FALSE
