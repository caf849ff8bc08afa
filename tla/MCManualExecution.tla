------------------------- MODULE MCManualExecution -------------------------
(***************************************************************************)
(* Instances of ManualExecution.  Small portfolios: every share, price and  *)
(* fee is one or two units, so that a budget, a position or an approval is   *)
(* used up, or missed by one, within a few commands.                         *)
(***************************************************************************)
EXTENDS ManualExecution
LOCAL T == INSTANCE TLC

CONSTANTS buyA, sellA, resellA, ungated,   \* recommendations
          A                                \* a stock

\* Two opposite orders on one stock, which may be filled on different dates,
\* and a recommendation whose run did not pass the gate.
OrderRecs == {buyA, sellA, ungated}
OrderStockOf == [r \in OrderRecs |-> A]
OrderSideOf == [r \in OrderRecs |-> IF r = sellA THEN "SELL" ELSE "BUY"]
OrderSuggested == [r \in OrderRecs |-> IF r = sellA THEN 1 ELSE 2]
OrderGate == OrderRecs \ {ungated}
OrderEarliest == [r \in OrderRecs |-> IF r = sellA THEN 2 ELSE 1]
OrderExpires == [r \in OrderRecs |-> IF r = sellA THEN 2 ELSE 1]
OrderHoldings == [s \in {A} |-> 1]

\* The user may enter the fill ids in any order.
FillSymmetry == T!Permutations(FillIds)

\* Two sells of one stock, from the runs of two days.
SellRecs == {sellA, resellA}
SellStockOf == [r \in SellRecs |-> A]
SellSideOf == [r \in SellRecs |-> "SELL"]
SellSuggested == [r \in SellRecs |-> 1]
SellEarliest == [r \in SellRecs |-> 1]
SellExpires == [r \in SellRecs |-> 2]
SellHoldings == [s \in {A} |-> 1]

=============================================================================
