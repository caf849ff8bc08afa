------------------------- MODULE MCConsoleSessions -------------------------
(***************************************************************************)
(* Instance of ConsoleSessions: two consoles, one of which may be killed; a  *)
(* recommendation to buy two shares and one to sell one share of a stock.     *)
(***************************************************************************)
EXTENDS ConsoleSessions

CONSTANTS p1, p2, buyA, sellA, A

SessionRecs == {buyA, sellA}
SessionStockOf == [r \in SessionRecs |-> A]
SessionSideOf == [r \in SessionRecs |-> IF r = buyA THEN "BUY" ELSE "SELL"]
SessionSuggested == [r \in SessionRecs |-> IF r = buyA THEN 2 ELSE 1]
SessionDates == [r \in SessionRecs |-> 1]
SessionHoldings == [s \in {A} |-> 1]

=============================================================================
