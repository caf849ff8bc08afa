--------------------------- MODULE MCPriceStore ---------------------------
(***************************************************************************)
(* A required security and a later listing, three sessions, batches of one    *)
(* symbol: a synchronisation of both takes two batches.  A refresh looks back  *)
(* only at its last session once a row is stored, so that a day without a run   *)
(* shows; rows two days old are too old to stand in for a provider.           *)
(***************************************************************************)
EXTENDS PriceStore

CONSTANTS a, b

MCSymbols == {a, b}
MCListed == [s \in MCSymbols |-> IF s = b THEN 3 ELSE 1]
MCSymbol == {a}
MCListedFirst == [s \in MCSymbol |-> 1]
=============================================================================
