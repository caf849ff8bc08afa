------------------------ MODULE MCProductionBacktest ------------------------
(***************************************************************************)
(* Two assets and four sessions: the first learns a volume, the others can     *)
(* buy, hold through an action or a missing bar, and sell.                     *)
(***************************************************************************)
EXTENDS ProductionBacktest, TLC

CONSTANTS a, b

Symmetry == Permutations(Assets)
=============================================================================
