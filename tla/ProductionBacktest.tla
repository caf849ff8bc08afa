------------------------- MODULE ProductionBacktest -------------------------
(***************************************************************************)
(* The books of a production backtest: ProductionBacktestEngine.run.  A        *)
(* session settles the corporate actions of its date, then executes the target  *)
(* that is due at the open, marks what is held at the close, and only then       *)
(* learns the session's volume.                                               *)
(*                                                                         *)
(* Abstracted: shares and money are whole numbers, a split multiplies, a cost   *)
(* is one amount per trade.  What weights come to is any holding the net asset   *)
(* value pays for.  The dataset is met session by session; a check that raises   *)
(* leaves the run without a result and is a guard here.  Returns, metrics and    *)
(* attributions are left out.                                                  *)
(***************************************************************************)
EXTENDS Integers, FiniteSets, Functions

CONSTANTS
  Assets,
  Capital,     \* initial_capital
  Prices,      \* raw open prices
  Payments,    \* cash amounts per share of dividends, mergers and delistings
  Ratio,       \* ratio of a split
  Fee,         \* cost of a trade
  MaxStale,    \* maximum_stale_sessions
  Lookback,    \* liquidity_lookback_sessions
  MinObserved, \* minimum_liquidity_observations
  MaxSession,  \* bound of the calendar
  MaxShares,   \* bound of a position
  MaxActions   \* bound of the corporate actions of a session

ASSUME BacktestAssumption ==
  /\ IsFiniteSet(Assets)
  /\ Capital \in Nat \ {0} /\ Prices \subseteq Nat \ {0} /\ Payments \subseteq Nat
  /\ Ratio \in Nat \ {0} /\ Fee \in Nat /\ MaxStale \in Nat
  /\ Lookback \in Nat \ {0} /\ MinObserved \in 1..Lookback
  /\ MaxSession \in Nat /\ MaxShares \in Nat /\ MaxActions \in Nat

Sessions == 1..MaxSession

VARIABLES
  session,   \* current_date
  pc,        \* what the session does next
  bars,      \* the bar an asset has in this session, if any
  target,    \* the target that is executed in this session, if any
  acted,     \* corporate actions settled in this session
  cash,
  shares,
  basis,     \* cost of a position: its shares times average_cost
  realized, dividends, costs,
  holding,   \* holding_sessions
  stale,     \* sessions without a bar of a position
  quoted,    \* session of latest_close, 0 without one
  observed,  \* the newest sessions whose volume is in dollar_volume_history
  opened,    \* history: session in which a position was opened
  overnight  \* history: shares held at the last close, in today's units

day == <<session, bars, target>>
books == <<cash, shares, basis, realized, dividends, costs, holding, opened>>
quotes == <<stale, quoted, observed>>
vars == <<day, pc, acted, books, quotes, overnight>>

Held == {a \in Assets : shares[a] > 0}
NoBars == [a \in Assets |-> "none"]
Zero == [a \in Assets |-> 0]

Init ==
  /\ session = 0 /\ pc = "marked" /\ bars = NoBars /\ target = {} /\ acted = 0
  /\ cash = Capital /\ shares = Zero /\ basis = Zero
  /\ realized = 0 /\ dividends = 0 /\ costs = 0
  /\ holding = Zero /\ stale = Zero /\ quoted = Zero
  /\ observed = [a \in Assets |-> {}]
  /\ opened = Zero /\ overnight = Zero

\* A target says after which session's close its signal was made, and by which
\* session's close its universe was known.
Targets(s) == [signal : {s - 1, s}, known : {s - 1, s}]

OpenSession ==
  /\ pc = "marked" /\ session < MaxSession
  /\ session' = session + 1
  /\ bars' \in [Assets -> {"none", "halted", "tradable"}]
  /\ target' \in {{}} \cup {{t} : t \in Targets(session')}
  /\ holding' = [a \in Assets |-> holding[a] + IF a \in Held THEN 1 ELSE 0]
  /\ pc' = "actions"
  /\ UNCHANGED <<acted, cash, shares, basis, realized, dividends, costs, opened, quotes,
                 overnight>>

-----------------------------------------------------------------------------
(* _apply_corporate_action: what is not held is not concerned, and is paid for
   nothing. *)

BugDue == pc \in {"actions", "mark"}  \* also after the trades of the session
Due == pc = "actions"

Settle(a) ==
  /\ Due /\ acted < MaxActions
  /\ acted' = acted + 1
  /\ UNCHANGED <<day, pc, costs, quotes>>

BugSplitBasis(a) == basis[a] * Ratio  \* the average cost of a share is kept
SplitBasis(a) == basis[a]
Split(a) ==
  /\ Settle(a) /\ a \in Held
  /\ shares[a] * Ratio <= MaxShares
  /\ shares' = [shares EXCEPT ![a] = @ * Ratio]
  /\ overnight' = [overnight EXCEPT ![a] = @ * Ratio]
  /\ basis' = [basis EXCEPT ![a] = SplitBasis(a)]
  /\ UNCHANGED <<cash, realized, dividends, holding, opened>>

CashDividend(a, amount) ==
  /\ Settle(a)
  /\ cash' = cash + shares[a] * amount
  /\ dividends' = dividends + shares[a] * amount
  /\ UNCHANGED <<shares, basis, realized, holding, opened, overnight>>

\* MERGER_CASH, DELISTING
PayOut(a, amount) ==
  /\ Settle(a) /\ a \in Held
  /\ cash' = cash + shares[a] * amount
  /\ realized' = realized + shares[a] * amount - basis[a]
  /\ shares' = [shares EXCEPT ![a] = 0]
  /\ basis' = [basis EXCEPT ![a] = 0]
  /\ holding' = [holding EXCEPT ![a] = 0]
  /\ overnight' = [overnight EXCEPT ![a] = 0]
  /\ UNCHANGED <<dividends, opened>>

-----------------------------------------------------------------------------
(* _rebalance *)

\* _validate_targets, and the universe of the target's own signal time.
BugValid(t) == t.signal >= 1 /\ session = t.signal + 1
Valid(t) == t.signal >= 1 /\ session = t.signal + 1 /\ t.known <= t.signal

\* Tradable at the open, with a known volume of earlier sessions.
Tradable(a) == bars[a] = "tradable" /\ Cardinality(observed[a]) >= MinObserved

\* The cost of what is kept of a position, and of what is added to it.
BugNewBasis(a, want, price) == basis[a] + (want - shares[a]) * price  \* less what a sale brings
NewBasis(a, want, price) ==
  IF want > shares[a] THEN basis[a] + (want - shares[a]) * price
  ELSE IF want = 0 THEN 0 ELSE (basis[a] * want) \div shares[a]

\* What the shares sold had cost on average, rounded up where the rest's cost is
\* rounded down, and what the sale realizes.
SoldBasis(a, sold) == (basis[a] * sold + shares[a] - 1) \div shares[a]
Gain(a, want, price) ==
  IF want < shares[a]
  THEN (shares[a] - want) * price - SoldBasis(a, shares[a] - want) ELSE 0

\* What the target's weights come to: its assets are members of its universe,
\* every other position is closed, and what is left pays for it.
Rebalanced(want, changed) ==
  LET traded == {a \in changed : want[a] # shares[a]}
      fees == Fee * Cardinality(traded)
  IN /\ \A a \in changed : Tradable(a)
     /\ \E price \in [changed -> Prices] :
          LET paid == SumFunction([a \in changed |-> (want[a] - shares[a]) * price[a]])
          IN /\ cash' = cash - paid - fees
             /\ cash' >= 0
             /\ basis' = [a \in Assets |->
                  IF a \in traded THEN NewBasis(a, want[a], price[a]) ELSE basis[a]]
             /\ realized' = realized
                  + SumFunction([a \in traded |-> Gain(a, want[a], price[a])])
     /\ costs' = costs + fees
     /\ shares' = want
     /\ holding' = [a \in Assets |-> IF want[a] = 0 THEN 0 ELSE holding[a]]
     /\ opened' = [a \in Assets |->
          IF a \in traded /\ shares[a] = 0 THEN session ELSE opened[a]]

Rebalance ==
  /\ pc = "actions" /\ target # {}
  /\ \A t \in target : Valid(t)
  /\ \E weighted \in SUBSET Assets, want \in [Assets -> 0..MaxShares] :
       /\ \A a \in Assets \ weighted : want[a] = 0
       /\ Rebalanced(want, weighted \cup Held)
  /\ pc' = "mark"
  /\ UNCHANGED <<day, acted, dividends, quotes, overnight>>

-----------------------------------------------------------------------------
(* The close *)

BugStaleness(a) == IF bars[a] # "none" THEN stale[a] ELSE stale[a] + 1
Staleness(a) == IF bars[a] # "none" THEN 0 ELSE stale[a] + 1

\* observations[-liquidity_lookback_sessions:]
Newest(S) == {s \in S : Cardinality({r \in S : r > s}) < Lookback}

\* That every position has a close is checked in the code and never fails
\* (HeldIsAccounted).
Mark ==
  /\ pc = "mark" \/ (pc = "actions" /\ target = {})
  /\ cash > 0 \/ Held # {}
  /\ stale' = [a \in Assets |-> IF a \in Held THEN Staleness(a) ELSE stale[a]]
  /\ \A a \in Held : stale'[a] <= MaxStale
  /\ quoted' = [a \in Assets |->
                  IF a \in Held /\ bars[a] # "none" THEN session ELSE quoted[a]]
  /\ \E traded \in SUBSET {a \in Assets : bars[a] # "none"} :  \* with some volume
       observed' = [a \in Assets |->
         IF a \in traded THEN Newest(observed[a] \cup {session}) ELSE observed[a]]
  /\ overnight' = shares
  /\ pc' = "marked" /\ bars' = NoBars /\ target' = {} /\ acted' = 0
  /\ UNCHANGED <<session, books>>

CorporateAction ==
  \E a \in Assets :
    \/ Split(a)
    \/ \E amount \in Payments : CashDividend(a, amount) \/ PayOut(a, amount)
Next == OpenSession \/ CorporateAction \/ Rebalance \/ Mark

Spec == Init /\ [][Next]_vars

-----------------------------------------------------------------------------
\* Types of the day, the books, the quotes and the histories.
TypeOK ==
  /\ session \in 0..MaxSession
  /\ pc \in {"marked", "actions", "mark"}
  /\ bars \in [Assets -> {"none", "halted", "tradable"}]
  /\ target \in SUBSET [signal : 0..MaxSession, known : 0..MaxSession]
  /\ acted \in 0..MaxActions
  /\ shares \in [Assets -> 0..MaxShares]
  /\ cash \in Nat /\ basis \in [Assets -> Nat]
  /\ realized \in Int /\ dividends \in Nat /\ costs \in Nat
  /\ holding \in [Assets -> 0..MaxSession] /\ opened \in [Assets -> 0..MaxSession]
  /\ stale \in [Assets -> Nat] /\ quoted \in [Assets -> 0..MaxSession]
  /\ observed \in [Assets -> SUBSET Sessions]
  /\ overnight \in [Assets -> 0..MaxShares]

\* Through splits, dividends, mergers, partial sales and additions, the profit
\* reported is the profit made: what the run has is what it began with, plus
\* what sales and dividends brought, less the costs.
ProfitReconciles ==
  cash + SumFunction(basis) = Capital + realized + dividends - costs

\* A position is valued at a close as old as its staleness says, at most
\* MaxStale sessions, and its holding period is the time since it was opened,
\* also when an asset is sold out or merged away and bought again; what is not
\* held leaves nothing on the books.
HeldIsAccounted ==
  \A a \in Assets :
    IF a \in Held
    THEN /\ holding[a] = session - opened[a]
         /\ pc = "marked" => /\ quoted[a] \in opened[a]..session
                             /\ stale[a] = session - quoted[a]
                             /\ stale[a] <= MaxStale
    ELSE basis[a] = 0 /\ holding[a] = 0

\* A dividend is paid for every share held over night, in the units of the day,
\* also for those the session's target sells, and for none that it buys.
DividendsAreOvernight ==
  [][\A a \in Assets, amount \in Payments : CashDividend(a, amount) =>
       dividends' - dividends = overnight[a] * amount]_vars

\* A trade relies on the past alone: its signal and its universe were known at
\* the close before, and so was every volume its size is checked against.
TradesOnThePast ==
  [][\A a \in Assets : pc = "actions" /\ pc' = "mark" /\ shares'[a] # shares[a] =>
       /\ \E t \in target : t.signal < session /\ t.known <= t.signal
       /\ observed[a] # {} /\ \A s \in observed[a] : s < session]_vars

=============================================================================
