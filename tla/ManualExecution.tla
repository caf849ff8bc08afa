-------------------------- MODULE ManualExecution --------------------------
(***************************************************************************)
(* Manual execution of reviewed recommendations for one USD portfolio:      *)
(* review, order, fills, ledger, dated position snapshots and cash.         *)
(* Every action is one console command.  ApplicationService runs it in one  *)
(* database transaction (sessionmaker.begin()), so a handler that raises     *)
(* changes nothing and is not an action here; its refusals are the guards.   *)
(* Two commands that interleave are the subject of ConsoleSessions.         *)
(*                                                                         *)
(* Abstracted: share counts and money are whole numbers (Numeric(24,8) and  *)
(* Numeric(24,4) in the database), an execution time is its trade date, and  *)
(* average cost, settlement date, slippage metrics and notes are left out.   *)
(* The operators named Bug... are what plausible mistakes would make of the  *)
(* definition that follows them: the invariants must reject each of them.    *)
(***************************************************************************)
EXTENDS Integers, FiniteSets, Functions

CONSTANTS
  Recs,            \* QuantDecisionRecommendation rows
  Stocks,          \* active US securities
  FillIds,         \* fill identities the user can enter, "legacy:<rec>" included
  MaxDate,         \* bound: last date of the model
  Quantities,      \* share counts the user can enter
  Prices, Fees,    \* execution prices and fees the user can enter
  Balances,        \* cash balances the user can enter
  StockOf,         \* [Recs -> Stocks]
  SideOf,          \* [Recs -> {"BUY", "SELL", "NONE"}]: ADD buys, REDUCE sells,
                   \*   HOLD and the like have no executable order
  Suggested,       \* [Recs -> Nat]: abs(suggested_shares)
  GateApproved,    \* recommendations whose run has gate_status APPROVED
  Earliest,        \* [Recs -> Dates]: earliest_execution_time
  Expires,         \* [Recs -> Dates]: expires_at
  ClosedDates,     \* dates whose entered time is no eligible US session
  InitialCash,     \* cash entered at portfolio-init
  InitialHoldings  \* [Stocks -> Nat]: positions entered at portfolio-init

Dates == 1..MaxDate
NoCash == -1       \* no cash balance given

ASSUME BoundsAssumption ==
  /\ MaxDate \in Nat \ {0}
  /\ Quantities \subseteq Nat \ {0}
  /\ Prices \subseteq Nat \ {0}
  /\ Fees \subseteq Nat
  /\ Balances \subseteq Nat
ASSUME RecommendationAssumption ==
  /\ StockOf \in [Recs -> Stocks]
  /\ SideOf \in [Recs -> {"BUY", "SELL", "NONE"}]
  /\ Suggested \in [Recs -> Nat]
  /\ GateApproved \subseteq Recs
  /\ Earliest \in [Recs -> Dates]
  /\ Expires \in [Recs -> Dates]
ASSUME PortfolioAssumption ==
  /\ InitialCash \in Nat
  /\ InitialHoldings \in [Stocks -> Nat]

VARIABLES
  today,      \* wall-clock date
  review,     \* review_status of each recommendation
  order,      \* manual_execution_orders_v2, at most one per recommendation
  filled,     \* SUM(quantity) over the order's fill rows
  fills,      \* fill rows, each with the buy/sell ledger row written with it
  cashEvents, \* deposit and withdrawal rows of the ledger
  positions,  \* portfolio_positions: dated snapshot rows
  cash        \* portfolios.cash_balance

vars == <<today, review, order, filled, fills, cashEvents, positions, cash>>
ledgerVars == <<filled, fills, cashEvents>>

-----------------------------------------------------------------------------
(* Rows *)

ReviewStatus == {"pending", "accepted", "rejected", "watch"}
OrderStatus == {"NONE", "PENDING", "PARTIAL", "FILLED", "CANCELLED", "MODIFIED"}
Order == [status : OrderStatus, approved : Nat, original : Nat]
Fill == [id : FillIds, rec : Recs, qty : Nat \ {0}, price : Nat \ {0},
         fee : Nat, date : Dates]
CashEvent == [source : {"initial", "update"}, date : Dates, balance : Nat,
              amount : Int]
Position == [stock : Stocks, date : Dates, qty : Nat \ {0}]

NoOrder == [status |-> "NONE", approved |-> 0, original |-> 0]
NewOrder(r) ==
  [status |-> "PENDING", approved |-> Suggested[r], original |-> Suggested[r]]

HasOrder(r) == order[r].status # "NONE"

\* ensure_order accepts the recommendation.
Executable(r) ==
  /\ review[r] = "accepted"
  /\ r \in GateApproved
  /\ SideOf[r] # "NONE"
  /\ Suggested[r] > 0

\* The order every handler works on: the stored one, else a new one.
OrderFor(r) == IF HasOrder(r) THEN order[r] ELSE NewOrder(r)

\* The rows of the latest snapshot date: what portfolio-show prints.
LatestRows == {x \in positions : \A y \in positions : y.date <= x.date}

RowsFor(date, holdings) ==
  {[stock |-> s, date |-> date, qty |-> holdings[s]] :
     s \in {t \in Stocks : holdings[t] > 0}}

Gross(x) == x.qty * x.price
CashEffect(x) ==
  IF SideOf[x.rec] = "BUY" THEN - (Gross(x) + x.fee) ELSE Gross(x) - x.fee

-----------------------------------------------------------------------------
(* create_portfolio_with_positions, then a decision run saved for review *)

Init ==
  /\ today = 1
  /\ review = [r \in Recs |-> "pending"]
  /\ order = [r \in Recs |-> NoOrder]
  /\ filled = [r \in Recs |-> 0]
  /\ fills = {}
  /\ cashEvents = IF InitialCash > 0
                  THEN {[source |-> "initial", date |-> 1,
                         balance |-> InitialCash, amount |-> InitialCash]}
                  ELSE {}
  /\ positions = RowsFor(1, InitialHoldings)
  /\ cash = InitialCash

Tick ==
  /\ today < MaxDate
  /\ today' = today + 1
  /\ UNCHANGED <<review, order, ledgerVars, positions, cash>>

-----------------------------------------------------------------------------
(* Review.  A second review with the same decision returns the first one, *)
(* with another decision it is refused: neither changes anything.         *)

MayDecide(r, decision) ==
  /\ review[r] = "pending"
  /\ decision = "accepted" => today <= Expires[r]

\* ApplicationService._review: the console's accept, reject and watch.
ReviewFromConsole(r) ==
  /\ \E decision \in ReviewStatus \ {"pending"} :
       /\ MayDecide(r, decision)
       /\ review' = [review EXCEPT ![r] = decision]
  /\ UNCHANGED <<today, order, ledgerVars, positions, cash>>

\* ensure_order returns the stored order, if there is one.
BugAcceptedOrder(r) == NewOrder(r)
AcceptedOrder(r) == OrderFor(r)

\* DecisionService.review with ACCEPTED: also ensures the order, on a first
\* and on a repeated acceptance; a refusal of the order undoes the review.
BugAcceptWithOrder(r) ==      \* no gate check
  /\ MayDecide(r, "accepted")
  /\ SideOf[r] # "NONE"
  /\ review' = [review EXCEPT ![r] = "accepted"]
  /\ order' = [order EXCEPT ![r] = NewOrder(r)]
  /\ UNCHANGED <<today, ledgerVars, positions, cash>>
AcceptWithOrder(r) ==
  /\ \/ MayDecide(r, "accepted")
     \/ review[r] = "accepted"
  /\ SideOf[r] # "NONE" => r \in GateApproved /\ Suggested[r] > 0
  /\ review' = [review EXCEPT ![r] = "accepted"]
  /\ order' = IF SideOf[r] = "NONE" THEN order
              ELSE [order EXCEPT ![r] = AcceptedOrder(r)]
  /\ UNCHANGED <<today, ledgerVars, positions, cash>>

-----------------------------------------------------------------------------
(* mark_candidate_executed -> mark_executed -> record_fill *)

\* A fill behind a newer snapshot is refused.
BugPredates(x) == FALSE
Predates(x) == \E row \in positions : row.date > x.date

\* The latest snapshot, rolled forward to the trade date.
Rolled(x) == {[row EXCEPT !.date = x.date] : row \in LatestRows}

BugAffordable(x) == cash >= Gross(x)
Affordable(x) == cash >= Gross(x) + x.fee

\* What a sell leaves of a row: a row sold out is deleted.
Rest(row, qty) == IF row.qty = qty THEN {} ELSE {[row EXCEPT !.qty = @ - qty]}

\* apply_trade_to_current_snapshot: roll the latest snapshot forward, then buy
\* with recorded cash or sell recorded shares.
ApplyTrade(x) ==
  LET s == StockOf[x.rec]
      book == positions \cup Rolled(x)
      held == {row \in Rolled(x) : row.stock = s}
  IN  /\ ~Predates(x)
      /\ IF SideOf[x.rec] = "BUY"
         THEN /\ Affordable(x)
              /\ \/ /\ held = {}
                    /\ positions' = book \cup
                         {[stock |-> s, date |-> x.date, qty |-> x.qty]}
                 \/ \E row \in held :
                      positions' = (book \ {row}) \cup
                                     {[row EXCEPT !.qty = @ + x.qty]}
         ELSE \E row \in held :
                /\ row.qty >= x.qty
                /\ positions' = (book \ {row}) \cup Rest(row, x.qty)
      /\ cash' = cash + CashEffect(x)

\* A known fill_id is a replay (same payload) or an error, and changes nothing.
BugAnyFill(x) == TRUE
NewFill(x) == \A y \in fills : y.id # x.id

\* Cumulative fills stay within the approval.
BugFits(x) == x.qty <= OrderFor(x.rec).approved
Fits(x) == filled[x.rec] + x.qty <= OrderFor(x.rec).approved

BugClosedStatus == {"FILLED"}
ClosedStatus == {"FILLED", "CANCELLED"}

RecordFill(x) ==
  LET r == x.rec
      o == OrderFor(r)
      total == filled[r] + x.qty
  IN  /\ NewFill(x)
      /\ Executable(r)
      /\ o.status \notin ClosedStatus
      /\ Fits(x)
      /\ x.date >= Earliest[r]
      /\ x.date \notin ClosedDates
      /\ ApplyTrade(x)
      /\ fills' = fills \cup {x}
      /\ filled' = [filled EXCEPT ![r] = total]
      /\ order' = [order EXCEPT ![r] =
                     [o EXCEPT !.status = IF total = o.approved
                                          THEN "FILLED" ELSE "PARTIAL"]]
      /\ UNCHANGED <<today, review, cashEvents>>

\* What the user can report.
Submission ==
  [id : FillIds, rec : Recs, qty : Quantities, price : Prices, fee : Fees,
   date : Dates]

-----------------------------------------------------------------------------
(* cancel_candidate_execution and modify_candidate_execution *)

BugCancel(r) ==               \* FILLED not refused
  /\ HasOrder(r) \/ Executable(r)
  /\ order' = [order EXCEPT ![r] = [OrderFor(r) EXCEPT !.status = "CANCELLED"]]
  /\ UNCHANGED <<today, review, ledgerVars, positions, cash>>
Cancel(r) ==
  /\ HasOrder(r) \/ Executable(r)
  /\ OrderFor(r).status # "FILLED"
  /\ order' = [order EXCEPT ![r] = [OrderFor(r) EXCEPT !.status = "CANCELLED"]]
  /\ UNCHANGED <<today, review, ledgerVars, positions, cash>>

ModifyQuantity(r, proposed) ==
  LET o == OrderFor(r)
  IN  /\ HasOrder(r) \/ Executable(r)
      /\ filled[r] <= proposed
      /\ proposed <= o.original
      /\ o.status \notin ClosedStatus
      /\ order' = [order EXCEPT ![r] =
                     [o EXCEPT !.approved = proposed,
                               !.status = IF proposed = filled[r]
                                          THEN "FILLED" ELSE "MODIFIED"]]
      /\ UNCHANGED <<today, review, ledgerVars, positions, cash>>

-----------------------------------------------------------------------------
(* Snapshots entered by hand or imported from a broker's CSV *)

BugKept(date) == positions
Kept(date) == {x \in positions : x.date # date}

\* import_snapshot: the rows of the given date, and of no other, are replaced.
ImportSnapshot(date, holdings, balance) ==
  /\ date <= today
  /\ positions' = Kept(date) \cup RowsFor(date, holdings)
  /\ cash' = IF balance = NoCash THEN cash ELSE balance

\* The deposit or withdrawal is the change of the balance.
BugDelta(balance) == balance
Delta(balance) == balance - cash

\* update_portfolio_snapshot: a changed balance is booked as a deposit or a
\* withdrawal; its external id, made of the date and the balance, is unique.
UpdateSnapshot(date, holdings, balance) ==
  LET booked == [source |-> "update", date |-> date, balance |-> balance,
                 amount |-> Delta(balance)]
  IN  /\ \/ /\ balance \in {NoCash, cash}
            /\ cashEvents' = cashEvents
         \/ /\ balance \notin {NoCash, cash}
            /\ ~ \E e \in cashEvents : /\ e.source = "update"
                                       /\ e.date = date
                                       /\ e.balance = balance
            /\ cashEvents' = cashEvents \cup {booked}
      /\ ImportSnapshot(date, holdings, balance)
      /\ UNCHANGED <<today, review, order, filled, fills>>

\* import_portfolio_csv: the file holds a position or a cash row.
ImportCsv(date, holdings, balance) ==
  /\ balance # NoCash \/ \E s \in Stocks : holdings[s] > 0
  /\ ImportSnapshot(date, holdings, balance)
  /\ UNCHANGED <<today, review, order, ledgerVars>>

-----------------------------------------------------------------------------
(* Next-state relations, without and with entered snapshots *)

ReviewStep == \E r \in Recs : ReviewFromConsole(r) \/ AcceptWithOrder(r)
OrderStep ==
  \E r \in Recs : \/ Cancel(r)
                  \/ \E q \in Quantities : ModifyQuantity(r, q)
FillStep == \E x \in Submission : RecordFill(x)
FillNext == Tick \/ ReviewStep \/ OrderStep \/ FillStep

Holdings == [Stocks -> Quantities \cup {0}]
UpdateStep ==
  \E d \in Dates, h \in Holdings, b \in Balances \cup {NoCash} :
    UpdateSnapshot(d, h, b)
CsvStep ==
  \E d \in Dates, h \in Holdings, b \in Balances \cup {NoCash} :
    ImportCsv(d, h, b)
Next == FillNext \/ UpdateStep \/ CsvStep

FillSpec == Init /\ [][FillNext]_vars     \* no snapshot is entered
LedgerSpec == Init /\ [][FillNext \/ UpdateStep]_vars   \* no CSV is imported
Spec == Init /\ [][Next]_vars

-----------------------------------------------------------------------------
(* Invariants *)

\* Types of the tables.
TypeOK ==
  /\ today \in Dates
  /\ review \in [Recs -> ReviewStatus]
  /\ order \in [Recs -> Order]
  /\ filled \in [Recs -> Nat]
  /\ fills \subseteq Fill
  /\ cashEvents \subseteq CashEvent
  /\ positions \subseteq Position
  /\ cash \in Int

\* However fills, cancellations and quantity changes interleave, an order
\* never holds more fills than it approves nor approves more than the
\* recommendation suggested (record_fill, modify_quantity).
FilledWithinApproval ==
  \A r \in Recs :
    /\ filled[r] <= order[r].approved
    /\ order[r].approved <= order[r].original
    /\ HasOrder(r) => order[r].original = Suggested[r]

\* The status shown to the user tells the truth about the fills: FILLED is
\* exactly "everything approved is filled", an order that is PENDING has no
\* fill, PARTIAL has some (record_fill, cancel, modify_quantity).
StatusMatchesFills ==
  \A r \in Recs :
    LET o == order[r]
    IN  /\ HasOrder(r) => (o.status = "FILLED" <=> filled[r] = o.approved)
        /\ o.status \in {"NONE", "PENDING"} => filled[r] = 0
        /\ o.status = "PARTIAL" => filled[r] > 0

\* An order, and so any fill, stems from a recommendation the user accepted
\* and whose run passed the data gate, and the decision is never taken back.
OnlyApprovedIsExecuted ==
  /\ \A r \in Recs : HasOrder(r) => Executable(r)
  /\ \A x \in fills : HasOrder(x.rec)

\* One row per key: a fill id is recorded once, a stock has one row per
\* snapshot date, a manual cash update one event per date and balance.
UniqueKeys ==
  /\ \A x, y \in fills : x.id = y.id => x = y
  /\ \A x, y \in positions :
       x.stock = y.stock /\ x.date = y.date => x = y
  /\ \A d, e \in cashEvents :
       d.source = e.source /\ d.date = e.date /\ d.balance = e.balance => d = e

\* Recorded cash goes below zero only after a sell whose fee exceeds its
\* proceeds: buys are checked against the balance, entered balances are
\* not negative (apply_trade_to_current_snapshot, import_snapshot).
NegativeCashHasASellFee ==
  cash < 0 => \E x \in fills : SideOf[x.rec] = "SELL" /\ x.fee > Gross(x)

\* The conjunction the proofs use: every step preserves it.
IInv ==
  /\ TypeOK
  /\ FilledWithinApproval
  /\ StatusMatchesFills
  /\ OnlyApprovedIsExecuted
  /\ UniqueKeys
  /\ NegativeCashHasASellFee

\* `filled` is what _filled_quantity computes from the order's fill rows.
FilledIsSumOfRows ==
  \A r \in Recs :
    filled[r] = SumFunction([x \in {y \in fills : y.rec = r} |-> x.qty])

\* Shares of a stock that fills of one side have traded.
TradedRows(s, side) == {x \in fills : StockOf[x.rec] = s /\ SideOf[x.rec] = side}
Traded(s, side) == SumFunction([x \in TradedRows(s, side) |-> x.qty])

\* Shares sold are shares held: what was entered at initialisation plus what
\* was bought covers what was sold, for every stock, as long as no snapshot
\* is entered (test_manual_sell_updates_cash_and_snapshot_without_allowing_
\* oversell).
NoOversell ==
  \A s \in Stocks : Traded(s, "SELL") <= InitialHoldings[s] + Traded(s, "BUY")

\* The balance is what the ledger rows add up to, as long as no CSV sets it.
BalanceIsLedger ==
  cash = SumFunction([x \in fills |-> CashEffect(x)])
           + SumFunction([e \in cashEvents |-> e.amount])

-----------------------------------------------------------------------------
(* Action properties *)

\* Once FILLED or CANCELLED an order is frozen, and so are its fills: no late
\* fill, no reopening by a modification, no cancelled order filled after all.
ClosedOrderIsFinal ==
  [][\A r \in Recs :
       order[r].status \in {"FILLED", "CANCELLED"} =>
         order'[r] = order[r] /\ filled'[r] = filled[r]]_vars

\* Cash moves only together with one new ledger row, and by that row's
\* effect; and no ledger row is written without moving the cash by it: so the
\* balance stays what the ledger adds up to.  Exempt is the CSV import, which
\* sets the balance and writes no row (import_portfolio_csv).
CashStep ==
  \/ UNCHANGED <<cash, fills, cashEvents>>
  \/ \E x \in fills' \ fills :
       /\ fills' = fills \cup {x}
       /\ cashEvents' = cashEvents
       /\ cash' = cash + CashEffect(x)
  \/ \E e \in cashEvents' \ cashEvents :
       /\ cashEvents' = cashEvents \cup {e}
       /\ fills' = fills
       /\ cash' = cash + e.amount
CashMovesWithLedger == [][CashStep \/ CsvStep]_vars

Held(rows, s) == {x.qty : x \in {y \in rows : y.stock = s}}
Shown(s) ==
  IF Held(LatestRows, s) = {} THEN 0 ELSE CHOOSE q \in Held(LatestRows, s) : TRUE
HeldAfter(s, x) ==
  IF SideOf[x.rec] = "BUY" THEN Shown(s) + x.qty ELSE Shown(s) - x.qty

\* A fill changes the holdings shown by exactly its own trade: the traded
\* stock by the filled quantity, every other stock not at all, also when the
\* snapshot is rolled forward to a later date.  Exempt is the sale that leaves
\* its date without a row: then the rows of an older date show again
\* (NoOversell).
FillMovesHoldingsByItsTrade ==
  [][\A x \in fills' \ fills :
       (\E row \in positions' : row.date = x.date) =>
         \A s \in Stocks :
           Held(LatestRows', s) =
             IF s # StockOf[x.rec] THEN Held(LatestRows, s)
             ELSE IF HeldAfter(s, x) = 0 THEN {} ELSE {HeldAfter(s, x)}]_vars

\* What the exempt sale does not do, and what holds without it: the shares
\* shown are the shares the ledger leaves.
RowKept == \A x \in fills' \ fills : \E row \in positions' : row.date = x.date
ShownIsLedger ==
  \A s \in Stocks :
    Shown(s) = InitialHoldings[s] + Traded(s, "BUY") - Traded(s, "SELL")

-----------------------------------------------------------------------------
(* Refinement *)

Promise == INSTANCE ApprovedExecution WITH
  Tradable <- {r \in GateApproved : SideOf[r] # "NONE" /\ Suggested[r] > 0},
  decision <- review,
  cap <- [r \in Recs |-> OrderFor(r).approved],
  done <- filled,
  closed <- {r \in Recs : order[r].status \in {"FILLED", "CANCELLED"}}

\* Orders, ledger and snapshots implement the promise made to the user.
KeepsPromise == Promise!AbsSpec

=============================================================================
