----------------------- MODULE ManualExecutionProofs -----------------------
(***************************************************************************)
(* Proofs about ManualExecution, for every portfolio, every set of          *)
(* recommendations and every bound.  IInv is inductive: it is proved for     *)
(* Init and for each action of Next, and the theorems follow from it: those  *)
(* about the balance, the filled quantities and the holdings with the facts  *)
(* of SumTheorems, the last one with the refinement of ApprovedExecution.    *)
(***************************************************************************)
EXTENDS ManualExecution, FiniteSetTheorems, SumTheorems, TLAPS

-----------------------------------------------------------------------------
(* Lemmas about the helpers *)

\* A new order approves the suggestion; the order a handler works on is
\* well-typed, and within the bounds IInv gives.
LEMMA NewOrderType ==
  ASSUME NEW r \in Recs
  PROVE  /\ NewOrder(r) \in Order
         /\ NewOrder(r).status = "PENDING"
         /\ NewOrder(r).approved = Suggested[r]
         /\ NewOrder(r).original = Suggested[r]
BY RecommendationAssumption DEF NewOrder, Order, OrderStatus

LEMMA OrderForFacts ==
  ASSUME IInv, NEW r \in Recs
  PROVE  /\ OrderFor(r) \in Order
         /\ OrderFor(r).status # "NONE"
         /\ filled[r] \in Nat
         /\ filled[r] <= OrderFor(r).approved
         /\ OrderFor(r).approved <= OrderFor(r).original
         /\ OrderFor(r).original = Suggested[r]
         /\ OrderFor(r).status = "PENDING" => filled[r] = 0
<1>1. /\ order[r] \in Order
      /\ filled[r] \in Nat
  BY DEF IInv, TypeOK
<1>2. CASE HasOrder(r)
  BY <1>1, <1>2 DEF OrderFor, HasOrder, IInv, FilledWithinApproval, StatusMatchesFills
<1>3. CASE ~HasOrder(r)
  <2>1. filled[r] = 0
    BY <1>3 DEF HasOrder, IInv, StatusMatchesFills
  <2>2. Suggested[r] \in Nat
    BY RecommendationAssumption
  <2>3. QED
    BY <1>3, <2>1, <2>2, NewOrderType DEF OrderFor, HasOrder
<1>4. QED
  BY <1>2, <1>3

\* Rows entered for a date are well-typed and have one row per stock.
LEMMA RowsForType ==
  ASSUME NEW d \in Dates, NEW h \in [Stocks -> Nat]
  PROVE  /\ RowsFor(d, h) \subseteq Position
         /\ \A x, y \in RowsFor(d, h) : x.stock = y.stock => x = y
         /\ \A x \in RowsFor(d, h) : x.date = d
BY DEF RowsFor, Position

LEMMA HoldingsType == Holdings \subseteq [Stocks -> Nat]
<1> SUFFICES ASSUME NEW h \in Holdings PROVE h \in [Stocks -> Nat]
  OBVIOUS
<1>1. \A q \in Quantities \cup {0} : q \in Nat
  BY BoundsAssumption
<1>2. QED
  BY <1>1 DEF Holdings

-----------------------------------------------------------------------------
(* Initial states *)

LEMMA InitIInv == Init => IInv
<1> SUFFICES ASSUME Init PROVE IInv
  OBVIOUS
<1>1. 1 \in Dates
  BY BoundsAssumption DEF Dates
<1>2. /\ positions \subseteq Position
      /\ \A x, y \in positions : x.stock = y.stock => x = y
  BY <1>1, RowsForType, PortfolioAssumption DEF Init
<1>3. cashEvents \subseteq CashEvent
  BY <1>1, PortfolioAssumption DEF Init, CashEvent
<1>4. TypeOK
  BY <1>1, <1>2, <1>3, PortfolioAssumption
  DEF Init, TypeOK, ReviewStatus, Order, OrderStatus, NoOrder
<1>5. FilledWithinApproval /\ StatusMatchesFills /\ OnlyApprovedIsExecuted
  BY DEF Init, FilledWithinApproval, StatusMatchesFills, OnlyApprovedIsExecuted,
         HasOrder, NoOrder
<1>6. UniqueKeys
  BY <1>2 DEF Init, UniqueKeys
<1>7. NegativeCashHasASellFee
  BY PortfolioAssumption DEF Init, NegativeCashHasASellFee
<1>8. QED
  BY <1>4, <1>5, <1>6, <1>7 DEF IInv

-----------------------------------------------------------------------------
(* Steps that change the review or an order *)

LEMMA TickStep == IInv /\ Tick => IInv'
<1> SUFFICES ASSUME IInv, Tick PROVE IInv'
  OBVIOUS
<1>1. today' \in Dates
  BY BoundsAssumption DEF Tick, IInv, TypeOK, Dates
<1>2. QED
  BY <1>1
  DEF Tick, ledgerVars, IInv, TypeOK, FilledWithinApproval, StatusMatchesFills,
      OnlyApprovedIsExecuted, UniqueKeys, NegativeCashHasASellFee, HasOrder,
      Executable

LEMMA ReviewFromConsoleStep ==
  ASSUME NEW r \in Recs, IInv, ReviewFromConsole(r)
  PROVE  IInv'
<1>1. PICK decision \in ReviewStatus \ {"pending"} :
        /\ MayDecide(r, decision)
        /\ review' = [review EXCEPT ![r] = decision]
  BY DEF ReviewFromConsole
<1>2. UNCHANGED <<today, order, filled, fills, cashEvents, positions, cash>>
  BY DEF ReviewFromConsole, ledgerVars
<1>3. ~HasOrder(r)
  BY <1>1 DEF MayDecide, IInv, OnlyApprovedIsExecuted, Executable
<1>4. TypeOK'
  BY <1>1, <1>2 DEF IInv, TypeOK
<1>5. OnlyApprovedIsExecuted'
  BY <1>1, <1>2, <1>3 DEF IInv, TypeOK, OnlyApprovedIsExecuted, HasOrder, Executable
<1>6. QED
  BY <1>2, <1>4, <1>5
  DEF IInv, FilledWithinApproval, StatusMatchesFills, UniqueKeys,
      NegativeCashHasASellFee, HasOrder

\* A handler that rewrites the order of an executable recommendation and
\* leaves the fills alone keeps the invariant when the new order does.
LEMMA OrderStep0 ==
  ASSUME IInv, NEW r \in Recs, NEW o \in Order,
         UNCHANGED <<today, filled, fills, cashEvents, positions, cash>>,
         review' \in [Recs -> ReviewStatus],
         \A s \in Recs : review[s] = "accepted" => review'[s] = "accepted",
         review'[r] = "accepted", r \in GateApproved, SideOf[r] # "NONE",
         Suggested[r] > 0,
         order' = [order EXCEPT ![r] = o],
         o.status # "NONE",
         filled[r] <= o.approved, o.approved <= o.original,
         o.original = Suggested[r],
         o.status = "FILLED" <=> filled[r] = o.approved,
         o.status = "PENDING" => filled[r] = 0,
         o.status = "PARTIAL" => filled[r] > 0
  PROVE  IInv'
<1>1. TypeOK'
  BY DEF IInv, TypeOK
<1>2. order \in [Recs -> Order]
  BY DEF IInv, TypeOK
<1>3. FilledWithinApproval'
  BY <1>2 DEF IInv, FilledWithinApproval, HasOrder
<1>4. StatusMatchesFills'
  BY <1>2 DEF IInv, StatusMatchesFills, HasOrder
<1>5. OnlyApprovedIsExecuted'
  <2>1. \A s \in Recs : HasOrder(s)' => Executable(s)'
    BY <1>2 DEF IInv, OnlyApprovedIsExecuted, HasOrder, Executable
  <2>2. \A x \in fills : HasOrder(x.rec)'
    BY <1>2 DEF IInv, TypeOK, Fill, OnlyApprovedIsExecuted, HasOrder
  <2>3. QED
    BY <2>1, <2>2 DEF OnlyApprovedIsExecuted
<1>6. UniqueKeys' /\ NegativeCashHasASellFee'
  BY DEF IInv, UniqueKeys, NegativeCashHasASellFee
<1>7. QED
  BY <1>1, <1>3, <1>4, <1>5, <1>6 DEF IInv

LEMMA AcceptWithOrderStep ==
  ASSUME NEW r \in Recs, IInv, AcceptWithOrder(r)
  PROVE  IInv'
<1>1. review' = [review EXCEPT ![r] = "accepted"]
  BY DEF AcceptWithOrder
<1>2. UNCHANGED <<today, filled, fills, cashEvents, positions, cash>>
  BY DEF AcceptWithOrder, ledgerVars
<1>3. review \in [Recs -> ReviewStatus]
  BY DEF IInv, TypeOK
<1>4. review' \in [Recs -> ReviewStatus]
  BY <1>1, <1>3 DEF ReviewStatus
<1>5. \A s \in Recs : review[s] = "accepted" => review'[s] = "accepted"
  BY <1>1, <1>3
<1>6. CASE SideOf[r] = "NONE"
  <2>1. order' = order
    BY <1>6 DEF AcceptWithOrder
  <2>2. TypeOK'
    BY <1>2, <1>4, <2>1 DEF IInv, TypeOK
  <2>3. OnlyApprovedIsExecuted'
    BY <1>2, <1>5, <2>1
    DEF IInv, TypeOK, OnlyApprovedIsExecuted, HasOrder, Executable
  <2>4. QED
    BY <1>2, <2>1, <2>2, <2>3
    DEF IInv, FilledWithinApproval, StatusMatchesFills, UniqueKeys,
        NegativeCashHasASellFee, HasOrder
<1>7. CASE SideOf[r] # "NONE"
  <2> DEFINE o == OrderFor(r)
  <2>1. /\ r \in GateApproved
        /\ Suggested[r] > 0
        /\ order' = [order EXCEPT ![r] = o]
    BY <1>7 DEF AcceptWithOrder, AcceptedOrder
  <2>2. review'[r] = "accepted"
    BY <1>1, <1>3
  <2>3. /\ o.status = "FILLED" <=> filled[r] = o.approved
        /\ o.status = "PARTIAL" => filled[r] > 0
    BY <2>1, OrderForFacts, NewOrderType
    DEF OrderFor, HasOrder, IInv, StatusMatchesFills
  <2>4. QED
    BY <1>2, <1>4, <1>5, <1>7, <2>1, <2>2, <2>3, OrderForFacts, OrderStep0
<1>8. QED
  BY <1>6, <1>7

\* What every handler that finds or creates an order may rely on.
LEMMA OrderIsExecutable ==
  ASSUME IInv, NEW r \in Recs, HasOrder(r) \/ Executable(r)
  PROVE  Executable(r)
BY DEF IInv, OnlyApprovedIsExecuted

LEMMA CancelStep ==
  ASSUME NEW r \in Recs, IInv, Cancel(r)
  PROVE  IInv'
<1> DEFINE o == [OrderFor(r) EXCEPT !.status = "CANCELLED"]
<1>1. Executable(r)
  BY OrderIsExecutable DEF Cancel
<1>2. /\ order' = [order EXCEPT ![r] = o]
      /\ OrderFor(r).status # "FILLED"
      /\ UNCHANGED <<today, review, filled, fills, cashEvents, positions, cash>>
  BY DEF Cancel, ledgerVars
<1>3. /\ o \in Order
      /\ o.status = "CANCELLED"
      /\ o.approved = OrderFor(r).approved
      /\ o.original = OrderFor(r).original
  BY OrderForFacts DEF Order, OrderStatus
<1>4. filled[r] # o.approved
  BY <1>1, <1>2, <1>3, OrderForFacts, NewOrderType, RecommendationAssumption
  DEF OrderFor, HasOrder, Executable, IInv, StatusMatchesFills
<1>5. review \in [Recs -> ReviewStatus]
  BY DEF IInv, TypeOK
<1> HIDE DEF o
<1>6. QED
  BY <1>1, <1>2, <1>3, <1>4, <1>5, OrderForFacts, OrderStep0 DEF Executable

LEMMA ModifyQuantityStep ==
  ASSUME NEW r \in Recs, NEW q \in Quantities, IInv, ModifyQuantity(r, q)
  PROVE  IInv'
<1> DEFINE o == [OrderFor(r) EXCEPT !.approved = q,
                   !.status = IF q = filled[r] THEN "FILLED" ELSE "MODIFIED"]
<1>1. Executable(r)
  BY OrderIsExecutable DEF ModifyQuantity
<1>2. /\ order' = [order EXCEPT ![r] = o]
      /\ filled[r] <= q
      /\ q <= OrderFor(r).original
      /\ UNCHANGED <<today, review, filled, fills, cashEvents, positions, cash>>
  BY DEF ModifyQuantity, ledgerVars
<1>3. /\ o \in Order
      /\ o.status = IF q = filled[r] THEN "FILLED" ELSE "MODIFIED"
      /\ o.approved = q
      /\ o.original = OrderFor(r).original
  BY OrderForFacts, BoundsAssumption DEF Order, OrderStatus
<1>4. review \in [Recs -> ReviewStatus]
  BY DEF IInv, TypeOK
<1> HIDE DEF o
<1>5. QED
  BY <1>1, <1>2, <1>3, <1>4, OrderForFacts, OrderStep0 DEF Executable

-----------------------------------------------------------------------------
(* The fill *)

LEMMA SubmissionIsFill == Submission \subseteq Fill
BY BoundsAssumption DEF Submission, Fill

\* A fill and its cash effect are numbers.
LEMMA GrossType ==
  ASSUME NEW x \in Fill
  PROVE  /\ Gross(x) \in Nat
         /\ x.fee \in Nat
         /\ x.qty \in Nat \ {0}
         /\ x.rec \in Recs
         /\ x.date \in Dates
         /\ CashEffect(x) \in Int
<1>1. x.qty \in Nat /\ x.price \in Nat
  BY DEF Fill
<1>2. \A a, b \in Nat : a * b \in Nat
  OBVIOUS
<1>3. Gross(x) \in Nat
  BY <1>1, <1>2 DEF Gross
<1>4. QED
  BY <1>3 DEF Fill, CashEffect

\* What the lemmas about the ledger and the snapshots need of the tables; the
\* console sessions keep it also where they overlap.
BookOK == TypeOK /\ UniqueKeys

LEMMA IInvBook == IInv => BookOK
BY DEF IInv, BookOK

\* Two rows for one stock of the latest snapshot are one row.
LEMMA LatestRowsUnique ==
  ASSUME BookOK, NEW x \in LatestRows, NEW y \in LatestRows, x.stock = y.stock
  PROVE  x = y
<1>1. x \in Position /\ y \in Position
  BY DEF BookOK, TypeOK, LatestRows
<1>2. x.date <= y.date /\ y.date <= x.date
  BY DEF LatestRows
<1>3. x.date \in Int /\ y.date \in Int
  BY <1>1, BoundsAssumption DEF Position, Dates
<1>4. x.date = y.date
  BY <1>2, <1>3
<1>5. QED
  BY <1>4 DEF BookOK, UniqueKeys, LatestRows

\* Rolling the latest snapshot forward keeps types and keys: a row already at
\* the new date is itself one of the latest.
LEMMA RolledBook ==
  ASSUME BookOK, NEW d \in Dates, \A row \in positions : row.date <= d,
         NEW book,
         book = positions \cup {[row EXCEPT !.date = d] : row \in LatestRows}
  PROVE  /\ book \subseteq Position
         /\ \A x, y \in book : x.stock = y.stock /\ x.date = y.date => x = y
<1> DEFINE rolled == {[row EXCEPT !.date = d] : row \in LatestRows}
<1>1. LatestRows \subseteq positions /\ positions \subseteq Position
  BY DEF LatestRows, BookOK, TypeOK
<1>2. \A z \in rolled : \E row \in LatestRows :
        z = [row EXCEPT !.date = d] /\ z.stock = row.stock /\ z.date = d
  BY <1>1 DEF Position
<1>3. rolled \subseteq Position
  BY <1>1 DEF Position
<1>4. \A x \in positions : x.date = d => x \in LatestRows
  BY DEF LatestRows
<1>5. \A x \in positions : x.date = d => [x EXCEPT !.date = d] = x
  BY <1>1 DEF Position
<1>6. ASSUME NEW x \in positions, NEW y \in rolled,
             x.stock = y.stock, x.date = y.date
      PROVE  x = y
  <2>1. PICK row \in LatestRows :
          y = [row EXCEPT !.date = d] /\ y.stock = row.stock /\ y.date = d
    BY <1>2
  <2>2. x \in LatestRows
    BY <1>4, <1>6, <2>1
  <2>3. x = row
    BY <1>6, <2>1, <2>2, LatestRowsUnique
  <2>4. QED
    BY <1>5, <1>6, <2>1, <2>3
<1>7. ASSUME NEW x \in rolled, NEW y \in rolled, x.stock = y.stock
      PROVE  x = y
  <2>1. PICK rx \in LatestRows :
          x = [rx EXCEPT !.date = d] /\ x.stock = rx.stock
    BY <1>2
  <2>2. PICK ry \in LatestRows :
          y = [ry EXCEPT !.date = d] /\ y.stock = ry.stock
    BY <1>2
  <2>3. QED
    BY <1>7, <2>1, <2>2, LatestRowsUnique
<1>8. \A x, y \in positions : x.stock = y.stock /\ x.date = y.date => x = y
  BY DEF BookOK, UniqueKeys
<1>9. book = positions \cup rolled
  OBVIOUS
<1> HIDE DEF rolled
<1>10. QED
  BY <1>1, <1>3, <1>6, <1>7, <1>8, <1>9

\* A trade leaves a well-typed book with one row per stock and date.
LEMMA ApplyTradeBook ==
  ASSUME BookOK, NEW x \in Fill, ApplyTrade(x)
  PROVE  /\ positions' \subseteq Position
         /\ \A p, q \in positions' : p.stock = q.stock /\ p.date = q.date => p = q
<1> DEFINE s == StockOf[x.rec]
           rolled == {[row EXCEPT !.date = x.date] : row \in LatestRows}
           book == positions \cup rolled
           held == {row \in rolled : row.stock = s}
<1>1. \A row \in positions : row.date <= x.date
  BY GrossType, BoundsAssumption
  DEF ApplyTrade, Predates, BookOK, TypeOK, Position, Dates
<1>2. /\ book \subseteq Position
      /\ \A p, q \in book : p.stock = q.stock /\ p.date = q.date => p = q
  <2>1. x.date \in Dates
    BY GrossType
  <2> HIDE DEF book
  <2>2. book = positions \cup {[row EXCEPT !.date = x.date] : row \in LatestRows}
    BY DEF book
  <2>3. QED
    BY <1>1, <2>1, <2>2, RolledBook
<1>3. s \in Stocks
  BY GrossType, RecommendationAssumption
<1>4. /\ \/ /\ SideOf[x.rec] = "BUY"
            /\ held = {}
            /\ positions' = book \cup {[stock |-> s, date |-> x.date, qty |-> x.qty]}
         \/ \E row \in held :
              positions' = (book \ {row}) \cup {[row EXCEPT !.qty = @ + x.qty]}
         \/ \E row \in held :
              /\ row.qty >= x.qty
              /\ positions' = (book \ {row}) \cup
                   IF row.qty = x.qty THEN {} ELSE {[row EXCEPT !.qty = @ - x.qty]}
  BY DEF ApplyTrade, Rolled, Rest
<1>5. \A z \in held : z \in book /\ z \in rolled /\ z.stock = s
  OBVIOUS
<1>6. \A z \in book : z.stock = s /\ z.date = x.date => z \in held
  <2>1. \A z \in positions : z.date = x.date => z \in LatestRows
    BY <1>1 DEF LatestRows
  <2>2. \A z \in positions : z.date = x.date => [z EXCEPT !.date = x.date] = z
    BY DEF BookOK, TypeOK, Position
  <2>3. QED
    BY <2>1, <2>2
<1> HIDE DEF s, rolled, book, held
<1>7. CASE /\ held = {}
           /\ positions' = book \cup {[stock |-> s, date |-> x.date, qty |-> x.qty]}
  <2> DEFINE new == [stock |-> s, date |-> x.date, qty |-> x.qty]
  <2>1. new \in Position /\ new.stock = s /\ new.date = x.date
    BY <1>3, GrossType DEF Position
  <2> HIDE DEF new
  <2>2. positions' = book \cup {new}
    BY <1>7 DEF new
  <2>3. \A z \in book : ~(z.stock = s /\ z.date = x.date)
    BY <1>6, <1>7
  <2>4. QED
    BY <1>2, <2>1, <2>2, <2>3
<1>8. ASSUME NEW row \in held, NEW n \in Nat \ {0},
             positions' = (book \ {row}) \cup {[row EXCEPT !.qty = n]}
      PROVE  /\ positions' \subseteq Position
             /\ \A p, q \in positions' :
                  p.stock = q.stock /\ p.date = q.date => p = q
  <2> DEFINE new == [row EXCEPT !.qty = n]
  <2>1. row \in book /\ row \in Position
    BY <1>2, <1>5
  <2>2. new \in Position /\ new.stock = row.stock /\ new.date = row.date
    BY <2>1 DEF Position
  <2> HIDE DEF new
  <2>3. positions' = (book \ {row}) \cup {new}
    BY <1>8 DEF new
  <2>4. QED
    BY <1>2, <2>1, <2>2, <2>3
<1>9. CASE \E row \in held :
             positions' = (book \ {row}) \cup {[row EXCEPT !.qty = @ + x.qty]}
  <2>1. PICK row \in held :
          positions' = (book \ {row}) \cup {[row EXCEPT !.qty = row.qty + x.qty]}
    BY <1>9
  <2>2. row.qty \in Nat \ {0}
    BY <1>2, <1>5 DEF Position
  <2>3. row.qty + x.qty \in Nat \ {0}
    BY <2>2, GrossType
  <2>4. QED
    BY <1>8, <2>1, <2>3
<1>10. CASE \E row \in held :
              /\ row.qty >= x.qty
              /\ positions' = (book \ {row}) \cup
                   IF row.qty = x.qty THEN {} ELSE {[row EXCEPT !.qty = @ - x.qty]}
  <2>1. PICK row \in held :
          /\ row.qty >= x.qty
          /\ positions' = (book \ {row}) \cup
               IF row.qty = x.qty THEN {}
               ELSE {[row EXCEPT !.qty = row.qty - x.qty]}
    BY <1>10
  <2>2. row.qty \in Nat \ {0}
    BY <1>2, <1>5 DEF Position
  <2>3. CASE row.qty = x.qty
    BY <1>2, <2>1, <2>3
  <2>4. CASE row.qty # x.qty
    <3>1. row.qty - x.qty \in Nat \ {0}
      BY <2>1, <2>2, <2>4, GrossType
    <3>2. QED
      BY <1>8, <2>1, <2>4, <3>1
  <2>5. QED
    BY <2>3, <2>4
<1>11. QED
  BY <1>4, <1>7, <1>9, <1>10

\* A trade moves the cash by its effect; only a sell whose fee exceeds its
\* proceeds can take it below zero.
LEMMA ApplyTradeCash ==
  ASSUME BookOK, NEW x \in Fill, ApplyTrade(x), SideOf[x.rec] # "NONE"
  PROVE  /\ cash' \in Int
         /\ cash' = cash + CashEffect(x)
         /\ cash' < 0 => \/ cash < 0
                         \/ SideOf[x.rec] = "SELL" /\ x.fee > Gross(x)
<1>1. cash \in Int
  BY DEF BookOK, TypeOK
<1>2. cash' = cash + CashEffect(x)
  BY DEF ApplyTrade
<1>3. CASE SideOf[x.rec] = "BUY"
  <2>1. cash >= Gross(x) + x.fee
    BY <1>3 DEF ApplyTrade, Affordable
  <2>2. CashEffect(x) = - (Gross(x) + x.fee)
    BY <1>3 DEF CashEffect
  <2>3. QED
    BY <1>1, <1>2, <2>1, <2>2, GrossType
<1>4. CASE SideOf[x.rec] = "SELL"
  <2>1. CashEffect(x) = Gross(x) - x.fee
    BY <1>4 DEF CashEffect
  <2>2. QED
    BY <1>1, <1>2, <1>4, <2>1, GrossType
<1>5. SideOf[x.rec] \in {"BUY", "SELL"}
  BY GrossType, RecommendationAssumption
<1>6. QED
  BY <1>3, <1>4, <1>5

\* A new fill row, with its trade, keeps the tables typed, their keys unique and
\* the cash funded, whatever becomes of the order.
LEMMA FillKeepsBook ==
  ASSUME BookOK, NegativeCashHasASellFee, NEW x \in Submission,
         SideOf[x.rec] # "NONE", NewFill(x), ApplyTrade(x), fills' = fills \cup {x},
         filled' = [filled EXCEPT ![x.rec] = filled[x.rec] + x.qty],
         order' \in [Recs -> Order], UNCHANGED <<today, review, cashEvents>>
  PROVE  BookOK' /\ NegativeCashHasASellFee'
<1>1. x \in Fill /\ x.rec \in Recs /\ x.qty \in Nat \ {0}
  BY SubmissionIsFill, GrossType
<1>2. /\ filled[x.rec] \in Nat
      /\ filled \in [Recs -> Nat]
      /\ fills \subseteq Fill
  BY <1>1 DEF BookOK, TypeOK
<1>3. filled[x.rec] + x.qty \in Nat
  BY <1>1, <1>2
<1>4. filled' \in [Recs -> Nat] /\ fills' \subseteq Fill
  BY <1>1, <1>2, <1>3
<1>5. TypeOK'
  BY <1>1, <1>4, ApplyTradeBook, ApplyTradeCash DEF BookOK, TypeOK
<1>6. UniqueKeys'
  BY <1>1, ApplyTradeBook DEF BookOK, UniqueKeys, NewFill
<1>7. NegativeCashHasASellFee'
  <2>1. cash' < 0 => \/ cash < 0
                     \/ SideOf[x.rec] = "SELL" /\ x.fee > Gross(x)
    BY <1>1, ApplyTradeCash
  <2>2. QED
    BY <2>1 DEF NegativeCashHasASellFee
<1>8. QED
  BY <1>5, <1>6, <1>7 DEF BookOK

LEMMA RecordFillStep ==
  ASSUME NEW x \in Submission, IInv, RecordFill(x)
  PROVE  IInv'
<1> DEFINE r == x.rec
           total == filled[r] + x.qty
           o == [OrderFor(r) EXCEPT !.status =
                   IF total = OrderFor(r).approved THEN "FILLED" ELSE "PARTIAL"]
<1>1. /\ x \in Fill
      /\ r \in Recs
      /\ x.qty \in Nat \ {0}
  BY SubmissionIsFill, GrossType
<1>2. /\ Executable(r)
      /\ total <= OrderFor(r).approved
      /\ ApplyTrade(x)
      /\ \A y \in fills : y.id # x.id
      /\ fills' = fills \cup {x}
      /\ filled' = [filled EXCEPT ![r] = total]
      /\ order' = [order EXCEPT ![r] = o]
      /\ UNCHANGED <<today, review, cashEvents>>
  BY DEF RecordFill, NewFill, Fits
<1>3. /\ filled[r] \in Nat
      /\ filled \in [Recs -> Nat]
      /\ order \in [Recs -> Order]
  BY <1>1 DEF IInv, TypeOK
<1>4. total \in Nat /\ total > 0
  BY <1>1, <1>3
<1>5. /\ o \in Order
      /\ o.approved = OrderFor(r).approved
      /\ o.original = OrderFor(r).original
      /\ o.status = IF total = OrderFor(r).approved THEN "FILLED" ELSE "PARTIAL"
  BY <1>1, OrderForFacts DEF Order, OrderStatus
<1>6. /\ o.approved <= o.original
      /\ o.original = Suggested[r]
  BY <1>1, <1>5, OrderForFacts
<1>7. SideOf[x.rec] # "NONE"
  BY <1>2 DEF Executable
<1>8. x \in Fill /\ ApplyTrade(x)
  BY <1>1, <1>2
<1> HIDE DEF o, total, r
<1>9. filled'[r] = total /\ order'[r] = o
  BY <1>1, <1>2, <1>3
<1>10. \A s \in Recs : s # r => filled'[s] = filled[s] /\ order'[s] = order[s]
  BY <1>1, <1>2, <1>3
<1>11. BookOK' /\ NegativeCashHasASellFee'
  <2>1. order' \in [Recs -> Order]
    BY <1>1, <1>2, <1>3, <1>5
  <2>2. filled' = [filled EXCEPT ![x.rec] = filled[x.rec] + x.qty]
    BY <1>2 DEF r, total
  <2>3. BookOK /\ NegativeCashHasASellFee
    BY IInvBook DEF IInv
  <2>4. QED
    BY <1>2, <1>7, <1>8, <2>1, <2>2, <2>3, FillKeepsBook DEF NewFill
<1>12. FilledWithinApproval'
  BY <1>2, <1>5, <1>6, <1>9, <1>10 DEF IInv, FilledWithinApproval, HasOrder
<1>13. StatusMatchesFills'
  BY <1>2, <1>4, <1>5, <1>9, <1>10 DEF IInv, StatusMatchesFills, HasOrder
<1>14. OnlyApprovedIsExecuted'
  <2>1. Executable(r)' /\ HasOrder(r)'
    BY <1>2, <1>5, <1>9 DEF Executable, HasOrder
  <2>2. \A s \in Recs : HasOrder(s)' => Executable(s)'
    BY <1>2, <1>10, <2>1 DEF IInv, OnlyApprovedIsExecuted, HasOrder, Executable
  <2>3. \A y \in fills : HasOrder(y.rec)'
    BY <1>10, <2>1 DEF IInv, TypeOK, Fill, OnlyApprovedIsExecuted, HasOrder
  <2>4. QED
    BY <1>2, <2>1, <2>2, <2>3 DEF OnlyApprovedIsExecuted, r
<1>15. QED
  BY <1>11, <1>12, <1>13, <1>14 DEF IInv, BookOK

-----------------------------------------------------------------------------
(* Snapshots *)

\* Replacing one date's rows keeps the book well-typed, and cash only moves
\* to a balance that is not negative.
LEMMA ImportSnapshotFacts ==
  ASSUME IInv, NEW d \in Dates, NEW h \in Holdings,
         NEW b \in Balances \cup {NoCash}, ImportSnapshot(d, h, b)
  PROVE  /\ positions' \subseteq Position
         /\ \A p, q \in positions' : p.stock = q.stock /\ p.date = q.date => p = q
         /\ cash' \in Int
         /\ cash' < 0 => cash < 0
<1>1. h \in [Stocks -> Nat]
  BY HoldingsType
<1>2. positions' = {x \in positions : x.date # d} \cup RowsFor(d, h)
  BY DEF ImportSnapshot, Kept
<1>3. /\ positions \subseteq Position
      /\ \A p, q \in positions : p.stock = q.stock /\ p.date = q.date => p = q
  BY DEF IInv, TypeOK, UniqueKeys
<1>4. /\ RowsFor(d, h) \subseteq Position
      /\ \A x, y \in RowsFor(d, h) : x.stock = y.stock => x = y
      /\ \A x \in RowsFor(d, h) : x.date = d
  BY <1>1, RowsForType
<1>5. cash' \in Int /\ (cash' < 0 => cash < 0)
  BY BoundsAssumption DEF IInv, TypeOK, ImportSnapshot, NoCash
<1>6. QED
  BY <1>2, <1>3, <1>4, <1>5

\* Whatever the ledger does, a snapshot keeps the rest of the invariant.
LEMMA SnapshotStep0 ==
  ASSUME IInv, NEW d \in Dates, NEW h \in Holdings,
         NEW b \in Balances \cup {NoCash}, ImportSnapshot(d, h, b),
         UNCHANGED <<today, review, order, filled, fills>>,
         cashEvents' \subseteq CashEvent,
         \A e, f \in cashEvents' :
           e.source = f.source /\ e.date = f.date /\ e.balance = f.balance => e = f
  PROVE  IInv'
<1>1. /\ positions' \subseteq Position
      /\ \A p, q \in positions' : p.stock = q.stock /\ p.date = q.date => p = q
      /\ cash' \in Int
      /\ cash' < 0 => cash < 0
  BY ImportSnapshotFacts
<1>2. TypeOK'
  BY <1>1 DEF IInv, TypeOK
<1>3. UniqueKeys'
  BY <1>1 DEF IInv, UniqueKeys
<1>4. NegativeCashHasASellFee'
  BY <1>1 DEF IInv, NegativeCashHasASellFee
<1>5. QED
  BY <1>2, <1>3, <1>4
  DEF IInv, FilledWithinApproval, StatusMatchesFills, OnlyApprovedIsExecuted,
      HasOrder, Executable

LEMMA UpdateSnapshotStep ==
  ASSUME NEW d \in Dates, NEW h \in Holdings, NEW b \in Balances \cup {NoCash},
         IInv, UpdateSnapshot(d, h, b)
  PROVE  IInv'
<1> DEFINE booked == [source |-> "update", date |-> d, balance |-> b,
                      amount |-> b - cash]
<1>1. /\ ImportSnapshot(d, h, b)
      /\ UNCHANGED <<today, review, order, filled, fills>>
      /\ \/ cashEvents' = cashEvents
         \/ /\ b # NoCash
            /\ ~ \E e \in cashEvents :
                   e.source = "update" /\ e.date = d /\ e.balance = b
            /\ cashEvents' = cashEvents \cup {booked}
  BY DEF UpdateSnapshot, Delta
<1>2. /\ cashEvents \subseteq CashEvent
      /\ \A e, f \in cashEvents :
           e.source = f.source /\ e.date = f.date /\ e.balance = f.balance => e = f
      /\ cash \in Int
  BY DEF IInv, TypeOK, UniqueKeys
<1>3. b # NoCash => /\ booked \in CashEvent
                    /\ booked.source = "update"
                    /\ booked.date = d
                    /\ booked.balance = b
  BY <1>2, BoundsAssumption DEF CashEvent
<1> HIDE DEF booked
<1>4. /\ cashEvents' \subseteq CashEvent
      /\ \A e, f \in cashEvents' :
           e.source = f.source /\ e.date = f.date /\ e.balance = f.balance => e = f
  BY <1>1, <1>2, <1>3
<1>5. QED
  BY <1>1, <1>4, SnapshotStep0

LEMMA ImportCsvStep ==
  ASSUME NEW d \in Dates, NEW h \in Holdings, NEW b \in Balances \cup {NoCash},
         IInv, ImportCsv(d, h, b)
  PROVE  IInv'
<1>1. /\ ImportSnapshot(d, h, b)
      /\ UNCHANGED <<today, review, order, filled, fills, cashEvents>>
  BY DEF ImportCsv, ledgerVars
<1>2. /\ cashEvents' \subseteq CashEvent
      /\ \A e, f \in cashEvents' :
           e.source = f.source /\ e.date = f.date /\ e.balance = f.balance => e = f
  BY <1>1 DEF IInv, TypeOK, UniqueKeys
<1>3. QED
  BY <1>1, <1>2, SnapshotStep0

-----------------------------------------------------------------------------
(* Every step *)

LEMMA StutterStep ==
  ASSUME IInv, UNCHANGED vars
  PROVE  IInv'
BY DEF vars, IInv, TypeOK, FilledWithinApproval, StatusMatchesFills,
       OnlyApprovedIsExecuted, UniqueKeys, NegativeCashHasASellFee, HasOrder,
       Executable

LEMMA NextIInv == IInv /\ [Next]_vars => IInv'
<1> SUFFICES ASSUME IInv, [Next]_vars PROVE IInv'
  OBVIOUS
<1>1. CASE Tick
  BY <1>1, TickStep
<1>2. CASE ReviewStep
  BY <1>2, ReviewFromConsoleStep, AcceptWithOrderStep DEF ReviewStep
<1>3. CASE OrderStep
  BY <1>3, CancelStep, ModifyQuantityStep DEF OrderStep
<1>4. CASE FillStep
  BY <1>4, RecordFillStep DEF FillStep
<1>5. CASE UpdateStep
  BY <1>5, UpdateSnapshotStep DEF UpdateStep
<1>6. CASE CsvStep
  BY <1>6, ImportCsvStep DEF CsvStep
<1>7. CASE UNCHANGED vars
  BY <1>7, StutterStep
<1>8. QED
  BY <1>1, <1>2, <1>3, <1>4, <1>5, <1>6, <1>7 DEF Next, FillNext

\* The inductive invariant of the workflow holds in every reachable state.
THEOREM Invariant == Spec => []IInv
<1>1. Init => IInv
  BY InitIInv
<1>2. IInv /\ [Next]_vars => IInv'
  BY NextIInv
<1>3. QED
  BY <1>1, <1>2, PTL DEF Spec

\* Fewer commands, fewer behaviours.
LEMMA SubSpecs == (FillSpec => Spec) /\ (LedgerSpec => Spec)
<1>1. ([FillNext]_vars => [Next]_vars) /\ ([FillNext \/ UpdateStep]_vars => [Next]_vars)
  BY DEF Next
<1>2. QED
  BY <1>1, PTL DEF FillSpec, LedgerSpec, Spec

-----------------------------------------------------------------------------
(* Safety, for every run of commands *)

\* The tables keep their types.
THEOREM Types == Spec => []TypeOK
BY Invariant, PTL DEF IInv

\* No order is ever filled beyond what it approves, nor approves more than
\* was suggested.
THEOREM NeverOverfilled == Spec => []FilledWithinApproval
BY Invariant, PTL DEF IInv

\* The status of an order always agrees with its fills.
THEOREM StatusIsTruthful == Spec => []StatusMatchesFills
BY Invariant, PTL DEF IInv

\* Orders and fills stem from accepted recommendations of gated runs.
THEOREM NothingUnapproved == Spec => []OnlyApprovedIsExecuted
BY Invariant, PTL DEF IInv

\* Fill ids, snapshot rows and cash updates keep their unique keys, also when
\* snapshots are rolled forward or replaced.
THEOREM KeysStayUnique == Spec => []UniqueKeys
BY Invariant, PTL DEF IInv

\* Recorded cash is negative only after a sell with a fee above its proceeds.
THEOREM NoUnfundedBuy == Spec => []NegativeCashHasASellFee
BY Invariant, PTL DEF IInv

-----------------------------------------------------------------------------
(* What an order has filled is the sum of its fill rows. *)

\* A new row adds its quantity to the sum of the rows it joins.
LEMMA SumOfNewRow ==
  ASSUME NEW rows \in SUBSET Fill, IsFiniteSet(rows), NEW x \in Fill, x \notin rows
  PROVE  /\ SumFunction([y \in rows \cup {x} |-> y.qty])
             = SumFunction([y \in rows |-> y.qty]) + x.qty
         /\ SumFunction([y \in rows |-> y.qty]) \in Int
<1> DEFINE old == [y \in rows |-> y.qty]
           new == [y \in rows \cup {x} |-> y.qty]
<1>1. /\ old \in [rows -> Int] /\ new \in [rows \cup {x} -> Int]
      /\ \A y \in rows : new[y] = old[y]
      /\ new[x] = x.qty
  BY DEF Fill
<1> HIDE DEF old, new
<1>2. SumFunction(new) = SumFunction(old) + new[x] /\ SumFunction(old) \in Int
  BY <1>1, SumExtend
<1>3. SumFunction(new) = SumFunction(old) + x.qty /\ SumFunction(old) \in Int
  BY <1>1, <1>2
<1>4. QED
  BY <1>3 DEF old, new

\* A row, and a sum of its order that grows with it, keep the sums of all.
LEMMA NewRowFilled ==
  ASSUME BookOK, IsFiniteSet(fills), FilledIsSumOfRows, NEW x \in Submission,
         NewFill(x), fills' = fills \cup {x},
         filled' = [filled EXCEPT ![x.rec] = filled[x.rec] + x.qty]
  PROVE  IsFiniteSet(fills)' /\ FilledIsSumOfRows'
<1>1. x \notin fills
  BY DEF NewFill
<1>2. x \in Fill /\ x.rec \in Recs /\ fills \subseteq Fill /\ filled \in [Recs -> Nat]
  BY SubmissionIsFill DEF BookOK, TypeOK, Fill
<1>3. IsFiniteSet(fills')
  BY FS_AddElement
<1>4. ASSUME NEW r \in Recs
      PROVE  filled'[r] = SumFunction([y \in {z \in fills' : z.rec = r} |-> y.qty])
  <2> DEFINE rows == {z \in fills : z.rec = r}
  <2>1. filled[r] = SumFunction([y \in rows |-> y.qty])
    BY DEF FilledIsSumOfRows
  <2>2. CASE r = x.rec
    <3>1. {z \in fills' : z.rec = r} = rows \cup {x}
      BY <2>2
    <3>2. rows \in SUBSET Fill /\ IsFiniteSet(rows) /\ x \notin rows
      BY <1>1, <1>2, FS_Subset
    <3>3. filled'[r] = filled[r] + x.qty
      BY <1>2, <2>2
    <3> HIDE DEF rows
    <3>4. SumFunction([y \in rows \cup {x} |-> y.qty])
            = SumFunction([y \in rows |-> y.qty]) + x.qty
      BY <1>2, <3>2, SumOfNewRow
    <3>5. QED
      BY <2>1, <3>1, <3>3, <3>4
  <2>3. CASE r # x.rec
    <3>1. {z \in fills' : z.rec = r} = rows /\ filled'[r] = filled[r]
      BY <1>2, <2>3
    <3> HIDE DEF rows
    <3>2. QED
      BY <2>1, <3>1
  <2>4. QED
    BY <2>2, <2>3
<1>5. QED
  BY <1>3, <1>4 DEF FilledIsSumOfRows

\* The sums of no rows.
LEMMA InitFilled == Init => IsFiniteSet(fills) /\ FilledIsSumOfRows
<1> SUFFICES ASSUME Init PROVE IsFiniteSet(fills) /\ FilledIsSumOfRows
  OBVIOUS
<1>1. fills = {} /\ filled = [r \in Recs |-> 0] /\ IsFiniteSet({})
  BY FS_EmptySet DEF Init
<1>2. \A r \in Recs : SumFunction([y \in {z \in fills : z.rec = r} |-> y.qty]) = 0
  BY <1>1, SumOfNone
<1>3. QED
  BY <1>1, <1>2 DEF FilledIsSumOfRows

\* Only a recorded fill writes a row, and it adds to its own order alone.
LEMMA FilledStep ==
  IInv /\ IsFiniteSet(fills) /\ FilledIsSumOfRows /\ [Next]_vars
    => IsFiniteSet(fills)' /\ FilledIsSumOfRows'
<1> SUFFICES ASSUME IInv, IsFiniteSet(fills), FilledIsSumOfRows, [Next]_vars
             PROVE  IsFiniteSet(fills)' /\ FilledIsSumOfRows'
  OBVIOUS
<1>1. CASE UNCHANGED <<fills, filled>>
  BY <1>1 DEF FilledIsSumOfRows
<1>2. ASSUME NEW x \in Submission, RecordFill(x)
      PROVE  IsFiniteSet(fills)' /\ FilledIsSumOfRows'
  BY <1>2, IInvBook, NewRowFilled DEF RecordFill
<1>3. FillStep \/ UNCHANGED <<fills, filled>>
  BY DEF Next, FillNext, Tick, ReviewStep, ReviewFromConsole, AcceptWithOrder, OrderStep,
         Cancel, ModifyQuantity, UpdateStep, UpdateSnapshot, CsvStep, ImportCsv, vars,
         ledgerVars
<1>4. QED
  BY <1>1, <1>2, <1>3 DEF FillStep

\* There are finitely many fills at any time.
LEMMA FillsAreFinite == Spec => []IsFiniteSet(fills)
BY InitFilled, FilledStep, Invariant, PTL DEF Spec

\* The quantity the console checks against the approval is, in every state, the
\* sum of the rows recorded for the order.
THEOREM FilledIsWhatWasRecorded == Spec => []FilledIsSumOfRows
BY InitFilled, FilledStep, Invariant, PTL DEF Spec

-----------------------------------------------------------------------------
(* The balance is what the ledger adds up to. *)

FiniteLedger == IsFiniteSet(fills) /\ IsFiniteSet(cashEvents)
FillEffects == SumFunction([x \in fills |-> CashEffect(x)])
Booked == SumFunction([e \in cashEvents |-> e.amount])

LEMMA LedgerTypes ==
  ASSUME BookOK, FiniteLedger
  PROVE  /\ FillEffects \in Int /\ Booked \in Int /\ cash \in Int
         /\ [x \in fills |-> CashEffect(x)] \in [fills -> Int]
         /\ [e \in cashEvents |-> e.amount] \in [cashEvents -> Int]
<1> DEFINE f == [x \in fills |-> CashEffect(x)]
           g == [e \in cashEvents |-> e.amount]
<1>1. f \in [fills -> Int]
  BY GrossType DEF BookOK, TypeOK
<1>2. g \in [cashEvents -> Int]
  BY DEF BookOK, TypeOK, CashEvent
<1> HIDE DEF f, g
<1>3. SumFunction(f) \in Int /\ SumFunction(g) \in Int
  BY <1>1, <1>2, SumInt DEF SumFunction, FiniteLedger
<1>4. cash \in Int
  BY DEF BookOK, TypeOK
<1>5. QED
  BY <1>1, <1>2, <1>3, <1>4 DEF f, g, FillEffects, Booked

\* A fill row moves the sum by its cash effect.
LEMMA NewRowBalance ==
  ASSUME BookOK, FiniteLedger, BalanceIsLedger, NEW x \in Submission, NewFill(x),
         fills' = fills \cup {x}, cashEvents' = cashEvents,
         cash' = cash + CashEffect(x)
  PROVE  FiniteLedger' /\ BalanceIsLedger'
<1>1. x \notin fills /\ CashEffect(x) \in Int
  BY SubmissionIsFill, GrossType DEF NewFill
<1>2. FiniteLedger'
  BY FS_AddElement DEF FiniteLedger
<1> DEFINE f == [y \in fills |-> CashEffect(y)]
           g == [y \in fills \cup {x} |-> CashEffect(y)]
<1>3. /\ f \in [fills -> Int] /\ g \in [fills \cup {x} -> Int]
      /\ \A y \in fills : g[y] = f[y]
      /\ g[x] = CashEffect(x)
  BY <1>1, LedgerTypes
<1>4. FillEffects = SumFunction(f) /\ FillEffects' = SumFunction(g)
  BY DEF FillEffects, CashEffect, Gross
<1>5. Booked' = Booked
  BY DEF Booked
<1> HIDE DEF f, g
<1>6. FillEffects' = FillEffects + CashEffect(x)
  BY <1>1, <1>3, <1>4, SumExtend DEF FiniteLedger
<1>7. cash = FillEffects + Booked
  BY DEF BalanceIsLedger, FillEffects, Booked
<1>8. cash' = FillEffects' + Booked'
  BY <1>1, <1>5, <1>6, <1>7, LedgerTypes
<1>9. QED
  BY <1>2, <1>8 DEF BalanceIsLedger, FillEffects, Booked

\* A booked change of the balance moves the sum to it.
LEMMA NewEventBalance ==
  ASSUME BookOK, FiniteLedger, BalanceIsLedger, NEW e, e \notin cashEvents,
         e.amount \in Int, cashEvents' = cashEvents \cup {e}, fills' = fills,
         cash' = cash + e.amount
  PROVE  FiniteLedger' /\ BalanceIsLedger'
<1>1. FiniteLedger'
  BY FS_AddElement DEF FiniteLedger
<1> DEFINE f == [d \in cashEvents |-> d.amount]
           g == [d \in cashEvents \cup {e} |-> d.amount]
<1>2. /\ f \in [cashEvents -> Int] /\ g \in [cashEvents \cup {e} -> Int]
      /\ \A d \in cashEvents : g[d] = f[d]
      /\ g[e] = e.amount
  BY LedgerTypes
<1>3. Booked = SumFunction(f) /\ Booked' = SumFunction(g)
  BY DEF Booked
<1>4. FillEffects' = FillEffects
  BY DEF FillEffects, CashEffect, Gross
<1> HIDE DEF f, g
<1>5. Booked' = Booked + e.amount
  BY <1>2, <1>3, SumExtend DEF FiniteLedger
<1>6. cash = FillEffects + Booked
  BY DEF BalanceIsLedger, FillEffects, Booked
<1>7. cash' = FillEffects' + Booked'
  BY <1>4, <1>5, <1>6, LedgerTypes
<1>8. QED
  BY <1>1, <1>7 DEF BalanceIsLedger, FillEffects, Booked

\* The cash entered at initialisation is the first row.
LEMMA InitBalance == Init => FiniteLedger /\ BalanceIsLedger
<1> SUFFICES ASSUME Init PROVE FiniteLedger /\ BalanceIsLedger
  OBVIOUS
<1>1. fills = {} /\ cash = InitialCash /\ InitialCash \in Nat
  BY PortfolioAssumption DEF Init
<1>2. FillEffects = 0
  BY <1>1, SumOfNone DEF FillEffects
<1>3. CASE InitialCash = 0
  <2>1. cashEvents = {}
    BY <1>3 DEF Init
  <2>2. Booked = 0
    BY <2>1, SumOfNone DEF Booked
  <2>3. QED
    BY <1>1, <1>2, <1>3, <2>1, <2>2, FS_EmptySet
    DEF FiniteLedger, BalanceIsLedger, FillEffects, Booked
<1>4. CASE InitialCash # 0
  <2> DEFINE e == [source |-> "initial", date |-> 1, balance |-> InitialCash,
                   amount |-> InitialCash]
             f == [d \in {e} |-> d.amount]
  <2>1. cashEvents = {e}
    BY <1>1, <1>4 DEF Init
  <2>2. f \in [{e} -> Int] /\ f[e] = InitialCash
    BY <1>1
  <2>3. Booked = SumFunction(f)
    BY <2>1 DEF Booked
  <2> HIDE DEF e, f
  <2>4. SumFunction(f) = f[e]
    BY <2>2, SumOfOne
  <2>5. Booked = InitialCash
    BY <1>1, <2>2, <2>3, <2>4
  <2>6. FiniteLedger
    BY <1>1, <2>1, FS_EmptySet, FS_Singleton DEF FiniteLedger
  <2>7. QED
    BY <1>1, <1>2, <2>5, <2>6 DEF BalanceIsLedger, FillEffects, Booked
<1>5. QED
  BY <1>3, <1>4

\* Every command that writes the ledger moves the balance by what it writes.
LEMMA BalanceStep ==
  IInv /\ FiniteLedger /\ BalanceIsLedger /\ [FillNext \/ UpdateStep]_vars
    => FiniteLedger' /\ BalanceIsLedger'
<1> SUFFICES ASSUME IInv, FiniteLedger, BalanceIsLedger, [FillNext \/ UpdateStep]_vars
             PROVE  FiniteLedger' /\ BalanceIsLedger'
  OBVIOUS
<1>1. BookOK
  BY IInvBook
<1>2. CASE UNCHANGED <<fills, cashEvents, cash>>
  BY <1>2 DEF FiniteLedger, BalanceIsLedger, CashEffect, Gross
<1>3. ASSUME NEW x \in Submission, RecordFill(x)
      PROVE  FiniteLedger' /\ BalanceIsLedger'
  BY <1>1, <1>3, NewRowBalance DEF RecordFill, ApplyTrade
<1>4. ASSUME NEW d \in Dates, NEW h \in Holdings, NEW b \in Balances \cup {NoCash},
             UpdateSnapshot(d, h, b)
      PROVE  FiniteLedger' /\ BalanceIsLedger'
  <2>1. /\ ImportSnapshot(d, h, b)
        /\ fills' = fills
    BY <1>4 DEF UpdateSnapshot
  <2>2. CASE b \in {NoCash, cash} /\ cashEvents' = cashEvents
    <3>1. cash' = cash
      BY <2>1, <2>2 DEF ImportSnapshot
    <3>2. QED
      BY <1>2, <2>1, <2>2, <3>1
  <2>3. CASE b \notin {NoCash, cash}
    <3> DEFINE e == [source |-> "update", date |-> d, balance |-> b, amount |-> b - cash]
    <3>1. /\ cashEvents' = cashEvents \cup {e}
          /\ cash' = b
          /\ e \notin cashEvents
      BY <1>4, <2>1, <2>3 DEF UpdateSnapshot, ImportSnapshot, Delta
    <3>2. e.amount = b - cash /\ b \in Nat /\ cash \in Int
      BY <1>1, <2>3, BoundsAssumption DEF BookOK, TypeOK
    <3> HIDE DEF e
    <3>3. e.amount \in Int /\ cash' = cash + e.amount
      BY <3>1, <3>2
    <3>4. QED
      BY <1>1, <2>1, <3>1, <3>3, NewEventBalance
  <2>4. QED
    BY <1>4, <2>2, <2>3 DEF UpdateSnapshot
<1>5. CASE Tick \/ ReviewStep \/ OrderStep \/ UNCHANGED vars
  <2>1. UNCHANGED <<fills, cashEvents, cash>>
    BY <1>5 DEF Tick, ReviewStep, ReviewFromConsole, AcceptWithOrder, OrderStep, Cancel,
                ModifyQuantity, ledgerVars, vars
  <2>2. QED
    BY <1>2, <2>1
<1>6. QED
  BY <1>3, <1>4, <1>5 DEF FillNext, FillStep, UpdateStep

\* CSV imports aside, the recorded balance is, in every state, the sum of the
\* ledger: the cash effects of the fills and the booked changes.
THEOREM BalanceAddsUp == LedgerSpec => []BalanceIsLedger
BY SubSpecs, InitBalance, BalanceStep, Invariant, PTL DEF LedgerSpec

-----------------------------------------------------------------------------
(* What a step may never do *)

\* A filled or cancelled order never changes again, nor do its fills.
THEOREM ClosedStaysClosed == Spec => ClosedOrderIsFinal
<1> DEFINE Frozen == \A r \in Recs :
             order[r].status \in {"FILLED", "CANCELLED"} =>
               order'[r] = order[r] /\ filled'[r] = filled[r]
<1>1. IInv /\ [Next]_vars => [Frozen]_vars
  <2> SUFFICES ASSUME IInv, Next, NEW r \in Recs,
                      order[r].status \in {"FILLED", "CANCELLED"}
               PROVE  order'[r] = order[r] /\ filled'[r] = filled[r]
    OBVIOUS
  <2>1. /\ HasOrder(r)
        /\ OrderFor(r) = order[r]
        /\ order \in [Recs -> Order]
        /\ filled \in [Recs -> Nat]
    BY DEF HasOrder, OrderFor, IInv, TypeOK
  <2>2. CASE Tick \/ UpdateStep \/ CsvStep
    BY <2>2 DEF Tick, UpdateStep, UpdateSnapshot, CsvStep, ImportCsv, ledgerVars
  <2>3. CASE ReviewStep
    BY <2>1, <2>3 DEF ReviewStep, ReviewFromConsole, AcceptWithOrder,
        AcceptedOrder, ledgerVars
  <2>4. CASE OrderStep
    <3>1. PICK s \in Recs : Cancel(s) \/ \E q \in Quantities : ModifyQuantity(s, q)
      BY <2>4 DEF OrderStep
    <3>2. CASE s # r
      BY <2>1, <3>1, <3>2 DEF Cancel, ModifyQuantity, ledgerVars
    <3>3. CASE s = r
      <4>1. Cancel(r)
        BY <2>1, <3>1, <3>3 DEF ModifyQuantity, ClosedStatus
      <4>2. /\ order[r].status = "CANCELLED"
            /\ order' = [order EXCEPT ![r] = [order[r] EXCEPT !.status = "CANCELLED"]]
            /\ filled' = filled
        BY <2>1, <4>1 DEF Cancel, ledgerVars
      <4>3. [order[r] EXCEPT !.status = "CANCELLED"] = order[r]
        BY <2>1, <4>2 DEF Order
      <4>4. QED
        BY <2>1, <4>2, <4>3
    <3>4. QED
      BY <3>2, <3>3
  <2>5. CASE FillStep
    <3>1. PICK x \in Submission : RecordFill(x)
      BY <2>5 DEF FillStep
    <3>2. x.rec # r
      BY <2>1, <3>1 DEF RecordFill, ClosedStatus
    <3>3. QED
      BY <2>1, <3>1, <3>2 DEF RecordFill
  <2>6. QED
    BY <2>2, <2>3, <2>4, <2>5 DEF Next, FillNext
<1>2. QED
  BY <1>1, Invariant, PTL DEF Spec, ClosedOrderIsFinal

\* CSV imports aside, every change of the cash is a ledger row's, and every
\* new ledger row moves the cash.
THEOREM CashFollowsLedger == Spec => CashMovesWithLedger
<1>1. IInv /\ [Next]_vars => [CashStep \/ CsvStep]_vars
  <2> SUFFICES ASSUME IInv, Next, ~CsvStep PROVE CashStep
    OBVIOUS
  <2>1. CASE Tick \/ ReviewStep \/ OrderStep
    <3>1. UNCHANGED <<cash, fills, cashEvents>>
      BY <2>1 DEF Tick, ReviewStep, ReviewFromConsole, AcceptWithOrder,
                  OrderStep, Cancel, ModifyQuantity, ledgerVars
    <3>2. QED
      BY <3>1 DEF CashStep
  <2>2. CASE FillStep
    <3>1. PICK x \in Submission : RecordFill(x)
      BY <2>2 DEF FillStep
    <3>2. /\ x \notin fills
          /\ fills' = fills \cup {x}
          /\ cashEvents' = cashEvents
          /\ cash' = cash + CashEffect(x)
      BY <3>1 DEF RecordFill, NewFill, ApplyTrade
    <3>3. QED
      BY <3>2 DEF CashStep
  <2>3. CASE UpdateStep
    <3>1. PICK d \in Dates, h \in Holdings, b \in Balances \cup {NoCash} :
            UpdateSnapshot(d, h, b)
      BY <2>3 DEF UpdateStep
    <3> DEFINE booked == [source |-> "update", date |-> d, balance |-> b,
                          amount |-> b - cash]
    <3>2. fills' = fills
      BY <3>1 DEF UpdateSnapshot
    <3>3. CASE b \in {NoCash, cash}
      <4>1. cashEvents' = cashEvents /\ cash' = cash
        BY <3>1, <3>3 DEF UpdateSnapshot, ImportSnapshot
      <4>2. QED
        BY <3>2, <4>1 DEF CashStep
    <3>4. CASE b \notin {NoCash, cash}
      <4>1. /\ cashEvents' = cashEvents \cup {booked}
            /\ booked \notin cashEvents
            /\ cash' = b
        BY <3>1, <3>4 DEF UpdateSnapshot, Delta, ImportSnapshot
      <4>2. cash \in Int /\ b \in Int
        BY <3>4, BoundsAssumption DEF IInv, TypeOK
      <4>3. cash' = cash + booked.amount
        BY <4>1, <4>2
      <4>4. QED
        BY <3>2, <4>1, <4>3 DEF CashStep
    <3>5. QED
      BY <3>3, <3>4
  <2>4. QED
    BY <2>1, <2>2, <2>3 DEF Next, FillNext
<1>2. QED
  BY <1>1, Invariant, PTL DEF Spec, CashMovesWithLedger

-----------------------------------------------------------------------------
(* A fill moves the holdings shown by its own trade. *)

\* The snapshot rolled forward: the latest rows under the trade date, one per
\* stock, and the only rows of the book that have this date.
LEMMA RolledRows ==
  ASSUME BookOK, NEW x \in Fill, ~Predates(x)
  PROVE  /\ Rolled(x) \subseteq Position
         /\ \A z \in Rolled(x) : z.date = x.date
         /\ \A y, z \in Rolled(x) : y.stock = z.stock => y = z
         /\ \A s \in Stocks : Held(Rolled(x), s) = Held(LatestRows, s)
         /\ \A z \in positions : z.date <= x.date /\ (z.date = x.date => z \in Rolled(x))
<1>1. positions \subseteq Position /\ LatestRows \subseteq positions /\ x.date \in Dates
  BY GrossType DEF BookOK, TypeOK, LatestRows
<1>2. \A row \in LatestRows :
        /\ [row EXCEPT !.date = x.date] \in Position
        /\ [row EXCEPT !.date = x.date].date = x.date
        /\ [row EXCEPT !.date = x.date].stock = row.stock
        /\ [row EXCEPT !.date = x.date].qty = row.qty
  BY <1>1 DEF Position
<1>3. \A z \in Rolled(x) : \E row \in LatestRows :
        z = [row EXCEPT !.date = x.date] /\ z.stock = row.stock
  BY <1>2 DEF Rolled
<1>4. \A y, z \in Rolled(x) : y.stock = z.stock => y = z
  <2> SUFFICES ASSUME NEW y \in Rolled(x), NEW z \in Rolled(x), y.stock = z.stock
               PROVE  y = z
    OBVIOUS
  <2>1. PICK ry \in LatestRows : y = [ry EXCEPT !.date = x.date] /\ y.stock = ry.stock
    BY <1>3
  <2>2. PICK rz \in LatestRows : z = [rz EXCEPT !.date = x.date] /\ z.stock = rz.stock
    BY <1>3
  <2>3. ry = rz
    BY <2>1, <2>2, LatestRowsUnique
  <2>4. QED
    BY <2>1, <2>2, <2>3
<1>5. ASSUME NEW s \in Stocks PROVE Held(Rolled(x), s) = Held(LatestRows, s)
  <2>1. ASSUME NEW q \in Held(Rolled(x), s) PROVE q \in Held(LatestRows, s)
    <3>1. PICK z \in Rolled(x) : z.stock = s /\ z.qty = q
      BY DEF Held
    <3>2. PICK row \in LatestRows : z = [row EXCEPT !.date = x.date]
      BY DEF Rolled
    <3>3. row.stock = s /\ row.qty = q
      BY <1>2, <3>1, <3>2
    <3>4. QED
      BY <3>3 DEF Held
  <2>2. ASSUME NEW q \in Held(LatestRows, s) PROVE q \in Held(Rolled(x), s)
    <3>1. PICK row \in LatestRows : row.stock = s /\ row.qty = q
      BY DEF Held
    <3>2. [row EXCEPT !.date = x.date] \in Rolled(x)
      BY DEF Rolled
    <3>3. QED
      BY <1>2, <3>1, <3>2 DEF Held
  <2>3. QED
    BY <2>1, <2>2
<1>6. ASSUME NEW z \in positions
      PROVE  z.date <= x.date /\ (z.date = x.date => z \in Rolled(x))
  <2>1. z.date \in Int /\ x.date \in Int /\ ~(z.date > x.date)
    BY <1>1, BoundsAssumption DEF Predates, Position, Dates
  <2>2. ASSUME z.date = x.date PROVE z \in Rolled(x)
    <3>1. \A y \in positions : y.date <= z.date
      BY <1>1, <2>2, BoundsAssumption DEF Predates, Position, Dates
    <3>2. z \in LatestRows
      BY <3>1 DEF LatestRows
    <3>3. z = [z EXCEPT !.date = x.date]
      BY <1>1, <2>2 DEF Position
    <3>4. QED
      BY <3>2, <3>3 DEF Rolled
  <2>3. QED
    BY <2>1, <2>2
<1>7. QED
  BY <1>2, <1>4, <1>5, <1>6 DEF Rolled

\* What a fill leaves at its date: the rows rolled forward, the traded stock's
\* changed by the trade.
LEMMA RowsAfterTrade ==
  ASSUME BookOK, NEW x \in Fill, SideOf[x.rec] # "NONE", ApplyTrade(x)
  PROVE  LET now == {z \in positions' : z.date = x.date}
             s == StockOf[x.rec]
         IN  /\ \A z \in positions' : z.date <= x.date
             /\ \A t \in Stocks \ {s} : Held(now, t) = Held(Rolled(x), t)
             /\ \/ /\ SideOf[x.rec] = "BUY" /\ Held(Rolled(x), s) = {}
                   /\ Held(now, s) = {x.qty}
                \/ \E q \in Nat \ {0} :
                     /\ SideOf[x.rec] = "BUY" /\ Held(Rolled(x), s) = {q}
                     /\ Held(now, s) = {q + x.qty}
                \/ \E q \in Nat \ {0} :
                     /\ SideOf[x.rec] # "BUY" /\ Held(Rolled(x), s) = {q} /\ q >= x.qty
                     /\ Held(now, s) = IF q = x.qty THEN {} ELSE {q - x.qty}
<1> DEFINE s == StockOf[x.rec]
           R == Rolled(x)
           now == {z \in positions' : z.date = x.date}
           held == {row \in R : row.stock = s}
<1>1. /\ R \subseteq Position /\ \A z \in R : z.date = x.date
      /\ \A y, z \in R : y.stock = z.stock => y = z
      /\ \A z \in positions : z.date <= x.date /\ (z.date = x.date => z \in R)
  BY RolledRows DEF ApplyTrade
<1>2. s \in Stocks /\ x.qty \in Nat \ {0} /\ x.date \in Int
  BY GrossType, RecommendationAssumption, BoundsAssumption DEF Dates
<1>3. \/ /\ SideOf[x.rec] = "BUY" /\ held = {}
         /\ positions' = (positions \cup R) \cup
                           {[stock |-> s, date |-> x.date, qty |-> x.qty]}
      \/ /\ SideOf[x.rec] = "BUY"
         /\ \E row \in held : positions' = ((positions \cup R) \ {row}) \cup
                                             {[row EXCEPT !.qty = @ + x.qty]}
      \/ /\ SideOf[x.rec] # "BUY"
         /\ \E row \in held :
              /\ row.qty >= x.qty
              /\ positions' = ((positions \cup R) \ {row}) \cup
                   IF row.qty = x.qty THEN {} ELSE {[row EXCEPT !.qty = @ - x.qty]}
  BY DEF ApplyTrade, Rest
<1> HIDE DEF R, s
<1>4. CASE /\ SideOf[x.rec] = "BUY" /\ held = {}
           /\ positions' = (positions \cup R) \cup
                             {[stock |-> s, date |-> x.date, qty |-> x.qty]}
  <2> DEFINE new == [stock |-> s, date |-> x.date, qty |-> x.qty]
  <2>1. new.stock = s /\ new.date = x.date /\ new.qty = x.qty
    OBVIOUS
  <2> HIDE DEF new
  <2>2. positions' = (positions \cup R) \cup {new}
    BY <1>4 DEF new
  <2>3. now = R \cup {new}
    BY <1>1, <2>1, <2>2
  <2>4. \A z \in positions' : z.date <= x.date
    BY <1>1, <1>2, <2>1, <2>2
  <2> HIDE DEF now
  <2>5. Held(R, s) = {} /\ Held(now, s) = {x.qty}
    BY <1>4, <2>1, <2>3 DEF Held
  <2>6. \A t \in Stocks \ {s} : Held(now, t) = Held(R, t)
    BY <2>1, <2>3 DEF Held
  <2>7. QED
    BY <1>4, <2>4, <2>5, <2>6 DEF now, R, s
<1>5. ASSUME NEW row \in held, NEW new, new.stock = s, new.date = x.date,
             positions' = ((positions \cup R) \ {row}) \cup {new}
      PROVE  /\ \A z \in positions' : z.date <= x.date
             /\ \A t \in Stocks \ {s} : Held(now, t) = Held(R, t)
             /\ Held(R, s) = {row.qty} /\ row.qty \in Nat \ {0}
             /\ Held(now, s) = {new.qty}
  <2>1. now = (R \ {row}) \cup {new}
    BY <1>1, <1>5
  <2>2. \A z \in positions' : z.date <= x.date
    BY <1>1, <1>2, <1>5
  <2> HIDE DEF now
  <2>3. row \in R /\ row.stock = s /\ \A z \in R : z.stock = s => z = row
    BY <1>1
  <2>4. Held(R, s) = {row.qty} /\ Held(now, s) = {new.qty}
    BY <1>5, <2>1, <2>3 DEF Held
  <2>5. \A t \in Stocks \ {s} : Held(now, t) = Held(R, t)
    BY <1>5, <2>1, <2>3 DEF Held
  <2>6. row.qty \in Nat \ {0}
    BY <1>1, <2>3 DEF Position
  <2>7. QED
    BY <2>2, <2>4, <2>5, <2>6
<1>6. ASSUME NEW row \in held, positions' = (positions \cup R) \ {row}
      PROVE  /\ \A z \in positions' : z.date <= x.date
             /\ \A t \in Stocks \ {s} : Held(now, t) = Held(R, t)
             /\ Held(R, s) = {row.qty} /\ row.qty \in Nat \ {0}
             /\ Held(now, s) = {}
  <2>1. now = R \ {row}
    BY <1>1, <1>6
  <2>2. \A z \in positions' : z.date <= x.date
    BY <1>1, <1>2, <1>6
  <2> HIDE DEF now
  <2>3. row \in R /\ row.stock = s /\ \A z \in R : z.stock = s => z = row
    BY <1>1
  <2>4. Held(R, s) = {row.qty} /\ Held(now, s) = {}
    BY <2>1, <2>3 DEF Held
  <2>5. \A t \in Stocks \ {s} : Held(now, t) = Held(R, t)
    BY <2>1, <2>3 DEF Held
  <2>6. row.qty \in Nat \ {0}
    BY <1>1, <2>3 DEF Position
  <2>7. QED
    BY <2>2, <2>4, <2>5, <2>6
<1>7. ASSUME NEW row \in held, NEW n
      PROVE  /\ [row EXCEPT !.qty = n].stock = s
             /\ [row EXCEPT !.qty = n].date = x.date
             /\ [row EXCEPT !.qty = n].qty = n
  BY <1>1 DEF Position
<1> HIDE DEF now, held
<1>8. CASE /\ SideOf[x.rec] = "BUY"
           /\ \E row \in held : positions' = ((positions \cup R) \ {row}) \cup
                                               {[row EXCEPT !.qty = @ + x.qty]}
  <2>1. PICK row \in held : positions' = ((positions \cup R) \ {row}) \cup
                                           {[row EXCEPT !.qty = row.qty + x.qty]}
    BY <1>8
  <2> DEFINE new == [row EXCEPT !.qty = row.qty + x.qty]
  <2>2. new.stock = s /\ new.date = x.date /\ new.qty = row.qty + x.qty
    BY <1>7
  <2>3. positions' = ((positions \cup R) \ {row}) \cup {new}
    BY <2>1
  <2> HIDE DEF new
  <2>4. QED
    BY <1>5, <1>8, <2>2, <2>3 DEF now, R, s
<1>9. CASE /\ SideOf[x.rec] # "BUY"
           /\ \E row \in held :
                /\ row.qty >= x.qty
                /\ positions' = ((positions \cup R) \ {row}) \cup
                     IF row.qty = x.qty THEN {} ELSE {[row EXCEPT !.qty = @ - x.qty]}
  <2>1. PICK row \in held :
          /\ row.qty >= x.qty
          /\ positions' = ((positions \cup R) \ {row}) \cup
               IF row.qty = x.qty THEN {} ELSE {[row EXCEPT !.qty = row.qty - x.qty]}
    BY <1>9
  <2>2. CASE row.qty = x.qty
    <3>1. positions' = (positions \cup R) \ {row}
      BY <2>1, <2>2
    <3>2. QED
      BY <1>6, <1>9, <2>1, <2>2, <3>1 DEF now, R, s
  <2>3. CASE row.qty # x.qty
    <3> DEFINE new == [row EXCEPT !.qty = row.qty - x.qty]
    <3>1. new.stock = s /\ new.date = x.date /\ new.qty = row.qty - x.qty
      BY <1>7
    <3>2. positions' = ((positions \cup R) \ {row}) \cup {new}
      BY <2>1, <2>3
    <3> HIDE DEF new
    <3>3. /\ \A z \in positions' : z.date <= x.date
          /\ \A t \in Stocks \ {s} : Held(now, t) = Held(R, t)
          /\ Held(R, s) = {row.qty} /\ row.qty \in Nat \ {0}
          /\ Held(now, s) = {row.qty - x.qty}
      BY <1>5, <3>1, <3>2
    <3>4. QED
      BY <1>9, <2>1, <2>3, <3>3 DEF now, R, s
  <2>4. QED
    BY <2>2, <2>3
<1>10. QED
  BY <1>3, <1>4, <1>8, <1>9

\* The latest rows before and after a fill differ by the trade.
LEMMA HoldingsStep ==
  ASSUME BookOK, NEW x \in Submission, ApplyTrade(x), SideOf[x.rec] # "NONE",
         \E row \in positions' : row.date = x.date, NEW s \in Stocks
  PROVE  Held(LatestRows', s) =
           IF s # StockOf[x.rec] THEN Held(LatestRows, s)
           ELSE IF HeldAfter(s, x) = 0 THEN {} ELSE {HeldAfter(s, x)}
<1> DEFINE now == {z \in positions' : z.date = x.date}
<1>1. x \in Fill /\ x.qty \in Nat \ {0} /\ x.date \in Int
  BY SubmissionIsFill, GrossType, BoundsAssumption DEF Dates
<1>2. ApplyTrade(x) /\ SideOf[x.rec] # "NONE"
  OBVIOUS
<1>3. Held(Rolled(x), s) = Held(LatestRows, s)
  BY <1>1, <1>2, RolledRows DEF ApplyTrade
<1>4. \A z \in positions' : z.date <= x.date
  BY <1>1, <1>2, RowsAfterTrade
<1>5. LatestRows' = now
  <2>1. positions' \subseteq Position
    BY <1>1, <1>2, ApplyTradeBook
  <2>2. \A z \in positions' : z.date \in Int
    BY <2>1, BoundsAssumption DEF Position, Dates
  <2>3. QED
    BY <1>1, <1>4, <2>2 DEF LatestRows
<1>6. CASE s # StockOf[x.rec]
  <2>1. Held(now, s) = Held(Rolled(x), s)
    BY <1>1, <1>2, <1>6, RowsAfterTrade
  <2>2. QED
    BY <1>3, <1>5, <1>6, <2>1
<1>7. CASE s = StockOf[x.rec]
  <2>1. \/ /\ SideOf[x.rec] = "BUY" /\ Held(LatestRows, s) = {}
           /\ Held(now, s) = {x.qty}
        \/ \E q \in Nat \ {0} :
             /\ SideOf[x.rec] = "BUY" /\ Held(LatestRows, s) = {q}
             /\ Held(now, s) = {q + x.qty}
        \/ \E q \in Nat \ {0} :
             /\ SideOf[x.rec] # "BUY" /\ Held(LatestRows, s) = {q} /\ q >= x.qty
             /\ Held(now, s) = IF q = x.qty THEN {} ELSE {q - x.qty}
    BY <1>1, <1>2, <1>3, <1>7, RowsAfterTrade
  <2> HIDE DEF now
  <2>2. CASE /\ SideOf[x.rec] = "BUY" /\ Held(LatestRows, s) = {}
             /\ Held(now, s) = {x.qty}
    <3>1. HeldAfter(s, x) = 0 + x.qty
      BY <2>2 DEF HeldAfter, Shown
    <3>2. QED
      BY <1>1, <1>5, <1>7, <2>2, <3>1
  <2>3. ASSUME NEW q \in Nat \ {0}, Held(LatestRows, s) = {q}
        PROVE  HeldAfter(s, x) = IF SideOf[x.rec] = "BUY" THEN q + x.qty ELSE q - x.qty
    <3>1. (CHOOSE n \in {q} : TRUE) = q
      OBVIOUS
    <3>2. QED
      BY <2>3, <3>1 DEF HeldAfter, Shown
  <2>4. CASE \E q \in Nat \ {0} :
               /\ SideOf[x.rec] = "BUY" /\ Held(LatestRows, s) = {q}
               /\ Held(now, s) = {q + x.qty}
    BY <1>1, <1>5, <1>7, <2>3, <2>4
  <2>5. CASE \E q \in Nat \ {0} :
               /\ SideOf[x.rec] # "BUY" /\ Held(LatestRows, s) = {q} /\ q >= x.qty
               /\ Held(now, s) = IF q = x.qty THEN {} ELSE {q - x.qty}
    <3>1. PICK q \in Nat \ {0} :
               /\ SideOf[x.rec] # "BUY" /\ Held(LatestRows, s) = {q} /\ q >= x.qty
               /\ Held(now, s) = IF q = x.qty THEN {} ELSE {q - x.qty}
      BY <2>5
    <3>2. HeldAfter(s, x) = q - x.qty
      BY <2>3, <3>1
    <3>3. QED
      BY <1>1, <1>5, <1>7, <3>1, <3>2
  <2>6. QED
    BY <2>1, <2>2, <2>4, <2>5
<1>8. QED
  BY <1>6, <1>7

\* A fill moves the holdings shown by exactly its own trade, also when it rolls
\* the snapshot forward.
THEOREM FillsMoveTheirTrade == Spec => FillMovesHoldingsByItsTrade
<1> DEFINE Moves ==
      \A x \in fills' \ fills :
       (\E row \in positions' : row.date = x.date) =>
         \A s \in Stocks :
           Held(LatestRows', s) =
             IF s # StockOf[x.rec] THEN Held(LatestRows, s)
             ELSE IF HeldAfter(s, x) = 0 THEN {} ELSE {HeldAfter(s, x)}
<1>1. IInv /\ [Next]_vars => [Moves]_vars
  <2> SUFFICES ASSUME IInv, Next, NEW x \in fills' \ fills,
                      \E row \in positions' : row.date = x.date, NEW s \in Stocks
               PROVE  Held(LatestRows', s) =
                        IF s # StockOf[x.rec] THEN Held(LatestRows, s)
                        ELSE IF HeldAfter(s, x) = 0 THEN {} ELSE {HeldAfter(s, x)}
    OBVIOUS
  <2>1. PICK y \in Submission : RecordFill(y)
    BY DEF Next, FillNext, FillStep, Tick, ReviewStep, ReviewFromConsole, AcceptWithOrder,
           OrderStep, Cancel, ModifyQuantity, UpdateStep, UpdateSnapshot, CsvStep,
           ImportCsv, ledgerVars
  <2>2. x = y
    BY <2>1 DEF RecordFill
  <2>3. BookOK /\ ApplyTrade(x) /\ SideOf[x.rec] # "NONE"
    BY <2>1, <2>2, IInvBook DEF RecordFill, Executable
  <2>4. QED
    BY <2>1, <2>2, <2>3, HoldingsStep
<1>2. QED
  BY <1>1, Invariant, PTL DEF Spec, FillMovesHoldingsByItsTrade

-----------------------------------------------------------------------------
(* When shares can be sold that are not held: only after a sale has left its *)
(* date without a row.                                                       *)

\* Shares shown and shares traded are numbers.
LEMMA ShownType ==
  ASSUME BookOK, NEW s
  PROVE  Shown(s) \in Nat
BY DEF BookOK, TypeOK, Position, Shown, Held, LatestRows

LEMMA TradedType ==
  ASSUME BookOK, IsFiniteSet(fills), NEW s, NEW side
  PROVE  /\ TradedRows(s, side) \in SUBSET Fill /\ IsFiniteSet(TradedRows(s, side))
         /\ Traded(s, side) \in Int
<1> DEFINE rows == TradedRows(s, side)
           f == [x \in rows |-> x.qty]
<1>1. rows \in SUBSET Fill /\ IsFiniteSet(rows)
  BY FS_Subset DEF BookOK, TypeOK, TradedRows
<1>2. \A x \in rows : f[x] \in Int
  BY <1>1 DEF Fill
<1>3. Traded(s, side) = SumFunctionOnSet(f, rows)
  BY DEF Traded, SumFunction
<1> HIDE DEF rows, f
<1>4. SumFunctionOnSet(f, rows) \in Int
  BY <1>1, <1>2, SumInt
<1>5. QED
  BY <1>1, <1>3, <1>4 DEF rows

\* A fill adds to what its stock has traded on its side.
LEMMA TradedStep ==
  ASSUME BookOK, IsFiniteSet(fills), NEW x \in Submission, NewFill(x),
         fills' = fills \cup {x}, NEW s, NEW side
  PROVE  Traded(s, side)' = IF StockOf[x.rec] = s /\ SideOf[x.rec] = side
                            THEN Traded(s, side) + x.qty ELSE Traded(s, side)
<1> DEFINE rows == TradedRows(s, side)
<1>1. x \in Fill /\ x \notin fills
  BY SubmissionIsFill DEF NewFill
<1>2. rows \in SUBSET Fill /\ IsFiniteSet(rows) /\ x \notin rows
  BY <1>1, TradedType DEF TradedRows
<1>3. CASE StockOf[x.rec] = s /\ SideOf[x.rec] = side
  <2>1. rows' = rows \cup {x}
    BY <1>3 DEF TradedRows
  <2> HIDE DEF rows
  <2>2. SumFunction([y \in rows' |-> y.qty]) = SumFunction([y \in rows |-> y.qty]) + x.qty
    BY <1>1, <1>2, <2>1, SumOfNewRow
  <2>3. QED
    BY <1>3, <2>2 DEF Traded, rows
<1>4. CASE ~(StockOf[x.rec] = s /\ SideOf[x.rec] = side)
  <2>1. rows' = rows
    BY <1>4 DEF TradedRows
  <2>2. QED
    BY <1>4, <2>1 DEF Traded
<1>5. QED
  BY <1>3, <1>4

\* The portfolio starts with the shares entered.
LEMMA InitShown == Init => IsFiniteSet(fills) /\ ShownIsLedger
<1> SUFFICES ASSUME Init PROVE IsFiniteSet(fills) /\ ShownIsLedger
  OBVIOUS
<1>1. fills = {} /\ positions = RowsFor(1, InitialHoldings)
  BY DEF Init
<1>2. LatestRows = positions
  BY <1>1 DEF LatestRows, RowsFor
<1>3. ASSUME NEW s \in Stocks PROVE Shown(s) = InitialHoldings[s]
  <2>1. InitialHoldings[s] \in Nat
    BY PortfolioAssumption
  <2>2. Held(LatestRows, s) = IF InitialHoldings[s] > 0 THEN {InitialHoldings[s]} ELSE {}
    <3>1. \A x \in positions : x.stock = s => x.qty = InitialHoldings[s] /\ x.qty > 0
      BY <1>1 DEF RowsFor
    <3>2. CASE InitialHoldings[s] > 0
      <4> DEFINE row == [stock |-> s, date |-> 1, qty |-> InitialHoldings[s]]
      <4>1. row \in positions
        BY <1>1, <3>2 DEF RowsFor
      <4>2. row.stock = s /\ row.qty = InitialHoldings[s]
        OBVIOUS
      <4> HIDE DEF row
      <4>3. QED
        BY <1>2, <3>1, <3>2, <4>1, <4>2 DEF Held
    <3>3. CASE ~(InitialHoldings[s] > 0)
      BY <1>2, <3>1, <3>3 DEF Held
    <3>4. QED
      BY <3>2, <3>3
  <2>3. (CHOOSE q \in {InitialHoldings[s]} : TRUE) = InitialHoldings[s]
    OBVIOUS
  <2>4. QED
    BY <2>1, <2>2, <2>3 DEF Shown
<1>4. ASSUME NEW s, NEW side PROVE Traded(s, side) = 0
  BY <1>1, SumOfNone DEF Traded, TradedRows
<1>5. QED
  BY <1>1, <1>3, <1>4, FS_EmptySet, PortfolioAssumption DEF ShownIsLedger

\* A fill that keeps a row at its date keeps shares shown and ledger together.
LEMMA FillShown ==
  ASSUME IInv, IsFiniteSet(fills), ShownIsLedger, NEW x \in Submission, RecordFill(x),
         \E row \in positions' : row.date = x.date
  PROVE  IsFiniteSet(fills)' /\ ShownIsLedger'
<1>1. /\ BookOK /\ ApplyTrade(x) /\ SideOf[x.rec] \in {"BUY", "SELL"}
      /\ NewFill(x) /\ fills' = fills \cup {x}
      /\ x.qty \in Nat
  BY IInvBook, SubmissionIsFill, GrossType, RecommendationAssumption
  DEF RecordFill, Executable
<1>2. BookOK'
  BY RecordFillStep, IInvBook DEF IInv, BookOK
<1>3. IsFiniteSet(fills)'
  BY <1>1, FS_AddElement
<1>4. ASSUME NEW s \in Stocks
      PROVE  Shown(s)' = InitialHoldings[s] + Traded(s, "BUY")' - Traded(s, "SELL")'
  <2>1. /\ Shown(s) \in Nat /\ Traded(s, "BUY") \in Int /\ Traded(s, "SELL") \in Int
        /\ InitialHoldings[s] \in Nat
        /\ Shown(s) = InitialHoldings[s] + Traded(s, "BUY") - Traded(s, "SELL")
    BY <1>1, ShownType, TradedType, PortfolioAssumption DEF ShownIsLedger
  <2>2. Held(LatestRows', s) =
          IF s # StockOf[x.rec] THEN Held(LatestRows, s)
          ELSE IF HeldAfter(s, x) = 0 THEN {} ELSE {HeldAfter(s, x)}
    BY <1>1, HoldingsStep
  <2>3. CASE s # StockOf[x.rec]
    <3>1. Shown(s)' = Shown(s)
      BY <2>2, <2>3 DEF Shown
    <3>2. Traded(s, "BUY")' = Traded(s, "BUY") /\ Traded(s, "SELL")' = Traded(s, "SELL")
      BY <1>1, <2>3, TradedStep
    <3>3. QED
      BY <2>1, <3>1, <3>2
  <2>4. CASE s = StockOf[x.rec]
    <3>1. Shown(s)' = HeldAfter(s, x)
      <4> DEFINE v == HeldAfter(s, x)
      <4>1. Held(LatestRows', s) = IF v = 0 THEN {} ELSE {v}
        BY <2>2, <2>4
      <4> HIDE DEF v
      <4>2. (CHOOSE q \in {v} : TRUE) = v
        OBVIOUS
      <4>3. Shown(s)' = v
        BY <4>1, <4>2 DEF Shown, Held
      <4>4. QED
        BY <4>3 DEF v
    <3>2. CASE SideOf[x.rec] = "BUY"
      <4>1. Traded(s, "BUY")' = Traded(s, "BUY") + x.qty /\ Traded(s, "SELL")' = Traded(s, "SELL")
        BY <1>1, <2>4, <3>2, TradedStep
      <4>2. QED
        BY <1>1, <2>1, <3>1, <3>2, <4>1 DEF HeldAfter
    <3>3. CASE SideOf[x.rec] = "SELL"
      <4>1. Traded(s, "SELL")' = Traded(s, "SELL") + x.qty /\ Traded(s, "BUY")' = Traded(s, "BUY")
        BY <1>1, <2>4, <3>3, TradedStep
      <4>2. QED
        BY <1>1, <2>1, <3>1, <3>3, <4>1 DEF HeldAfter
    <3>4. QED
      BY <1>1, <3>2, <3>3
  <2>5. QED
    BY <2>3, <2>4
<1>5. QED
  BY <1>3, <1>4 DEF ShownIsLedger

LEMMA ShownStep ==
  IInv /\ IsFiniteSet(fills) /\ ShownIsLedger /\ [FillNext]_vars /\ [RowKept]_vars
    => IsFiniteSet(fills)' /\ ShownIsLedger'
<1> SUFFICES ASSUME IInv, IsFiniteSet(fills), ShownIsLedger, [FillNext]_vars, [RowKept]_vars
             PROVE  IsFiniteSet(fills)' /\ ShownIsLedger'
  OBVIOUS
<1>1. CASE UNCHANGED <<fills, positions>>
  BY <1>1 DEF ShownIsLedger, Shown, Held, LatestRows, Traded, TradedRows
<1>2. ASSUME NEW x \in Submission, RecordFill(x)
      PROVE  IsFiniteSet(fills)' /\ ShownIsLedger'
  <2>1. x \in fills' \ fills
    BY <1>2 DEF RecordFill, NewFill
  <2>2. \E row \in positions' : row.date = x.date
    BY <2>1 DEF RowKept, vars
  <2>3. QED
    BY <1>2, <2>2, FillShown
<1>3. FillStep \/ UNCHANGED <<fills, positions>>
  BY DEF FillNext, Tick, ReviewStep, ReviewFromConsole, AcceptWithOrder, OrderStep, Cancel,
         ModifyQuantity, ledgerVars, vars
<1>4. QED
  BY <1>1, <1>2, <1>3 DEF FillStep

\* As long as every fill leaves a row at its date, the shares shown are the ones
\* the ledger leaves: the exempt sale is the only way to a false position ...
THEOREM ShownAddsUp == FillSpec /\ [][RowKept]_vars => []ShownIsLedger
BY SubSpecs, InitShown, ShownStep, Invariant, PTL DEF FillSpec

\* ... and the only way to sell shares that are not held.
THEOREM NoOversellWhileRowsStay == FillSpec /\ [][RowKept]_vars => []NoOversell
<1>1. IInv /\ IsFiniteSet(fills) /\ ShownIsLedger => NoOversell
  <2> SUFFICES ASSUME IInv, IsFiniteSet(fills), ShownIsLedger, NEW s \in Stocks
               PROVE  Traded(s, "SELL") <= InitialHoldings[s] + Traded(s, "BUY")
    BY DEF NoOversell
  <2>1. /\ Shown(s) \in Nat /\ Traded(s, "BUY") \in Int /\ Traded(s, "SELL") \in Int
        /\ InitialHoldings[s] \in Nat
        /\ Shown(s) = InitialHoldings[s] + Traded(s, "BUY") - Traded(s, "SELL")
    BY IInvBook, ShownType, TradedType, PortfolioAssumption DEF ShownIsLedger
  <2>2. QED
    BY <2>1
<1>2. QED
  BY <1>1, SubSpecs, Invariant, FillsAreFinite, ShownAddsUp, PTL

-----------------------------------------------------------------------------
(* The promise to the user.  The refinement mapping reads the decision from *)
(* the review, the approval from the order a handler would work on, the      *)
(* executed shares from the fill rows and "closed" from the order's status.  *)

Tradable == {r \in GateApproved : SideOf[r] # "NONE" /\ Suggested[r] > 0}
Cap == [r \in Recs |-> OrderFor(r).approved]
Closed == {r \in Recs : order[r].status \in {"FILLED", "CANCELLED"}}

\* Recommendations start undecided, with their suggestion approved.
LEMMA InitRefines == Init => Promise!AbsInit
<1> SUFFICES ASSUME Init PROVE Promise!AbsInit
  OBVIOUS
<1>1. Cap = Suggested
  <2>1. \A r \in Recs : OrderFor(r).approved = Suggested[r]
    BY NewOrderType DEF Init, OrderFor, HasOrder, NoOrder
  <2>2. QED
    BY <2>1, RecommendationAssumption DEF Cap
<1>2. Closed = {}
  BY DEF Init, Closed, NoOrder
<1>3. QED
  BY <1>1, <1>2 DEF Promise!AbsInit, Init, Cap, Closed

\* Rewriting one order changes the mapped approval and closure of that
\* recommendation only.
LEMMA MappedOrder ==
  ASSUME IInv, NEW r \in Recs, NEW o \in Order, o.status # "NONE",
         order' = [order EXCEPT ![r] = o]
  PROVE  /\ Cap' = [Cap EXCEPT ![r] = o.approved]
         /\ Closed' = IF o.status \in {"FILLED", "CANCELLED"}
                      THEN Closed \cup {r} ELSE Closed \ {r}
<1>1. order \in [Recs -> Order]
  BY DEF IInv, TypeOK
<1>2. order'[r] = o /\ \A s \in Recs : s # r => order'[s] = order[s]
  BY <1>1
<1>3. \A s \in Recs : OrderFor(s)' = IF s = r THEN o ELSE OrderFor(s)
  BY <1>2 DEF OrderFor, HasOrder, NewOrder
<1>4. Cap' = [Cap EXCEPT ![r] = o.approved]
  BY <1>3 DEF Cap
<1>5. QED
  BY <1>2, <1>4 DEF Closed

\* Every step is a step of the promise or leaves its four variables alone.
LEMMA StepRefines ==
  ASSUME IInv, [Next]_vars
  PROVE  [Promise!AbsNext]_(Promise!absVars)
<1> DEFINE Same == review' = review /\ Cap' = Cap /\ filled' = filled /\ Closed' = Closed
<1>0. /\ order \in [Recs -> Order]
      /\ filled \in [Recs -> Nat]
      /\ review \in [Recs -> ReviewStatus]
  BY DEF IInv, TypeOK
<1>1. ASSUME Same PROVE UNCHANGED Promise!absVars
  BY <1>1 DEF Promise!absVars, Cap, Closed
<1>2. ASSUME order' = order PROVE Cap' = Cap /\ Closed' = Closed
  BY <1>2 DEF Cap, Closed, OrderFor, HasOrder, NewOrder
<1>3. CASE Tick \/ UpdateStep \/ CsvStep \/ UNCHANGED vars
  <2>1. UNCHANGED <<review, order, filled>>
    BY <1>3 DEF Tick, UpdateStep, UpdateSnapshot, CsvStep, ImportCsv, vars, ledgerVars
  <2>2. QED
    BY <1>1, <1>2, <2>1
<1>4. ASSUME NEW r \in Recs, ReviewFromConsole(r) PROVE Promise!AbsNext
  <2>1. PICK d \in ReviewStatus \ {"pending"} :
          review[r] = "pending" /\ review' = [review EXCEPT ![r] = d]
    BY <1>4 DEF ReviewFromConsole, MayDecide
  <2>2. order' = order /\ filled' = filled
    BY <1>4 DEF ReviewFromConsole, ledgerVars
  <2>3. Promise!Decide(r)
    BY <1>2, <2>1, <2>2 DEF Promise!Decide, Promise!Decisions, ReviewStatus, Cap, Closed
  <2>4. QED
    BY <2>3 DEF Promise!AbsNext
<1>5. ASSUME NEW r \in Recs, AcceptWithOrder(r)
      PROVE  Promise!AbsNext \/ Same
  <2>1. /\ review' = [review EXCEPT ![r] = "accepted"]
        /\ review[r] \in {"pending", "accepted"}
        /\ filled' = filled
    BY <1>5 DEF AcceptWithOrder, MayDecide, ledgerVars
  <2>2. Cap' = Cap /\ Closed' = Closed
    <3>1. CASE order' = order
      BY <1>2, <3>1
    <3>2. CASE order' = [order EXCEPT ![r] = OrderFor(r)]
      <4>1. /\ Cap' = [Cap EXCEPT ![r] = OrderFor(r).approved]
            /\ Closed' = IF OrderFor(r).status \in {"FILLED", "CANCELLED"}
                         THEN Closed \cup {r} ELSE Closed \ {r}
        BY <3>2, OrderForFacts, MappedOrder
      <4>2. Cap[r] = OrderFor(r).approved
        BY DEF Cap
      <4>3. r \in Closed <=> OrderFor(r).status \in {"FILLED", "CANCELLED"}
        BY NewOrderType DEF Closed, OrderFor, HasOrder
      <4>4. Cap' = Cap
        BY <4>1, <4>2 DEF Cap
      <4>5. QED
        BY <4>1, <4>3, <4>4
    <3>3. QED
      BY <1>5, <3>1, <3>2 DEF AcceptWithOrder, AcceptedOrder
  <2>3. CASE review[r] = "pending"
    <3>1. Promise!Decide(r)
      BY <2>1, <2>2, <2>3 DEF Promise!Decide, Promise!Decisions, Cap, Closed
    <3>2. QED
      BY <3>1 DEF Promise!AbsNext
  <2>4. CASE review[r] = "accepted"
    BY <1>0, <2>1, <2>2, <2>4
  <2>5. QED
    BY <2>1, <2>3, <2>4
\* What a handler that works on a still open order finds.
<1>6. ASSUME NEW r \in Recs, Executable(r),
             OrderFor(r).status \notin {"FILLED", "CANCELLED"}
      PROVE  Promise!Open(r)
  <2>1. r \notin Closed
    BY <1>6 DEF Closed, OrderFor, HasOrder
  <2>2. QED
    BY <1>6, <2>1 DEF Promise!Open, Executable, Closed
<1>7. ASSUME NEW r \in Recs, Cancel(r) PROVE Promise!AbsNext \/ Same
  <2> DEFINE o == [OrderFor(r) EXCEPT !.status = "CANCELLED"]
  <2>1. /\ Executable(r)
        /\ order' = [order EXCEPT ![r] = o]
        /\ OrderFor(r).status # "FILLED"
        /\ review' = review /\ filled' = filled
    BY <1>7, OrderIsExecutable DEF Cancel, ledgerVars
  <2>2. /\ o \in Order
        /\ o.status = "CANCELLED"
        /\ o.approved = OrderFor(r).approved
    BY OrderForFacts DEF Order, OrderStatus
  <2> HIDE DEF o
  <2>3. Cap' = [Cap EXCEPT ![r] = o.approved] /\ Closed' = Closed \cup {r}
    BY <2>1, <2>2, MappedOrder
  <2>4. Cap' = Cap
    BY <2>2, <2>3 DEF Cap
  <2>5. CASE OrderFor(r).status = "CANCELLED"
    <3>1. r \in Closed
      BY <2>5, NewOrderType DEF Closed, OrderFor, HasOrder
    <3>2. QED
      BY <2>1, <2>3, <2>4, <3>1
  <2>6. CASE OrderFor(r).status # "CANCELLED"
    <3>1. Promise!Open(r)
      BY <1>6, <2>1, <2>6
    <3>2. Promise!Close(r)
      BY <2>1, <2>3, <2>4, <3>1 DEF Promise!Close, Cap, Closed
    <3>3. QED
      BY <3>2 DEF Promise!AbsNext
  <2>7. QED
    BY <2>5, <2>6
<1>8. ASSUME NEW r \in Recs, NEW q \in Quantities, ModifyQuantity(r, q)
      PROVE  Promise!AbsNext
  <2> DEFINE o == [OrderFor(r) EXCEPT !.approved = q,
                     !.status = IF q = filled[r] THEN "FILLED" ELSE "MODIFIED"]
  <2>1. /\ Executable(r)
        /\ order' = [order EXCEPT ![r] = o]
        /\ OrderFor(r).status \notin {"FILLED", "CANCELLED"}
        /\ filled[r] <= q
        /\ q <= OrderFor(r).original
        /\ review' = review /\ filled' = filled
    BY <1>8, OrderIsExecutable DEF ModifyQuantity, ClosedStatus, ledgerVars
  <2>2. /\ o \in Order
        /\ o.status = IF q = filled[r] THEN "FILLED" ELSE "MODIFIED"
        /\ o.approved = q
    BY OrderForFacts, BoundsAssumption DEF Order, OrderStatus
  <2> HIDE DEF o
  <2>3. /\ Cap' = [Cap EXCEPT ![r] = q]
        /\ Closed' = IF q = filled[r] THEN Closed \cup {r} ELSE Closed \ {r}
    BY <2>1, <2>2, MappedOrder
  <2>4. Promise!Open(r)
    BY <1>6, <2>1
  <2>5. r \notin Closed
    BY <2>4 DEF Promise!Open, Closed
  <2>6. q \in filled[r]..Suggested[r] /\ q > 0
    BY <1>0, <2>1, OrderForFacts, BoundsAssumption, RecommendationAssumption
  <2>7. Promise!Resize(r)
    BY <2>1, <2>3, <2>4, <2>5, <2>6 DEF Promise!Resize, Cap, Closed
  <2>8. QED
    BY <2>7 DEF Promise!AbsNext
<1>9. ASSUME NEW x \in Submission, RecordFill(x) PROVE Promise!AbsNext
  <2> DEFINE r == x.rec
             total == filled[r] + x.qty
             o == [OrderFor(r) EXCEPT !.status =
                     IF total = OrderFor(r).approved THEN "FILLED" ELSE "PARTIAL"]
  <2>1. r \in Recs /\ x.qty \in Nat \ {0}
    BY SubmissionIsFill, GrossType
  <2>2. /\ Executable(r)
        /\ OrderFor(r).status \notin {"FILLED", "CANCELLED"}
        /\ total <= OrderFor(r).approved
        /\ filled' = [filled EXCEPT ![r] = total]
        /\ order' = [order EXCEPT ![r] = o]
        /\ review' = review
    BY <1>9 DEF RecordFill, Fits, ClosedStatus
  <2>3. /\ o \in Order
        /\ o.approved = OrderFor(r).approved
        /\ o.status = IF total = OrderFor(r).approved THEN "FILLED" ELSE "PARTIAL"
    BY <2>1, OrderForFacts DEF Order, OrderStatus
  <2>4. total \in (filled[r] + 1)..OrderFor(r).approved
    <3>1. filled[r] \in Nat /\ OrderFor(r).approved \in Nat
      BY <1>0, <2>1, OrderForFacts DEF Order
    <3> HIDE DEF o, r
    <3>2. QED
      BY <2>1, <2>2, <3>1
  <2> HIDE DEF o, r, total
  <2>5. /\ Cap' = [Cap EXCEPT ![r] = o.approved]
        /\ Closed' = IF total = OrderFor(r).approved
                     THEN Closed \cup {r} ELSE Closed \ {r}
    BY <2>1, <2>2, <2>3, MappedOrder
  <2>6. Cap[r] = OrderFor(r).approved
    BY <2>1 DEF Cap
  <2>7. Cap' = Cap
    BY <2>3, <2>5, <2>6 DEF Cap
  <2>8. Promise!Open(r)
    BY <1>6, <2>1, <2>2
  <2>9. r \notin Closed
    BY <2>8 DEF Promise!Open, Closed
  <2>10. Promise!Execute(r)
    <3>1. Closed' = IF total = Cap[r] THEN Closed \cup {r} ELSE Closed
      BY <2>5, <2>6, <2>9
    <3>2. total \in (filled[r] + 1)..Cap[r]
      BY <2>4, <2>6
    <3>3. \E t \in (filled[r] + 1)..Cap[r] :
            /\ filled' = [filled EXCEPT ![r] = t]
            /\ Closed' = IF t = Cap[r] THEN Closed \cup {r} ELSE Closed
      BY <2>2, <3>1, <3>2
    <3>4. QED
      BY <2>2, <2>7, <2>8, <3>3, Zenon DEF Promise!Execute, Cap, Closed
  <2>11. QED
    BY <2>1, <2>10 DEF Promise!AbsNext
<1>10. QED
  BY <1>1, <1>3, <1>4, <1>5, <1>7, <1>8, <1>9
  DEF Next, FillNext, ReviewStep, OrderStep, FillStep

\* Reviews, orders, fills, ledger and snapshots implement the abstract
\* specification: the user decides once, executes at most the approval, and
\* nothing moves after the recommendation is closed.
THEOREM Refinement == Spec => KeepsPromise
<1>1. Init => Promise!AbsInit
  BY InitRefines
<1>2. IInv /\ [Next]_vars => [Promise!AbsNext]_(Promise!absVars)
  BY StepRefines
<1>3. QED
  BY <1>1, <1>2, Invariant, PTL DEF Spec, KeepsPromise, Promise!AbsSpec

=============================================================================
