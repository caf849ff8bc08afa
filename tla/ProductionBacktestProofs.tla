---------------------- MODULE ProductionBacktestProofs ----------------------
(***************************************************************************)
(* Proofs about ProductionBacktest, for any assets, prices and calendar: what  *)
(* is held is accounted for, dividends go to what was held over night, trades   *)
(* rely on the past, the books keep their types, and the profit reported is the *)
(* profit made.                                                              *)
(***************************************************************************)
EXTENDS ProductionBacktest, FiniteSetTheorems, SumTheorems, TLAPS

\* What of the types the proofs need.
Types ==
  /\ session \in Nat
  /\ pc \in {"marked", "actions", "mark"} /\ (pc # "marked" => session > 0)
  /\ bars \in [Assets -> {"none", "halted", "tradable"}]
  /\ target \in SUBSET [signal : Int, known : Int]
  /\ dividends \in Int
  /\ shares \in [Assets -> Nat]
  /\ basis = [a \in Assets |-> basis[a]]
  /\ holding \in [Assets -> Int] /\ opened \in [Assets -> Int]
  /\ stale \in [Assets -> Int] /\ quoted \in [Assets -> Int]
  /\ observed \in [Assets -> SUBSET Nat]
  /\ overnight \in [Assets -> Int]

\* A position at a close, one held over night, and one opened in this session,
\* which has a bar to be marked with.
Marked(a) ==
  /\ quoted[a] \in opened[a]..session
  /\ stale[a] = session - quoted[a] /\ stale[a] <= MaxStale
HeldOver(a) ==
  /\ opened[a] < session
  /\ quoted[a] \in opened[a]..(session - 1) /\ stale[a] = session - 1 - quoted[a]
JustOpened(a) == pc = "mark" /\ opened[a] = session /\ bars[a] = "tradable"

Account(a) ==
  /\ shares[a] > 0 =>
       /\ holding[a] = session - opened[a]
       /\ opened[a] \in 1..session
       /\ pc = "marked" => Marked(a)
       /\ pc # "marked" => HeldOver(a) \/ JustOpened(a)
  /\ shares[a] = 0 => basis[a] = 0 /\ holding[a] = 0

\* A volume is known once its session is over, and the positions in the morning
\* are those of the night.
Past ==
  /\ \A a \in Assets : \A s \in observed[a] : s <= session /\ (pc # "marked" => s < session)
  /\ pc # "mark" => overnight = shares

IInv == Types /\ Past /\ \A a \in Assets : Account(a)

-----------------------------------------------------------------------------
LEMMA InitIInv == Init => IInv
  BY BacktestAssumption
  DEF Init, IInv, Types, Past, Account, Zero, NoBars

LEMMA OpenSessionIInv == IInv /\ OpenSession => IInv'
<1> SUFFICES ASSUME IInv, OpenSession PROVE IInv'
  OBVIOUS
<1> USE DEF IInv, OpenSession, quotes
<1>1. Types'
  <2>1. target' \in SUBSET [signal : Int, known : Int]
    BY DEF Targets, Types
  <2>2. holding' \in [Assets -> Int]
    BY DEF Types
  <2>3. QED
    BY <2>1, <2>2 DEF Types
<1>2. Past'
  BY DEF Types, Past
<1>3. ASSUME NEW a \in Assets PROVE Account(a)'
  BY <1>3 DEF Types, Account, Marked, HeldOver, Held
<1>4. QED
  BY <1>1, <1>2, <1>3

LEMMA SplitIInv == ASSUME IInv, NEW a \in Assets, Split(a) PROVE IInv'
<1> USE DEF IInv, Split, Settle, Due, SplitBasis, day, quotes, Held
<1>0. Ratio \in Nat \ {0} /\ shares[a] * Ratio \in Nat /\ shares[a] * Ratio > 0
  BY BacktestAssumption DEF Types
<1>1. Types'
  BY <1>0, BacktestAssumption DEF Types, Past
<1>2. Past'
  BY DEF Types, Past
<1>3. ASSUME NEW x \in Assets PROVE Account(x)'
  BY <1>0, <1>3 DEF Types, Account, HeldOver, JustOpened
<1>4. QED
  BY <1>1, <1>2, <1>3

LEMMA CashDividendIInv ==
  ASSUME IInv, NEW a \in Assets, NEW amount \in Payments, CashDividend(a, amount)
  PROVE  IInv'
<1> USE DEF IInv, CashDividend, Settle, Due, day, quotes, Held
<1>0. amount \in Nat /\ shares[a] * amount \in Int
  BY BacktestAssumption DEF Types
<1>1. Types'
  BY <1>0 DEF Types
<1>2. Past'
  BY DEF Types, Past
<1>3. ASSUME NEW x \in Assets PROVE Account(x)'
  BY <1>3 DEF Types, Account, HeldOver, JustOpened
<1>4. QED
  BY <1>1, <1>2, <1>3

LEMMA PayOutIInv ==
  ASSUME IInv, NEW a \in Assets, NEW amount \in Payments, PayOut(a, amount)
  PROVE  IInv'
<1> USE DEF IInv, PayOut, Settle, Due, day, quotes, Held
<1>1. Types'
  <2>1. shares' = [shares EXCEPT ![a] = 0] /\ shares' \in [Assets -> Nat]
    BY DEF Types
  <2>2. basis' = [basis EXCEPT ![a] = 0] /\ basis' = [x \in Assets |-> basis'[x]]
    BY DEF Types
  <2>3. holding' = [holding EXCEPT ![a] = 0] /\ holding' \in [Assets -> Int]
    BY DEF Types
  <2>4. overnight' = [overnight EXCEPT ![a] = 0] /\ overnight' \in [Assets -> Int]
    BY DEF Types
  <2> HIDE DEF PayOut
  <2>5. UNCHANGED <<session, pc, bars, target, dividends, stale, quoted, observed, opened>>
    BY DEF PayOut
  <2> HIDE DEF Settle
  <2>6. QED
    BY <2>1, <2>2, <2>3, <2>4, <2>5 DEF Types
<1>2. Past'
  BY DEF Types, Past
<1>3. ASSUME NEW x \in Assets PROVE Account(x)'
  BY <1>3 DEF Types, Account, HeldOver, JustOpened
<1>4. QED
  BY <1>1, <1>2, <1>3

\* What a target changes has a bar and an observed volume; nothing else moves.
LEMMA RebalanceStep ==
  ASSUME Rebalance, Types
  PROVE  /\ shares' \in [Assets -> Nat]
         /\ basis' = [a \in Assets |-> basis'[a]]
         /\ holding' = [a \in Assets |-> IF shares'[a] = 0 THEN 0 ELSE holding[a]]
         /\ \A a \in Assets : shares'[a] # shares[a] => Tradable(a)
         /\ \A a \in Assets : shares'[a] = 0 => basis'[a] = 0 \/ shares[a] = 0
         /\ \A a \in Assets : shares'[a] = shares[a] => basis'[a] = basis[a]
         /\ opened' = [a \in Assets |->
              IF shares'[a] # shares[a] /\ shares[a] = 0 THEN session ELSE opened[a]]
<1>1. PICK weighted \in SUBSET Assets, want \in [Assets -> 0..MaxShares] :
        /\ \A a \in Assets \ weighted : want[a] = 0
        /\ Rebalanced(want, weighted \cup Held)
  BY DEF Rebalance
<1>2. want \in [Assets -> Nat]
  BY BacktestAssumption
<1>3. \A a \in Assets : want[a] # shares[a] => a \in weighted \cup Held
  BY <1>1, <1>2 DEF Held, Types
<1>4. /\ \A a \in weighted \cup Held : Tradable(a)
      /\ shares' = want
      /\ holding' = [a \in Assets |-> IF want[a] = 0 THEN 0 ELSE holding[a]]
      /\ opened' = [a \in Assets |->
           IF a \in {x \in weighted \cup Held : want[x] # shares[x]} /\ shares[a] = 0
           THEN session ELSE opened[a]]
  BY <1>1 DEF Rebalanced
<1>5. PICK price \in [weighted \cup Held -> Prices] :
        basis' = [a \in Assets |->
             IF a \in {x \in weighted \cup Held : want[x] # shares[x]}
             THEN NewBasis(a, want[a], price[a]) ELSE basis[a]]
  BY <1>1 DEF Rebalanced
<1>6. ASSUME NEW a \in Assets, shares'[a] = 0 PROVE basis'[a] = 0 \/ shares[a] = 0
  BY <1>2, <1>3, <1>4, <1>5, <1>6 DEF NewBasis, Types
<1>7. QED
  BY <1>2, <1>3, <1>4, <1>5, <1>6

LEMMA RebalanceIInv == IInv /\ Rebalance => IInv'
<1> SUFFICES ASSUME IInv, Rebalance PROVE IInv'
  OBVIOUS
<1> USE DEF IInv
<1>0. pc = "actions" /\ pc' = "mark" /\ UNCHANGED <<day, dividends, quotes, overnight>>
  BY DEF Rebalance
<1>1. Types'
  BY <1>0, RebalanceStep DEF Types, day, quotes
<1>2. Past'
  BY <1>0 DEF Types, Past, day, quotes
<1>3. ASSUME NEW a \in Assets PROVE Account(a)'
  <2> USE <1>0, <1>3, RebalanceStep DEF Types, day, quotes
  <2>1. CASE shares[a] = 0 /\ shares'[a] > 0
    <3>1. bars[a] = "tradable" /\ opened'[a] = session /\ holding'[a] = 0
      BY <2>1 DEF Tradable, Account
    <3>2. session \in Nat \ {0}
      BY <1>0 DEF Types
    <3>3. QED
      BY <2>1, <3>1, <3>2 DEF Account, JustOpened
  <2>2. CASE shares[a] > 0 /\ shares'[a] > 0
    BY <2>2 DEF Account, HeldOver, JustOpened
  <2>3. CASE shares'[a] = 0
    BY <2>3 DEF Account
  <2>4. QED
    BY <2>1, <2>2, <2>3
<1>4. QED
  BY <1>1, <1>2, <1>3

LEMMA MarkIInv == IInv /\ Mark => IInv'
<1> SUFFICES ASSUME IInv, Mark PROVE IInv'
  OBVIOUS
<1> USE DEF IInv, Mark, books
<1>1. \A a \in Assets : \A s \in observed'[a] : s \in Nat /\ s <= session
  BY DEF Newest, Types, Past
<1>2. Types'
  BY <1>1 DEF Types, Staleness, NoBars
<1>3. Past'
  BY <1>1 DEF Types, Past
<1>4. ASSUME NEW a \in Assets PROVE Account(a)'
  BY <1>4 DEF Types, Account, Marked, HeldOver, JustOpened, Held, Staleness
<1>5. QED
  BY <1>2, <1>3, <1>4

LEMMA NextIInv == IInv /\ [Next]_vars => IInv'
<1> SUFFICES ASSUME IInv, [Next]_vars PROVE IInv'
  OBVIOUS
<1>1. CASE OpenSession
  BY <1>1, OpenSessionIInv
<1>2. CASE CorporateAction
  BY <1>2, SplitIInv, CashDividendIInv, PayOutIInv DEF CorporateAction
<1>3. CASE Rebalance
  BY <1>3, RebalanceIInv
<1>4. CASE Mark
  BY <1>4, MarkIInv
<1>5. CASE UNCHANGED vars
  BY <1>5 DEF IInv, Types, Past, Account, Marked, HeldOver, JustOpened, vars, day, books, quotes
<1>6. QED
  BY <1>1, <1>2, <1>3, <1>4, <1>5 DEF Next

\* The inductive invariant of the backtest's books.
THEOREM BacktestInvariant == Spec => []IInv
<1>1. QED
  BY InitIInv, NextIInv, PTL DEF Spec

\* A position's valuation is as old as the books say, at most MaxStale sessions,
\* and its holding period is the time since it was opened; what is not held
\* leaves nothing on the books.
THEOREM PositionsAreAccounted == Spec => []HeldIsAccounted
<1>1. IInv => HeldIsAccounted
  BY DEF IInv, Types, Account, Marked, HeldIsAccounted, Held
<1>2. QED
  BY <1>1, BacktestInvariant, PTL

-----------------------------------------------------------------------------
\* A dividend is paid for what was held over night.
LEMMA DividendStep ==
  ASSUME IInv, NEW a \in Assets, NEW amount \in Payments, CashDividend(a, amount)
  PROVE  dividends' - dividends = overnight[a] * amount
<1>1. overnight = shares
  BY DEF CashDividend, Settle, Due, IInv, Past
<1>2. shares[a] * amount \in Int /\ dividends \in Int
  BY BacktestAssumption DEF IInv, Types
<1>3. QED
  BY <1>1, <1>2 DEF CashDividend

\* A dividend goes to every share held over night, and to none that the
\* session's own target bought.
THEOREM DividendsGoOvernight == Spec => DividendsAreOvernight
<1>1. IInv /\ [Next]_vars =>
        [\A a \in Assets, amount \in Payments : CashDividend(a, amount) =>
           dividends' - dividends = overnight[a] * amount]_vars
  BY DividendStep
<1>2. []IInv /\ [][Next]_vars => DividendsAreOvernight
  BY <1>1, PTL DEF DividendsAreOvernight
<1>3. QED
  BY <1>2, BacktestInvariant, PTL DEF Spec

\* A trade's signal, universe and volumes are of earlier sessions.
LEMMA TradeStep ==
  IInv /\ [Next]_vars =>
    \A a \in Assets : pc = "actions" /\ pc' = "mark" /\ shares'[a] # shares[a] =>
      /\ \E t \in target : t.signal < session /\ t.known <= t.signal
      /\ observed[a] # {} /\ \A s \in observed[a] : s < session
<1> SUFFICES ASSUME IInv, [Next]_vars, NEW a \in Assets,
                    pc = "actions", pc' = "mark", shares'[a] # shares[a]
             PROVE  /\ \E t \in target : t.signal < session /\ t.known <= t.signal
                    /\ observed[a] # {} /\ \A s \in observed[a] : s < session
  OBVIOUS
<1>1. Rebalance
  BY DEF Next, OpenSession, CorporateAction, Split, CashDividend, PayOut, Settle, Mark,
         books, vars
<1>2. \E t \in target : t.signal < session /\ t.known <= t.signal
  <2>1. PICK t \in target : Valid(t)
    BY <1>1 DEF Rebalance
  <2>2. t.signal \in Int /\ session \in Int
    BY DEF IInv, Types
  <2>3. QED
    BY <2>1, <2>2 DEF Valid
<1>3. Cardinality(observed[a]) >= MinObserved /\ MinObserved \in Nat \ {0}
  BY <1>1, RebalanceStep, BacktestAssumption DEF IInv, Tradable
<1>4. observed[a] # {}
  BY <1>3, FS_EmptySet
<1>5. QED
  BY <1>2, <1>4 DEF IInv, Past, Types

\* Nothing a trade relies on was learnt after the close before it.
THEOREM TradesRelyOnThePast == Spec => TradesOnThePast
<1>1. []IInv /\ [][Next]_vars => TradesOnThePast
  BY TradeStep, PTL DEF TradesOnThePast
<1>2. QED
  BY <1>1, BacktestInvariant, PTL DEF Spec

-----------------------------------------------------------------------------
(* The full types.  That cash stays natural rests on the check of a target's *)
(* price and on what a dividend or a merger pays for.                         *)

LEMMA OpenSessionTypes == IInv /\ TypeOK /\ OpenSession => TypeOK'
<1> SUFFICES ASSUME IInv, TypeOK, OpenSession PROVE TypeOK'
  OBVIOUS
<1> USE BacktestAssumption DEF TypeOK, OpenSession, quotes
<1>1. session' \in 0..MaxSession /\ session' = session + 1
  OBVIOUS
<1>2. target' \in SUBSET [signal : 0..MaxSession, known : 0..MaxSession]
  <2>1. Targets(session') \subseteq [signal : 0..MaxSession, known : 0..MaxSession]
    BY <1>1 DEF Targets
  <2>2. QED
    BY <2>1
<1>3. holding' \in [Assets -> 0..MaxSession]
  <2>1. ASSUME NEW a \in Assets
        PROVE  holding[a] + (IF a \in Held THEN 1 ELSE 0) \in 0..MaxSession
    BY <1>1 DEF Held, IInv, Types, Account
  <2>2. QED
    BY <2>1
<1>4. QED
  BY <1>1, <1>2, <1>3

LEMMA SplitTypes == ASSUME IInv, TypeOK, NEW a \in Assets, Split(a) PROVE TypeOK'
<1> USE DEF Split, Settle, Due, SplitBasis, day, quotes, Held
<1>1. Ratio \in Nat /\ shares[a] * Ratio \in 0..MaxShares /\ overnight = shares
  BY BacktestAssumption DEF TypeOK, IInv, Past
<1>2. shares' \in [Assets -> 0..MaxShares] /\ overnight' \in [Assets -> 0..MaxShares]
  BY <1>1 DEF TypeOK
<1>3. basis' = basis
  BY DEF TypeOK
<1>4. acted' \in 0..MaxActions
  BY BacktestAssumption DEF TypeOK
<1>5. UNCHANGED <<session, pc, bars, target, cash, realized, dividends, costs, holding,
                  opened, stale, quoted, observed>>
  OBVIOUS
<1> HIDE DEF Split, Settle
<1>6. QED
  BY <1>2, <1>3, <1>4, <1>5 DEF TypeOK

LEMMA CashDividendTypes ==
  ASSUME IInv, TypeOK, NEW a \in Assets, NEW amount \in Payments, CashDividend(a, amount)
  PROVE  TypeOK'
<1> USE DEF CashDividend, Settle, day, quotes, Held
<1>1. amount \in Nat /\ shares[a] \in Nat
  BY BacktestAssumption DEF TypeOK
<1>2. shares[a] * amount \in Nat
  BY <1>1
<1>3. cash' \in Nat /\ dividends' \in Nat
  BY <1>2 DEF TypeOK
<1>4. acted' \in 0..MaxActions
  BY BacktestAssumption DEF TypeOK
<1>5. UNCHANGED <<session, pc, bars, target, shares, basis, realized, costs, holding,
                  opened, stale, quoted, observed, overnight>>
  OBVIOUS
<1> HIDE DEF CashDividend, Settle
<1>6. QED
  BY <1>3, <1>4, <1>5 DEF TypeOK

LEMMA PayOutTypes ==
  ASSUME IInv, TypeOK, NEW a \in Assets, NEW amount \in Payments, PayOut(a, amount)
  PROVE  TypeOK'
<1> USE DEF PayOut, Settle, day, quotes, Held
<1>1. amount \in Nat /\ shares[a] \in Nat /\ basis[a] \in Nat
  BY BacktestAssumption DEF TypeOK
<1>2. shares[a] * amount \in Nat
  BY <1>1
<1>3. cash' \in Nat /\ realized' \in Int
  BY <1>1, <1>2 DEF TypeOK
<1>4. acted' \in 0..MaxActions
  BY BacktestAssumption DEF TypeOK
<1>5. /\ shares' = [shares EXCEPT ![a] = 0] /\ shares' \in [Assets -> 0..MaxShares]
      /\ overnight' = [overnight EXCEPT ![a] = 0] /\ overnight' \in [Assets -> 0..MaxShares]
  BY BacktestAssumption DEF TypeOK
<1>6. /\ basis' = [basis EXCEPT ![a] = 0] /\ basis' \in [Assets -> Nat]
      /\ holding' = [holding EXCEPT ![a] = 0] /\ holding' \in [Assets -> 0..MaxSession]
  BY BacktestAssumption DEF TypeOK
<1>7. UNCHANGED <<session, pc, bars, target, dividends, costs, opened, stale, quoted,
                  observed>>
  OBVIOUS
<1> HIDE DEF PayOut, Settle
<1>8. QED
  BY <1>3, <1>4, <1>5, <1>6, <1>7 DEF TypeOK

\* A number has one quotient.
LEMMA QuotientIs ==
  ASSUME NEW m \in Int, NEW n \in Nat \ {0}, NEW q \in Int, NEW r \in 0..(n - 1),
         m = n * q + r
  PROVE  m \div n = q
<1> DEFINE d == m \div n
<1>1. d \in Int /\ m % n \in 0..(n - 1) /\ m = n * d + (m % n)
  OBVIOUS
<1> HIDE DEF d
<1>2. q > d => n * q >= n * d + n
  BY <1>1
<1>3. q < d => n * d >= n * q + n
  BY <1>1
<1>4. n * q \in Int /\ n * d \in Int
  BY <1>1
<1>5. q = d
  BY <1>1, <1>2, <1>3, <1>4
<1>6. QED
  BY <1>5 DEF d

\* What is sold and what is kept share the cost of a position without a rest.
LEMMA CostIsShared ==
  ASSUME NEW cost \in Nat, NEW held \in Nat \ {0}, NEW kept \in 0..held
  PROVE  (cost * (held - kept) + held - 1) \div held = cost - (cost * kept) \div held
<1> DEFINE k == cost * kept
           q == k \div held
           r == k % held
<1>1. k \in Nat
  OBVIOUS
<1>2. cost * (held - kept) = cost * held - k
  OBVIOUS
<1>3. q \in Int /\ r \in 0..(held - 1) /\ k = held * q + r
  <2> HIDE DEF k
  <2>1. QED
    BY <1>1
<1> HIDE DEF q, r
<1>4. held * (cost - q) = cost * held - held * q
  BY <1>3
<1>5. cost * held \in Int /\ held * q \in Int
  BY <1>3
<1>6. cost * (held - kept) + held - 1 = held * (cost - q) + (held - 1 - r)
  <2> HIDE DEF k
  <2>1. QED
    BY <1>1, <1>2, <1>3, <1>4, <1>5
<1>7. cost * (held - kept) + held - 1 \in Int /\ cost - q \in Int /\ held - 1 - r \in 0..(held - 1)
  BY <1>3
<1>8. (cost * (held - kept) + held - 1) \div held = cost - q
  BY <1>6, <1>7, QuotientIs
<1>9. QED
  BY <1>8 DEF q

\* The cost of a position after a trade: what was paid is added, and what a sale
\* realizes is what it brought less what it takes from the cost.
LEMMA NewBasisIs ==
  ASSUME TypeOK, NEW a \in Assets, NEW want \in Nat, NEW price \in Nat, want # shares[a]
  PROVE  /\ NewBasis(a, want, price) \in Nat
         /\ Gain(a, want, price) \in Int
         /\ (want - shares[a]) * price \in Int
         /\ NewBasis(a, want, price)
              = basis[a] + (want - shares[a]) * price + Gain(a, want, price)
<1>1. shares[a] \in Nat /\ basis[a] \in Nat
  BY BacktestAssumption DEF TypeOK
<1> DEFINE paid == (want - shares[a]) * price
           sold == (shares[a] - want) * price
<1>2. paid \in Int /\ sold \in Int /\ sold = - paid
  BY <1>1
<1>3. want > shares[a] => paid \in Nat
  BY <1>1
<1>4. want < shares[a] => shares[a] \in Nat \ {0} /\ (basis[a] * want) \div shares[a] \in Nat
  <2>1. basis[a] * want \in Nat
    BY <1>1
  <2> DEFINE k == basis[a] * want
  <2> HIDE DEF k
  <2>2. k \in Nat /\ want < shares[a] => k \div shares[a] \in Nat
    BY <1>1
  <2>3. QED
    BY <1>1, <2>1, <2>2 DEF k
<1>5. NewBasis(a, want, price) \in Nat
  BY <1>1, <1>3, <1>4 DEF NewBasis
<1>6. want > shares[a] => NewBasis(a, want, price) = basis[a] + paid
  BY <1>1 DEF NewBasis
<1>7. Gain(a, want, price) =
        IF want < shares[a] THEN sold - (basis[a] - NewBasis(a, want, price)) ELSE 0
  <2>1. CASE want < shares[a]
    <3>1. want \in 0..shares[a] /\ shares[a] \in Nat \ {0}
      BY <1>1, <2>1
    <3>2. SoldBasis(a, shares[a] - want) = basis[a] - (basis[a] * want) \div shares[a]
      BY <1>1, <3>1, CostIsShared DEF SoldBasis
    <3>3. want = 0 => (basis[a] * want) \div shares[a] = 0
      BY <1>1, <3>1
    <3>4. NewBasis(a, want, price) = (basis[a] * want) \div shares[a]
      BY <1>1, <2>1, <3>3 DEF NewBasis
    <3>5. QED
      BY <2>1, <3>2, <3>4 DEF Gain
  <2>2. CASE ~(want < shares[a])
    BY <2>2 DEF Gain
  <2>3. QED
    BY <2>1, <2>2
<1> HIDE DEF paid, sold
<1>8. Gain(a, want, price) \in Int
  BY <1>1, <1>2, <1>5, <1>7
<1>9. NewBasis(a, want, price) = basis[a] + paid + Gain(a, want, price)
  BY <1>1, <1>2, <1>5, <1>6, <1>7
<1>10. QED
  BY <1>2, <1>5, <1>8, <1>9 DEF paid

\* What a target's trades do to the books: the cash paid and the profit realized
\* are together the change of the positions' cost, less the fees.
LEMMA RebalanceBooks ==
  ASSUME TypeOK, Rebalance
  PROVE  /\ shares' \in [Assets -> 0..MaxShares]
         /\ cash' \in Nat /\ basis' \in [Assets -> Nat]
         /\ realized' \in Int /\ costs' \in Nat
         /\ cash' + SumFunction(basis') = cash + SumFunction(basis)
                                            + (realized' - realized) - (costs' - costs)
<1>1. PICK weighted \in SUBSET Assets, want \in [Assets -> 0..MaxShares] :
        Rebalanced(want, weighted \cup Held)
  BY DEF Rebalance
<1> DEFINE changed == weighted \cup Held
           traded == {a \in changed : want[a] # shares[a]}
           fees == Fee * Cardinality(traded)
<1>2. shares' = want /\ costs' = costs + fees
  BY <1>1 DEF Rebalanced
<1>3. PICK price \in [changed -> Prices] :
        /\ cash' = cash - SumFunction([a \in changed |-> (want[a] - shares[a]) * price[a]])
                        - fees
        /\ cash' >= 0
        /\ basis' = [a \in Assets |->
             IF a \in traded THEN NewBasis(a, want[a], price[a]) ELSE basis[a]]
        /\ realized' = realized
             + SumFunction([a \in traded |-> Gain(a, want[a], price[a])])
  BY <1>1 DEF Rebalanced
<1> DEFINE paid == [a \in changed |-> (want[a] - shares[a]) * price[a]]
           gain == [a \in traded |-> Gain(a, want[a], price[a])]
           between == [a \in Assets |-> IF a \in changed THEN basis[a] + paid[a] ELSE basis[a]]
<1>4. changed \subseteq Assets /\ traded \subseteq changed /\ traded \subseteq Assets
  BY DEF Held
<1>5. IsFiniteSet(Assets) /\ IsFiniteSet(changed) /\ IsFiniteSet(traded)
  BY <1>4, FS_Subset, BacktestAssumption
<1>6. fees \in Nat
  <2>1. Cardinality(traded) \in Nat /\ Fee \in Nat
    BY <1>5, FS_CardinalityType, BacktestAssumption
  <2> HIDE DEF traded
  <2>2. QED
    BY <2>1
<1>7. want \in [Assets -> Nat] /\ shares \in [Assets -> Nat] /\ basis \in [Assets -> Nat]
      /\ cash \in Nat /\ realized \in Int /\ costs \in Nat
  BY BacktestAssumption DEF TypeOK
<1>8. ASSUME NEW a \in changed
      PROVE  price[a] \in Nat /\ want[a] \in Nat /\ paid[a] \in Int
             /\ (a \notin traded => paid[a] = 0)
  <2>1. price[a] \in Nat /\ want[a] \in Nat /\ shares[a] \in Nat
    BY <1>4, <1>7, BacktestAssumption
  <2>2. QED
    BY <2>1
<1>9. ASSUME NEW a \in traded
      PROVE  /\ NewBasis(a, want[a], price[a]) \in Nat /\ gain[a] \in Int
             /\ NewBasis(a, want[a], price[a]) = between[a] + gain[a]
  <2>1. a \in Assets /\ a \in changed /\ want[a] # shares[a]
    BY <1>4
  <2>2. price[a] \in Nat /\ want[a] \in Nat
    BY <1>8
  <2>3. /\ NewBasis(a, want[a], price[a]) \in Nat
        /\ Gain(a, want[a], price[a]) \in Int
        /\ NewBasis(a, want[a], price[a])
             = basis[a] + (want[a] - shares[a]) * price[a] + Gain(a, want[a], price[a])
    BY <2>1, <2>2, NewBasisIs
  <2>4. gain[a] = Gain(a, want[a], price[a])
        /\ between[a] = basis[a] + (want[a] - shares[a]) * price[a]
    BY <2>1
  <2>5. QED
    BY <2>3, <2>4
<1>10. basis' \in [Assets -> Nat]
  BY <1>3, <1>7, <1>9
<1>a. (\A a \in changed : paid[a] \in Int) /\ (\A a \in traded : gain[a] \in Int)
  <2> HIDE DEF paid, gain, changed, traded
  <2>1. QED
    BY <1>8, <1>9
<1>b. \A a \in Assets : basis[a] \in Int
  BY <1>7
<1>c. /\ \A a \in changed : between[a] = basis[a] + paid[a]
      /\ \A a \in Assets \ changed : between[a] = basis[a]
  <2> HIDE DEF paid, changed
  <2>1. QED
    BY <1>4
<1>d. \A a \in Assets : between[a] \in Int
  <2> HIDE DEF paid, between, changed
  <2>1. QED
    BY <1>a, <1>b, <1>c
<1>11. /\ SumFunctionOnSet(paid, changed) \in Int
       /\ SumFunctionOnSet(gain, traded) \in Int
       /\ SumFunctionOnSet(basis, Assets) \in Int
  <2> HIDE DEF paid, gain, changed, traded
  <2>1. QED
    BY <1>5, <1>a, <1>b, SumInt
<1>12. SumFunctionOnSet(between, Assets)
         = SumFunctionOnSet(basis, Assets) + SumFunctionOnSet(paid, changed)
  <2> HIDE DEF between, paid, changed
  <2>1. QED
    BY <1>4, <1>5, <1>a, <1>b, <1>c, SumChange
<1>13. SumFunctionOnSet(basis', Assets)
         = SumFunctionOnSet(between, Assets) + SumFunctionOnSet(gain, traded)
  <2>2. \A a \in traded : gain[a] \in Int /\ basis'[a] = between[a] + gain[a]
    BY <1>3, <1>4, <1>9
  <2>3. ASSUME NEW a \in Assets \ traded PROVE basis'[a] = between[a]
    <3>1. basis'[a] = basis[a]
      BY <1>3
    <3>2. a \in changed => paid[a] = 0
      BY <1>8
    <3>3. between[a] = IF a \in changed THEN basis[a] + paid[a] ELSE basis[a]
      OBVIOUS
    <3> HIDE DEF between, paid
    <3>4. QED
      BY <1>7, <3>1, <3>2, <3>3
  <2> HIDE DEF between, gain, traded, changed
  <2>4. QED
    BY <1>4, <1>5, <1>d, <2>2, <2>3, SumChange
<1>14. /\ SumFunction(basis') = SumFunctionOnSet(basis', Assets)
       /\ SumFunction(basis) = SumFunctionOnSet(basis, Assets)
       /\ SumFunction(paid) = SumFunctionOnSet(paid, changed)
       /\ SumFunction(gain) = SumFunctionOnSet(gain, traded)
  BY <1>7, <1>10 DEF SumFunction
<1>15. /\ cash' = cash - SumFunction(paid) - fees /\ cash' >= 0
       /\ realized' = realized + SumFunction(gain)
  BY <1>3
<1> HIDE DEF paid, gain, between, fees, changed, traded
<1>16. cash' \in Nat /\ realized' \in Int /\ costs' \in Nat
  BY <1>2, <1>6, <1>7, <1>11, <1>14, <1>15
<1>17. cash' + SumFunction(basis') = cash + SumFunction(basis)
                                       + (realized' - realized) - (costs' - costs)
  BY <1>2, <1>6, <1>7, <1>11, <1>12, <1>13, <1>14, <1>15
<1>18. QED
  BY <1>2, <1>10, <1>16, <1>17

LEMMA RebalanceTypes == IInv /\ TypeOK /\ Rebalance => TypeOK'
<1> SUFFICES ASSUME IInv, TypeOK, Rebalance PROVE TypeOK'
  OBVIOUS
<1>1. pc' = "mark" /\ UNCHANGED <<day, acted, dividends, quotes, overnight>>
  BY DEF Rebalance
<1>2. /\ holding' = [a \in Assets |-> IF shares'[a] = 0 THEN 0 ELSE holding[a]]
      /\ opened' = [a \in Assets |->
           IF shares'[a] # shares[a] /\ shares[a] = 0 THEN session ELSE opened[a]]
  BY RebalanceStep DEF IInv
<1>3. holding' \in [Assets -> 0..MaxSession] /\ opened' \in [Assets -> 0..MaxSession]
  BY <1>2, BacktestAssumption DEF TypeOK
<1>4. QED
  BY <1>1, <1>3, RebalanceBooks DEF TypeOK, day, quotes

LEMMA MarkTypes == IInv /\ TypeOK /\ Mark => TypeOK'
<1> SUFFICES ASSUME IInv, TypeOK, Mark PROVE TypeOK'
  OBVIOUS
<1>1. stale' \in [Assets -> Nat] /\ quoted' \in [Assets -> 0..MaxSession]
  BY DEF Mark, TypeOK, Staleness
<1>2. observed' \in [Assets -> SUBSET Sessions]
  <2>1. session \in Sessions
    BY BacktestAssumption DEF IInv, Types, Mark, TypeOK, Sessions
  <2>2. QED
    BY <2>1 DEF Mark, TypeOK, Newest
<1>3. bars' \in [Assets -> {"none", "halted", "tradable"}]
  BY DEF Mark, NoBars
<1>4. overnight' = shares /\ pc' = "marked" /\ target' = {} /\ acted' = 0
      /\ UNCHANGED <<session, books>>
  BY DEF Mark
<1>5. QED
  BY <1>1, <1>2, <1>3, <1>4, BacktestAssumption DEF TypeOK, books

LEMMA NextTypes == IInv /\ TypeOK /\ [Next]_vars => TypeOK'
<1> SUFFICES ASSUME IInv, TypeOK, [Next]_vars PROVE TypeOK'
  OBVIOUS
<1>1. CASE OpenSession
  BY <1>1, OpenSessionTypes
<1>2. CASE CorporateAction
  BY <1>2, SplitTypes, CashDividendTypes, PayOutTypes DEF CorporateAction
<1>3. CASE Rebalance
  BY <1>3, RebalanceTypes
<1>4. CASE Mark
  BY <1>4, MarkTypes
<1>5. CASE UNCHANGED vars
  BY <1>5 DEF TypeOK, vars, day, books, quotes
<1>6. QED
  BY <1>1, <1>2, <1>3, <1>4, <1>5 DEF Next

\* Types of the day, the books, the quotes and the histories.
THEOREM TypesOfTheRun == Spec => []TypeOK
<1>1. Init => TypeOK
  BY BacktestAssumption DEF Init, TypeOK, Zero, NoBars
<1>2. QED
  BY <1>1, NextTypes, BacktestInvariant, PTL DEF Spec

-----------------------------------------------------------------------------
\* The cost of all positions is a whole number.
LEMMA BasisSum ==
  TypeOK => SumFunction(basis) \in Int /\ SumFunction(basis) = SumFunctionOnSet(basis, Assets)
<1> SUFFICES ASSUME TypeOK
             PROVE  /\ SumFunction(basis) \in Int
                    /\ SumFunction(basis) = SumFunctionOnSet(basis, Assets)
  OBVIOUS
<1>1. SumFunction(basis) = SumFunctionOnSet(basis, Assets)
  BY DEF SumFunction, TypeOK
<1>2. \A a \in Assets : basis[a] \in Int
  BY DEF TypeOK
<1>3. QED
  BY <1>1, <1>2, SumInt, BacktestAssumption

LEMMA InitReconciles == Init => ProfitReconciles
<1> SUFFICES ASSUME Init PROVE ProfitReconciles
  OBVIOUS
<1>1. basis = [a \in Assets |-> 0] /\ IsFiniteSet(Assets)
  BY BacktestAssumption DEF Init, Zero
<1>2. SumFunction(basis) = SumFunctionOnSet(basis, Assets)
  BY <1>1 DEF SumFunction
<1>3. SumFunctionOnSet(basis, Assets) = 0
  BY <1>1, SumOfZeros
<1>4. QED
  BY <1>2, <1>3, BacktestAssumption DEF Init, ProfitReconciles

LEMMA NextReconciles ==
  IInv /\ TypeOK /\ ProfitReconciles /\ [Next]_vars => ProfitReconciles'
<1> SUFFICES ASSUME IInv, TypeOK, ProfitReconciles, [Next]_vars PROVE ProfitReconciles'
  OBVIOUS
<1>0. /\ cash \in Nat /\ realized \in Int /\ dividends \in Nat /\ costs \in Nat
      /\ Capital \in Nat /\ SumFunction(basis) \in Int
  BY BasisSum, BacktestAssumption DEF TypeOK
<1>1. CASE OpenSession
  BY <1>1 DEF OpenSession, ProfitReconciles
<1>2. ASSUME NEW a \in Assets, Split(a) PROVE ProfitReconciles'
  <2>1. basis' = basis
    BY <1>2 DEF Split, SplitBasis, TypeOK
  <2>2. QED
    BY <1>2, <2>1 DEF Split, Settle, ProfitReconciles
<1>3. ASSUME NEW a \in Assets, NEW amount \in Payments, CashDividend(a, amount)
      PROVE  ProfitReconciles'
  <2> DEFINE paid == shares[a] * amount
  <2>1. paid \in Int
    BY BacktestAssumption DEF TypeOK
  <2>2. cash' = cash + paid /\ dividends' = dividends + paid
        /\ UNCHANGED <<basis, realized, costs>>
    BY <1>3 DEF CashDividend, Settle
  <2> HIDE DEF paid
  <2>3. QED
    BY <1>0, <2>1, <2>2 DEF ProfitReconciles
<1>4. ASSUME NEW a \in Assets, NEW amount \in Payments, PayOut(a, amount)
      PROVE  ProfitReconciles'
  <2> DEFINE paid == shares[a] * amount
  <2>1. paid \in Int /\ basis[a] \in Int
    BY BacktestAssumption DEF TypeOK
  <2>2. cash' = cash + paid /\ realized' = realized + paid - basis[a]
        /\ UNCHANGED <<dividends, costs>>
    BY <1>4 DEF PayOut, Settle
  <2>3. SumFunction(basis') = SumFunction(basis) - basis[a] + 0
    <3>1. basis \in [Assets -> Int] /\ IsFiniteSet(Assets)
      BY BacktestAssumption DEF TypeOK
    <3>2. /\ basis' \in [Assets -> Int] /\ basis'[a] = 0
          /\ \A x \in Assets \ {a} : basis'[x] = basis[x]
      BY <1>4, <3>1 DEF PayOut
    <3>3. QED
      BY <3>1, <3>2, SumReplace
  <2> HIDE DEF paid
  <2>4. QED
    BY <1>0, <2>1, <2>2, <2>3 DEF ProfitReconciles
<1>5. CASE Rebalance
  <2>1. dividends' = dividends
    BY <1>5 DEF Rebalance
  <2>2. QED
    BY <1>0, <1>5, <2>1, RebalanceBooks DEF ProfitReconciles
<1>6. CASE Mark
  BY <1>6 DEF Mark, books, ProfitReconciles
<1>7. CASE UNCHANGED vars
  BY <1>7 DEF vars, books, ProfitReconciles
<1>8. QED
  BY <1>1, <1>2, <1>3, <1>4, <1>5, <1>6, <1>7 DEF Next, CorporateAction

\* The profit reported is the profit made, through every split, dividend,
\* merger, partial sale and addition.
THEOREM ProfitIsReal == Spec => []ProfitReconciles
<1>1. QED
  BY InitReconciles, NextReconciles, BacktestInvariant, TypesOfTheRun, PTL DEF Spec

=============================================================================
