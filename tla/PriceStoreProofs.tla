------------------------- MODULE PriceStoreProofs -------------------------
(***************************************************************************)
(* Proofs about PriceStore, for any symbols, calendar and settings: the types, *)
(* that final prices stay but for a task that was answered before the close,    *)
(* that certified windows are whole, that the quarantine file tells what        *)
(* failed, and that the task leaves no gap.                                   *)
(***************************************************************************)
EXTENDS PriceStore, SumTheorems, TLAPS

\* What is said of a date is a price.
LEMMA QuotedType == \A answer : Quoted(answer) \in [Dates -> Bars]
  BY DEF Quoted, Price, Bars

\* A refresh asks for dates of the calendar.
LEMMA WindowType ==
  ASSUME TypeOK, RefreshEnd >= 1
  PROVE  RefreshStart \in Dates /\ RefreshEnd \in Dates
<1>1. RefreshEnd \in Dates
  BY PriceStoreAssumption DEF TypeOK, RefreshEnd, Dates
<1>2. RefreshStart \in 1..RefreshEnd
  BY <1>1, PriceStoreAssumption DEF RefreshStart, Dates
<1>3. QED
  BY <1>1, <1>2, PriceStoreAssumption DEF Dates

\* What is answered lies in the dates asked for.
LEMMA AnswersType ==
  ASSUME NEW s \in Symbols, NEW from \in Dates, NEW to \in Dates,
         NEW answer \in Answers(s, from, to)
  PROVE  /\ answer \in SUBSET Dates
         /\ \A d \in answer : from <= d /\ d <= to
  BY PriceStoreAssumption DEF Answers, Dates

\* What is stored of a stock leaves a table of prices.
LEMMA UpsertType ==
  ASSUME TypeOK, NEW s \in Symbols, NEW quotes \in [Dates -> Bars], Upsert(s, quotes)
  PROVE  rows' \in [Symbols -> [Dates -> Bars]]
  BY DEF TypeOK, Upsert

\* What is left out concerns required securities.
LEMMA OmitType ==
  ASSUME NEW s, NEW asked, Omit(s, asked)
  PROVE  omitted' \in [Required -> SUBSET Dates]
  BY DEF Omit

\* What a download takes up, and what it leaves.
LEMMA DownloadStep ==
  ASSUME Download
  PROVE  \E c \in SUBSET todo : \E f \in SUBSET c :
           /\ chunk' = c /\ todo' = todo \ c
           /\ failed' = f /\ memory' = Memory(f)
           /\ \E answer \in [c \ f -> SUBSET (1..today)] :
                bars' = [s \in Symbols |-> [d \in Dates |->
                           IF s \in c \ f /\ d \in answer[s] THEN Price(d) ELSE "none"]]
<1>1. PICK c \in SUBSET todo :
        /\ chunk' = c /\ todo' = todo \ c
        /\ \E f \in SUBSET c :
             /\ failed' = f /\ memory' = Memory(f)
             /\ \E answer \in [c \ f -> SUBSET (1..today)] :
                  /\ \A s \in c \ f : answer[s] \in Answers(s, 1, today)
                  /\ bars' = [s \in Symbols |-> [d \in Dates |->
                                IF s \in c \ f /\ d \in answer[s] THEN Price(d)
                                ELSE "none"]]
  BY DEF Download
<1>2. QED
  BY <1>1

\* The latest stored date is a stored date, and none is later.
LEMMA LatestIsLast ==
  ASSUME NEW s \in Symbols, Stored(s) # {}
  PROVE  Latest(s) \in Stored(s) /\ \A e \in Stored(s) : e <= Latest(s)
<1>1. Stored(s) \subseteq Dates /\ MaxDate \in Nat
  BY PriceStoreAssumption DEF Stored
<1> DEFINE Ages == {MaxDate - d : d \in Stored(s)}
<1>2. Ages \in SUBSET Nat /\ Ages # {}
  BY <1>1 DEF Dates
<1>3. PICK n \in Ages : \A m \in Ages : n <= m
  <2> HIDE DEF Ages
  <2>1. QED
    BY <1>2, LeastNat
<1>4. PICK d \in Stored(s) : n = MaxDate - d
  OBVIOUS
<1>5. ASSUME NEW e \in Stored(s) PROVE e <= d
  <2>1. MaxDate - e \in Ages
    OBVIOUS
  <2>2. MaxDate - d <= MaxDate - e
    BY <1>3, <1>4, <2>1
  <2>3. d \in Int /\ e \in Int /\ MaxDate \in Int
    BY <1>1 DEF Dates
  <2> HIDE DEF Ages
  <2>4. QED
    BY <2>2, <2>3
<1>6. Latest(s) = CHOOSE x \in Stored(s) : \A e \in Stored(s) : e <= x
  BY DEF Latest
<1>7. QED
  BY <1>5, <1>6, Zenon

\* What the task asks for starts at the beginning, or no later than at the
\* latest stored row.
LEMMA IncrementalStartIs ==
  ASSUME TypeOK, NEW s \in Symbols
  PROVE  /\ IncrementalStart(s) \in Dates
         /\ IncrementalStart(s) = 1 \/ \E e \in Stored(s) : IncrementalStart(s) <= e
<1>1. CASE Stored(s) = {}
  BY <1>1, PriceStoreAssumption DEF IncrementalStart, Latest, Dates
<1>2. CASE Stored(s) # {}
  <2>1. Latest(s) \in Stored(s) /\ Latest(s) \in Dates
    BY <1>2, LatestIsLast DEF Stored
  <2>2. IncrementalStart(s) \in Dates
    BY <2>1, PriceStoreAssumption DEF IncrementalStart, Dates
  <2>3. IncrementalStart(s) = 1 \/ IncrementalStart(s) <= Latest(s)
    BY <2>1, PriceStoreAssumption DEF IncrementalStart, Dates
  <2>4. QED
    BY <2>1, <2>2, <2>3
<1>3. QED
  BY <1>1, <1>2

\* What the task asks, and keeps to store.
LEMMA AskTaskStep ==
  ASSUME TypeOK, AskTask
  PROVE  \E s \in Symbols, end \in Dates, answer \in SUBSET Dates :
           /\ end <= today
           /\ \A d \in answer : IncrementalStart(s) <= d /\ d <= end
           /\ task' = {[symbol |-> s, start |-> IncrementalStart(s), end |-> end,
                        quotes |-> Quoted(answer)]}
<1>1. PICK s \in Symbols, end \in 1..today :
        \E answer \in Answers(s, IncrementalStart(s), end) \ {{}} :
          task' = {[symbol |-> s, start |-> IncrementalStart(s), end |-> end,
                    quotes |-> Quoted(answer)]}
  BY DEF AskTask
<1>2. PICK answer \in Answers(s, IncrementalStart(s), end) :
        task' = {[symbol |-> s, start |-> IncrementalStart(s), end |-> end,
                  quotes |-> Quoted(answer)]}
  BY <1>1
<1>3. end \in Dates /\ end <= today
  BY PriceStoreAssumption DEF TypeOK, Dates
<1>4. /\ answer \in SUBSET Dates
      /\ \A d \in answer : IncrementalStart(s) <= d /\ d <= end
  BY <1>2, <1>3, AnswersType, IncrementalStartIs
<1>5. QED
  BY <1>2, <1>3, <1>4

\* What a refresh notes of a stock.
LEMMA RunRecordKept ==
  ASSUME NEW x \in RunRecord, NEW left \in SUBSET Symbols
  PROVE  /\ \A early \in SUBSET (Symbols \X Dates) :
              [x EXCEPT !.left = left, !.early = early] \in RunRecord
         /\ \A f \in BOOLEAN : [x EXCEPT !.left = left, !.failed = f] \in RunRecord
  BY DEF RunRecord

\* A stock that a refresh has done with: its answer is stored, or nothing is.
LEMMA RefreshStockStep ==
  ASSUME TypeOK, RefreshStock
  PROVE  \E x \in run : \E s \in Symbols :
           \/ \E answer \in SUBSET Dates :
                /\ \A d \in answer : d <= x.to
                /\ Upsert(s, Quoted(answer))
                /\ Omit(s, Window(x))
                /\ run' = {[x EXCEPT !.left = x.left \ {s},
                        !.early = @ \cup {<<s, d>> : d \in {e \in answer : rows'[s][e] = "early"}}]}
           \/ /\ UNCHANGED store
              /\ \E cached \in BOOLEAN :
                   run' = {[x EXCEPT !.left = x.left \ {s}, !.failed = @ \/ ~cached]}
<1>1. PICK x \in run : \E s \in x.left :
        \/ \E answer \in Answers(s, x.from, x.to) \ {{}} :
             /\ Upsert(s, Quoted(answer))
             /\ Omit(s, Window(x))
             /\ run' = {[x EXCEPT !.left = x.left \ {s},
                     !.early = @ \cup {<<s, d>> : d \in {e \in answer : rows'[s][e] = "early"}}]}
        \/ /\ UNCHANGED store
           /\ \E cached \in BOOLEAN :
                run' = {[x EXCEPT !.left = x.left \ {s}, !.failed = @ \/ ~cached]}
  BY DEF RefreshStock
<1>2. x \in RunRecord
  BY DEF TypeOK
<1>3. PICK s \in x.left :
        \/ \E answer \in Answers(s, x.from, x.to) \ {{}} :
             /\ Upsert(s, Quoted(answer))
             /\ Omit(s, Window(x))
             /\ run' = {[x EXCEPT !.left = x.left \ {s},
                     !.early = @ \cup {<<s, d>> : d \in {e \in answer : rows'[s][e] = "early"}}]}
        \/ /\ UNCHANGED store
           /\ \E cached \in BOOLEAN :
                run' = {[x EXCEPT !.left = x.left \ {s}, !.failed = @ \/ ~cached]}
  BY <1>1
<1>4. s \in Symbols /\ x.from \in Dates /\ x.to \in Dates
  BY <1>2 DEF RunRecord
<1>5. CASE \E answer \in Answers(s, x.from, x.to) \ {{}} :
             /\ Upsert(s, Quoted(answer))
             /\ Omit(s, Window(x))
             /\ run' = {[x EXCEPT !.left = x.left \ {s},
                     !.early = @ \cup {<<s, d>> : d \in {e \in answer : rows'[s][e] = "early"}}]}
  <2>1. PICK answer \in Answers(s, x.from, x.to) :
             /\ Upsert(s, Quoted(answer))
             /\ Omit(s, Window(x))
             /\ run' = {[x EXCEPT !.left = x.left \ {s},
                     !.early = @ \cup {<<s, d>> : d \in {e \in answer : rows'[s][e] = "early"}}]}
    BY <1>5
  <2>2. answer \in SUBSET Dates /\ \A d \in answer : d <= x.to
    BY <1>4, <2>1, AnswersType
  <2>3. QED
    BY <1>4, <2>1, <2>2
<1>6. QED
  BY <1>3, <1>4, <1>5

\* Every step keeps the types.
LEMMA NextTypeOK == TypeOK /\ [Next]_vars => TypeOK'
<1> SUFFICES ASSUME TypeOK, [Next]_vars PROVE TypeOK'
  OBVIOUS
<1> USE DEF calendar, store, engines, sync
<1>1. CASE Close
  BY <1>1 DEF Close, TypeOK
<1>2. CASE NextDate
  BY <1>2, PriceStoreAssumption DEF NextDate, TypeOK, Dates
<1>3. CASE StartRefresh
  <2>1. run' \subseteq RunRecord
    BY <1>3, WindowType DEF StartRefresh, RunRecord
  <2>2. QED
    BY <1>3, <2>1 DEF StartRefresh, TypeOK
<1>4. CASE RefreshStock
  <2>1. PICK x \in run, s \in Symbols :
          \/ \E answer \in SUBSET Dates :
                /\ \A d \in answer : d <= x.to
                /\ Upsert(s, Quoted(answer))
                /\ Omit(s, Window(x))
                /\ run' = {[x EXCEPT !.left = x.left \ {s},
                        !.early = @ \cup {<<s, d>> : d \in {e \in answer : rows'[s][e] = "early"}}]}
          \/ /\ UNCHANGED store
             /\ \E cached \in BOOLEAN :
                   run' = {[x EXCEPT !.left = x.left \ {s}, !.failed = @ \/ ~cached]}
    BY <1>4, RefreshStockStep
  <2>2. x \in RunRecord
    BY DEF TypeOK
  <2>3. CASE \E answer \in SUBSET Dates :
                /\ Upsert(s, Quoted(answer))
                /\ Omit(s, Window(x))
                /\ run' = {[x EXCEPT !.left = x.left \ {s},
                        !.early = @ \cup {<<s, d>> : d \in {e \in answer : rows'[s][e] = "early"}}]}
    <3>1. PICK answer \in SUBSET Dates :
                /\ Upsert(s, Quoted(answer))
                /\ Omit(s, Window(x))
                /\ run' = {[x EXCEPT !.left = x.left \ {s},
                        !.early = @ \cup {<<s, d>> : d \in {e \in answer : rows'[s][e] = "early"}}]}
      BY <2>3
    <3>2. {<<s, d>> : d \in {e \in answer : rows'[s][e] = "early"}} \subseteq Symbols \X Dates
      OBVIOUS
    <3>3. run' \subseteq RunRecord
      <4>1. x.left \ {s} \in SUBSET Symbols /\ x.early \in SUBSET (Symbols \X Dates)
        BY <2>2 DEF RunRecord
      <4>2. x.early \cup {<<s, d>> : d \in {e \in answer : rows'[s][e] = "early"}}
              \in SUBSET (Symbols \X Dates)
        BY <3>2, <4>1
      <4>3. [x EXCEPT !.left = x.left \ {s},
               !.early = x.early \cup {<<s, d>> : d \in {e \in answer : rows'[s][e] = "early"}}]
              \in RunRecord
        BY <2>2, <4>1, <4>2, RunRecordKept, Zenon
      <4>4. QED
        BY <3>1, <4>3, Zenon
    <3>4. rows' \in [Symbols -> [Dates -> Bars]] /\ omitted' \in [Required -> SUBSET Dates]
      BY <3>1, UpsertType, QuotedType, OmitType
    <3>5. QED
      BY <1>4, <3>3, <3>4 DEF RefreshStock, TypeOK
  <2>4. CASE UNCHANGED store /\ \E cached \in BOOLEAN :
               run' = {[x EXCEPT !.left = x.left \ {s}, !.failed = @ \/ ~cached]}
    <3>1. run' \subseteq RunRecord
      <4>1. x.left \ {s} \in SUBSET Symbols /\ \A f \in BOOLEAN : (x.failed \/ f) \in BOOLEAN
        BY <2>2 DEF RunRecord
      <4>2. PICK cached \in BOOLEAN :
              run' = {[x EXCEPT !.left = x.left \ {s}, !.failed = @ \/ ~cached]}
        BY <2>4
      <4>3. [x EXCEPT !.left = x.left \ {s}, !.failed = x.failed \/ ~cached] \in RunRecord
        BY <2>2, <4>1, RunRecordKept, Zenon
      <4>4. QED
        BY <4>2, <4>3, Zenon
    <3>2. QED
      BY <1>4, <2>4, <3>1 DEF RefreshStock, TypeOK
  <2>5. QED
    BY <2>1, <2>3, <2>4
<1>5. CASE EndRefresh
  <2>1. ASSUME NEW x \in run PROVE History(x) \in Certificate
    <3>1. x \in RunRecord
      BY DEF TypeOK
    <3>2. QED
      BY <3>1 DEF RunRecord, History, Certificate, Stored
  <2>2. certified' \subseteq Certificate
    BY <1>5, <2>1 DEF EndRefresh, TypeOK
  <2>3. QED
    BY <1>5, <2>2 DEF EndRefresh, TypeOK
<1>6. CASE AskTask
  <2>1. task' \subseteq TaskRecord
    BY <1>6, AskTaskStep, IncrementalStartIs, QuotedType DEF TaskRecord
  <2>2. QED
    BY <1>6, <2>1 DEF AskTask, TypeOK
<1>7. CASE StoreTask
  <2>1. PICK x \in task : Store(x)
    BY <1>7 DEF StoreTask
  <2>2. x.symbol \in Symbols /\ x.quotes \in [Dates -> Bars]
    BY DEF TypeOK, TaskRecord
  <2>3. rows' \in [Symbols -> [Dates -> Bars]] /\ omitted' \in [Required -> SUBSET Dates]
    BY <2>1, <2>2, UpsertType, OmitType DEF Store
  <2>4. QED
    BY <2>1, <2>3 DEF Store, TypeOK
<1>8. CASE DropTask
  BY <1>8 DEF DropTask, TypeOK
<1>9. CASE StartSync
  BY <1>9, PriceStoreAssumption DEF StartSync, TypeOK
<1>10. CASE Download
  <2>1. PICK c \in SUBSET todo : \E f \in SUBSET c :
          /\ chunk' = c /\ todo' = todo \ c
          /\ failed' = f /\ memory' = Memory(f)
          /\ \E answer \in [c \ f -> SUBSET (1..today)] :
               bars' = [s \in Symbols |-> [d \in Dates |->
                          IF s \in c \ f /\ d \in answer[s] THEN Price(d) ELSE "none"]]
    BY <1>10, DownloadStep
  <2>2. bars' \in [Symbols -> [Dates -> Bars]]
    BY <2>1 DEF Price, Bars
  <2>3. QED
    BY <1>10, <2>1, <2>2 DEF Download, Memory, TypeOK
<1>11. CASE Write
  BY <1>11 DEF Write, TypeOK
<1>12. NoBars \in [Symbols -> [Dates -> Bars]]
  BY DEF NoBars, Bars
<1>13. CASE Commit
  <2>1. rows' \in [Symbols -> [Dates -> Bars]]
    BY <1>13 DEF Commit, Inserted, TypeOK
  <2>2. omitted' \in [Required -> SUBSET Dates]
    BY <1>13 DEF Commit, TypeOK
  <2>3. QED
    BY <1>12, <1>13, <2>1, <2>2 DEF Commit, Rest, TypeOK
<1>14. CASE CutOff
  BY <1>12, <1>14 DEF CutOff, Rest, TypeOK
<1>15. CASE UNCHANGED vars
  BY <1>15 DEF vars, TypeOK
<1>16. QED
  BY <1>1, <1>2, <1>3, <1>4, <1>5, <1>6, <1>7, <1>8, <1>9, <1>10, <1>11, <1>13, <1>14,
     <1>15 DEF Next

LEMMA InitTypeOK == Init => TypeOK
<1>1. NoBars \in [Symbols -> [Dates -> Bars]]
  BY DEF NoBars, Bars
<1>2. QED
  BY <1>1, PriceStoreAssumption DEF Init, TypeOK, Dates

\* Types of the calendar, the rows, the refresh and its certificate, the task
\* and the synchronisation.
THEOREM PriceTypes == Spec => []TypeOK
<1>1. QED
  BY InitTypeOK, NextTypeOK, PTL DEF Spec

-----------------------------------------------------------------------------
Ended(d) == d < today \/ (d = today /\ ~open)

\* A refresh asks for dates whose sessions have ended, so that no answer leaves a
\* price of an unfinished one.
Runs == \A x \in run : Ended(x.to) /\ x.early = {}

LEMMA InitRuns == Init => Runs
  BY DEF Init, Runs

LEMMA NextRuns == TypeOK /\ Runs /\ [Next]_vars => Runs'
<1> SUFFICES ASSUME TypeOK, Runs, [Next]_vars PROVE Runs'
  OBVIOUS
<1> USE DEF calendar, store, engines, sync
<1>1. CASE Close \/ NextDate
  <2>1. \A x \in run : x.to \in Dates
    BY DEF TypeOK, RunRecord
  <2>2. QED
    BY <1>1, <2>1 DEF Close, NextDate, Runs, Ended, TypeOK, Dates
<1>2. CASE StartRefresh
  <2>1. Ended(RefreshEnd)
    BY <1>2 DEF StartRefresh, RefreshEnd, Ended, TypeOK, Dates
  <2>2. QED
    BY <1>2, <2>1 DEF StartRefresh, Runs, Ended
<1>3. CASE RefreshStock
  <2>1. UNCHANGED <<today, open>>
    BY <1>3 DEF RefreshStock
  <2>2. PICK x \in run, s \in Symbols :
          \/ \E answer \in SUBSET Dates :
                /\ \A d \in answer : d <= x.to
                /\ Upsert(s, Quoted(answer))
                /\ Omit(s, Window(x))
                /\ run' = {[x EXCEPT !.left = x.left \ {s},
                        !.early = @ \cup {<<s, d>> : d \in {e \in answer : rows'[s][e] = "early"}}]}
          \/ /\ UNCHANGED store
             /\ \E cached \in BOOLEAN :
                   run' = {[x EXCEPT !.left = x.left \ {s}, !.failed = @ \/ ~cached]}
    BY <1>3, RefreshStockStep
  <2>3. x \in RunRecord /\ x.to \in Dates /\ Ended(x.to) /\ x.early = {}
    BY DEF TypeOK, RunRecord, Runs
  <2>4. ASSUME NEW answer \in SUBSET Dates, \A d \in answer : d <= x.to,
               Upsert(s, Quoted(answer))
        PROVE  {<<s, d>> : d \in {e \in answer : rows'[s][e] = "early"}} = {}
    <3>1. ASSUME NEW d \in answer PROVE rows'[s][d] = "final"
      <4>1. Price(d) = "final"
        BY <2>3, <2>4 DEF Price, Ended, TypeOK, Dates
      <4>2. QED
        BY <2>4, <4>1 DEF Upsert, Quoted, TypeOK
    <3>2. QED
      BY <3>1
  <2>5. \A y \in run' : y.to = x.to /\ y.early = {}
    <3>1. CASE \E cached \in BOOLEAN :
                 run' = {[x EXCEPT !.left = x.left \ {s}, !.failed = @ \/ ~cached]}
      BY <2>3, <3>1 DEF RunRecord
    <3>2. CASE \E answer \in SUBSET Dates :
                /\ \A d \in answer : d <= x.to
                /\ Upsert(s, Quoted(answer))
                /\ run' = {[x EXCEPT !.left = x.left \ {s},
                        !.early = @ \cup {<<s, d>> : d \in {e \in answer : rows'[s][e] = "early"}}]}
      <4>1. PICK answer \in SUBSET Dates :
                /\ \A d \in answer : d <= x.to
                /\ Upsert(s, Quoted(answer))
                /\ run' = {[x EXCEPT !.left = x.left \ {s},
                        !.early = @ \cup {<<s, d>> : d \in {e \in answer : rows'[s][e] = "early"}}]}
        BY <3>2
      <4>2. run' = {[x EXCEPT !.left = x.left \ {s}, !.early = x.early \cup {}]}
        BY <2>4, <4>1, Zenon
      <4>3. QED
        BY <2>3, <4>2 DEF RunRecord
    <3>3. QED
      BY <2>2, <3>1, <3>2
  <2>6. QED
    BY <2>1, <2>3, <2>5 DEF Runs, Ended
<1>4. CASE \/ EndRefresh \/ AskTask \/ StoreTask \/ DropTask \/ StartSync \/ Download
           \/ Write \/ Commit \/ CutOff \/ UNCHANGED vars
  <2>1. run' \subseteq run /\ UNCHANGED <<today, open>>
    BY <1>4 DEF EndRefresh, AskTask, StoreTask, Store, DropTask, StartSync, Download,
                Write, Commit, CutOff, vars
  <2>2. QED
    BY <2>1 DEF Runs, Ended
<1>5. QED
  BY <1>1, <1>2, <1>3, <1>4 DEF Next

\* Only a date that has come has a price, and only one whose session has ended a
\* final one.
Tells(price, d) == (price # "none" => d <= today) /\ (price = "final" => Ended(d))
Settled ==
  \A d \in Dates :
    /\ \A s \in Symbols : Tells(rows[s][d], d) /\ Tells(bars[s][d], d)
    /\ \A x \in task : Tells(x.quotes[d], d)

LEMMA QuotedSettles ==
  ASSUME TypeOK, NEW answer, \A d \in answer : d <= today, NEW d \in Dates
  PROVE  Tells(Quoted(answer)[d], d)
  BY DEF Quoted, Price, Dates, TypeOK, Tells, Ended

\* Time does not take back what was said.
LEMMA TellsStays ==
  ASSUME TypeOK, NEW d \in Dates, NEW price \in Bars, Tells(price, d),
         Close \/ NextDate \/ UNCHANGED <<today, open>>
  PROVE  Tells(price, d)'
  BY DEF TypeOK, Tells, Ended, Close, NextDate, Dates, Bars

\* Storing settled prices leaves settled prices.
LEMMA UpsertSettles ==
  ASSUME TypeOK, Settled, NEW s \in Symbols, NEW quotes, Upsert(s, quotes),
         task' \subseteq task, UNCHANGED <<today, open, bars>>,
         \A d \in Dates : Tells(quotes[d], d)
  PROVE  Settled'
<1>1. ASSUME NEW r \in Symbols, NEW d \in Dates PROVE Tells(rows'[r][d], d)
  BY DEF Upsert, Settled, TypeOK
<1>2. QED
  BY <1>1 DEF Settled, Tells, Ended

LEMMA InitSettled == Init => Settled
  BY DEF Init, Settled, NoBars, Tells

LEMMA NextSettled == TypeOK /\ Runs /\ Settled /\ [Next]_vars => Settled'
<1> SUFFICES ASSUME TypeOK, Runs, Settled, [Next]_vars PROVE Settled'
  OBVIOUS
<1> USE DEF calendar, store, engines, sync
<1>1. ASSUME Close \/ NextDate PROVE Settled'
  <2>1. \A x \in task : x.quotes \in [Dates -> Bars]
    BY DEF TypeOK, TaskRecord
  <2>2. rows' = rows /\ bars' = bars /\ task' = task
    BY <1>1 DEF Close, NextDate
  <2>3. ASSUME NEW d \in Dates, NEW s \in Symbols
        PROVE  Tells(rows[s][d], d)' /\ Tells(bars[s][d], d)'
    <3>1. rows[s][d] \in Bars /\ bars[s][d] \in Bars
      BY DEF TypeOK
    <3>2. Tells(rows[s][d], d) /\ Tells(bars[s][d], d)
      BY DEF Settled
    <3>3. QED
      BY <1>1, <2>2, <3>1, <3>2 DEF TypeOK, Tells, Ended, Close, NextDate, Dates, Bars
  <2>4. ASSUME NEW d \in Dates, NEW x \in task PROVE Tells(x.quotes[d], d)'
    <3>1. x.quotes[d] \in Bars /\ Tells(x.quotes[d], d)
      BY <2>1 DEF Settled
    <3>2. QED
      BY <1>1, <3>1, TellsStays
  <2>5. QED
    BY <2>2, <2>3, <2>4 DEF Settled
<1>2. CASE StartRefresh \/ EndRefresh \/ DropTask \/ StartSync \/ Write \/ UNCHANGED vars
  <2>1. UNCHANGED <<today, open, rows, bars>> /\ task' \subseteq task
    BY <1>2 DEF StartRefresh, EndRefresh, DropTask, StartSync, Write, vars
  <2>2. QED
    BY <2>1 DEF Settled, Tells, Ended
<1>3. CASE RefreshStock
  <2>1. UNCHANGED <<today, open, bars, task>>
    BY <1>3 DEF RefreshStock
  <2>2. CASE UNCHANGED store
    BY <2>1, <2>2 DEF Settled, Tells, Ended
  <2>3. CASE \E x \in run, s \in Symbols, answer \in SUBSET Dates :
               /\ \A d \in answer : d <= x.to
               /\ Upsert(s, Quoted(answer))
    <3>1. PICK x \in run, s \in Symbols, answer \in SUBSET Dates :
               /\ \A d \in answer : d <= x.to
               /\ Upsert(s, Quoted(answer))
      BY <2>3
    <3>2. \A d \in answer : d <= today
      <4>1. x.to \in Dates /\ Ended(x.to)
        BY DEF TypeOK, RunRecord, Runs
      <4>2. QED
        BY <3>1, <4>1 DEF Ended, TypeOK, Dates
    <3>3. \A d \in Dates : Tells(Quoted(answer)[d], d)
      BY <3>2, QuotedSettles
    <3>4. QED
      BY <2>1, <3>1, <3>3, UpsertSettles
  <2>4. QED
    BY <1>3, <2>2, <2>3, RefreshStockStep
<1>4. CASE AskTask
  <2>1. UNCHANGED <<today, open, bars, rows>>
    BY <1>4 DEF AskTask
  <2>2. PICK s \in Symbols, end \in Dates, answer \in SUBSET Dates :
           /\ end <= today
           /\ \A d \in answer : IncrementalStart(s) <= d /\ d <= end
           /\ task' = {[symbol |-> s, start |-> IncrementalStart(s), end |-> end,
                        quotes |-> Quoted(answer)]}
    BY <1>4, AskTaskStep
  <2>3. \A d \in answer : d <= today
    BY <2>2 DEF TypeOK, Dates
  <2>4. \A d \in Dates : Tells(Quoted(answer)[d], d)
    BY <2>3, QuotedSettles
  <2>5. \A x \in task' : x.quotes = Quoted(answer)
    BY <2>2
  <2>6. QED
    BY <2>1, <2>4, <2>5 DEF Settled, Tells, Ended
<1>5. CASE StoreTask
  <2>1. PICK x \in task : Store(x)
    BY <1>5 DEF StoreTask
  <2>2. x.symbol \in Symbols
    BY DEF TypeOK, TaskRecord
  <2>3. \A d \in Dates : Tells(x.quotes[d], d)
    BY DEF Settled
  <2>4. QED
    BY <2>1, <2>2, <2>3, UpsertSettles DEF Store
<1>6. CASE Download
  <2>1. PICK c \in SUBSET todo : \E f \in SUBSET c :
          \E answer \in [c \ f -> SUBSET (1..today)] :
               bars' = [s \in Symbols |-> [d \in Dates |->
                          IF s \in c \ f /\ d \in answer[s] THEN Price(d) ELSE "none"]]
    BY <1>6, DownloadStep
  <2>2. PICK f \in SUBSET c : \E answer \in [c \ f -> SUBSET (1..today)] :
               bars' = [s \in Symbols |-> [d \in Dates |->
                          IF s \in c \ f /\ d \in answer[s] THEN Price(d) ELSE "none"]]
    BY <2>1
  <2>3. PICK answer \in [c \ f -> SUBSET (1..today)] :
               bars' = [s \in Symbols |-> [d \in Dates |->
                          IF s \in c \ f /\ d \in answer[s] THEN Price(d) ELSE "none"]]
    BY <2>2
  <2>4. ASSUME NEW s \in Symbols, NEW d \in Dates PROVE Tells(bars'[s][d], d)
    <3>1. CASE s \in c \ f /\ d \in answer[s]
      <4>1. d <= today
        BY <3>1 DEF TypeOK, Dates
      <4>2. QED
        BY <2>3, <3>1, <4>1 DEF Price, Dates, TypeOK, Tells, Ended
    <3>2. CASE ~(s \in c \ f /\ d \in answer[s])
      BY <2>3, <3>2 DEF Tells
    <3>3. QED
      BY <3>1, <3>2
  <2>5. UNCHANGED <<rows, task, today, open>>
    BY <1>6 DEF Download
  <2>6. QED
    BY <2>4, <2>5 DEF Settled, Tells, Ended
<1>7. CASE Commit
  <2>1. \A s \in Symbols, d \in Dates : rows'[s][d] \in {rows[s][d], bars[s][d]}
    BY <1>7 DEF Commit, Inserted
  <2>2. \A s \in Symbols, d \in Dates : bars'[s][d] = "none"
    BY <1>7 DEF Commit, Rest, NoBars
  <2>3. UNCHANGED <<task, today, open>>
    BY <1>7 DEF Commit
  <2>4. QED
    BY <2>1, <2>2, <2>3 DEF Settled, Tells, Ended
<1>8. CASE CutOff
  <2>1. \A s \in Symbols, d \in Dates : bars'[s][d] = "none"
    BY <1>8 DEF CutOff, Rest, NoBars
  <2>2. UNCHANGED <<rows, task, today, open>>
    BY <1>8 DEF CutOff
  <2>3. QED
    BY <2>1, <2>2 DEF Settled, Tells, Ended
<1>9. QED
  BY <1>1, <1>2, <1>3, <1>4, <1>5, <1>6, <1>7, <1>8 DEF Next

\* A final price gives way only to an early price of the task's answer.
LEMMA NextKeepsFinal ==
  TypeOK /\ Settled /\ [Next]_vars =>
    \A s \in Symbols, d \in Dates : rows[s][d] = "final" =>
      \/ rows'[s][d] = "final"
      \/ \E x \in task : Store(x) /\ x.symbol = s /\ d \in Early(x)
<1> SUFFICES ASSUME TypeOK, Settled, [Next]_vars,
                    NEW s \in Symbols, NEW d \in Dates, rows[s][d] = "final"
             PROVE  \/ rows'[s][d] = "final"
                    \/ \E x \in task : Store(x) /\ x.symbol = s /\ d \in Early(x)
  OBVIOUS
<1> USE DEF store
<1>1. CASE RefreshStock
  <2>1. CASE UNCHANGED store
    BY <2>1
  <2>2. CASE \E r \in Symbols, answer \in SUBSET Dates : Upsert(r, Quoted(answer))
    <3>1. Price(d) = "final"
      BY DEF Settled, Tells, Ended, Price, TypeOK, Dates
    <3>2. QED
      BY <2>2, <3>1 DEF Upsert, Quoted, TypeOK
  <2>3. QED
    BY <1>1, <2>1, <2>2, RefreshStockStep
<1>2. CASE StoreTask
  <2>1. PICK x \in task : Store(x)
    BY <1>2 DEF StoreTask
  <2>2. x.quotes[d] \in Bars /\ x.symbol \in Symbols
    BY DEF TypeOK, TaskRecord
  <2>3. CASE x.symbol # s
    BY <2>1, <2>2, <2>3 DEF Store, Upsert, TypeOK
  <2>4. CASE x.symbol = s /\ x.quotes[d] # "early"
    BY <2>1, <2>2, <2>4 DEF Store, Upsert, TypeOK, Bars
  <2>5. CASE x.symbol = s /\ x.quotes[d] = "early"
    BY <2>1, <2>5 DEF Early
  <2>6. QED
    BY <2>3, <2>4, <2>5
<1>3. CASE Commit
  BY <1>3 DEF Commit, Inserted
<1>4. CASE \/ Close \/ NextDate \/ StartRefresh \/ EndRefresh \/ AskTask \/ DropTask
           \/ StartSync \/ Download \/ Write \/ CutOff \/ UNCHANGED vars
  BY <1>4 DEF Close, NextDate, StartRefresh, EndRefresh, AskTask, DropTask, StartSync,
              Download, Write, CutOff, vars
<1>5. QED
  BY <1>1, <1>2, <1>3, <1>4 DEF Next

\* A final price is replaced only by the early answer of a task that was given it
\* before the close and stores it after another writer; a refresh and a batch,
\* whenever it was downloaded, leave it.
THEOREM FinalPricesStay == Spec => FinalStaysUnlessRaced
<1>1. [](TypeOK /\ Settled) /\ [][Next]_vars => FinalStaysUnlessRaced
  BY NextKeepsFinal, PTL DEF FinalStaysUnlessRaced
<1>2. Spec => [](TypeOK /\ Settled)
  BY InitTypeOK, NextTypeOK, InitRuns, NextRuns, InitSettled, NextSettled, PTL DEF Spec
<1>3. QED
  BY <1>1, <1>2, PTL DEF Spec

-----------------------------------------------------------------------------
\* A certification stands for what its refresh has stored.
LEMMA NextCertifiedWindow ==
  TypeOK /\ Runs /\ CertifiedWindow /\ [Next]_vars => CertifiedWindow'
<1> SUFFICES ASSUME TypeOK, Runs, CertifiedWindow, [Next]_vars PROVE CertifiedWindow'
  OBVIOUS
<1>1. CASE certified' = certified
  BY <1>1 DEF CertifiedWindow
<1>2. CASE EndRefresh
  <2>1. PICK x \in run : certified' = certified \/ (Certifiable(x) /\ certified' = {History(x)})
    BY <1>2 DEF EndRefresh
  <2>2. CASE Certifiable(x) /\ certified' = {History(x)}
    <3>1. x \in RunRecord /\ x.early = {}
      BY DEF TypeOK, Runs
    <3>2. ASSUME NEW s \in Required PROVE x.from..x.to \subseteq Stored(s) \cap 1..x.to
      <4>1. x.from..x.to \subseteq Stored(s)
        BY <2>2 DEF Certifiable, Covered, Window
      <4>2. x.from..x.to \subseteq 1..x.to
        BY <3>1, PriceStoreAssumption DEF RunRecord, Dates
      <4>3. QED
        BY <4>1, <4>2
    <3>3. QED
      BY <2>2, <3>1, <3>2 DEF CertifiedWindow, History
  <2>3. QED
    BY <1>1, <2>1, <2>2
<1>3. CASE \/ Close \/ NextDate \/ StartRefresh \/ RefreshStock \/ AskTask \/ StoreTask
           \/ DropTask \/ StartSync \/ Download \/ Write \/ Commit \/ CutOff
           \/ UNCHANGED vars
  BY <1>1, <1>3 DEF Close, NextDate, StartRefresh, RefreshStock, AskTask, StoreTask, Store,
                    DropTask, StartSync, Download, Write, Commit, CutOff, vars, engines
<1>4. QED
  BY <1>2, <1>3 DEF Next

\* A certified history is whole on the window its refresh asked for, and its
\* refresh has left no early price where the provider answered.
THEOREM CertifiedWindows == Spec => []CertifiedWindow
<1>1. Init => CertifiedWindow
  BY DEF Init, CertifiedWindow
<1>2. QED
  BY <1>1, InitTypeOK, NextTypeOK, InitRuns, NextRuns, NextCertifiedWindow, PTL DEF Spec

-----------------------------------------------------------------------------
\* Where the synchronisation stands: what failed is in its memory or ahead of
\* it, and what it has written to the file is its memory.
Quarantine ==
  /\ pc \in {"idle", "download"} => chunk = {} /\ failed = {}
  /\ pc = "idle" => todo = {}
  /\ pc # "idle" => owed \subseteq memory \cup todo \cup chunk
  /\ failed \subseteq chunk
  /\ pc \in {"write", "commit"} => failed \subseteq memory
  /\ pc = "commit" => file = memory
  /\ QuarantineTellsFailures

LEMMA InitQuarantine == Init => Quarantine
  BY DEF Init, Quarantine, QuarantineTellsFailures

LEMMA NextQuarantine == TypeOK /\ Quarantine /\ [Next]_vars => Quarantine'
<1> SUFFICES ASSUME TypeOK, Quarantine, [Next]_vars PROVE Quarantine'
  OBVIOUS
<1> USE DEF Quarantine, QuarantineTellsFailures, sync
<1>1. CASE \/ Close \/ NextDate \/ StartRefresh \/ RefreshStock \/ EndRefresh \/ AskTask
           \/ StoreTask \/ DropTask \/ UNCHANGED vars
  BY <1>1 DEF Close, NextDate, StartRefresh, RefreshStock, EndRefresh, AskTask, StoreTask,
              Store, DropTask, vars
<1>2. CASE StartSync
  <2>1. PICK targets \in SUBSET Registered : todo' = targets /\ memory' = file \ targets
    BY <1>2 DEF StartSync
  <2>2. pc = "idle" /\ pc' = "download" /\ UNCHANGED <<file, chunk, failed, owed>>
    BY <1>2 DEF StartSync
  <2>3. QED
    BY <2>1, <2>2
<1>3. CASE Download
  <2>1. PICK c \in SUBSET todo : \E f \in SUBSET c :
          /\ chunk' = c /\ todo' = todo \ c
          /\ failed' = f /\ memory' = memory \cup f
    BY <1>3, DownloadStep DEF Memory
  <2>2. pc = "download" /\ pc' = "write" /\ UNCHANGED <<file, owed>>
    BY <1>3 DEF Download
  <2>3. QED
    BY <2>1, <2>2
<1>4. CASE Write
  BY <1>4 DEF Write
<1>5. CASE Commit
  <2>1. /\ pc = "commit" /\ owed' = (owed \ chunk) \cup failed
        /\ chunk' = {} /\ failed' = {} /\ UNCHANGED <<file, todo>>
    BY <1>5 DEF Commit, Rest
  <2>2. CASE todo = {} /\ pc' = "idle"
    BY <2>1, <2>2
  <2>3. CASE pc' = "download" /\ memory' = memory
    BY <2>1, <2>3
  <2>4. QED
    BY <1>5, <2>2, <2>3 DEF Commit
<1>6. CASE CutOff
  BY <1>6 DEF CutOff, Rest
<1>7. QED
  BY <1>1, <1>2, <1>3, <1>4, <1>5, <1>6 DEF Next

\* A symbol that failed last is in the quarantine file, or ahead of the
\* synchronisation that runs, for any batches and any kills.
THEOREM FailuresAreTold == Spec => []QuarantineTellsFailures
<1>1. Quarantine => QuarantineTellsFailures
  BY DEF Quarantine
<1>2. QED
  BY <1>1, InitTypeOK, NextTypeOK, InitQuarantine, NextQuarantine, PTL DEF Spec

-----------------------------------------------------------------------------
(* The task of the pipeline leaves no gap. *)

\* The answer that is to be stored lies in the dates asked for, and where these
\* start there is nothing before, or a stored row at or after their start.
Asked ==
  \A x \in task :
    /\ \A d \in Dates : x.quotes[d] # "none" => x.start <= d
    /\ x.start = 1 \/ \E e \in Stored(x.symbol) : x.start <= e

\* No stored row is taken away.
LEMMA StoredStays ==
  ASSUME TypeOK, [Next]_vars, NEW s \in Symbols
  PROVE  Stored(s) \subseteq Stored(s)'
<1> USE DEF store, Stored
<1>1. CASE RefreshStock
  <2>1. CASE UNCHANGED store
    BY <2>1
  <2>2. CASE \E r \in Symbols, answer \in SUBSET Dates : Upsert(r, Quoted(answer))
    BY <2>2 DEF Upsert, Quoted, TypeOK
  <2>3. QED
    BY <1>1, <2>1, <2>2, RefreshStockStep
<1>2. CASE StoreTask
  <2>1. PICK x \in task : Store(x)
    BY <1>2 DEF StoreTask
  <2>2. QED
    BY <2>1 DEF Store, Upsert, TypeOK
<1>3. CASE Commit
  BY <1>3 DEF Commit, Inserted
<1>4. CASE \/ Close \/ NextDate \/ StartRefresh \/ EndRefresh \/ AskTask \/ DropTask
           \/ StartSync \/ Download \/ Write \/ CutOff \/ UNCHANGED vars
  BY <1>4 DEF Close, NextDate, StartRefresh, EndRefresh, AskTask, DropTask, StartSync,
              Download, Write, CutOff, vars
<1>5. QED
  BY <1>1, <1>2, <1>3, <1>4 DEF Next

LEMMA InitAsked == Init => Asked
  BY DEF Init, Asked

LEMMA NextAsked == TypeOK /\ Asked /\ [Next]_vars => Asked'
<1> SUFFICES ASSUME TypeOK, Asked, [Next]_vars PROVE Asked'
  OBVIOUS
<1>1. CASE AskTask
  <2>1. PICK s \in Symbols, end \in Dates, answer \in SUBSET Dates :
           /\ \A d \in answer : IncrementalStart(s) <= d /\ d <= end
           /\ task' = {[symbol |-> s, start |-> IncrementalStart(s), end |-> end,
                        quotes |-> Quoted(answer)]}
    BY <1>1, AskTaskStep
  <2>2. Stored(s)' = Stored(s)
    BY <1>1 DEF AskTask, store, Stored
  <2>3. IncrementalStart(s) = 1 \/ \E e \in Stored(s) : IncrementalStart(s) <= e
    BY IncrementalStartIs
  <2>4. \A d \in Dates : Quoted(answer)[d] # "none" => IncrementalStart(s) <= d
    BY <2>1 DEF Quoted
  <2>5. ASSUME NEW x \in task'
        PROVE  x.symbol = s /\ x.start = IncrementalStart(s) /\ x.quotes = Quoted(answer)
    BY <2>1
  <2> HIDE DEF IncrementalStart, Quoted
  <2>6. QED
    BY <2>2, <2>3, <2>4, <2>5 DEF Asked
<1>2. CASE task' \subseteq task
  <2>1. ASSUME NEW x \in task, x.start = 1 \/ \E e \in Stored(x.symbol) : x.start <= e
        PROVE  x.start = 1 \/ \E e \in Stored(x.symbol)' : x.start <= e
    <3>1. x.symbol \in Symbols
      BY DEF TypeOK, TaskRecord
    <3>2. QED
      BY <2>1, <3>1, StoredStays
  <2>2. QED
    BY <1>2, <2>1 DEF Asked
<1>3. ~AskTask => task' \subseteq task
  BY DEF Next, vars, calendar, engines, Close, NextDate, StartRefresh, RefreshStock,
         EndRefresh, StoreTask, Store, DropTask, StartSync, Download, Write, Commit, CutOff
<1>4. QED
  BY <1>1, <1>2, <1>3

\* A date without a row, up to the end of what was asked for, is between stored
\* rows after the task only if it was so before, or the provider was asked for it.
LEMMA StoreKeepsGaps ==
  ASSUME TypeOK, Asked, NEW x \in task, Store(x), NEW s \in Required
  PROVE  Gaps(s)' \cap 1..x.end \subseteq Gaps(s)
<1> SUFFICES ASSUME NEW d \in Gaps(s)', d \in 1..x.end PROVE d \in Gaps(s)
  OBVIOUS
<1>1. s \in Symbols /\ x \in TaskRecord
  BY PriceStoreAssumption DEF TypeOK
<1>2. /\ d \in Dates /\ rows'[s][d] = "none" /\ d \notin omitted'[s]
      /\ \E e \in Dates : rows'[s][e] # "none" /\ e < d
      /\ \E e \in Dates : rows'[s][e] # "none" /\ d < e
  BY DEF Gaps, Stored
<1>3. /\ rows' = [rows EXCEPT ![x.symbol] =
                   [e \in Dates |-> IF x.quotes[e] = "none" THEN rows[x.symbol][e]
                                    ELSE x.quotes[e]]]
      /\ omitted'[s] = {e \in Dates : /\ rows'[s][e] = "none"
                                      /\ \/ e \in omitted[s]
                                         \/ s = x.symbol /\ e \in x.start..x.end}
  BY DEF Store, Upsert, Omit
<1>4. d \notin omitted[s] /\ (s = x.symbol => d \notin x.start..x.end)
  BY <1>2, <1>3
<1>5. CASE s # x.symbol
  <2>1. rows'[s] = rows[s]
    BY <1>1, <1>3, <1>5 DEF TypeOK
  <2>2. QED
    BY <1>2, <1>4, <2>1 DEF Gaps, Stored
<1>6. CASE s = x.symbol
  <2>1. \A e \in Dates : rows'[s][e] = IF x.quotes[e] = "none" THEN rows[s][e]
                                        ELSE x.quotes[e]
    BY <1>1, <1>3, <1>6 DEF TypeOK
  <2>2. x.start \in Int /\ x.end \in Int /\ d \in Int /\ 1 <= d /\ d <= x.end
    BY <1>1 DEF TaskRecord, Dates
  <2>3. d < x.start
    BY <1>4, <1>6, <2>2
  <2>4. PICK last \in Stored(s) : x.start <= last
    BY <1>6, <2>2, <2>3 DEF Asked
  <2>5. last \in Dates /\ d < last
    BY <2>2, <2>3, <2>4 DEF Stored, Dates
  <2>6. PICK first \in Dates : rows'[s][first] # "none" /\ first < d
    BY <1>2
  <2>7. x.quotes[first] = "none"
    BY <2>2, <2>3, <2>6 DEF Asked, Dates
  <2>8. first \in Stored(s)
    BY <2>1, <2>6, <2>7 DEF Stored
  <2>9. rows[s][d] = "none"
    BY <1>2, <2>1
  <2>10. QED
    BY <1>2, <1>4, <2>4, <2>5, <2>6, <2>8, <2>9 DEF Gaps
<1>7. QED
  BY <1>5, <1>6

\* The task continues from the latest row without leaving a date between rows
\* that no provider was asked for, whoever stored that row, and whatever is
\* stored between its asking and its storing.
THEOREM TaskLeavesNoGap == Spec => IncrementalLeavesNoGap
<1>1. TypeOK /\ Asked /\ [Next]_vars =>
        [\A x \in task : Store(x) =>
           \A s \in Required : Gaps(s)' \cap 1..x.end \subseteq Gaps(s)]_vars
  BY StoreKeepsGaps
<1>2. [](TypeOK /\ Asked) /\ [][Next]_vars => IncrementalLeavesNoGap
  BY <1>1, PTL DEF IncrementalLeavesNoGap
<1>3. Spec => [](TypeOK /\ Asked)
  BY InitTypeOK, NextTypeOK, InitAsked, NextAsked, PTL DEF Spec
<1>4. QED
  BY <1>2, <1>3, PTL DEF Spec

=============================================================================
