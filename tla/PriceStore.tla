---------------------------- MODULE PriceStore ----------------------------
(***************************************************************************)
(* The daily price rows of one provider, and those who write them: the       *)
(* refresh of a daily run, which then certifies the history of the minimum    *)
(* universe; the market-data task of the daily pipeline, which updates from    *)
(* the latest stored row on; and the broad-market synchronisation, which       *)
(* works in chunks of symbols, each committed with a rewrite of the            *)
(* quarantine file.                                                           *)
(*                                                                         *)
(* A refresh and a task take one stock after the other: they ask for its       *)
(* prices without a lock on the database, and store the answer behind a          *)
(* savepoint, whose release commits it.  (A transaction that has written before *)
(* keeps the lock to its end, which only takes interleavings away.)              *)
(*                                                                         *)
(* Abstracted: every date is a session; a price is a value asked for while     *)
(* its session was under way ("early") or after it.  The fallback provider    *)
(* keeps rows of its own and is left out.                                     *)
(***************************************************************************)
EXTENDS Integers, FiniteSets

CONSTANTS
  Symbols,    \* active US securities
  Required,   \* those of the minimum research universe
  Registered, \* those the broad synchronisation may be asked for
  MaxDate,    \* bound of the calendar
  Listed,     \* the first date a symbol is traded
  Lookback,   \* dates before its end a refresh asks for (7 or the overlap)
  Overlap,    \* stored dates the task asks for again
  StaleAfter, \* age up to which stored rows stand in for a failed provider
  MinBars,    \* rows a required security has once it is bootstrapped
  ChunkSize,  \* symbols of one batch request
  MaxStarts   \* bound on the starts of refreshes, questions and synchronisations

ASSUME PriceStoreAssumption ==
  /\ Required \subseteq Symbols
  /\ Registered \subseteq Symbols
  /\ MaxDate \in Nat \ {0} /\ MinBars \in Nat \ {0} /\ ChunkSize \in Nat \ {0}
  /\ Lookback \in Nat /\ StaleAfter \in Nat
  /\ Overlap \in Nat \ {0}
  /\ MaxStarts \in Nat

Dates == 1..MaxDate
ASSUME ListedAssumption == Listed \in [Symbols -> Dates]

Bars == {"none", "early", "final"}

VARIABLES
  today, open,  \* the date, and whether its session is still to end
  rows,         \* the stored price of a symbol and date
  omitted,      \* history: the dates of a required security that were asked
                \* for, left out of the answer and not stored since
  run,          \* the refresh under way, if any: its window, the stocks left,
                \* whether one failed, and (history) the dates of a stock whose
                \* early price it has left although it was answered for them
  certified,    \* the last certification of a total-return history, if any
  task,         \* the answer the task has but not stored, if any
  starts,       \* counts what was started
  file,         \* the quarantine file; unreadable, it counts as empty
  pc,           \* what the broad synchronisation does next
  todo, chunk,  \* its targets still to come, and those of its batch
  memory,       \* the quarantine in its memory
  bars,         \* the prices of its batch
  failed,       \* the symbols of the batch that failed
  owed          \* history: symbols that failed last, in no synchronisation cut off

calendar == <<today, open>>
store == <<rows, omitted>>
sync == <<pc, todo, chunk, memory, bars, failed>>
engines == <<run, certified, task, starts>>
vars == <<calendar, store, engines, file, sync, owed>>

Start == starts < MaxStarts /\ starts' = starts + 1

\* What a provider may answer with for the dates from..to, {} if it fails.
Answers(s, from, to) == SUBSET {d \in from..to : Listed[s] <= d}

NoBars == [s \in Symbols |-> [d \in Dates |-> "none"]]

Init ==
  /\ today = 1 /\ open = TRUE
  /\ rows = NoBars /\ omitted = [s \in Required |-> {}]
  /\ run = {} /\ certified = {} /\ task = {} /\ starts = 0
  /\ file = {} /\ owed = {}
  /\ pc = "idle" /\ todo = {} /\ chunk = {} /\ memory = {} /\ bars = NoBars
  /\ failed = {}

Close ==
  /\ open
  /\ open' = FALSE
  /\ UNCHANGED <<today, store, engines, file, sync, owed>>
NextDate ==
  /\ ~open /\ today < MaxDate
  /\ today' = today + 1 /\ open' = TRUE
  /\ UNCHANGED <<store, engines, file, sync, owed>>

-----------------------------------------------------------------------------
(* Stored rows *)

Stored(s) == {d \in Dates : rows[s][d] # "none"}

\* PriceRepository.latest_price_date, 0 without rows
Latest(s) ==
  IF Stored(s) = {} THEN 0 ELSE CHOOSE d \in Stored(s) : \A e \in Stored(s) : e <= d

\* What a provider says of a date now: its time of availability is set to the
\* close of the session, passed or not.
Price(d) == IF open /\ d = today THEN "early" ELSE "final"

Quoted(answer) == [d \in Dates |-> IF d \in answer THEN Price(d) ELSE "none"]

\* upsert_bars replaces what is stored of a stock.
BugUpsert(s, quotes) ==             \* stored prices are kept
  rows' = [rows EXCEPT ![s] =
             [d \in Dates |-> IF rows[s][d] = "none" THEN quotes[d] ELSE rows[s][d]]]
Upsert(s, quotes) ==
  rows' = [rows EXCEPT ![s] =
             [d \in Dates |-> IF quotes[d] = "none" THEN rows[s][d] ELSE quotes[d]]]

\* History: what the answer left out.
Omit(s, asked) ==
  omitted' = [r \in Required |->
                {d \in Dates : /\ rows'[r][d] = "none"
                              /\ (d \in omitted[r] \/ (r = s /\ d \in asked))}]

\* A batch of the synchronisation that is written holds the database's write
\* lock until it is committed.
Locked == pc = "commit" /\ chunk # failed

-----------------------------------------------------------------------------
(* The refresh of a daily run, and its certification *)

\* DailyQuantOrchestrator runs up to the last session that has ended.
RefreshEnd == IF open THEN today - 1 ELSE today

\* refresh_start_date
RefreshStart ==
  IF \E s \in Required : Cardinality(Stored(s) \cap 1..RefreshEnd) < MinBars
  THEN 1
  ELSE IF RefreshEnd - Lookback < 1 THEN 1 ELSE RefreshEnd - Lookback
Window(x) == x.from..x.to

StartRefresh ==
  /\ Start
  /\ run = {}
  /\ RefreshEnd >= 1
  /\ run' = {[from |-> RefreshStart, to |-> RefreshEnd, left |-> Symbols, failed |-> FALSE,
              early |-> {}]}
  /\ UNCHANGED <<calendar, store, certified, task, file, sync, owed>>

\* _update_stock: with no provider's answer, rows that were fresh before it was
\* asked are kept as "cached".
Fresh(s, to) == Latest(s) # 0 /\ to - Latest(s) <= StaleAfter

\* What is asked for has ended, so that it does not matter how long before it is
\* stored: asking and storing are one step.
RefreshStock ==
  \E x \in run : \E s \in x.left :
    /\ \/ \E answer \in Answers(s, x.from, x.to) \ {{}} :
            /\ ~Locked
            /\ Upsert(s, Quoted(answer))
            /\ Omit(s, Window(x))
            /\ run' = {[x EXCEPT !.left = x.left \ {s},
                        !.early = @ \cup {<<s, d>> : d \in {e \in answer : rows'[s][e] = "early"}}]}
       \/ /\ \E cached \in BOOLEAN :
               /\ cached => Fresh(s, x.to)
               /\ run' = {[x EXCEPT !.left = x.left \ {s}, !.failed = @ \/ ~cached]}
          /\ UNCHANGED store
    /\ UNCHANGED <<calendar, certified, task, starts, file, sync, owed>>

\* _persist_manifest: the coverage of the refreshed window, the rest of the
\* stored history is certified with it.
Covered(x, dates) == Window(x) \subseteq dates
Certifiable(x) ==
  /\ x.left = {} /\ ~x.failed
  /\ \A s \in Required : /\ Covered(x, Stored(s))
                         /\ Cardinality(Stored(s) \cap 1..x.to) >= 2
\* _materialize_live_research_evidence: all rows up to the end of the window.
History(x) ==
  [from |-> x.from, to |-> x.to,
   dates |-> [s \in Required |-> Stored(s) \cap 1..x.to],
   early |-> x.early]

\* The corporate actions may be found wanting, and the run may be cut off.
EndRefresh ==
  /\ \E x \in run : \/ certified' = certified
                   \/ (~Locked /\ Certifiable(x) /\ certified' = {History(x)})
  /\ run' = {}
  /\ UNCHANGED <<calendar, store, task, starts, file, sync, owed>>

-----------------------------------------------------------------------------
(* The market-data task of the daily pipeline *)

\* _incremental_start
BugIncrementalStart(s) == IF Latest(s) = 0 THEN 1 ELSE today   \* today's bar only
IncrementalStart(s) ==
  IF Latest(s) + 1 - Overlap < 1 THEN 1 ELSE Latest(s) + 1 - Overlap

\* It asks up to the date it is run for, whose session may be under way.  A
\* stock without an answer is left as it is.
AskTask ==
  /\ Start
  /\ task = {}
  /\ \E s \in Symbols, end \in 1..today :
       \E answer \in Answers(s, IncrementalStart(s), end) \ {{}} :
         task' = {[symbol |-> s, start |-> IncrementalStart(s), end |-> end,
                   quotes |-> Quoted(answer)]}
  /\ UNCHANGED <<calendar, store, run, certified, file, sync, owed>>

Early(x) == {d \in Dates : x.quotes[d] = "early"}
Store(x) ==
  /\ x \in task
  /\ ~Locked
  /\ Upsert(x.symbol, x.quotes)
  /\ Omit(x.symbol, x.start..x.end)
  /\ task' = {}
  /\ UNCHANGED <<calendar, run, certified, starts, file, sync, owed>>
StoreTask == \E x \in task : Store(x)

\* The task is killed, or the database is busy for too long.
DropTask ==
  /\ task # {}
  /\ task' = {}
  /\ UNCHANGED <<calendar, store, run, certified, starts, file, sync, owed>>

-----------------------------------------------------------------------------
(* BroadUSUniverseService._sync *)

\* The targets leave the quarantine that was loaded.
StartSync ==
  /\ Start
  /\ pc = "idle"
  /\ \E targets \in SUBSET Registered \ {{}} :
       /\ todo' = targets
       /\ memory' = file \ targets
  /\ pc' = "download"
  /\ UNCHANGED <<calendar, store, run, certified, task, file, chunk, bars, failed, owed>>

\* provider.download: a symbol without any bar fails; the dates asked for end
\* today or earlier.
BugMemory(f) == f                \* each batch starts the quarantine anew
Memory(f) == memory \cup f
Download ==
  /\ pc = "download"
  /\ \E c \in SUBSET todo :
       /\ Cardinality(c) = IF Cardinality(todo) < ChunkSize THEN Cardinality(todo)
                           ELSE ChunkSize
       /\ chunk' = c
       /\ todo' = todo \ c
       /\ \E f \in SUBSET c :
            /\ failed' = f
            /\ memory' = Memory(f)
            /\ \E answer \in [c \ f -> SUBSET (1..today)] :
                 /\ \A s \in c \ f : answer[s] \in Answers(s, 1, today)
                 /\ bars' = [s \in Symbols |-> [d \in Dates |->
                               IF s \in c \ f /\ d \in answer[s] THEN Price(d) ELSE "none"]]
  /\ pc' = "write"
  /\ UNCHANGED <<calendar, store, engines, file, owed>>

\* _bulk_upsert_bars takes the write lock; then the quarantine is saved.
Write ==
  /\ pc = "write"
  /\ file' = memory
  /\ pc' = "commit"
  /\ UNCHANGED <<calendar, store, engines, todo, chunk, memory, bars, failed, owed>>

\* INSERT ... ON CONFLICT DO NOTHING
BugInserted(s, d) == IF bars[s][d] # "none" THEN bars[s][d] ELSE rows[s][d]
Inserted(s, d) == IF rows[s][d] = "none" THEN bars[s][d] ELSE rows[s][d]

\* The batch is done with.
Rest == chunk' = {} /\ bars' = NoBars /\ failed' = {}
Commit ==
  /\ pc = "commit"
  /\ rows' = [s \in Symbols |-> [d \in Dates |-> Inserted(s, d)]]
  /\ omitted' = [s \in Required |-> {d \in omitted[s] : rows'[s][d] = "none"}]
  /\ owed' = (owed \ chunk) \cup failed
  /\ pc' = IF todo = {} THEN "idle" ELSE "download"
  /\ memory' = IF todo = {} THEN {} ELSE memory
  /\ Rest
  /\ UNCHANGED <<calendar, engines, file, todo>>

\* The synchronisation is killed or raises; the file may be left half-written.
CutOff ==
  /\ pc # "idle"
  /\ \/ file' = file /\ owed' = owed \ (todo \cup chunk)
     \/ pc = "write" /\ file' = {} /\ owed' = {}
  /\ pc' = "idle"
  /\ todo' = {} /\ memory' = {}
  /\ Rest
  /\ UNCHANGED <<calendar, store, engines>>

Next ==
  \/ Close \/ NextDate
  \/ StartRefresh \/ RefreshStock \/ EndRefresh
  \/ AskTask \/ StoreTask \/ DropTask
  \/ StartSync \/ Download \/ Write \/ Commit \/ CutOff

Spec == Init /\ [][Next]_vars

-----------------------------------------------------------------------------
Certificate ==
  [from : Dates, to : Dates, dates : [Required -> SUBSET Dates],
   early : SUBSET (Symbols \X Dates)]
RunRecord ==
  [from : Dates, to : Dates, left : SUBSET Symbols, failed : BOOLEAN,
   early : SUBSET (Symbols \X Dates)]
TaskRecord == [symbol : Symbols, start : Dates, end : Dates, quotes : [Dates -> Bars]]
\* Types of the calendar, the rows and their history, the refresh and its
\* certificate, the task, the quarantine and the synchronisation's variables.
TypeOK ==
  /\ today \in Dates /\ open \in BOOLEAN
  /\ rows \in [Symbols -> [Dates -> Bars]]
  /\ omitted \in [Required -> SUBSET Dates]
  /\ run \subseteq RunRecord /\ certified \subseteq Certificate /\ task \subseteq TaskRecord
  /\ file \subseteq Symbols /\ owed \subseteq Symbols
  /\ pc \in {"idle", "download", "write", "commit"}
  /\ todo \subseteq Symbols /\ chunk \subseteq Symbols /\ memory \subseteq Symbols
  /\ bars \in [Symbols -> [Dates -> Bars]]
  /\ failed \subseteq chunk

\* A price asked for after its session is replaced by one asked for while it was
\* under way only where the task was answered before the session ended and
\* stores it after another writer has stored the final price; not by a batch
\* that was downloaded before and is written after it.
FinalStaysUnlessRaced ==
  [][\A s \in Symbols, d \in Dates :
       rows[s][d] = "final" =>
         \/ rows'[s][d] = "final"
         \/ \E x \in task : Store(x) /\ x.symbol = s /\ d \in Early(x)]_vars

\* The history that is certified has every session of the refreshed window for
\* every required security, and where the provider answered, its refresh has
\* left no price of an unfinished session (what it stored then stays, by
\* FinalStaysUnlessRaced).
CertifiedWindow ==
  \A h \in certified :
    /\ \A s \in Required : h.from..h.to \subseteq h.dates[s]
    /\ h.early = {}

\* Dates of a required security without a row, between dates with one, whose
\* absence no provider's answer accounts for.
Gaps(s) == {d \in Dates : /\ rows[s][d] = "none" /\ d \notin omitted[s]
                          /\ \E e \in Stored(s) : e < d
                          /\ \E e \in Stored(s) : d < e}

\* The task never leaves a gap up to the date it is run for, whatever the other
\* writers stored before it asked, or between its asking and its storing: it
\* continues from the latest row, its own or another writer's.
IncrementalLeavesNoGap ==
  [][\A x \in task : Store(x) =>
       \A s \in Required : Gaps(s)' \cap 1..x.end \subseteq Gaps(s)]_vars

\* A symbol that failed last is in the quarantine file, except while a
\* synchronisation is on its way to it; only a synchronisation that is cut off
\* loses its entry, and then only its own targets', unless the file was being
\* written.
QuarantineTellsFailures == owed \subseteq file \cup todo \cup chunk

\* data_lineage_certification.py:162: the certification is "based on exact
\* calendar coverage": a session missing from a certified history is one the
\* provider was asked for and left out.
CertifiedHistoryHasNoHoles ==
  \A h \in certified : \A s \in Required :
    \A e \in h.dates[s] : \A d \in e..h.to :
      d \in h.dates[s] \/ d \in omitted[s] \/ rows[s][d] # "none"

=============================================================================
