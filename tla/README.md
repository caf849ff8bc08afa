# Verification of Personal Alpha Terminal

TLA+ specifications of the Personal Alpha Terminal (`src/src/personal_alpha_terminal`, in the
following `pat/`): a local research terminal that proposes trades, has its user review and
execute them by hand at a broker, and keeps the ledger of what was executed. TLC checks the
specifications on small instances; TLAPS proves the safety results for every value of the
constants.

Contents: 1 inventory, 2 what is hard, 3 modules, 4 runs and bounds, 5 fairness, 6 proofs,
7 what the checks found, 8 not modelled, 9 plan.

## 1 Inventory

The package has some 378 Python files. Most of it is numerical research code; the control
that can go wrong over several steps or processes sits in a few services around one database.

| component | code | state it keeps | operations | correct means |
|---|---|---|---|---|
| decision review | `decision_engine/repository.py`, `application/app_service.py` | `review_status`, one decision row per recommendation | accept, reject, watch | one decision per recommendation, never taken back |
| manual execution | `application/manual_execution_service.py`, `application/decision_service.py` | orders, fills | `ensure_order`, `record_fill`, `cancel`, `modify_quantity` | fills within the approval, status agrees with fills, closed is closed, replays harmless |
| portfolio | `portfolio/management_repository.py`, `portfolio/position_import.py` | ledger, dated snapshots, cash | fill, manual update, CSV import | cash and holdings move by exactly what the ledger says, no oversell |
| instance lock | `terminal/instance.py`, `console.py` | lock file, shared temporary file | enter, exit | one console at a time, a dead owner locks nobody out |
| database sessions | `data/database.py` | transactions | `sessionmaker.begin()`, `session_scope` | a command happens whole or not at all |
| daily pipeline | `automation/runner.py`, `automation/tasks.py` | lock file, run and task rows | run, retries, finalise | one run at a time, analyses behind the data gates, rows tell the truth, runs end |
| local backup | `core/local_backup.py`, `core/runtime_bootstrap.py` | archives, restore request, pre-restore copies, database file and its write-ahead log | backup, stage, apply | no commit is lost, a failed restore leaves the database, nobody works on half a restore |
| price rows and their certification | `data/market_data/service.py`, `application/data_service.py`, `application/data_lineage_certification.py` | price rows, certified histories | refresh, incremental update, certify | a final price stays, no gap is left unseen, what is certified is complete |
| broad-market sync | `data/broad_market/service.py` | price rows, quarantine file | synchronise, retry, clear | a symbol that failed stays in the quarantine, also when a synchronisation is cut off |
| daily run | `application/daily_orchestrator.py`, `application/quant_daily_service.py`, `application/daily_result.py` | universe snapshot, decision rows, certificates and snapshots | run, replay, persist evidence | fails closed, files show what is committed, advice has a certificate |
| permissions | `application/operational_readiness.py`, `portfolio/live_validation.py`, model registry | policy file, approvals, validations | set policy, promote, validate | no advice without a permission in force |
| LLM extraction | `intelligence/budget.py`, `intelligence/extraction.py` | budget counters, cache | extract with retries | ceilings hold, no mock or invalid result is kept |
| production backtest | `quant_engine/backtest/production.py` | cash, shares, average costs, holding periods, last closes, observed volumes of a run | session: actions, rebalance, valuation | the books add up, nothing relies on what is not yet known |
| quant engine (the rest), analysis, strategies, backtest, alpha discovery, scenario simulator | `quant_engine/` ... | none that outlives a call | numerical functions | reference values |
| providers, terminal rendering, reports, agents, scripts | ... | caches, files | I/O | - |

They interact through the database (the console, the pipeline and the research jobs share
it) and through files in the user's data directory (the two lock files, the quarantine, the
restore request). The console runs one command per process; every command of the ledger is
one transaction of `ApplicationService`. The pipeline is a process of its own with a lock of
its own.

## 2 What is hard

`PROJECT.json` lists the hazards line by line. The groups are: long sequences of legal
commands on one order and one portfolio (partial fills, changes of quantity, cancellations,
backdated snapshots); two console processes that interleave, because the instance lock is a
read followed by a write, or because `main.py` of the repository starts the terminal without
it; three writers of one price table, each of which decides what to ask for from what the others
have stored; a daily run of three durable steps whose permissions the user changes meanwhile, and
which is repeated for a time that has been decided; state selected before the first write of a SQLite transaction and used after it;
the books of a backtest, which splits, payments, sales and repeated purchases change piece by
piece; lock files left by killed processes; retries of transactions whose outcome is unknown; and
processes killed between any two steps.

## 3 Modules

| module | models | role |
|---|---|---|
| `ApprovedExecution` | - | abstract specification: decide once, execute at most what is approved, closed is closed |
| `ManualExecution` | review, orders, fills, ledger, snapshots, cash | one action per console command |
| `ConsoleLock` | `ConsoleInstanceLock` | one action per file operation |
| `ConsoleSessions` | commands run by processes under the lock | composes `ConsoleLock` and `ManualExecution`, splits a command into reads and a write transaction |
| `PipelineLock` | `DailyPipelineLock` | one action per file operation |
| `DailyPipeline` | `DailyPipelineRunner` | one action per state operation and per task attempt |
| `LocalRestore` | `apply_pending_restore`, `stage_restore`, the start around them | one action per file operation |
| `PriceStore` | price rows, refresh and certification, incremental update, broad-market synchronisation with its quarantine | the refresh one action per stock, the update split for each stock where it has its answer, the synchronisation split at its download, its write and its commit |
| `DailyRun` | the daily orchestrator and the workflow it calls, policy, approval, validation | one action per durable step, and per point where a permission is read |
| `ProductionBacktest` | `ProductionBacktestEngine.run` | one action per corporate action, rebalance and close of a session |
| `MC...` | | instances for TLC |
| `SumTheorems` | - | facts about sums over finite sets, for the proofs |
| `SessionProofs` | | theorems about `ConsoleLock` and `ConsoleSessions` |
| `DailyPipelineProofs` | | theorems about `DailyPipeline` and `PipelineLock` |
| other `...Proofs` | | theorems about the module of that name |

**ManualExecution.** `review`, `order`, `fills`, `cashEvents`, `positions` and `cash` are the
tables; `filled` is the sum the code computes with `SUM(quantity)`, kept as a variable so that
a bound on it can be stated without a sum (`FilledIsSumOfRows` says that it is that sum, and is proved). An
action is a whole handler: `RecordFill` contains the replay check, `ensure_order`, the limit,
the eligibility of the time, `apply_trade_to_current_snapshot` with its roll-forward of the
latest snapshot, the ledger row and the status. A handler that raises is rolled back by its
transaction and is therefore no action; what it refuses is the action's guard. Both callers of
`DecisionRepository.review` are modelled: the console's (`ReviewFromConsole`, no order) and
`DecisionService.review` (`AcceptWithOrder`). Shares and money are whole numbers, a time is
its trade date, one portfolio and one currency. `Rejected` and `watch` are only told apart by
the abstract specification. A recommendation's side, quantity, gate and dates are constants:
`save_batch` writes them once.

**ConsoleLock / ConsoleSessions.** The lock file holds a process id. `Read`, `TakeOver` or
`Refuse`, `Stage` (write of the shared temporary file), `Replace`, `Leave` and `Unlink` are
the file operations; `Kill` may strike anywhere; the id of a
console that has ended may be given to another program (`Reuse`, `Vacate`), which a start that reads it takes
for a console (`ConsoleSessions` leaves that out). `overlapped` is a history variable: two starts
were under way at once. In `ConsoleSessions` a command first selects the order, then the sum of
its fills, and then writes: with the `sqlite3` driver a transaction begins at the first
writing statement, so the two selects are separate and may be old, while everything from the
first write to the commit is exclusive. An order that does not exist yet is inserted first,
and then the sum is read under the write lock. The ORM writes only the columns that differ from
what was read, and relative changes (`cash_balance -= ...`) are applied to rows read in the
write transaction.

**PipelineLock / DailyPipeline.** `Open`, `Stat`, `Unlink`, `Reopen`, `WriteToken`, `Leave`,
`Release` are the file operations of the lock. `raced` and `overran` are history variables
that name the two ways exclusion is lost. In the runner, `StateOperation` is
`_state_operation`: the transaction succeeds, or raises before its commit or after it, and is
tried again up to the limit; then the run raises. What a task computes is its outcome:
completed, skipped, failed for good, failed and worth a retry.

**LocalRestore.** One start after another runs `apply_pending_restore`, opens the database and
works. The content of a database is the set of commits found in it; the file and its
write-ahead log (`db`, `wal`) are separate, and opening the file replays whatever log lies
beside it: `data/database.py` sets WAL mode, and SQLite checks a log against its own salts and
checksums only, so that nothing ties it to the file it was written for. The
file operations are `Check`, `Inspect`, `Copy`, `Extract`, `Replace`, `Unlink` and `Undo` (the
`except` branch); a file copy can be cut off by a kill (`Torn`), `rename` cannot. `Open` joins
migrations and the daily backup, which is one step because it works in a directory of its own
and ends in a rename. Archives are kept; a request that cannot be read, or whose archive is
invalid, stops every start. `Stage` is `stage_restore`: no command of the console calls it so
far, so the model lets it happen whenever a console runs.

**PriceStore.** A price is told apart by when it was asked for: while its session was under way
(`early`) or later (`final`). The refresh of a daily run is `StartRefresh`, which computes its window,
`RefreshStock` for one stock after the other (the upsert of what the provider answered, or rows kept
as "cached" for a failed one), and `EndRefresh`, which certifies the history or is cut off. The market-data task
of the pipeline is split where the code has no lock on the database: `AskTask` takes a stock's answer, with all its
retries, and holds it in `task`; `StoreTask` stores it, in whatever the table has become. The
write of a stock is behind a savepoint (`repository.py:169`), whose release commits it as long as
the session has written nothing before; a session that has (a refresh that registered a new universe first)
keeps the write lock until its end, which only takes interleavings away. `RefreshStock` asks and stores at once:
its window ends with a session that is over, so that an answer is as good later as at once. A task may be run
for any date up to today (`--as-of`). `task` holds one answer, as one pipeline runs at a time.
The synchronisation goes through `StartSync`, then `Download`, `Write` (write lock
taken, quarantine saved) and `Commit` for each batch, and may be cut off anywhere; while a batch is
written the other two wait. `omitted`, `owed` and the `early` of a refresh are history: dates a provider was
asked for and left out, symbols that failed last, and early prices left where the provider answered.
The fallback provider keeps rows of its own and is left out,
and every member of the minimum universe counts as required.

**DailyRun.** `Begin`, `Data`, `Assemble`, `Decide`, `Record` (or `RecordError`), `Certify` and
`Snapshot` are the run; `SetPolicy`, `RemovePolicy`, `Promote`, `Validate` and `Tick` may come
between any two of them, `Kill` too. What the numerical stages compute is the gate at which the
pipeline stops (`MayStop` says which gates a lack of permission forces); what the model keeps is
which stage is marked how, what is committed, and what is answered from a row recorded before.
`inForce` and `cut` are history variables: the policies an undecided run may have read, and
decisions whose run ended before its certificate.

**ProductionBacktest.** A session is `OpenSession` (which bars and target it has), then corporate actions
(`Split`, `CashDividend`, `PayOut`), then `Rebalance` when a target is due, then `Mark`; a check that raises
ends the run without a result, so that it is the action's guard. `basis` is a position's shares times
its `average_cost`: a split leaves it as it is, a partial sale takes its part away (rounded down, as the code's
numbers are not whole; what a sale realises is computed from the cost of the shares sold, rounded up). The solver that turns weights into shares is replaced by its outcome: any
holding of members of the target that the net asset value pays for, everything else sold, every asset concerned
tradable at the open and with enough volumes of earlier sessions. `quoted` stands for
`latest_close`, by the session it is of. `opened` and `overnight` are history variables: the session a
position was opened in, and the shares of the last close in the units of the day.

Operators named `Bug...` state what plausible mistakes would make of the definition after
them; they are used by no specification. `PROJECT.json` pairs each with the property that
rejects it.

## 4 Runs and bounds

| run | instance | shows |
|---|---|---|
| `fills` (128,236 states) | 3 recommendations (a buy and a sell of one stock that may be filled on different dates, one whose gate failed), 2 fill ids, 2 dates, snapshots by hand and from a CSV, also backdated | the safety invariants of `ManualExecution`, finality of closed orders, holdings move by the trade, cash follows the ledger, refinement of `ApprovedExecution` |
| `lock` (6,559 states) | 3 consoles, two of which may be killed and have their ids reused | exclusion unless starts overlap; a stale lock is replaced, unless its id has become that of another program |
| `sessions` (971,180 states) | 2 consoles, a buy of two shares and a sell of one, cash for both shares and their fee and no more, a fee above the proceeds of the sell | commands are atomic unless starts overlapped; keys and cash are safe even then |
| `pipeline` (13,605 states) | the two gates, one analysis and the report, 2 attempts, 2 tries, 2 run rows | gates, order, truthful status, termination |
| `pipeline_lock` (5,136 states) | 3 runs | exclusion unless a run outlives its lock or a deletion is raced; an old lock is replaced |
| `restore` (545,912 states) | 2 commits, 3 seconds | nothing is lost, failed starts retain the database, nobody works on half a restore |
| `prices` (1,258,070 states) | a required stock listed at date 1, another listed at date 3, 3 dates, batches of one; 3 starts of a refresh, of a stock of the task or of a synchronisation | final prices stay but for an early answer that waited, certified windows are complete, the incremental update leaves no gap, failures stay told |
| `daily` (1,531,920 states) | 2 runs, 2 ticks, 2 data versions, 2 configurations of which one can be validated, a permission that ends after the first tick and a refusal | files follow commits, certificates are current, failures block, advice has a permission and a certificate |
| `backtest` (2,254,926 states) | 2 assets, 4 sessions, 2 prices, splits by 2, payments of 0 or 1, at most 2 actions a session, positions of at most 2 shares | the profit adds up, positions are valued and dated as the books say, dividends go to all that was held over night and to nothing else, trades rely on the past |
| `oversell`, `restore_log`, `prices_hole` | as above | the disagreements of section 7 |

Why the bounds are enough. Every guard of the workflow compares two quantities that differ by
one somewhere in the instance: two shares approved and fills of one or two, cash that pays one
lot with fee but not two, one share held. Two fill ids allow two partial fills and a replay of either.
Two dates allow a snapshot to be rolled forward, and a fill or a snapshot behind a newer one. Three lock users are
needed because each of the locks' races has an owner, a late looker and a newcomer. Two run
rows are what one run can create when its first record is tried twice; rows of different runs
are only ever addressed by their own id. Two commits let an archive be older than the database
and its log; three seconds let a restore be repeated with a copy of the same and of another name,
and starts, kills and failures are unlimited. `PriceStore`'s windows are scaled down with its
calendar (a refresh looks back no further than its own end, the task asks for one stored date again, rows one date
old stand in for a failed provider, one bar is the minimum): three dates then hold a window, a
date before it and a date to come, which is what the comparisons tell apart; a batch of one symbol
makes two batches of one synchronisation. Three starts let two of the writers, or one of them twice, come
between the start and the end of a third. In `DailyRun` two runs are a decision and its repetition,
two data versions a decision whose data have been replaced, and the second tick is after the
permission has ended. A backtest learns a volume in its first session; the other three hold a purchase, an
action, a missing bar, a sale and a second purchase; the stale limit, the lookback and the
observations asked for are one, so that each is met and missed by one. The type invariants of
`ManualExecution`, `DailyPipeline`, `DailyRun` and `PriceStore` are proved and therefore not checked again in
their runs; so are `BalanceIsLedger` and `ShownIsLedger`, which hold under specifications of their own. `MaxDate`, `MaxSecond`, `Commits`, `MaxRows`, `MaxTime`, `MaxVersion`,
`MaxRuns`, `MaxStarts`, `MaxSession`, `MaxShares`, `MaxActions` and the sets of quantities, prices, fees, balances and ids are the bounds; none of
them is in the code, except that attempts and tries are settings there too. Deadlock checking is
off where the user may stop.

## 5 Fairness

No fairness is assumed of users, of the clock or of kills. `LockSpec` and `PLSpec` assume that
a process that has started to enter takes its next step, which the operating system's
scheduler gives it. `DailyPipeline` assumes that the runner takes its next step while it
lives: a task has no timeout of its own in the code, so "a task ends, if only with an error" is
an assumption about the task bodies. The liveness properties follow: a stale lock is replaced,
an old pipeline lock is replaced, a run ends. `ManualExecution`,
`ConsoleSessions`, `LocalRestore`, `PriceStore`, `DailyRun` and `ProductionBacktest` promise nothing that must
eventually happen: nobody need start another run, and a provider may fail for ever.

## 6 Proofs

All theorems hold for every value of the constants that satisfies the named assumptions of
the modules (quantities and prices are positive, the task list has no duplicates, limits are
positive).

* `ManualExecutionProofs`. `IInv` is the conjunction of the type invariant and five safety
  invariants. None of them alone is inductive: the bound on fills needs the types and the
  origin of orders, the status needs the bound, and the position rows need their unique key to
  be rolled forward. Each conjunct has a lemma per action that can disturb it. From `IInv`
  follow the six invariants, the action properties `ClosedOrderIsFinal` and
  `CashMovesWithLedger`, and the refinement `KeepsPromise`: the initial state maps to the
  abstract initial state, and each action to one abstract action or a stutter.
  The sums are proved without induction: `SumTheorems` takes a smallest subset for which an
  equation fails, which a finite set with any such subset has, and removes one element of it.
  `FilledIsWhatWasRecorded` follows for any number of fills, and `BalanceAddsUp`: the balance is
  the opening cash plus what every ledger row moves, under `LedgerSpec`, which leaves out the
  CSV import (it sets the balance without a row). `FillsMoveTheirTrade` says that a fill moves
  the latest holdings by its own trade, also when the snapshot is rolled forward, unless it
  leaves its date without a row. That exception is the finding `oversell`; the converse is
  `NoOversellWhileRowsStay`: under `FillSpec` and as long as no fill is such a sale (`RowKept`),
  the holding shown is what the fills leave of the initial one (`ShownIsLedger`) and no stock is
  sold twice. The sale that empties its date is thus the only cause.
* `SessionProofs`. `LockInv`: while no two starts have overlapped, at most one process is
  starting, the temporary file at `replace` is its own, and the file names the holder, whom a
  starter has seen. Exclusion follows. `SessionInv` then composes lock and data. What needs no
  exclusion holds whatever overlaps, because everything from the first write to the commit is
  one transaction: types, unique keys, funded buys, origin of what is executed
  (`DataInv`), and from it that the balance, the filled quantities and the holdings add up
  (`SessionBalanceAddsUp`, `SessionFilledAddsUp`, `SessionFillsMoveTheirTrade`). What relies on
  reads needs them to be fresh: until two starts have overlapped, at most one console is inside
  the lock, so that what its command has selected is what the tables still hold, and the whole
  `IInv` is kept. A write then is a step of `ManualExecution` (`SessionsAreAtomic`), and, by its
  refinement, a step of `ApprovedExecution` (`SessionsKeepPromise`): the three levels composed.
* `DailyPipelineProofs`. `IInv` adds to the three safety invariants where the runner stands in
  terms of its rows (`Position`: tasks behind it are settled, tasks ahead untouched, gates it
  remembers are completed), that rows not yet created are untouched, and that the bound leaves
  room for every try of a creation. About `PipelineLock`, `PLInv`: while no deletion was raced
  and no run outlived its file, a holder's file is in place and fresh and nobody is about to
  delete.
* `LocalRestoreProofs`. `RestoreInv` adds to the three safety properties where a start stands:
  its pre-restore copy, unique by name, is the database it found (`OwnCopy`); until the
  replacement the database shows what the start found (`Untouched`); and a replaced database has
  its request until that is removed (`RequestThere`). The copy alone is not the database: with
  commits in the log it is whole only together with the log, which the restore leaves in place,
  and the same log is why `restore_log` fails.

* `PriceStoreProofs`. Three invariants carry the results. `Settled`: a price that is stored, held in a batch or
  held by the task is of a date that has come, and a final one of a session that has ended.
  `Runs`: the window of a refresh under way ends with such a session, so that no answer leaves an early
  price. `Asked`: the answer the task holds lies in the dates it asked for, and these start at the
  first date or at or before a stored row, which no writer takes away. From the first follows
  `FinalPricesStay`: refreshes and batches leave final prices, and a task replaces one only
  by an early price it was given before the close. `CertifiedWindows` follows from `Runs`, and `TaskLeavesNoGap`
  from `Asked`: a gap the task leaves was there before or was left out by the provider, whatever was
  stored while its answer waited. `FailuresAreTold` needs
  `Quarantine`: what the synchronisation remembers is what its file says, less the targets it has
  still to come to, and a batch that is written has its failures in the file.
* `DailyRunProofs`. The invariant is the conjunction of `Sourced` (the run's version and signals are what
  its decision time allows), `Graded` (the stages of the result are those its stop implies),
  `Answered` (a ready result has its row) and `Accounted` (an approved row has a certificate, was cut
  off, or is being certified by the run that added it), with the types. `FilesAreBacked`,
  `CertificatesAreCurrent`, `FailuresBlock`, `AdviceHasCertificate` and the action
  property `AdviceIsPermitted` follow.

* `ProductionBacktestProofs`. `IInv` says of each position where its account stands: marked at a close
  between its opening and this session, or held over from the session before, or just opened
  with a bar of this session (`Account`), which is what lets `Mark` find a close for everything it values;
  that volumes are those of ended sessions, and that what is held in the morning is what was
  held at the last close (`Past`). `PositionsAreAccounted`, `DividendsGoOvernight` and
  `TradesRelyOnThePast` follow. `ProfitIsReal` adds up the cost bases of any number of assets
  with the lemmas of `SumTheorems`; what a sale takes from a position's cost and what it
  leaves are computed apart, and `CostIsShared` shows that they are the whole. Each action moves cash, bases, realised profit, dividends and
  costs by amounts that cancel, for a merger and for a rebalance of every asset at once too.

Only model-checked: liveness (`StaleLockIsReplaced`, `OldLockIsReplaced`, `RunEnds`), which is
beyond this prover, and of course the three properties of section 7 that do not hold. Every
invariant and every action property of the passing runs is stated by a theorem.

## 7 What the checks found

* `oversell`: a sold-out position's row is deleted; with no row left on the date, the latest
  snapshot is an older one, whose shares can be sold again (`management_repository.py:198`
  and `:131`).
* `restore_log`: a restore after a killed console leaves the old write-ahead log beside the
  restored file, and the next open replays it: the content is not the archive's.
* `prices_hole`: after a pause longer than the refreshed window (seven days, once enough bars are
  stored) the sessions of the pause are never asked for; the coverage is computed for the
  window alone, and the history with the hole is certified as complete.

Seen while modelling and not made a run. *Ledger and locks*: two
consoles started together both run, and both can check the approval against an old sum of fills and
exceed it (`AtomicUnlessOverlapped` exempts it); the same happens without any race when the terminal is started
through the repository's `main.py`, which takes no lock; accepting on the console creates no
manual-execution order, which the docs promise; a pipeline that finds the lock file gone when it looks at its
age deletes whatever lock is there a moment later (`ExclusiveUnlessRaced` exempts it); the CSV import changes cash without a ledger row
(`CashMovesWithLedger` exempts it); a cash update that returns to a balance already booked on
that date is refused by the unique external id; a cash-only update replaces the day's rows by
none; a second partial fill reported without a fill id is refused as a different payload of
`legacy:<id>`; a failed commit of `_create_run` that did commit leaves a run row that stays
`running`. On systems without `LOCALAPPDATA` the bootstrap restores into
`~/.PersonalAlphaTerminal/data` while the database it opens lies in `~/PersonalAlphaTerminal/data`.
A pending restore is applied before the instance lock is taken. A pre-restore copy made in the
same second replaces the earlier one (`NothingLost` exempts it).

*Prices*: the incremental task stores the bar of an unfinished session with its time of
availability raised to the session's close (`core/data_timestamps.py:33-49`); the
synchronisation never replaces it (`ON CONFLICT DO NOTHING`), and a refresh whose provider failed
and kept "cached" rows can certify it (`CertifiedWindow` exempts exactly that). Worse, the task's upsert is
unconditional (`market_data/service.py:231`): a bar it was given before the close, and stores after a refresh has
stored the final price, replaces that price (`FinalStaysUnlessRaced` exempts exactly that), also between the
refresh's write and its certification, or after it, although `data/broad_market/service.py:443` says of its own
rows that what is certified is immutable. The next refresh puts it right, while the date is in its window. One registered stock that fails
makes each daily certification `PARTIAL`, so that nothing is materialised. Corporate
actions are asked for in the refreshed window only.

*Daily run*: a run repeated for a decided time shows the recorded decisions also when its own
stages failed; its certificate then says that they are not to be used (`UseIsCurrent`). The fingerprint of a
decision leaves out the configuration of the portfolio constraints
(`quant_daily_service.py:333`), so that a run under changed constraints answers with the old row. A
run whose model is approved and whose sizes are provisional is classed `CERTIFIED`
(`daily_result.py:306-319`). `OperationalPolicy.allows` would pass over a `BLOCK` for a research state
`CERTIFIED`; no caller passes that state.

*Backtest*: a split on a session without a bar values the new shares at the close before the split
(`production.py:340`); an action whose date is not a session is never applied, and the loading takes every
revision and source of an action (`backtest_service.py:164`); that a volume was available is
not asked, only that its session is over; the overnight return of a position is attributed to
the sources of the new target, and on the day of a split to closes of different units; a cost minimum on
positions so little changed that no trade is made fails the check of the cash after the trades (`production.py:582`). The
older `backtest/engine.py:527` reads the bar of a held asset that has none when its target equals its weight.

## 8 Not modelled

PostgreSQL, where READ COMMITTED lets two writers lose updates of cash and positions; the write of the console's temporary file in
two steps (truncate, write); corporate actions, targets, several currencies and portfolios;
the bodies of the pipeline's tasks other than market data; the fallback provider's rows and the registration and ranking of the broad universe; the LLM stage of a daily run (shadow results only) and the text of the readiness report; two consoles restoring at once, and restores whose undo
fails by itself; `ManualExecutionAuditService`; of the production backtest its metrics and attribution, the validation and
loading of the dataset, fractional shares, reverse splits and the solver of the costs. Other numerical code, providers,
rendering and reports are left out altogether: see the components in `PROJECT.json` for each
with its reason.

## 9 Plan

1. `ApprovedExecution`, `ManualExecution` with runs and proofs: done.
2. `ConsoleLock`, `ConsoleSessions` with runs and proofs: done.
3. `PipelineLock`, `DailyPipeline` with runs and proofs: done.
4. `LocalRestore` with runs and proofs: done. To prove: without a log left behind, what a restore
   opens is its archive. Left: the restore applied by a second console
   before the instance lock refuses it.
5. `PriceStore` with runs and proofs: done. To prove: a certified history without holes as long as
   no pause is longer than the refreshed window. Left: the fallback provider, corporate actions.
6. `DailyRun` with run and proofs: done. Left: the research gates behind an assembly error.
7. `ProductionBacktest` with run and proofs: done. Left: market values, with which the split without a
   bar could be stated; the loading of actions.
8. `ExtractionBudget`: ceilings across retries, cache hits and rejected results.
9. Rebalance tickets of `ManualExecutionAuditService`.
10. Pure algorithms against reference definitions: regime hysteresis, manual rebalance, ledger replay of the management engine.
