# Verification of the trading backend

TLA+ models of the Python program under `src/backend`, the TLC runs that check
them on small instances, and theorems about them that TLAPS proves for every
value of the constants. Paths below are relative to `src/backend` unless they
begin with `src/`. `PROJECT.json` maps each definition of a module to the lines
it models and lists runs, findings, hazards and theorems.

The program trades one eToro account. A language model proposes trades for the
symbols of a universe; a proposal becomes a row of the SQLite table `trades`; a
monitor turns rows into orders at eToro, watches the positions, and closes them
by rules on the price; operators look on through an HTTP API, cancel, close and
edit trades. The hard part is that jobs, API threads and the account act on the
same trades at the same time, and every function works on a row it read before.

## The system

| Component (files) | State it keeps | Operations | Works with | What makes it correct | Model |
|---|---|---|---|---|---|
| Trade lifecycle (`services/trade_manager.py`) | rows of `trades`: status, order, position, exit order, levels, amount | `evaluate_cycle`, `sync_broker_state`, `review_stale_pending_trades`, `refresh_open_trade_protections`, `reconcile_closed_trades` | scheduler (calls), eToro client (calls), table (shared) | one active trade per symbol; no double purchase; a status tells the truth about the account; no trade hangs; limits and cash respected | TradeLifecycle, TradeBook, ExitRules, Allocation |
| Manual administration (`services/trade_admin.py`) | none of its own | `manual_close_or_cancel`, `update_trade` | the table, from API threads without the scheduler's lock | an edit or a cancel is neither lost nor half applied | TradeLifecycle, ExitRules |
| Job scheduler (`services/scheduler.py`) | thread lock, file lock, deferred jobs, drain lock | scheduled and manual jobs, drain, `reset_locks`, bootstrap run | APScheduler's pool, API threads | one job at a time; no job lost; no lock leaked | Scheduler |
| Exit rules (`services/exit_eval.py`, `exit_levels.py`) | high-water mark and triggers of an open trade | stop loss, take profit, both trailing rules, normalisation of levels | the monitor's tick | triggers follow the top, never step back, fire when due | ExitRules (normalisation: planned) |
| Portfolio risk (`services/portfolio_risk.py`) | none | `suggest_size`, `project`, `assess` | allocation | a size fits the cash | Allocation (statistics left out) |
| Entry helpers (`services/order_exec.py`, `regime.py`, `trade_analytics.py`) | none | predicates on quotes and candles | lifecycle | | free choices of the modules |
| eToro client (`clients/etoro_client.py`, `etoro_rate_limiter.py`) | the times of its last GETs | orders, portfolio, quotes, history, discovery, retries | everyone | the window is never exceeded; a failure is not taken for an answer | limiter and retried requests: BrokerAccess; what callers do with answers and errors: TradeLifecycle, Universe |
| Live snapshot (`services/live_snapshot.py`) | cached portfolio with its time | read, rebuild | live streams of the API, from a thread pool | one rebuild per time to live, nothing older served | BrokerAccess |
| Exchange rates (`core/fx.py`) | last rate or failure per pair | `get_rate` | metrics, API | the last good rate is kept | BrokerAccess |
| Universe (`services/universe_manager.py`, `universe_admin.py`) | the universe file | weekly refresh, additions, removals | scheduler, API threads, eToro and GPT clients, data manager | an answered edit is not lost; a bad answer does not spoil or empty a category | UniverseSelection, Universe |
| Market data (`services/data_manager.py`) | candles | download per symbol | lifecycle | | planned |
| Equity snapshots (`services/equity_snapshots.py`) | rows | record, purge | scheduler, main | a failed read records nothing wrong | planned |
| Report index (`services/report_index.py`) | files, rows, folders | sync, move, delete, prune, folders, backfill | API threads, main | rows and files agree, folders too | Reports |
| Report rendering (`services/report.py`) | files | weekly and period reports | scheduler | | a file appears: Reports |
| Prompt store (`core/prompt_store.py`) | versions, the active one | edit, activate, reset | API threads, GPT client | one active version | planned |
| HTTP API (`api/api_server.py`) | runtime settings, event streams | routes | all of the above | | its effects are in the modules of the components it calls |
| Process wiring (`main.py`) | threads | start, shutdown | all | | start and restart, in TradeLifecycle, Scheduler, Universe and Reports |
| Configuration, retry, logging (`core/utils.py`, `core/logger.py`) | none | | | | defaults of ages in TradeLifecycle; retry in BrokerAccess; the universe file in Universe |
| Authentication (`core/auth.py`) | users, sessions | | API | | not modelled: shares nothing with trading |
| Databases (`core/db.py`, `app_db.py`) | schema | migration | | | a statement is atomic wherever a table is used |
| GPT client, metrics, benchmark, backtest, frontend | none that others write | | | | free choices, or presentation; the backtest is planned last |

Behaviours that are hard to test, which `PROJECT.json` lists at their lines:

- *Stale rows.* Every job reads all active rows and then works through them with
  broker calls in between. Writes are `UPDATE ... WHERE id = ?`, never guarded
  by the status. An operator's write in between is overwritten, or overwrites.
- *The account lags.* An order is accepted, filled, shown in the portfolio and
  closed at four different moments; a call may raise after it took effect.
- *Restarts* and failed statements between the POST of an order and the UPDATE of
  its id, and a POST that the client repeats.
- *Three ways to a lock.* Scheduled jobs, manual jobs, and the bootstrap run;
  and `reset_locks`, which replaces the locks under running jobs.
- *Cash read at one moment and committed at another*, in a batch.
- *One file, many writers.* The universe is read, changed and replaced by API
  threads and by a refresh that takes hours, without a lock.
- *A file and its row* come and go in separate steps, and every statement of the
  report index is a transaction of its own.
- *Clocks.* A limiter, a cache and a remembered failure compare ages that were
  taken before something slow.

## Modules

### TradeLifecycle, TradeBook

`TradeLifecycle` is one row per trade (`row`, `age`), the account (`order`,
`owner`, `position`, `closing`) and, per thread, the row it read and the
statement it is at (`seen`, `pc`). A step is one statement on the table or one
call to the broker: that is where other threads can come in. Row fields that
nothing depends on are left out; times are three ages, the entry window, the
await timeout and the age of a review, in the order the defaults give them.
Calls to the broker fail (`Fault`) and so do statements on the table
(`StatementFails`): the jobs catch the error trade by trade and go on, so that what
the broker has done stays done and the row does not know it.

The client repeats the POST of an entry order, up to three attempts under one
request id, and an attempt that failed may have reached the account.
`OpenMarketPosition(taken)` takes the orders the account took. Whether the repeats
make one order is up to eToro: a test (`tests/test_etoro_client.py:401`) calls the
request id an idempotency key, the docstring of `retry` (`core/utils.py:405`) warns
of duplicate positions. `HonoursRequestId` is the assumption; the runs cover both
of its values and the theorems do not fix it. `lost` is history: how many ids of
orders the program may have lost by then, one for each restart, each failed statement
and, if the request id is not honoured, each failed attempt of a call.

Actions follow the functions: `SyncBrokerState` and `ReviewStalePending` start a
pass over the rows read; `EntryLookup`, `EntryWaits`, `OpenMarketPosition`,
`MarkOrderSubmitted`, `ResolveSubmittedOrder`, `FetchFilledPosition`,
`ActivateTrade`, `AbandonUnfilledOrder`, `CancelPendingTradeRecord` are the
entry; `SyncOpenTrade`, `ConfirmPosition`, `ExitRulesDecide`,
`RequestMarketClose`, `SaveExitOrder`, `SyncExitOrder`, `MarkTradeClosed` the
exit; `OpenTradeFromSignal`/`SaveNewTrade` the evaluation;
`ManualCloseOrCancel` an operator; `Account` what eToro does by itself;
`Restart` loses every thread. The evaluation gives the job up between two
trades, which allows more interleavings than the lock does.

`TradeBook` is what the table promises by itself: a trade is proposed when its
symbol is free, filled or dropped, closed; and, when an operator and a job meet,
four overwrites by stale rows and no others. `RefinesTradeBook` states that the
lifecycle implements it, with `status` read from the rows.

### Scheduler

Threads of APScheduler's pool, API threads and the thread that calls
`TradingScheduler.start`, at the statements of `_run_scheduled_job`,
`run_with_lock`, `_drain_pending_jobs` and `reset_locks`. A lock is an object:
a reset installs a new one and removes the lock file, so `lock` and `file` are
numbered, and a thread remembers which it waits for and which it holds. A lock
file that is removed stays locked for whoever has it open. The repository does
not pin the version of `filelock`; a version that removes the file when it lets
go is not modelled.

### ExitRules

One open trade from its fill to the first accepted exit: levels, high-water
mark, triggers and price of the row; the job's row as read (`seen`); operators'
requests between their check and their UPDATE (`draft`). `Read`, `Mark`,
`Decide` are `sync_open_trade`; `Read`, `Review` the review by the model;
`Check`, `Write` are `update_trade`; `JobStops` any failure. Prices are whole
ticks, percentages parts of `Scale`, so the formulas are exact; rounding to
eight decimals is left out. `basis` and `top` are history.

### Allocation

The slots and the cash of an evaluation: `StartEvaluation`, `NextSignal`,
`Refuse`, `Lookup`, `RiskBasedAllocation` (with `Suggested` for `suggest_size`
and `Shared` for the even share), `ComputeAllocatedCapital` when a lookup fails,
`Project` for the halving, `SaveNewTrade`, `EvaluationEnds`. The monitor is kept as far
as it moves trades and cash (`StartSync`, `SendOrder`, `LeaveUnsent`,
`AwaitOrder`, `FillOrRefuse`), operators and the account act at any moment.
What volatility, correlation and the risk score allow is a free choice: a size
from `RiskSizes` before the other limits, and a verdict at each projection.
Money is in cents and rounding at a half goes either way. A sum of amounts is the number of their cents,
`Cardinality` of a union, so that it can be proved about. Sums and slots of one
sizing are read in one step; the code reads them in two, between which a trade
can only end. Nobody else takes money out of the account, and a symbol is traded
once: double orders are the business of TradeLifecycle.

### UniverseSelection, Universe

`UniverseSelection` is the choice of one category as operators on lists:
`Deduped`, `CheapShortlist`, `Prefiltered`, `DossierCandidates`, `Sanitized`,
`TopUp`, `SelectCategory`. They are written without recursion, so that they can be
proved about: `At` takes the entries of a list at the places where something
holds, and `ByRank` puts at place k what k - 1 others come before. `ListReference`
in `MCUniverse` compares both, on short lists, with a filter, a fold and a sort. What the filters and scores compute of a row's numbers is
given (`Clean`, `Liquid`, `CheapScore`, `Score`); the order they lead to, the
limits and the precedence of incumbents are the code's. Scores are compared
only, so naturals stand for the floats. A row without bars has a score of 0,
which the code treats as the lowest of all (`or float("-inf")`), but no metric
to be rejected on; `BarRank` says where that puts it.

`Universe` is the file, its version, and per writer the content it read and its
temporary file. A step is one read, one write of a temporary file, one
replacement, or one stage of the refresh (`Discover`, `Enrich`, `SelectStocks`,
`SelectCoins`, `InjectEtfs`, `GiveUp` for an exception in any of them). What
discovery, bars, dossiers and the final request answer is free, failures
included. `stands` is history: the answered edits that no writer with an older
read, no opposite edit and no new selection has superseded. Each start of
the process decides whether it has a client for the broker (`connected`): without
one a refresh takes empty lists in place of a selection, and an addition is refused.
`NeverWiped` is about processes that have one (see the deviations below). The
scheduler runs one refresh at a time.

### Reports

The report directory, the tables `reports` and `report_folders` with their
foreign keys, and per thread the function and statement it is at. `StartSync` to
`PlaceRow` are `sync_reports`, the search for a folder and the backfill of
`main`; `StartMove`, `MoveRow`, `EndMove` are `update_report`; `StartDelete`,
`Unlink`, `DeleteRow` are `delete_report`; `CountReports`, `CountFolders`,
`DropFolder` the pruning both end with; `CreateFolder`, `UpdateFolder`,
`DeleteFolder` take one statement each. `Generate` makes a file appear,
`Restart` stops the process anywhere. `late`, `excused`, `raced` and
`handmade` are history, which the properties need to name what they do not
promise. `raced` are the folders that two syncs were about to make at once, each
after it had found none.

A month whose year's folder is deleted, by an operator or by a prune that races a
sync, moves to the root, where no sync looks for it: the next report of the month
gets a new folder in a new year's. `FoldersUnique` says nothing of the months at the
root. `LookAtFile` takes `is_file()` and the SELECT of the row in one step; a
deletion that unlinks the file and deletes the row between the two leaves a row
without a file, which `RowsHaveFiles` excuses for any file deleted under a sync.
Operators name folders from `OwnNames`; a folder they named like a year would be
`handmade` all the same, and the properties leave those out.

### BrokerAccess

The rate limiter, the retried requests, the shared snapshot and the exchange rate
in one module, since the threads that use one wait in the other: a rebuild of
the snapshot holds its lock while its request sleeps in the limiter. `Acquire`,
`MustWait`, `Slept` are `RateLimiter.acquire`; `StartRequest`, `Answered`,
`Failed`, `TryAgain` a request under `retry`; `View`, `ServeCached`, `Rebuild`,
`RebuildFails` are `get_snapshot`; `Convert`, `UseCachedRate`, `AskProviders`,
`RateFetched`, `RateMissed` are `get_rate`. Readings of the clock become ages,
each counted up to the limit it is compared with, which keeps the model finite
and loses nothing the code can see. A sleep ends at its time or any time later.
The fetch of a rate happens between two critical sections, so fetches overlap
and finish in any order. `log` is history.

### How they fit

`Scheduler` shows that one job works at a time; `TradeLifecycle`, `ExitRules`
and `Allocation` start from that (`job`, `pc`), and each looks at one side of
the same job: statuses and orders, prices, money. What one leaves to another it
has as a free choice: any exit rule may fire in `TradeLifecycle`, a position may have any
fate in `Allocation`. The premise fails during the bootstrap run (see the
deviations below). `Universe` takes from `Scheduler` that one refresh runs at a
time; `BrokerAccess` says when a request of any module is sent and how often,
and the modules that use its answer leave that answer free.

## Runs

| Run | Asks | Instance |
|---|---|---|
| `trade_safety` | type, one active trade per symbol, closed was opened, closed stays closed, refinement of TradeBook | 2 trades of one symbol, 2 orders, 1 operator, 1 manual request, 1 failure; the request id is honoured |
| `trade_failures` | orders bounded, clean cancellations, exits claimed; pending trades resolve, vanished positions are booked, exits complete | 1 trade, 3 orders, 1 position opened by hand, 1 operator, 1 manual request, 1 failure; a repeated POST may be taken twice |
| `trade_cancelled`, `trade_closed` | findings | 1 trade, 2 orders; with an operator, or with a failure |
| `scheduler_safety` | type, exclusion, no leaks, no job lost; without a reset, what fires is started | 2 jobs (one with two instances), 2 workers, 1 API thread, 1 manual job, 1 reset |
| `exit_rules` | type, triggers follow the top and ratchet, exits when due, edits take effect | prices 8..12 around an entry at 10, 3 sets of levels, 7 requests, 5 proposals, 1 edit |
| `exit_pair` | finding | the same |
| `allocation` | type, slots respected, batches funded, others funded | 2 coins for 1 slot, 1 stock for 1 slot, 15 cents, least trade 4, risk sizes 2, 7, 20, 1 failing lookup |
| `universe` | type, standing edits, selections sound, full and incumbents first, never wiped | 5 stocks (1 unfit, 1 a listed ETF) for 2 places, 2 coins for 1, 3 kinds of edit, 2 API threads, 3 writers in all, restarts with or without a broker |
| `reports` | type, rows have files, pruning spares, folders unique, filed by period, backfill complete | two weekly reports of one month and an annual one, there from the start or generated later while there are less than 2; 2 requests at a time, 1 edit by hand, 1 restart |
| `access` | type, window bounded, snapshot timely | 2 threads, 2 requests per 2 ticks, 3 tries, times to live of 2 ticks, a failure remembered for 1 |
| `access_fx` | finding | the same |

Why these are enough. A conflict over a trade needs two writers and one row, a
conflict over a symbol two rows, a double order two orders: each instance has
them. A second operator adds no write the first cannot make, as an operator writes
from the row it read and never looks back. A failure is a call that raises, an
attempt that is repeated, a statement that fails, or a restart; it may fall on any
step, and so reaches every error path, among them each way to lose the id of an
order. The third order of `trade_failures` leaves the bounds something to cut off
after one was lost. The account numbers its orders in turn; they are only ever
compared, so no behaviour is lost by that. Two workers and a manual job are a
holder, one that waits and one that drains; the reset may come at any step, and
one API thread is enough as the safety properties are proved for any number. The
run of the scheduler is fair, and `DueRuns` speaks of the behaviours without a
reset. Prices on both sides of the entry reach, pass and retreat from every
trigger. The cash does not cover both sizes of 7 and 20, sits near the least trade
after one of them, and one slot for two coins makes the second too many. Three
writers of the universe are two edits and a refresh that read before both, or two
refreshes and an edit between them; every limit of the selection cuts something
off, one offer repeats a symbol, and operators remove the ETF that the refresh
puts back. A sync, an edit with its pruning, and a stop between them are what the
report index has to bear; twins need two files that want the same folder, for a
month as for its year. A second edit by hand would make the run too long. In
`access`, two threads fill the window of two requests, one sleeps with the lock
while the other waits, and a rebuild, retried, can take longer than the time to
live; larger numbers are left to the theorems. The safety properties that are also
theorems do not depend on the bounds at all.

Deadlock is checked in the Scheduler run, where only a leak could stop
everything. It is off elsewhere because there the system may come to rest: every
trade has ended and the bounds are used up; in `BrokerAccess` time never stops.

Every property of a passing run has a mutant in `PROJECT.json`, a plausible bug
in the code (a slot count that forgets pending trades, a job that is deferred
only when busy, a mark that follows the last price) that the run then catches.

### Fairness

- *TradeLifecycle*: a started thread goes on (weak fairness of its steps); the
  monitor's minute comes again and again, and gets the lock again and again
  since jobs end (strong fairness of `SyncBrokerState`); time passes; the
  account shows what it filled and executes closes it accepted. Operators,
  fills, failures and the evaluation owe nothing.
- *Scheduler*: threads go on; each job's trigger comes again and again, and
  APScheduler skips it while too many instances run (strong fairness of
  `Fire`). A job deferred in the microseconds between the drainer's last look at
  the queue and its release of the drain waits for the next job; that triggers hit this moment
  for ever is excluded by `<>[][Undisturbed]_vars`.
- *ExitRules*: the tick is repeated and its calls do not fail for ever (strong
  fairness of `Read`, `Mark`, `Decide`); a failed job ends and a checked
  request is written.
- *Allocation*, *Universe*, *Reports* and *BrokerAccess* have no liveness
  property: a batch, a refresh or a sync may always stop early by an error, and a
  Python lock promises no thread its turn.

## Findings

Each is a run that checks one sentence of the repository and finds it violated.

1. `trade_cancelled`: cancelling a PENDING trade by hand (or by the stale review)
   leaves the order that was sent; it may fill. `services/trade_admin.py:105`.
2. `trade_closed`: an OPEN trade without a position id is marked CLOSED without
   asking the broker. `README.md:209`.
3. `exit_pair`: the pair rule of the trailing take profit is checked on a row that
   may change before the UPDATE. `services/trade_admin.py:69`.
4. `access_fx`: the second failed fetch in a row drops the last good exchange
   rate, so that amounts are shown unconverted. `core/fx.py:20`.

Four more deviations from a comment were met while modelling. No run checks them,
as each is plain once read:

- The bootstrap run calls the jobs without either lock while the API already
  serves manual jobs; the docstring of `TradingScheduler`
  (`services/scheduler.py:27`) promises no overlap. `ExclusiveSinceReset` is about
  the jobs that take locks.
- A trailing take profit may close at a loss: the floor bounds the trigger, and
  the price of the minute's tick may lie below both (`services/exit_eval.py:30`).
- The amount of an order that was sent and waits is subtracted by the table's sum
  and again by the broker's cash (`services/trade_manager.py:226`), so the next
  trade is sized too small. `Funded` shows the other side: nothing is spent that is not there.
- A warning of `main.py` (line 103) says that without a broker "every trading job will
  be a no-op"; the weekly refresh is none: it writes a universe of the listed ETFs
  alone over the one in use (`services/universe_manager.py:902`). The model has the
  case, and `NeverWiped` leaves it out.

One thing to know of the universe, which the code does not call a fault: a
refresh overwrites the edits made since it began, hours ago. `StandingEdits` says
exactly that and no more: an edit stands until a writer that read before it, or
a new selection, replaces it.

## Proofs

All theorems hold for any finite or infinite sets of trades, orders, jobs,
threads and operators the assumptions admit and any bounds; `Allocation` needs
finitely many trades, `Universe` finitely many symbols. The assumptions are the
named ASSUMEs on constants: ids are distinct and different from `None`, limits
are naturals, levels are pairs or none, tickers are ordered. TLC evaluates each
in the runs. Every invariant and every action property that a passing run checks
is stated by a theorem.

- **TradeLifecycleProofs**. `TypeCorrect` needs that a thread in the middle of
  something has a trade (`Base`). `OneTradePerSymbol`: the property is not
  inductive, as a row cancelled under the monitor comes back; what is, is that
  at most one trade of a symbol is active *or still held as active by a thread*
  (`OneClaimPerSymbol`): a new trade needs the lock, so no thread of the job
  holds a claim while it is made. `ClosedTradesWereOpened`,
  `ClosedStaysClosed`, `TableRefinesTradeBook` rest on `Life`: what statuses a
  row may have while a thread holds it as PENDING, or as OPEN. `ExitsAreClaimed`
  from `PosInv`: a position enters a row once, when it is activated, so what a
  thread remembers of it is what the row says, however stale the rest.
  `EntryOrdersAreBounded` from `OrderInv`, who knows an order is settled when it is
  sent, and `SendInv`: a trade that may still send has an order less than the
  bound, and only the loss of an id makes one that has sent look as if it had not:
  by a restart, by a statement that failed, or by an attempt of the POST that
  failed after the account took it, if the account does not honour the request id
  (`lost` counts these). `CancelsAreClean` from `CleanInv`: once the job has decided
  on such a cancel, the trade has no more orders at work and positions held at the
  account than ids were lost, and they can only become fewer.
- **SchedulerProofs**. `JobsExclusive` from `FilesHeld`: whoever runs holds a
  file, no two the same; the thread lock alone would not do, a reset
  takes it away. `NoLockLeaks` from `GateInv` and `DrainInv`, each a locked
  lock's owner; `DueJobsAreKept` is inductive with `Base`.
- **ExitRulesProofs**. `TriggersAreOfTheTop` with `ReadInv`: between a job's
  read and its write nobody else writes the mark, so the mark it read is the
  current one. `TriggersOnlyRise` follows from monotony of the rules.
- **AllocationProofs**. `SlotsStayRespected`: trades in the monitor's hands
  still count (`SlotInv`), and a slot found free stays free until the lock is
  given up (`EvalInv`). `BatchesAreFunded` and `OthersStayFunded` from
  `MoneyInv`: what the account has not heard of, including what the monitor has
  in hand, is within the cash; and a size is within cash less commitments. The
  lemmas say how sums of amounts grow and that a rounded share leaves the least
  for each other slot.
- **BrokerAccessProofs**. `TypeCorrect` is inductive: a retry is never sent after
  the last try. `WindowIsBounded` from `LimiterInv`: the deque is the end of the
  log of acquisitions, what it has forgotten is at least a period old, and a
  thread that sleeps holds the lock with a wait that brings the oldest entry to a
  period; so a full window has a first entry that old. `SnapshotIsTimely` from
  `SnapshotInv`: while nobody rebuilds, the snapshot that is served has the age of
  its rebuild's start, and its prices are no older. Both hold for any number of
  threads, calls, tries and delays.
- **ReportsProofs**. `TypeCorrect` (`TablesInv`) needs that main works alone until
  it serves and that a month is looked for inside a year that was found.
  `PrunesSpare` is inductive: what enters a folder after the count is late for every
  prune under way. `ReportsHaveFiles` from `FilesInv`: a deletion that has removed
  the file still names the row, and a file being indexed is there or was deleted
  under the sync. `FoldersAreUnique` from `FoldersInv`: a sync that found no
  folder is still right when it makes one, unless another was between finding and
  making the same (`MakingFirst`). `ReportsAreFiledByPeriod` from
  `SpotInv`, the folder in hand is the period's or gone, and
  `BackfillIsComplete` from `BackfillInv`, what has no folder is still to do.
- **UniverseProofs**. `SelectionsAreSound`, `SelectionsAreFull`,
  `IncumbentsComeFirst` and `CategoriesSurvive` rest on `SelectInv`: the rows a
  refresh considers are offered, fit and each once (`RowsFit`), a category kept has
  what it had (`KeptWhole`), one selected is sound and, while there is a broker, full (`ChoicesSound`).
  Incumbents come through three limits by `HadFirst`: a list has them before
  anything else, and leaves one out only when it has nothing else, which every prefix
  and every ranking that prefers them keeps. The lemmas on lists say what a filter,
  a removal of duplicates and a ranking yield for every list; that all places of a
  ranking are taken is shown by the least element of what is left, without induction.
  `RankingSorts` says that `ByRank` is the sorted list. `EditsStand` from
  `StandInv`: what a writer has read holds the edits answered by then, so that what
  it publishes spoils only the later ones, which it supersedes.

Only model-checked: the liveness properties (`PendingResolves`, `VanishedIsClosed`,
`ExitCompletes`, `DueRuns`, `ExitsWhenDue`, `EditsTakeEffect`), since fairness is
outside the prover's reach, and the findings, which are counterexamples.

## What is left, in order

1. *Reconciliation and accounting*: `reconcile_closed_trades` against the
   broker's history, equity snapshots.
2. *Market data*: candles per symbol, their backfill and purge, after a refresh.
3. *Prompts and settings*: versions, the active one, the overlay of settings.
4. *Exit levels*: `normalize_exit_levels` as lemmas over ExitRules' formulas.
5. *Composition*: Scheduler with TradeLifecycle, where a bootstrap evaluation
   overlaps a manual one.
6. *Backtest*, after ExitRules.

## Not modelled

Besides the plan above, left out for good: rendering of reports, the statistics of portfolio risk, metrics,
the language model, authentication, the frontend: they keep no state that others
act on, or share none with trading.
