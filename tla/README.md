# Verification of crypto_nav_manager

TLA+ models of the parts of crypto_nav_manager that decide whether the stored
trading history, and the numbers computed from it, can be trusted. TLC checks
the models on small instances; TLAPS proves the main results for every
instance. `PROJECT.json` lists components, runs, mutants, the map from
definitions to source lines, findings, hazards and theorems. Paths below are
relative to the repository, which is `src/` here.

## 1. The system

The service reads fills, funding, interest, rebates and liquidations from the
REST history of Binance, Bybit, Gate, Bitget, OKX and RapidX, stores them in
PostgreSQL per strategy, reconciles them with the order fills of the trading
process, synthesizes maker/taker combinations, and derives PnL and NAV views
for the users of a web server. It places no orders. Everything rests on one
promise: *up to the watermark, the stored history is complete.*

| Component | State | Operations | Interaction | Correct when |
|---|---|---|---|---|
| `bin/sync_history.rs` | rows, `history_sync_watermarks` | scan of a dataset: cursor, symbols, download, commit | run by the worker, reconciliations and operators, several at once | the watermark covers all due fills and never moves back |
| `rest_dispatcher.rs` | per IP: used weight, window, block; rotation | reserve, send, record weight, block, retry | cloned into concurrent tasks, one lock | quota and blocks are kept under races; calls return |
| `exchange/*.rs` | a cursor per download | request loops | called by `sync_history` through the dispatcher | a successful download is complete and ends |
| `live_history.rs` | a cycle per strategy | slot, symbol discovery, backfill, scan or bootstrap, account datasets, comparison | spawns `sync_history` and `reconcile_rocksdb`; reads Redis, Manager, PostgreSQL | every fill is stored in the end; none falls out of reach |
| `bin/reconcile_rocksdb.rs`, the switch in `live_history.rs` and `server.rs` | checkpoint, status row, switch | compare an interval, advance, report, turn off | one status row for the worker, operators and an admin | the verified interval reconciles; the switch goes off after a failure |
| `bin/sync_intra_orders.rs`, `intra_order_match.rs` | lifecycles, margin orders, hedges, cursors | download, aggregate, release, match, finalize, rebuild | follows a successful comparison; several processes | every fill counts once; pending orders know their hedges |
| `intra_analysis.rs` | none: a result per request | pair, spread charges, summarize | reads the synthesized orders | pairs are first in first out; views agree |
| `fifo_pnl.rs`, `quantity_fifo_pnl.rs`, `pnl.rs`, `pnl/overview.rs` | open lots and totals of one request | merge, replay, mark, resample | read PostgreSQL | no value is created; every view shows the same sums |
| `auth.rs`, `server.rs` | users, sessions, grants, snapshots, process slots | one handler per request | HTTP clients that disconnect, PostgreSQL, child processes | ended sessions stay ended, an admin is left, slots are exclusive |
| `bin/sync_fee_rates.rs`, `fee_rate_store.rs` | rows of fee rates | fetch per market and symbol, store, read the latest run | spawned by the server | the rates shown are those of a run in which every market was answered |
| `server/fr_overview.rs`, `account_risk.rs`, `mark_prices.rs` | an overview per account, newest reading per key | refresh, replay, listen | HTTP, shared memory, one replay gate | nothing old is called live; every history gets its turn |
| `fr_position_limits.rs` | a cached overview | read four kinds of endpoints, judge | handlers behind one lock | a healthy environment hides nothing |
| `intra_latency.rs`, `bin/sync_intra_hourly_latency.rs` | hourly points | plan, read in chunks, quantiles, store | the server's loop and operators | a stored point is that of its hour's rows |
| `contract_multipliers.rs` | effective-dated rows | daily cycle, lookup | REST, PnL | a trade gets the multiplier in force |
| `binance_premium_index.rs`, `bybit_premium_index.rs` | candles | backward and forward fill | REST | every minute is stored in the end |
| `ops_monitor.rs` | log cursors, alerts, blocks | poll, rotate, expire | files of other processes | no alert is lost; what is published is deserved |

Hard behaviours, each listed with its line under `hazards`: scans that overlap
in time and commit in any order; late publication; clock values read before a
lock and used after it; responses that arrive after their window; lists that
are stale when used or cannot be read; a child that fails or is killed; a
status row shared by several writers; pages that shift while they are read;
copies of a cache written back after several awaits; handlers dropped half way;
lines seen half written.

## 2. Modules

| Module | Models | Extends |
|---|---|---|
| `HistorySync` | one dataset of one strategy, any number of `sync_history` processes, the exchange and the clock | |
| `StoredHistory` | abstract specification: what a reader of the rows and the watermark may rely on | |
| `HistorySyncProofs` | theorems, the refinement of `StoredHistory` among them | `HistorySync` |
| `Dispatcher` | the IP pool and its callers | |
| `Pagination` | the nine request loops behind `Fetch` of `HistorySync` | |
| `RequestsProofs` | theorems about the two | `Dispatcher`, `Pagination` |
| `LiveHistory`, `LiveHistoryProofs` | the recurring worker of a strategy, whose child is the process `Worker` of `HistorySync`; theorems | `HistorySync`; the proofs also `HistorySyncProofs` |
| `Alignment`, `AlignmentProofs` | reconciliations, checkpoint, status row and switch; each run owns a process of `HistorySync`; theorems | `HistorySync`; the proofs also `HistorySyncProofs` |
| `IntraOrders`, `IntraOrdersProofs` | order synthesis by any number of processes; theorems | |
| `IntraAnalysis` | the analysis of the synthesized orders | |
| `FifoPnl`, `PortfolioPnl` | both FIFO engines; the PnL of a strategy on top of them | |
| `Accounts`, `Server`, `ServerProofs` | accounts, sessions and grants; the handlers that change a strategy's state and the fee-rate process; theorems about both | `Server` extends `Accounts` |
| `Feeds`, `Overview`, `OverviewProofs` | the caches fed from shared memory; the account overview that reads them; theorems about both | `Overview` extends `Feeds` |
| `PositionLimits` | the position-limit monitor | |
| `HourlyLatency`, `ContractMultipliers`, `OpsMonitor` | the services beside the handlers | |
| `Collectors` | these three and `PositionLimits`, side by side | all four |
| `CollectorsProofs` | theorems | `PositionLimits`, `HourlyLatency`, `ContractMultipliers` |
| `PremiumIndex` | the premium-index collector of one symbol | |
| `Absent` | the value of a missing datum in the collectors | |
| `MC*` | instances for TLC | |

`LiveHistory` and `Alignment` compose by owning processes of `HistorySync`:
their actions conjoin the actions of the child with their own state, so that
operators' scans, the worker's scan and a reconciliation's scan interleave on
the same rows and watermark. `Server` and `Accounts` share the tasks of the
server and its clock; `Overview` reads what `Feeds` keeps.

Components that share no state do not gain from interleaving: their product
only multiplies states. `Collectors`, `MCRequests`, `MCProgress` and `MCIntra`
therefore take them together with a variable (`chosen`, `part`) that says, once
per behaviour, which one moves; the properties are those of each component.

### History

**HistorySync.** `scan[p]` is the memory of a process: `pc` follows
`sync_dataset` (latest, cursor, symbols, fetch), and each database read is a
step of its own because other processes commit in between. `Launch` is `main`
with its argument checks; `ReadLatest` is `latest_dataset_time`; `ReadCursor`,
`SkipBeyondEnd` and `NotInitialized` are the outcomes of `scan_start`; `Fetch`
downloads one symbol (the whole account is fetched symbol by symbol too, which
allows more interleavings than the code), of those in `Legs`, since
`--derivatives-only` leaves the spot leg out; where the scan names stored symbols,
`Scopes` lets it name more, because funding, liquidations and the other leg
name symbols too; `SkipSymbol` is error -1121 or an
unresolved Gate contract; `Commit` writes rows and watermark in one
transaction; `Fail` is any error or the death of the process. `Mode` says how
the exchange serves fills. `Publish` may delay a fill by up to `Lateness`. Rows
are a set, which is what the upsert by exchange-native id amounts to. `gated`
marks a command line that is only issued once rows are stored, as the worker
does with CTA backfills.

**StoredHistory** knows no processes: records happen and are shown, and whoever
stores some of the shown ones may move the boundary forward over records that
are stored; nothing stored is taken away, and no record happens behind the
boundary. `Promise` in `HistorySync` instantiates it; the processes, their
cursors and what they have downloaded are hidden.

**Dispatcher.** A caller stamps the clock (`Stamp`), then reserves under the
lock (`Reserve`), then waits for the answer (`Respond`, which records the
observed weight) and blocks in another critical section (`Block`).
`NoAvailableIp`, `DispatchTooHeavy` and `TransportError` are the early returns.
`spent` and `banned` are history variables.

**Pagination.** `style` selects the loop, `time` the event times of the
records, `pub` what the exchange shows. The exchange publishes any record at
any time during the download, so page-numbered lists shift under the loop.

**LiveHistory.** `wk.pc` follows `run_strategy` and `sync_strategy`: sleep,
lookup, backfill, trades, bootstrap, account. `Slot` reads the known symbols
before the lists are read; `LookupFails` and `Unread` go on with an
empty list, as the code does. `MaxDelay` bounds the time from the lookup to the
start of the last scan of the list, which in the code is the run time of the
backfills; the overlap (30 minutes in the code) has to cover it together with
the publication delay. Account datasets have scans and watermarks of their own,
so they are a single step here. `FundingScan` is an operator's
`--dataset funding`. `kind` is the worker's source of symbols.

**Alignment.** `run[p].pc` follows `reconcile`: start, checkpoint, sync, reload,
pg, compare, complete. Every `set_phase` writes `running` into the shared row.
The worker's run passes `--skip-sync`; operators choose. Interval ends are
exact, where the code rounds the start down to a minute. Every write of the row
may fail: the worker's verdict, and the run's own last one, after a success
(`complete_status`) or a failure (`fail_status`, whose error is only logged).
`unwritten` remembers that the write which should have ended the row was lost.
`Budgets` says what may go wrong in a behaviour: kills, failing writes, and
changes by an admin.

### Orders and PnL

**IntraOrders.** A process reads the cursor, downloads the rows after it and
aggregates them under the row lock, where the cursor is checked again (a row
that says FILLED is read even when it fills nothing); then it
releases what is older than the reorder window in source time and matches
margin orders with their hedges. Each transaction of the code is one action, an
aborted one a separate action. The prices and the quantity epsilon of the engine
are left out; fills are unit quantities. The loops of the code (lifecycle
aggregates, the walk of an event over the pending orders, the events of a batch)
are recursive functions over lists. `Lag` is how
long rows of an order may follow its terminal row, in source time; `Reorder` is
`--reorder-minutes`.

**IntraAnalysis**, **PortfolioPnl.** Both results are functions of stored rows,
so they are operators (folds over the merged events) and the actions store
rows. Properties compare them with reference definitions that know nothing of
lots: `RealizedIsFifo` and `RealizedBySettledUnits` pair the n-th unit opened
with the n-th unit closed; `TotalIsMarkedCash` values the position and the cash
flow; `CurveIsExact` recomputes every point from the events up to it. Numbers are
integers in fractions of `Scale`, so that the divisions that occur are exact;
rounding of `f64` is not modelled.

### Server

**Accounts**, **Server.** Every request is a task; one statement of PostgreSQL
is one step, so statements of two requests interleave. `Drop` and `Restart` end
a handler between two steps: what it held in memory (the snapshot mutex) goes,
what it had spawned or inserted (a process; a slug in `fee_rate_syncs`) stays
or goes as in the code. Whether a password matches is an input. A fee-rate
process outlives the handler and the server that spawned it; it counts, per
market, the answers that succeeded, and an exchange of `EmptyAnswers` may answer
without a rate, which counts too.

**Feeds**, **Overview.** `Feeds` redelivers a service's recent samples to a new
subscriber and drops a subscriber on an error. The refresh loop of `Overview`
copies an account, reads its sources, and writes the copy back whole; a replay
beside it may write in between. `Worth` is the true equity of the ledger, so a
report can be compared with the truth.

**PositionLimits.** A request waits for the lock, reads or answers from the
cache, and may be dropped by its client; the replies of the endpoints are
inputs, `None` for one that fails and `lists = FALSE` for positions or brackets
that are no list, which fail the environment where a missing endpoint is a
warning.

**HourlyLatency**, **ContractMultipliers**, **PremiumIndex**, **OpsMonitor.**
Loops that sleep, read something remote in several steps, and store. The
operations monitor sees logs as sequences of half lines, so that a line may be
read half written.

## 3. Runs

All bounds are constants of the modules and appear in the `.cfg` files.
`CHECK_DEADLOCK FALSE` is set everywhere because the clock, the number of rows
or requests, or the download ends. Symmetry is used for processes, callers and
tasks, and for the symbols of `live`; none of the runs with symmetry checks
liveness. Each property has a mutant: a plausible bug under which the same run
finds it violated.

| Run | Checks | Bounds and why they suffice |
|---|---|---|
| `history` | `WatermarkCovers`, `KeepsPromise` | 2 processes, 2 symbols, one of which may be refused, scans with and without an explicit end, a repair of the derivatives only, 2 fills, 3 ticks, overlap 1, lateness 1: a scan can start, be overtaken and commit last, with a fill published after the scan that should have seen it |
| `requests` | `QuotaRespected`, `BlockedIpNotReserved`, `WindowNeverReopens`, `HintIsExact`; `FetchEndsRight` | dispatcher: 2 callers, 2 IPs, limit 2, window 2 of 3 ticks: a stamp from one window is used in the next. Pagination: 5 records, pages of 2, two windows, records outside the range on both sides, ties in the loops by `from_id`, `checked` and by halves |
| `live` | `NoFillOutOfReach` | Redis-listed and CTA strategies, 2 symbols, one listed after the other was stored; 4 ticks give two cycles with a scan between them; one child failure, one Manager outage, an operator's repair beside the worker, a symbol that leaves the list |
| `progress` | `DispatchReturns`, `EveryFillStored`, `CandlesFollow` | 2 callers on one IP, so that they compete, with and without weight; the worker with 2 symbols, 2 fills and one failed query or child; 8 minutes of candles in pages of 2 with a gap, a first trade that moves back, one failed page |
| `alignment` | `VerifiedReconciles`, `NoFalseAlarm`, `NoOrphanRunning`, `SwitchedOffAfterFailure` | the worker and one operator, one fill that either side may miss, 3 ticks: two full comparisons overlap; a lost write alone, a failure and an admin's two changes, or a kill or failure together with two lost writes |
| `intra` | `FillsConserved`, `PendingIsOpen`; `RealizedBySettledUnits`, `ChargesFollowUnits`, `ViewsAgree` | synthesis: 2 processes, a buy and a sell Margin order and a hedge, rows that arrive one tick late, a final row that fills nothing, a rebuild under a run. Analysis: 3 combinations of two directions, prices and quantities, one charge of each kind: partial closes and flips |
| `portfolio` | `RealizedIsFifo`, `TotalIsMarkedCash`, `CurveIsExact`, `ReplayAgrees` | three strategies that together use every normalization; 3 or 4 rows in any order: several lots closed by one fill, reversals, equal times, windows that start on an event |
| `server` | `AccountsConsistent`, `EndedSessionStaysEnded`, `OneFeeSyncProcess`, `PnlStartsAtBase`, `LatestRatesComplete` | 2 tasks, 3 requests, one drop or restart, 2 admins and 2 other accounts, 3 tokens that expire within 3 ticks; one strategy at an exchange that may answer without a rate and one that may not; endpoints that touch the same rows are offered together |
| `overview` | `LiveFactsAreRecent`, `HistoryIsExact`, `HistoriesTakeTurns`, `ReadingsNeverGoBack` | one funding-rate account with a risk feed and one market maker, two days of four ticks, each service down once; scenarios in `Init` follow either the marks, the services, or two accounts without services |
| `collectors` | `HealthyHidesNothing`, `AnswersNeverGoBack`; `HourlyPointsAreExact`; `MultiplierIsTrue`, `PastMultipliersStay`; `AlertsComplete`, `PublishedIsDeserved` | limits: every reply of an environment from a catalogue (failed endpoints, answers that are no list, hedge legs, rows without value, missing limits, caps) and three requests of two users; latency: 2 hours, 2 late rows, one failure or recomputation; multipliers: one relisting and one outage or restart over three days; monitor: two logs, one rotation, truncation, panic, ended or blocked process, lines cut anywhere |

Fairness (`progress`). Weak fairness of each caller's next step: the runtime
polls tasks and `request_timeout` bounds a request. Weak fairness of the
worker's cycle (the task loops for ever and waits for its child), of the clock
and of publication; failures are bounded by `MaxFailures`, they are not fair.
Weak fairness of the collector's passes, of an answer (a page or an empty page)
and of the minutes. The bounds on the clock make these properties say what
happens after the last tick too: the loops go on while time stands still, as
code that is woken does. `CandlesFollow` leaves out the last two minutes, for
which no later pass exists.

### Findings

Runs expected to be violated show where the code departs from what the
repository says of it; `findings` quotes both sides.

- `history_repair_first`: a symbol repair with `--no-advance-watermark` before
  the first full scan seeds the cursor of all symbols.
- `dispatcher_retry_after`: a 429 without `Retry-After` that arrives after one with
  the header replaces the longer pause by the configured cooldown, and the IP is
  used before the pause is over.

### Limits of the passing runs

Some of the code's behaviours break a property when a constant lets them
happen. The passing runs exclude them, so they are part of what those runs
assume; each is listed under `hazards`. Changing the named constants reproduces
the counterexample; for `live` and `overview`, the assumptions `LiveDiscipline` of
`MCLiveHistory`, `HistoryDiscipline` and `TurnDiscipline` of `MCOverview`, which
exclude them by name, have to go too.

| Behaviour | Run and constants | Then violated |
|---|---|---|
| a failed read of the Redis lists counts as an empty list; the scan moves the shared watermark past a newly listed symbol | `live`, `OutagesIn = {"redis"}` | `NoFillOutOfReach` |
| after an outage of the Manager a backfill fails, the trade scan of the same cycle stores a newer fill of the symbol, and the symbol counts as stored | `live`, `Kinds = {"cta"}`, `OperatorsIn = {}`, `FailIn = {"backfill"}`, `MaxFills = 3`, `MaxTime = 5` | `NoFillOutOfReach` |
| a failed query of the stored symbols counts as an empty list: the scan leaves out a symbol that has left the online list, and moves the watermark past its fills | `live`, `FailIn = {"stored", "trades", "bootstrap"}` | `NoFillOutOfReach` |
| funding rows make a CTA symbol count as stored before its first fill is | `live`, `FundingAhead = TRUE` | `NoFillOutOfReach` |
| a Binance market-making scan covers stored symbols only (fixed by a unit test) | `live`, `Kinds = {"stored"}`, `OperatorsIn = {"stored"}`, `OutagesIn = {}`, `Requests <- OperatorSeed`, no symmetry | `NoFillOutOfReach` |
| a row follows the terminal row of its order by more than the reorder window: the order is released without it and may be released again | `intra`, `Reorder = 0`, `Lag = 2` | `FillsConserved` |
| `--derivatives-only` leaves the spot leg out of a scan that advances the watermark of both legs | `history`, `Spot = {s1}`, `Requests <- DerivativesRequests` | `WatermarkCovers` |
| fills of equal size cancel in the group sums | `alignment`, `EqualSizes = TRUE` | `VerifiedReconciles` |
| the time cursor of the OKX loops drops records that share the last row's millisecond | `requests`, ties for all styles | `FetchEndsRight` |
| an event in the very millisecond of an initial snapshot: the replay takes it for part of the snapshot, the snapshot's boundary for later than it | `overview`, `Initial = {"fr", "mm"}`, the opening of `fr` at the midnight 4 | `HistoryIsExact` |
| passes that last into the next tick for two followed accounts: one replay turns an account away from two passes, and it is tried a tick late | `overview`, `RiskFeeds = {"fr", "mm"}`, `Reachable = {}`, `Initial = {}` | `HistoriesTakeTurns` |

Where a property names an exception, the code really takes it:

- `WatermarkCovers`: fills of a symbol the exchange refuses to look up
  (`Delisted`) are dropped while the watermark advances.
- `NoFalseAlarm` is about runs that synced their interval: with `--skip-sync` a
  slow cycle can report a mismatch that a later scan removes. `NoOrphanRunning`
  excuses a row whose last write was lost: when PostgreSQL is unreachable to an
  operator's run, its failure is only logged (`reconcile_rocksdb.rs:462-464`),
  and when the verdict of a killed child cannot be written either, nobody ends
  the row; it says `running` until the next run. So it does after a kill from
  outside, which is not modelled. A failed write of the verdict excuses `SwitchedOffAfterFailure`.
- `PendingIsOpen` is about pending orders: a hedge released after its Margin
  order has completed does not change that order's hedge times and count.
  Events are sorted by open time but released by their last source time, so
  after a long-lived order an incremental run and a rebuild may differ.
- `AccountsConsistent` excuses overlapping requests: two removals may both count
  the other's admin; two grants requests of a user may merge.
- `OneFeeSyncProcess` is per lifetime of the server: a process that outlives a
  restart may run beside a new one. After a client disconnects, its slug stays
  in `fee_rate_syncs` until a restart.
- `LatestRatesComplete` is about answers: Bitget's parser takes an empty list for a
  success (`exchange/fee_rates.rs:69-91`; those of Bybit and OKX do not), so the run
  shown may have no rate of a market it asked for.
- `HistoryIsExact` and the overview: a replay's result written between a copy
  and its write-back is lost and computed again; floating PnL since the last
  trade is not in the history; a past day beyond the end of the history has a
  drawdown of the known part, while `README.md:24-25` says unknown metrics stay
  null.
- `HealthyHidesNothing`: a symbol without limit is a row marked unavailable
  inside a healthy environment; a position row of Binance without a usable
  notional counts as nothing (`fr_position_limits.rs:773-792`).
- `HourlyPointsAreExact` excuses hours whose run failed or was skipped: only an
  operator computes them again.
- `CandlesFollow` excuses a torn backward fill: later passes see only the first
  and last stored minute, so the hole stays.
- `AlertsComplete` excuses what the monitor cannot see: a stale half line glued
  to the first line of a new file, a start exactly on a line boundary (the whole
  line is dropped), a truncation that has grown past the offset before the next
  scan. A line with `Z` before its first `[` panics with the monitor locked, and
  the snapshot stays as it is.

After `Retry-After: 0` the retry of a dispatch may leave on the same IP,
although a comment says it uses a different one.

## 4. Proofs

Proved with TLAPS for every value of the constants, from the named assumptions
of the modules:

| Theorem | Says | Invariant |
|---|---|---|
| `HistorySyncProofs!TypeCorrect`, `WatermarkNeverMovesBack` | types; the watermark grows, whatever the command lines | `TypeOK` |
| `HistorySyncProofs!WatermarkKeepsItsPromise` | `WatermarkCovers`, assuming `Contiguous` | `CoverInv` |
| `HistorySyncProofs!ScansKeepThePromise` | `KeepsPromise`: the scans implement `StoredHistory`, assuming `Contiguous` | `CoverInv` |
| `LiveHistoryProofs!LiveTypeCorrect` | types of the worker and the scans below it | `LiveType` |
| `LiveHistoryProofs!NoFillIsLost` | `NoFillOutOfReach`, assuming `WithinReach` | `LiveInv` |
| `AlignmentProofs!AlignTypeCorrect` | `AlignType` | itself |
| `AlignmentProofs!FailureSwitchesOff` | `SwitchedOffAfterFailure` | `SwitchInv` |
| `AlignmentProofs!NoRunLeftRunning` | `NoOrphanRunning` for any runs, kills and failing writes | `RowInv` |
| `AlignmentProofs!CheckpointKeepsItsPromise` | `VerifiedReconciles`, assuming `Overlapping` and `~EqualSizes` | `CheckpointInv` |
| `AlignmentProofs!MismatchMeansLoss` | `NoFalseAlarm`, assuming `Lateness < Gap` and `Mode # "symbol"` | `AlarmInv` |
| `RequestsProofs!TypeCorrect`, `QuotaHolds`, `BlockRespected`, `WindowsMoveForward` | quota, blocks and windows for any callers and IPs | `TypeOK`, `SeenByNow` |
| `RequestsProofs!HintHolds` | `HintIsExact`: the wait a refused caller is told is neither too long nor too short | `CallsFit` |
| `RequestsProofs!DownloadsEndRight` | `FetchEndsRight` for any range, window length, page size and number of records, assuming that event times differ where a loop pages by them | `PagesInv` |
| `CollectorsProofs!AnswersAreInOrder` | `AnswersNeverGoBack` for any users and replies | `LimitsInv` |
| `CollectorsProofs!HealthyIsShown` | `HealthyHidesNothing` for any environments, symbols and replies of numbers | `ShowsInv` |
| `CollectorsProofs!HourlyPointsAreTrue` | `HourlyPointsAreExact` for any strategies, rows, ranges and failures | `LatencyInv` |
| `ServerProofs!SessionsStayEnded` | `EndedSessionStaysEnded` for any users, tokens and tasks | `SessionShape` |
| `ServerProofs!OneProcess` | `OneFeeSyncProcess` | `FeeInv` |
| `ServerProofs!AnswersStartAtBase` | `PnlStartsAtBase` | `PnlInv` |
| `ServerProofs!RatesShownAreComplete` | `LatestRatesComplete` for any markets, failures, empty answers and restarts | `RatesInv` |
| `ServerProofs!AccountsStayConsistent` | `AccountsConsistent` under the handlers of the whole server | `AccountInv` |
| `IntraOrdersProofs!TablesAgreeWithRows` | every order is collected or was released complete, and the tables balance, assuming `LagWithinReorder` | `IntraInv` |
| `IntraOrdersProofs!MatchingConservesFills` | `FillsConserved` for any orders, kinds of rows, processes, batches and rebuilds, assuming `LagWithinReorder` | `IntraInv` |
| `IntraOrdersProofs!PendingKnowsItsHedges` | `PendingIsOpen`, assuming `LagWithinReorder` | `IntraInv` |
| `IntraOrdersProofs!NoBatchIsRefused` | the engine refuses no batch whose cursor did not move, assuming `LagWithinReorder` | `IntraInv` |
| `CollectorsProofs!MultipliersAreTrue`, `PastLookupsStay` | `MultiplierIsTrue`, `PastMultipliersStay` for any contracts and days | `MultiplierInv` |
| `OverviewProofs!LiveFactsHold`, `ReadingsMoveForward` | `LiveFactsAreRecent`, `ReadingsNeverGoBack` for any accounts, feeds, lags and restarts of services | `OverviewInv` |
| `OverviewProofs!HistoryHolds` | `HistoryIsExact` for any ledger, days and windows, assuming `QuietOpenings` | `OverviewInv` |
| `OverviewProofs!TurnsAreTaken` | `HistoriesTakeTurns` for any number of accounts that fits into `Retry`, assuming `OneFollowed` | `TurnInv` |

### The scans and their watermark

`Contiguous`: the overlap is at least the publication delay; a scan that
advances the watermark starts at the cursor, ends by now and covers every
symbol; a scan that does not is issued after rows are stored. The worker's
command lines satisfy it when the symbol lists are complete; TLC evaluates it
for the instances of the passing runs (`DisciplineAssumption`).
`history_repair_first` shows what happens without its last part.

Why `WatermarkCovers` needs `CoverInv`. When a scan commits, coverage up to its
end must follow from what it downloaded and from what was stored below its
start. Hence: a running scan that will advance the watermark has, below its
start, only due fills that are stored (`BelowStartStored`); what it has
downloaded of finished symbols is complete for the fills due at its end
(`DoneSymbolsFetched`); the clock bounds both, and publication is timely
(`ClockInv`); and the fallback to the latest row is never taken, because no
rows are stored before the first boundary (`FirstScanInv`). One lemma per kind
of step (`TradeCover`, `CursorCover`, `FetchCover`, `CommitCover`) shows that
it is preserved; `StoreWrites` and `ScanFrame` say what a step of another
process leaves alone. The refinement reuses it: a commit is a step of
`StoredHistory` because coverage holds after it, every other step of a process
stutters, and the exchange and the clock keep coverage because publication is
timely. The lemmas speak of any process that moves as one of `HistorySync`, so
the worker and the reconciliations, which own such processes, inherit them.

### The worker

`NoFillOutOfReach` cannot be had from `CoverInv`: the worker's scans name
symbols, so none covers every symbol, and a symbol unknown at the lookup may
trade while the scan runs. `LiveInv` says instead, for every fill that is not
stored, who will still store it: it lies behind no boundary (`Behind`), or a
backfill of its symbol is due, under way, or will be found due at the next
lookup (`ReachInv`, `LeftToBackfill`). A scan that will move the watermark
keeps a fill of its list only if it has it, may still fetch it, or leaves it
within the overlap of its own end (`ScanReach`, with `Kept` for symbols of the
list and `Others` for the rest: their first fill is later than the lookup, and
the scan ends no later than `MaxDelay` after it). `SymbolInv`, `CycleInv` and
`ListInv` say what the list contains: every symbol that had a fill at the lookup,
except those left to a backfill. `ChildInv` ties the stage of the cycle to the
child, and `FetchedShown` what a scan has to what the exchange shows.

`WithinReach` is the discipline: the worker's kinds are Redis and CTA lists; no
lookup of a Redis list fails; no operator's scan runs beside a CTA strategy; no
query of the stored symbols and no backfill fails; funding rows name stored
symbols; a symbol that left the list traded within `RecentWindow`; the overlap
covers `MaxDelay` and, by `Contiguous`, the publication delay. The failed
lookups, queries and backfills, the funding rows and the market-making kind are
rows of the table of section 3 with a counterexample each: none of these parts
is there for the proof only. Child failures in the trade scan and the
bootstrap, Manager outages and operators beside a Redis strategy are covered.

### The reconciliation

`CheckpointKeepsItsPromise` holds for any number of runs that load stale
checkpoints, overlap, fail or are killed. `CheckpointInv` contains `CoverInv`,
because what PostgreSQL holds of an interval must be complete when it is
compared, and keeps for every run (`RunInv`) that the checkpoint it loaded is
not ahead of the present one, that its interval starts one overlap below it and
ends within the watermark, and that the rows it exported are all fills due in
it. Its hypotheses:
`Overlapping` is `Contiguous`, an exchange that serves whole accounts, nothing
delisted, and a settlement overlap of at least the publication delay. Symbol
exchanges are left out because a reconciliation's own scan reads stored symbols
only there: a fill of a new symbol is compared once the worker has stored it,
which is what the worker promises above. `~EqualSizes` is the row of section 3 about
group sums.

`MismatchMeansLoss` needs no checkpoint and no watermark. `AlarmInv` says that
a fill is shown within its delay (`ShownInTime`), that the process a run owns is
the one it launched (`OwnChild`), and that a run which has synced its interval
has stored every fill it will export (`SyncInv`), which is where the gap has to
exceed the delay.

`RowInv` keeps the row and the runs together: a row that says `running` has a
run behind it, unless the write that should have ended it was lost (`unwritten`);
the next write of a run takes the excuse away again.
`SwitchInv` says that a failure that is due to turn the switch off either has,
or its run is still before that write.

### The synthesis of orders

`LagWithinReorder` is `Lag =< Reorder`: a row that follows the terminal row of
its order does so within the reorder window. This is what `--reorder-minutes`
is for, and section 3 has the counterexample without it.

`IntraInv` says what the tables mean between transactions. Every order is
either `Open` (its lifecycle is the aggregate of its rows behind the cursor, and
no result table knows it) or `Complete` (its lifecycle is gone, the result
tables hold what its rows filled, and no row of it can still come). With it
go the order of the rows (`CenterInv`), the bound of the release time by
the cursor (`MarkInv`, `ProcInv`) and the balance of orders against hedges
(`TablesGood`). That a row is counted once, whoever downloaded it, follows: the
cursor is checked under the lock, so a batch is the rows right behind it
(`BatchIs`), and the aggregate of two adjacent ranges is the merge of their
aggregates (`AggregateSplit`, which rests on `CombineAssociates`). That an order
is released once follows from `ReadyIsComplete`: what is ready had its terminal
row at least the reorder window ago, so all its rows were read; a released order
therefore reads no further row and does not become ready again.

A commit is more than one update: it sorts the released orders, nets each
margin order against the pending ones of the other side, and lets each hedge
close the oldest pending orders of the other side.
`EngineInv` is the invariant of that inner loop, over the set of events already
applied: it holds of the seeded engine (`EngineStarts`), of a margin event
(`MarginStep`) and of a futures event (`FuturesStep`), so it holds after the
batch (`MatchedIs`), and after it the tables are good again (`TablesAfter`).
One walk takes from the pending orders exactly what the event gives up, and never
more than an order has left (`WalkMoves`): hence the sums of `FillsConserved`. It
ends only when the event or the queue of the other side is used up, so buys and
sells are never pending together. `Knows` says which hedges a
pending order must have counted; a hedge that arrives adds itself
(`KnowsMore`), and an order that arrives late finds the earlier ones in the
tables (`HistoryKnows`).

Sums are over finite sets and the loops over sequences, so each is first shown to
be what its recursion says, by induction over a set of numbers
(`PartialSumsExist`, `AnyOrder`, `AggregateIs`, `StillPendingIs`, `InOrderIs`).

### The other components

Why the dispatcher's results hold with stale clocks: `SeenByNow` bounds every
stamp by the clock, so a block that has ended at the stamp has ended; and
`refresh` replaces a window only when the stamp lies beyond its end. `CallsFit`
says that a waiting call fits into an empty window, since a heavier one is
turned away at once (`DispatchTooHeavy`): hence the hint, which is the least
time at which some IP is ready, is a time at which the call can leave.

`FetchEndsRight` is about nine loops, and one invariant serves all of them:
`Covered` says of every record that is wanted that it is there, lies in a later
window, or is `Ahead` in the open one, and `Ahead` says for each loop what its
cursor still reaches: higher ids, lower ids, earlier times, later pages, or
the whole window where it is halved. The windows cover the range
(`ChunksCover`, `RecentCovers`, `HalvesCover`); a window may be closed when
nothing is ahead (`EndsWindow`) and a request goes on when what the page lacks
stays ahead (`Continues`). Page numbers are the case to argue about, since
publication shifts the list under the loop. It can only move a record away from
the head (`RankGrows`), so a record may come twice but is not missed, and a page
that is not full has nothing behind it (`ShortPage`): the first n places of a
list hold n records (`FirstCount`). `TotalsAgree` is the reason why RapidX's
checks do not fail by themselves: as long as nothing is published the ids seen are
exactly those of the pages read. `"after_time" \notin TiesIn` is the
hypothesis: the time cursor of OKX excludes the last row's millisecond (row of the
table of section 3). `PagesAssumption` is what `TimeRange::new` and `chunks`
check.

`AnswersNeverGoBack` compares answers of different users, given with requests
waiting in any order. `LimitsInv` orders the readings: no answer is newer than
the cache, neither is newer than the reading under way, of which there is at
most one because of the lock, and none lies in the future.

`HealthyIsShown` is about what one reading computes. `EnvironmentShows` follows a
position from the reply to its row: its sum is the one the rows count
(`HeldIsCounted`), its limit the least the exchange gives (`LimitIsAllowed`), and
its row is not lost when the rows are sorted. For that the order of `sort_rows`
must put any two rows one before the other: usages are fractions, whose chains
`FractionsChain` compares by cross-multiplication, and `RanksOnto` counts the
rows ahead of each to show that the k-th place is always taken by exactly one.
`ShowsInv` carries this through the reading, in which environments end in any
order or panic, to the cached overview. The assumption `IsReply` says of the
replies what the parsers let through: integers, and of limits, brackets and order
amounts the positive ones.

`HourlyPointsAreTrue` has two halves. `HasRead` follows a download chunk by
chunk: up to its cursor, a process holds every row that was there when it began
and nothing that is not a row of that hour, although rows arrive between two
chunks. A stored point is therefore computed from a set of rows between the two
the property names (`PointFits`), which never stops being so as later rows come
(`Onward`), and it says of that set what it should (`ColumnsFit`): the k-th
sample exists and grows with k (`KthExists`, `KthGrows`), so a percentile lies
between two neighbours (`PercentileBetween`), with the shares below and above it
that `Covers` asks for (`PercentileCovers`). `HoursKept` says that no hour is
forgotten. Its fourth case is the delicate one: while the loop sleeps until the
hour that has just come, only that hour may be missing, and the process it then
starts plans exactly that one (`LastHourPlanned`). This needs that the loop
always sleeps until a full hour that is not past (`LoopFits`); arithmetic on
full hours of any length is in `FullHours` and `Floors`. `LatencyAssumption`
asks for integer times and an hour of more than one tick.

`OneFeeSyncProcess` follows because a slug enters `fee_rate_syncs` before its
process starts, and leaves it only after the process has exited (`FeeInv`): a
live process of this lifetime has its slug there, and a handler that waits knows
the process it spawned. `RatesInv` adds that stored runs are numbered without
holes and that a run which stores has an answer for every market, with a rate or,
where the exchange may answer without one, with the market in `unrated`; so the
latest run a reader finds is one of those. `PnlInv` keeps, for a handler
between its two reads, the base it read, because the selection may change
meanwhile while stored snapshots stay. `SessionShape` says that tokens come from
those issued; one lemma per kind of handler (`AccountSessions`,
`ServerSessions`) shows that a renewal updates a row that is there and creates
none.

`AccountInv` is about handlers that check in one statement and write in another.
`HandlerInv` says what a handler between them may rely on, `AdminInv` that the
admin count it read is still right unless another removal ran beside it,
`OrphanInv` that no session or grant outlives its account, and `GrantInv` that
the grants of an account are those of one request unless two requests for it
overlapped. The first admin is the one the migration `0062` creates
(`AccountsAssumption`). The theorem is about `ServerSpec`, so every handler of
the server runs beside them.

`MultiplierInv`: `TruthInv` is the exchange's own history; a cycle stores, as of
the midnight before it began, what it read since (`CycleInv`); a stored row is of
a midnight that has passed and is what the exchange had when it was read
(`RowsInv`). A lookup takes the greatest row that is not later; `GreatestOf`
shows that there is one, and later cycles only add rows above it or write the
row of their own day.

### The overview and its history

`OverviewInv` follows a fact through the copies: a cached account, the copy a
refresh holds while its requests are out, and the replay beside it each carry an
equity that was the account's at the date that goes with it (`AccountInv`,
`ReplayInv`), so writing back an old copy or a late replay leaves only true facts.
The next account to visit is one still to visit (`NextIsTodo`), which is all a
pass needs. `ReadingsMoveForward` rests on the types of readings and queues.

`HistoryIsExact` is a statement about arithmetic. The sums of the ledger are a
recursive function; `TotalsRecur` proves from finite tables that it satisfies
its recursion and is typed, with an induction over sets of numbers
(`LeastOf`, `SetInduction`). `GainSplits` adds the gains before and after a boundary for
both ways a history begins (a start that includes its moment, a snapshot that
does not), and gives boundary equities, daily profits and monitor points.
The drawdown, of the live row and of past days, is compared with every pair of
moments of the window: equity moves
at the history's points only (`WindowIsCurve`), so the highest point so far is
the highest value so far (`PeakIsTop`), every loss is one of the points'
(`LossIsPoints`), and one of the losses is the steepest (`SteepestExists`).
`QuietOpenings`: no event in the very millisecond of an initial snapshot.

`TurnsAreTaken` bounds a wait, without fairness. `TurnInv` counts: an account that
is due (not tried for `Retry`) and was passed over has seen, in every tick since,
another account's replay begin (`TurnsCounted`, `Served`). Those accounts differ
from each other, since one that was tried is not due again for `Retry` ticks, and
there are no more accounts than that (`ServedBound`), so the wait ends within a
tick for each other account. A replay's result that a copy overwrites takes
nothing away from the count: what makes an account due is its last attempt, and
no history is newer than that (`Seen`). It holds while nothing fails and, since
one replay could turn an account away from two passes, for one followed account
at most (`OneFollowed`).

### What stays with TLC

- Liveness, since fairness is out of the prover's reach: `DispatchReturns`,
  `EveryFillStored`, `CandlesFollow`.
- Results of folds over sequences and of what is computed from them, which need
  induction over data. Where a loop is a recursive function over positions, the
  induction can be carried out over a set of numbers, as `IntraOrdersProofs`
  does; the following ones are folds of library operators, or recursions whose
  reference definitions would need as much again, and are not proved:
  the properties of `IntraAnalysis` and `PortfolioPnl`, `AlertsComplete` and
  `PublishedIsDeserved` (lines cut out of logs).

## 5. Not modelled

- Whole components: the REST source IP pool (one query), exports and imports,
  reconciliation clean-up, configuration, storage and models, schema migrations,
  frontend, scripts, notebooks and deployment. `components` gives the reason for
  each.
- In the modelled ones: normalizers from JSON to rows, signing and error
  classification of the exchange clients, parsing of Redis, Manager and Parquet
  data, rounding of floating-point numbers, ratios and the thinning of chart
  points, password hashing and cookies, sessions of the read-only mode, list
  requests that only read, severities and texts of alerts.
- A symbol that leaves the online list before the worker has stored one of its
  fills is assumed away: only stored symbols leave, and between the two reads of
  a slot (stored symbols, then the online list) only those the first read
  returned (`Unlist`). The code has no defence against either: such a symbol is
  in none of the lists of the cycle while the scan moves the shared watermark.
  The second part came out of the proof: it takes an operator's scan that stores
  the symbol's first fill between the two reads.
- Server: what a snapshot service returns is taken as a function of strategy and
  time; two runs of one strategy are taken to have different `effective_at`;
  strategies do not change while the server runs.
- Contract multipliers: one instrument per symbol, so conflicts between
  instruments of a symbol do not arise. Premium index: the collector's symbols
  do not interact and are not told apart. Operations monitor: a rotation between
  `stat` and `open` of one file is excluded.

## 6. Plan

What would add most next: `Pagination` as an implementation of the atomic `Fetch`
of `HistorySync`; `IntraOrders` composed with `Alignment`, whose checkpoint
bounds its target; a reconciliation whose scan names stored symbols, composed
with the worker that finds the new ones; the engine of `IntraAnalysis` along the
lines of `EngineInv`.
