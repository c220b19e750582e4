# Verification of the investment matrix

TLA+ models of the stateful, concurrent parts of the investment matrix (a
crypto research and paper-trading platform: FastAPI, PostgreSQL/TimescaleDB,
Redis, Celery), TLC runs that check them on small instances, and TLAPS proofs
of what matters most for every instance. Paths below are relative to `src/`.

1. [The system](#1-the-system)
2. [The modules and the code](#2-the-modules-and-the-code)
3. [The runs](#3-the-runs)
4. [Fairness](#4-fairness)
5. [The proofs](#5-the-proofs)
6. [Where code and documentation disagree](#6-where-code-and-documentation-disagree)
7. [What is not modelled](#7-what-is-not-modelled)
8. [The plan](#8-the-plan)

## 1. The system

### Components

| component | state | operations | what makes it correct |
|---|---|---|---|
| Autonomous desk: trigger monitor (`app/services/crew_autonomy.py`) | theses, AI account, positions, orders | `monitor_price_triggers`: expire, observe, enter, exit, review by the trade model, drawdown reset | never owes money; stays inside its guardrails; an entered thesis has a position; an overdue thesis is retired |
| Autonomous desk: research cycle (same file) | theses | `run_autonomous_research_cycle`, `_store_thesis` | one standing thesis per symbol; what has ended stays ended |
| Paper execution and guardrails (`app/services/crew_execution.py`, `app/backtesting/execution.py`) | cash, positions, orders | `check_guardrails`, `execute_price_trigger_order`, `attempt_autonomous_execution`, fills | a fill is affordable, a sell closes the row, guardrails count what exists |
| Account, resets, switches (`app/services/crew_portfolio.py`, `app/routers/crew.py`) | AI account, guardrail profile, resets | create, reset, pause, start, PATCH | a reset is clean; a pause stops orders |
| Trade stream (`app/streaming/*`, `app/writer.py`) | Redis stream with a consumer group, `market_trades`, `ticks` | `publish_trade`, `run_writer` | at most once in the table, in order, nothing skipped, no tick twice |
| Streamers (`app/streamer.py`, `app/streaming/base_ws.py` and subclasses) | websocket, subscriptions, write queue | connect, subscribe, reconnect with backoff, command listener | a subscription survives a reconnect |
| Backfill and market status (`celery_worker/tasks.py`, `app/services/exchange_markets.py`, `asset_status.py`, `imports/storage.py`) | `asset_data_status`, `prices`, the task queue | `queue_kraken_backfills`, `backfill_historical_candles`, `POST /backfill`, `ingest_historical_data` | pending means that a task stands for it; counts are backed by rows; backfills do not multiply candles without bound |
| Paper accounts and schedules (`app/services/paper_trading.py`, `app/routers/paper_trading.py`, `tick_paper_schedules`) | accounts, positions, orders, schedules | step, run, tick, PATCH, drawdown switch | due schedules run, a breached one stops |
| Crew runs (`app/services/crew_runner.py`, `app/routers/crew.py`) | runs, recommendations, orders | run, cancel, execute, add | a run is seen whole; guardrails count what others did; a click gets its turn |
| Tick imports (`app/services/imports/*`, `app/routers/imports.py`, the import tasks) | import runs, files on disk, ticks | download, check, load, record, repair of gaps | a record of success says which rows are stored, and how often; ticks keep their times |
| Candles and gaps (`market_candles.py`, `data_quality.py`) | none of their own | merge rows into buckets, join missing buckets into ranges | the result equals its definition |
| Backtests (`app/backtesting/*`) | local to a request | run, walk forward | cash follows from the round trips; a window depends on its own data and on the parameters of its strategy |
| Account summary (`crew_portfolio.py`) | none of its own | replay of orders, PnL of a cycle and of all time | the parts add up |
| Signals, factors (`app/signals/*`, `app/analysis/*`) | none | indicators over data frames | numerical |
| API, authentication, dashboard | rows of short transactions | CRUD and queries | authorisation, validation |

### How they interact

All shared state is in PostgreSQL and Redis. The API serves a request in a
thread and a session of its own. Celery beat queues ticks and cycles; workers
take them, one task per process at a time: one process in the development
setup of `README.md:88` (`--pool=solo`), several in `docker-compose.yml`
(prefork). Streamers append to a Redis stream that one writer process empties
into the database.

`database.py` fixes what a transaction sees. Sessions have `autoflush=False`
and an identity map; PostgreSQL runs READ COMMITTED. So within one transaction

- an object keeps the columns it was loaded with, whatever commits meanwhile;
- a query of counts or ids is fresh, but misses rows added and not yet flushed;
- a flush writes absolute values, only for columns whose value changed in the
  session, and locks its rows until the commit;
- `session_scope` commits at the end or rolls everything back.

Most of the hard behaviour follows from this together with the length of the
transactions: an LLM review of up to `CREW_LLM_TIMEOUT_SECONDS` inside a tick,
a look-up per candle inside the storing transaction of a backfill.

### What is hard

- **Overlap.** Ticks outlast their beat interval; the API pauses, edits and
  resets what a tick has in its identity map; two backfills of one market
  check before either inserts; a task is sent before its sender commits.
- **Death.** A hard time limit, a restart or an uncaught exception between two
  steps: of a tick (rolled back), of a writer (entries in the pending list), of
  a backfill (its status row says pending).
- **Limits.** Guardrails counted from committed rows; the cap on active
  backfills; the trimmed stream.
- **Progress.** Overdue theses, unread entries, pending markets, clicks behind a
  locked account, imports that wait for each other's rows.
- **Partial effects.** A download that was cut off and looks complete, a file that
  two workers write, a run that dies after some of its orders.
- **Boundaries.** Inclusive and exclusive ends of ranges, hours counted from an
  unaligned start, the buy that takes the whole balance with its fee.

`PROJECT.json` lists each hazard with its line, and the properties aimed at it.

## 2. The modules and the code

| module | models | lines of the code it stands for |
|---|---|---|
| `CrewDesk` | the desk: ticks, research, API, reset, lost tasks | `crew_autonomy.py`, `crew_execution.py`, `crew_portfolio.py`, `routers/crew.py`, the desk's tasks |
| `MCCrewDesk` | its definitions for TLC (symmetry, one PATCH) | |
| `CrewDesk_proofs` | all its safety properties | |
| `TradeStream` | producer, stream, group, writer, two tables | `publisher.py`, `writer.py`, `imports/storage.py` |
| `Ingest` | what the pipeline promises: the abstract specification | |
| `TradeStream_proofs` | all its safety properties, and that `TradeStream` implements `Ingest` | |
| `Backfill` | queue, broker, task, status rows, candles | `exchange_markets.py`, `tasks.py`, `asset_status.py`, `imports/storage.py` |
| `Backfill_proofs` | all four of its safety properties | |
| `PaperSchedules` | one paper account, its schedules, ticks, runs and manual steps | `paper_trading.py`, `routers/paper_trading.py`, `tick_paper_schedules`, `execution.py` |
| `MCPaperSchedules` | its definition for TLC (one market) | |
| `PaperSchedules_proofs` | all its safety properties | |
| `CrewRuns` | a run in its one transaction, beside clicks and cancels | `crew_runner.py`, `routers/crew.py`, `crew_execution.py` |
| `MCCrewRuns` | its definition for TLC (two exchanges with one symbol) | |
| `CrewRuns_proofs` | all its safety properties | |
| `Imports` | ranges, files, import records, ticks | `imports/*`, `routers/imports.py`, the import tasks, `repair_market_gaps` |
| `Subscriptions` | one exchange connection and its commands | `streamer.py`, `base_ws.py`, the subclasses |
| `Sources`, `MCSources` | `Imports` and `Subscriptions` side by side | |
| `Sources_proofs` | safety of both parts | |
| `Backtest` | one run of a strategy, the windows of a walk forward | `backtesting/engine.py`, `execution.py`, `walkforward.py`, `strategies.py` |
| `Backtest_proofs` | types, that the books close, and that windows are isolated | |
| `Candles` | candles of a range, gaps of a range | `market_candles.py`, `data_quality.py` |
| `Ledger` | the summary of the account against what was earned | `crew_portfolio.py`, `crew_execution.py` |
| `Analysis`, `MCAnalysis` | `Ledger`, `Backtest` and `Candles` side by side | |
| `Analysis_proofs` | the ledger, the books of a backtest in the whole, the gaps | |

`CrewDesk`, `TradeStream` and `Backfill` share no variable: the desk reads
prices, and prices are not modelled, so composing them would only multiply
states. For the same reason `Sources` and `Analysis` do not interleave their
parts: `subject` says which one a behaviour follows, the others stand still, and
one run checks them all. `CrewRuns` meets the account that `PaperSchedules`
models by the lock of its row (`holds`) and by the order or refusal that a step
answers; its cash and positions are those of `PaperSchedules` and are not
repeated.

### CrewDesk

One user. `profile` holds the three switches, `cash` and `positions` the AI
account, `theses` the research theses, `lapsed` those whose `expires_at` has
passed. A task is a record in `session[w]`: `view` and `cash` are what its
identity map holds, `dirty` the theses it has flushed, `held` the thesis rows
it locks, `bought`/`sold`/`flow`/`fills` its flushed fills. `reset` is the open
transaction of `POST /resets`. `book` is history for the properties.

`StartTick` reads the switches, the live theses and the account. For each
thesis in creation order a tick takes one of: `ExpireThesis`; `SkipThesis` (no
price, not crossed, refused by a guardrail); `RequestReview`, then
`DeclineTrade`, or `ApproveTrade` and `RejectFill`, `FillBuy`, `FillSell` or
`StaleFill` (the row is gone at the flush: SQLAlchemy raises, the task's handler
takes it, and the session commits nothing). `FinishTick` commits;
`FinishTickWithReset` also resets after a drawdown. Anything may step between
two of these actions. A step that needs a row locked by another waits (its
guard is false), and `AbortDeadlock` breaks cycles as PostgreSQL does.
`AbandonTask` is the exception that a task catches, after which what was
flushed is committed; `LoseTask` is the death that rolls back.

Abstracted: prices (a step chooses whether its condition crossed), amounts
(members of `Costs` and `Proceeds`; floating-point rounding is left out, a buy
of the whole balance may leave about -1e-12 in the real one), lessons, traces
and recommendations (rows of the same transaction), the day (one UTC day for
`max_trades_per_day`). PATCH sets statuses the code knows, though it takes any
string. Other writers of the AI account are in `PaperSchedules` (manual steps,
schedules) and `CrewRuns` (`execute_recommendation`), not interleaved with ticks.

### TradeStream and Ingest

Entries are numbered in stream order; `log[e]` is the trade of entry `e`.
`Publish` is `publish_trade` (approximate MAXLEN: it may trim lazily),
`StartWriter` is `ensure_consumer_group`, and `Read`, `Store`, `Ack` are the
three parts of a round of `run_writer`, with `Crash` possible between any two.
Redis is external and is modelled from the calls the code makes. `Ingest` knows
only `sent`, `kept` and `lost`: kept or lost and never both, kept in order,
decided for good. `Gone` in `TradeStream` says which entries are lost.

### Backfill

`row[m]` is the `asset_data_status` row of a market, `copies[m][c]` how many
`prices` rows it has for a candle, `waiting[m]` the broker's tasks, `worker[w]`
the running task, `caller[q]` an open call of `queue_kraken_backfills`.
`BeginQueue`, `SendTask`, `CommitQueue` keep the code's order: read and select,
send, commit. `FailQueue` is a broker error or a death on the way.
`RequestBackfill` is every other sender. A task is `StartTask` (pending),
`FinishWithout` or `Fetch`, then `CheckRows`, `CountRows`, `CommitRows`: the
storing transaction in its three moments. `LoseTask` is the hard limit or an
uncaught exception. `stranded` is history: markets that were left pending by a
lost task, or by a queue call that committed after its task had ended.

A download is a batch, a number for each candle: the chunks of a download are
put together as they come, so the exchange may return a candle more than once
(`MaxRepeats`), and `Missing`, which looks each of them up before any is flushed,
lets all of them pass or none. `StartIngest` and `InsertRows` are the other writer
of `prices`, `ingest_historical_data` (`POST /ingest/prices`), which looks nothing
up; `ingested` is history: what it added. It shows no status, so the download of
such a task is part of its start, and one that fails or is lost leaves no trace.

Abstracted: the chunk loop of the download is one step with its outcomes; a
transaction that reads a row and writes it at once is one step; requests for
exchange "auto" count as requests for the market they resolve to; the set of
markets is fixed; how often the exchange repeats a candle has a bound. The schema
is the migrated one: the unique constraint on `prices` that the model class
declares is created by no migration.

### PaperSchedules

One account: `cash`, `rows` (its positions), `schedule[s]` (none, active or
paused, and whether it ever ran). Schedules of other users meet the account
only as further members of the tick's one transaction. `session[p]` is the open
transaction of a worker or of a thread of the API, begun by `StartTick` (all
active schedules), `StartRun` (one) or `StartStep` (a manual step). For each
schedule, in any order, `execute_paper_step` is one of

- `RaiseError`: the due check of a schedule that ran before, or an unknown
  strategy; nothing catches it and the transaction is rolled back;
- `NoCandles`: the tick goes on, the API answers 404;
- `Hold`: no order; a new price may be noted in the position row;
- `Decide`, the look-up of the position and the signal, and then `Buy` or `Sell`,
  the flush of the order. The flush waits for the row of the account, and other
  transactions may commit between the two: that is how a position is sold twice
  or a second row inserted.

The row that a sell deletes stays in `doomed`, where later steps of the same
transaction find it, until the next flush moves it to `sold`. `RaiseStale` is an
update of a row that another transaction deleted, `Commit` the end, `Die` the
loss of the process. `book` is history: what was committed, and `torn`, whether
a transaction that filled had been overtaken by another that filled.

Abstracted: prices, signals and equity are choices (so a drawdown limit may be
reached by any step that leaves spent cash or a position), amounts are members
of `Costs` and `Proceeds`, the interval of a schedule does not matter as a
schedule that ran is never due again, and a PATCH changes `is_active` only.

### CrewRuns

`run_crew_cycle` works through its assets in one transaction of its request.
`work[r]` is what that transaction holds: the assets still to do and, for those
done, whether they failed, got a recommendation, were executed, rejected, filled.
`runs`, `recs` and `orders` are what others see. `Begin` takes the assets that
are ready (`Selection`: the best exchange of each symbol, `max_symbols` of them)
or `Refuse` ends the request. Each asset is one of `Skip` (no snapshot), `Reject`
(the model timed out or its answer is invalid), `Decline`, `Propose`, or `Attempt`
and then `Step` or `StepNoData`; `Complete` commits everything, `Die` nothing.
`holds` is the lock on the account row: from the first step of the account until
the commit, through all later calls of the model. A click is `Execute` or `Add`,
then `ClickBlock`, or `ClickAttempt` and `ClickStep`, which waits for that lock.
`Cancel` finds only runs that were committed.

Abstracted: what the model, the backtest and the guardrails other than the limit
of trades answer; a recommendation's status is kept apart from the one it was
first committed with (`stored`), since clicks change it later; the day.

### Imports

`worker[w]` is a task of `import_binance_vision_range` or
`import_dukascopy_range`: the file at `now`, and what its transaction holds.
`Fetch`, `NotFound`, `Open`, `Close` are `download_file`, which takes a file that
exists as it is and leaves one behind when it dies; two workers may fill one file
(`shared`). `Check` is `already_imported`; `Record`, `FindAsset`, `AddAsset`,
`Insert` and `Commit` are the transaction of `ingest_ticks`, each waiting for an
uncommitted row that conflicts, as PostgreSQL does, and failing if that one is
committed. `RepairGaps` and `RequestImport` queue tasks.

A file has rows of up to four kinds (`Content`): `tagged` ones with the id of a
trade, `bare` ones without (all of Dukascopy's, and those of a CSV file that has
no such column), `skipped` ones that lack a mapped column, which
`CsvTickImporter` passes over, and `broken` ones that cannot be read and end the
import. `Found` is what the importer yields, `Inserted` what of it the insert
adds, as only rows with an id can conflict. So a file all of whose rows are
skipped, as one without the expected header, is recorded as a success that stored
nothing; rows without an id are stored again by every import that is recorded.

Abstracted: the rows of one kind share one fate, so a kind is counted as one row
(`copies`, by the shift of its times); days and hours are `Period` units; one
market per source.

### Subscriptions

`link` is where `run_forever` is, `commands` the queue between the listener and
the write loop, `sending` the command in hand, `known` what the next connection
subscribes to, `streamed` what this one sends. `Lose` is an exception in either
loop (wait, then connect), `Closed` an orderly close (connect at once), `Die` the
end of the process, also by an error of Redis in the listener.

### Backtest, Candles, Ledger

`Backtest` goes row by row: `BuyRow`, `SellRow`, `HoldRow` are a pass of the loop
in `run`, `FinishRun` its metrics, `NextWindow` and `Respond` the loop of
`run_walk_forward`. A strategy is its name with its parameters: the main one has
those of the request (`Strategies`), a baseline has the defaults (`Default`), so
two strategies named `sma_cross` may differ. A strategy sees the `Slice` of the
test window only, as `test_df` is all that `run` is given. Money is integer, and a
division rounds down where a float rounds somehow. Of the strategies, the rsi
signal is any signal.

`Candles` merges one row per step (`MergeRow`) or joins one missing bucket
(`JoinBucket`, the earliest that is left); the tables are chosen when a request
begins. Their rows are in the order of time, as every query sorts them, so those
of a range follow each other (`Within`). The request says which `database`
answers it, as the two branches of the code differ:

- where buckets begin (`origin`): the loops over rows floor from 1970;
  `time_bucket` of TimescaleDB counts from Monday, 2000-01-03 (`Origin`); `prices`
  are resampled by pandas from the start of the day of their first row. For sizes
  that divide a day all three are the same buckets, for 7 seconds or a week they
  are not;
- ties: of rows with the same time, the loop keeps the last one as close, and
  `last()` keeps any (`Closings`);
- the views `ticks_1s` to `ticks_7s`: only on PostgreSQL, and only for gaps,
  they are searched after `ticks` and before `market_trades` (`Searched`);
- gaps: `generate_series` starts at the start of the request, floored from
  1970, and is joined with the buckets of `time_bucket` by equality. `Missing` is
  that join; with the origin of 1970 it is `_bucket_missing_python` as well.

An explicit `source` is used as it is, also when it has no rows (`Source`,
`GapSource`). Left out: a request that is refused (more buckets than
`max_points`, a view elsewhere than on PostgreSQL, ticks of a market without an
asset), and one whose statement fails, have no answer and no effect.

`Ledger` follows one market of the AI account: `replay` is
`_realized_pnl_from_orders` one order further, `position` the row with its own
basis, `resets` the sum over the reset rows. `past` is history: what prices and
fills really brought.

## 3. The runs

| run | configuration | asks | states |
|---|---|---|---|
| `desk_solo` | `CrewDeskSolo` | one worker beside the API: do books, theses and positions stay consistent, and is an overdue thesis retired in the end? | 239,532 |
| `desk_prefork` | `CrewDeskPrefork` | two workers: does the account stay solvent, and what is left of the guardrails? | 138,638 (with symmetry) |
| `desk_expired` | `CrewDeskExpired` | can a thesis that bought expire? | violation |
| `stream` | `TradeStream` | at most once, in order, nothing skipped, and the refinement of `Ingest` | 39,910 |
| `stream_durable` | `TradeStreamDurable` | is what was delivered stored in the end? | violation |
| `backfill` | `Backfill` | what can a market's status, count and candles become? | 261,108 |
| `paper` | `PaperSchedules` | what becomes of an account that a worker and a thread step together, and does a new schedule run? | 472,494 |
| `paper_due` | `PaperDue` | does every due schedule run? | violation |
| `crew_runs` | `CrewRuns` | is a run seen whole, how far do the guardrails bend, and does a click get its turn? | 181,131 |
| `sources` | `Sources` | does a record say which rows are stored, do import tasks end, do subscriptions survive? | 59,410 |
| `sources_shift` | `SourcesShift` | do ticks of Dukascopy keep their times? | violation |
| `analysis` | `Analysis` | do books, backtests, candles and gaps equal their definitions? | 469,314 |

`CrewDeskPause`, `CrewDeskReset`, `BackfillCap`, `BackfillTwice`, `PaperBuy`,
`SourcesTwice` and `AnalysisGaps` are seven more configurations, of statements
that the code does not keep; section 6 has them.

### What they show, and why the bounds suffice

**desk_solo.** One worker, one symbol, two theses, three rows, one manual reset,
one failure. Two theses of one symbol are what supersession and re-entry need.
Cost 2 spends the bankroll, 1 leaves change; proceeds 3 is a gain and 1 a loss;
three trades a day allow buy, sell, buy. `PatchStatuses` has `cancelled`: the API
takes any status, the dashboard patches no thesis, and `cancelled` is the one a
reset retires theses with. A PATCH to a live status can break `OneLiveThesis` and
`EnteredHasPosition` by itself; one to an ended status during a tick can be
overwritten by it, which `EndedStaysEnded` forbids. The theorems exclude these by
name. With one worker a symbol has one row, the balance equals bankroll plus
committed fills (unless a manual reset overlapped a tick), a symbol has one live
thesis, an entered thesis has its position, and what has ended is not brought
back. One thesis may expire, and `OverdueRetires` assumes that monitoring stays on
from some time. `OneLiveThesis`, `EnteredHasPosition`, `BookBalances` and
`EndedStaysEnded` are false with two workers: a stale tick can overwrite
`superseded`, two research cycles can each insert a thesis.

**desk_prefork.** Two workers, two symbols, four rows; the API and failures are
left out, and cost 3 exceeds the bankroll, so that a fill not capped by the cash
shows. `CashNeverNegative` still holds: a buy is sized by the balance its own
transaction believes in, and that is what it writes back. Trades
and open positions pass their limits by at most one per further worker
(`TradesWithinAllowance`, `OpenWithinAllowance`); both bounds are reached, and
the proofs give them for any number of workers. So is the third of the kind,
`RowsPerSymbol`: with several workers a symbol has at most one row for each.

**stream.** Four entries through a stream that keeps two, in batches of two,
with two deaths: a death with entries pending, a restart, a trimmed unread
entry and a second death all fit. Trade `a` has an exchange id and `b` has none.

**backfill.** Two markets (so that one waits), two workers (overlapping tasks of
one market), one open queue call, three tasks sent, of either kind, and one loss.
One candle, which a download may bring twice: candles of a market do not meet but
in its count, and a count of one and of two comes from one candle already. Ready at
one row and left alone at two: every status is reached. `CopiesPerWorker` holds
the copies that backfills add to one download for each worker; it says nothing of
those that `ingest_historical_data` adds, which have no bound (`BackfillTwice`).
`CHECK_DEADLOCK FALSE` here and in the stream runs: once the bounds on entries,
tasks and deaths are used up, the model stops.

**paper.** One worker and one thread, so that two transactions overlap; two
schedules of one market, so that one tick meets its own deleted row, and a
manual step on that market. Three orders are a buy, a sell and a buy, or a buy
and two sells of one position. The bankroll is 2: cost 1
allows two buys, and a third by a transaction that still believes in the balance
it read before the second; cost 3 is out of reach, so that a buy that is not
capped by the cash shows at once. One schedule has a drawdown limit and always has
candles, the other neither. One death. `CashNeverNegative` and `RowsPerProcess`
hold however transactions overlap; two rows of one market do occur. The books
(`CashMatchesOrders`, `RowsArePaid`) hold until a transaction fills on a balance
that another has replaced; that such transactions exist is the price of writing
absolute balances without a lock at the look-up. `WaitsOrBlocked` says that a new
schedule runs as long as no schedule makes the tick fail, and `paper_due` that
every schedule that ever ran does. In that run all schedules have candles and
nobody dies, so that nothing else can be the reason.

**crew_runs.** One run over three assets, two of them of one symbol, beside two
requests that execute or add a recommendation; one trade a day. So a run can skip
an exchange, fill, be refused and die after an order, a click can execute what a
run left or what another click added, wait for a run, and overlap another click
behind the same guardrail. Two runs with one click and two assets were checked
for the same invariants: 2,345,948 states, and nothing new, as runs only meet in
the account row and in the count of trades. `TradesNearAllowance` is exact: with
`- 1` replaced by `- 2` it fails. `CHECK_DEADLOCK FALSE`, as a finished run with
both requests idle and nothing to add may stop.

**sources.** Two workers and three tasks, of two requested imports (one by a user
over two files, one by nobody) and of two of three gaps that a repair finds; three
files of which the archives have two, the last of them unreadable; one break. So
two tasks meet in the one file (download, record, asset row, ticks), one may have
died in it before, and a Dukascopy range may start off the hour. The files have
rows of all four kinds. A third worker could only wait as the second does. For
subscriptions: three markets of which one is configured, three commands and three
failures, so that a command is in hand, in the queue and known when a connection
is lost, closed or the process dies; the delay reaches its limit. `CHECK_DEADLOCK
FALSE`: with the bounds used up and the queue empty, it stops.

**analysis.** Every series of six closes of two prices, and two plans of windows,
one overlapping and one not: windows are warm or not, equal closes occur in
different windows (which `WindowsIsolated` compares) and up to three strategies
follow one another on one engine, among them crossing averages with the default
windows as main strategy and as baseline (which must report the same) and with
others (which need not). Fees, slippage and the whole balance as position make
both branches of a buy happen. Candles: tables of up to three ticks in five
seconds, some at the same time; trades and prices behind each other; views whose
ticks are gone; both databases; explicit sources; ranges and buckets that do and
do not fit, a bucket that TimescaleDB's origin is no multiple of, a limit of points
that widens the bucket. Ledger: five orders or resets
with two prices, quantities and bankrolls: buys that add to a position, gains and
losses, several resets.

Bounds: `Expiring`, `MaxManualResets`, `MaxFailures`, `ThesisIds`, `RowIds`
(CrewDesk), `MaxPublished`, `MaxCrashes` (TradeStream), `MaxSent`, `MaxLosses`,
`MaxRepeats` (Backfill), `MaxOrders`, `MaxLosses` (PaperSchedules), `LastFile`,
`MaxTasks`, `MaxBreaks` (Imports), `MaxCommands`, `MaxFailures` (Subscriptions),
`MaxOrders` (Ledger), the sets `Series`, `Strategies`, `Baselines` and `Plans`
(Backtest), `Content` (Imports), `Contents` and `Requests` (Candles). Each is the
guard of the action that it bounds, or the set it chooses from.

## 4. Fairness

- CrewDesk: `WF(TaskStep(w))`, since an LLM call ends by its timeout and
  PostgreSQL breaks deadlocks; `SF(StartTick(w))`, since beat queues ticks for
  ever and the queue is first in, first out, so research tasks cannot keep ticks
  out. Nothing is assumed of the user, of prices or of the model's answers.
- TradeStream: `WF(Read \/ Store \/ Ack)`, a loop in a running process. Nothing
  restarts the writer (no restart policy in `docker-compose.yml`), so `CaughtUp`
  speaks of a writer that stays up. `TendedSpec` adds `WF(StartWriter)`, an
  operator who always restarts it, so that the violation of `DeliveredIsStored`
  is not one of a writer that nobody starts.
- Backfill: `WF(TaskStep(w))`, since the time limits end a download;
  `SF` of starting a market's task, since the broker is first in, first out.
- CrewRuns: `WF(RunStep(r))` and `WF(ClickGoesOn(c))`: a request that began is a
  thread that goes on; the call of the model has a timeout, whose answer is
  `Reject`. `Begin`, `Execute` and `Die` are nobody's duty. A waiting click is
  served since only runs hold the account for long and each of them ends.
- Sources: `WF` of `Work(w)` for the imports of each worker, a process that takes
  the next task when it is free. Nothing is assumed of the archives or of
  `Break`. Nothing temporal is claimed of subscriptions.
- Analysis: none; a request is sequential.
- PaperSchedules: `WF(TaskStep(p))`, since a step makes no call that does not
  return and only waits for the account, which commits and rollbacks set free;
  `WF(StartTick(w))`, since beat sends ticks for ever. Nothing is assumed of
  signals, of the user, or of candles outside `WithData`.

## 5. The proofs

All are of the form `Spec => []...`, `Spec => [][...]_vars` or `Spec =>
Abstract!Spec`, for all constants that satisfy the module's assumption
(`DeskAssumption`, `StreamAssumption`, `BackfillAssumption`, `PaperAssumption`,
`CrewRunsAssumption`, `SubscriptionsAssumption`, `LedgerAssumption`, and
`ImportsAssumption`, `BacktestAssumption` and `CandlesAssumption`, definitions
that `Sources` and `Analysis` assume of their instances), which TLC evaluates in
the passing runs. A theorem that needs more says so in its `ASSUME`: `OneWorker`,
the setup of `README.md:88`; what a PATCH does not do; `FeeRate <= Base`.

The proofs have one shape. Each action is first reduced to what it does to one
session and to the tables (`Kinds` in the desk and the paper account, `Returns`
and `Goes` in the imports), and the invariants are shown for those few kinds.

| theorem | statement | argument |
|---|---|---|
| `CrewDesk_proofs!TypesHold` | `[]TypeOK` | inductive with `Aimed`: a task in review or fill stands at a thesis of a list that is not empty, without which `Head` is arbitrary |
| `CrewDesk_proofs!NeverOwing` | `[]CashNeverNegative` | `CashNeverNegative` alone is not inductive, as a commit writes the balance of the session. `Solvent` adds that every open session believes in a balance of at least zero: a tick starts with the committed one, a buy takes at most that, a sell adds, a reset writes the bankroll or nothing |
| `CrewDesk_proofs!TradesStayWithin`, `OpenStayWithin`, `RowsStayPerSymbol` | `[]TradesWithinAllowance`, `[]OpenWithinAllowance`, `[]RowsPerSymbol` | one argument, `Room`, for a limit that is checked first and used up later: what is committed plus the workers past the check, one at most of which holds uncommitted fills (`OneHolder`: a flushed fill locks the account), stays below limit plus workers. A worker that passes the check has counted less than the limit; it uses its own place up and no other. Trades are counted in `book`, positions and the rows of a symbol as sets |
| `CrewDesk_proofs!BooksBalance` | `OneWorker`: `[]BookBalances` | `Books`: until a reset tears it, the balance a tick believes in is the stored one and its own flow |
| `CrewDesk_proofs!EndedStay` | `OneWorker`, no PATCH to an ended status: `EndedStaysEnded` | `Fresh`: no open session knows a thesis that has ended since; what a session writes back it knew as live |
| `CrewDesk_proofs!OneThesisPerSymbol`, `EnteredIsHeld` | `OneWorker`, no PATCH to a live status: `[]OneLiveThesis`, `[]EnteredHasPosition` | `Standing`: both hold of what is stored and of what each session would commit (`Fit`), and row ids are unique. A tick keeps that, since its picture has every live thesis (`Pictured`) and the lot it is about to fill is of the thesis at hand (`Sorted`) |
| `TradeStream_proofs!TypesHold` | `[]TypeOK` | inductive; `ReadTakes` shows that a read takes an interval that starts at the first entry left, so the `CHOOSE` of the new cursor has a value |
| `TradeStream_proofs!NeverTwice`, `AcknowledgedIsSafe` | `[]StoredOnce`, `[]AckedIsStored` | neither is inductive. `Flow` adds where an entry stands: what is pending, in hand or stored was delivered and is behind the cursor (`Delivery`); before its `Store` a batch has no rows and is newer than every row, after it all of it has (`InHand`) |
| `TradeStream_proofs!TablesAgree` | `[]TicksMatchRows` | by `Flow`, the copies of a trade in a batch are disjoint from its stored entries, so cardinalities add up |
| `TradeStream_proofs!CursorIsHonest` | `NothingSkipped` | what a read takes leaves nothing unread below the new cursor |
| `TradeStream_proofs!StreamImplementsIngest` | `Spec => Abstract!Spec` | `Publish` maps to `Send` (with what it trims), `Store` to `Keep`, `Crash` with a batch in hand to `Lose`, everything else to a stutter |
| `Backfill_proofs!TypesHold` | `[]TypeOK` | inductive |
| `Backfill_proofs!PendingIsAccounted` | `[]PendingHasTask` | inductive with the types: a status other than pending is written by exactly the steps that end a task |
| `Backfill_proofs!CopiesAreFew` | `[]CopiesPerWorker` | `Spread`: the rows of a candle that backfills added, plus what the tasks past the look-up will add (`MaxRepeats` each at most), never exceed `MaxRepeats` times the number of workers. A task joins that group only while there is no row at all; `ingested` grows by exactly what `InsertRows` adds |
| `Backfill_proofs!ClaimsAreBacked` | `[]CountsAreBacked` | `Backed` adds that the total a task is about to commit is backed already (`CountsTaken`); rows are never deleted (`StoredGrows`) |
| `PaperSchedules_proofs!TypesHold` | `[]TypeOK` | inductive; every step is first reduced to what it does to one session (`Kinds`), and the other proofs go by these kinds |
| `PaperSchedules_proofs!NeverOwing` | `[]CashNeverNegative` | `Solvent`, as for the desk |
| `PaperSchedules_proofs!BooksAgree` | `[]CashMatchesOrders` | `Books` adds that a session that nothing has overtaken differs from the account by its own flow, and that a session without fills has none |
| `PaperSchedules_proofs!RowsAreFew` | `[]RowsPerProcess` | `RowsInv`. A process that has found no row may add one, whatever others commit meanwhile (`Adds`). Rows plus such processes never exceed the processes, for the committed rows and for those that the holder of the account's lock sees (`Room`); one process at a time holds that lock, and one that waits to add a row has none of its own (`Flushers`) |
| `PaperSchedules_proofs!PositionsArePaid` | `[]RowsArePaid` | `PaidInv`: for a session that nothing has overtaken (`Current`), the rows it would leave behind (`LeftRows`, without those a flush is about to delete) are at most what was bought and not sold, its own orders included, and the row its order sells is among those it sees |
| `CrewRuns_proofs!TypesHold`, `WholeRunsOnly` | `[]TypeOK`, `[]RunsAreWhole` | `Inv`. `Consistent`: within a run each asset is to do, failed or has its recommendation, executed and rejected are disjoint parts of those, and what is selected or to do is a sound selection. `RunInv`: until a run is completed others see `Nothing` of it, afterwards `Whole`. `ClickInv`: a click works on a row that is there or on one of no run, so it changes statuses and never which rows exist or what they first were. `SelectionIsSound` needs the last member of a set of assets: it exists by the well-foundedness of strict inclusion (`SmallestPart`) |
| `CrewRuns_proofs!TradesStayNear` | `[]TradesNearAllowance` | `LimitInv`, as `Room` with requests for workers: committed trades plus the requests past the check (`Late`) stay below limit plus requests, and so do those that the one holder of the account sees. Trades are the elements of `FilledOrders`, so a sum over recommendations is a cardinality |
| `Sources_proofs!PartsBehave` | `SourcesSpec => Spec /\ I!Init /\ [][I!Next]_importVars` | each part stands still while the other is followed, so what is proved of a part holds in the whole |
| `Sources_proofs!TypesHold`, `SubscriptionsSurvive` | `[]TypeOK`, `[]NothingForgotten` | `Careful` adds that the command in hand is known already and that nothing is in hand or streamed but on a live connection |
| `Sources_proofs!RecordsAreStored` | `SourcesSpec => []RecordedIsStored` | `ImportsInv`. `Steady`: what a task is about to commit it holds, and it is inside its range. `Excluded`: no two tasks hold a record of one user's file, nor the ticks of one file with ids. `Sure`: a user's record is held only while none is committed, and the kinds of rows about to be committed are those that the file has and the table lacks (`Lacking`), of a file that can be read to its end; a commit of another task cannot change that, being excluded. `InPlace`: ticks with ids are never shifted. A commit is then counted kind by kind: an id'd row is the first copy or no copy, a row without an id is one copy more, as the record is one success more. Rows are counted as the elements of `RowsOf`, so that a commit adds one element (`OneRowMore`) |
| `Backtest_proofs!TypesHold`, `BooksAlwaysClose` | `[]TypeOK`, `[]BooksClose` | `Kept`: the books of the engine, and no open cost without a position. The arithmetic that is not linear is in lemmas on the fills (`Payable`: what the cash buys with its fee is paid by the cash). `Placed` keeps the loop inside the data. That the cash is not negative (`Solvent`), and nothing else, needs `FeeRate <= Base`, a fee of at most what it is charged on: the API does not check that, and a larger one lets a sell cost more than it brings |
| `Backtest_proofs!WindowsStayIsolated` | `[]WindowsIsolated` | `Apart`. A `Trace` of a strategy over closes is the sequence of engines that its rows lead through, from a fresh one. While a run is on, the engine is the end of a trace over the rows passed (`Explained`); between runs it is fresh, and the last window is the one that runs (`Aligned`); so every result is what a trace of its strategy, with its parameters, over the closes of its window ends with (`ReportsExplained`). Two traces of one strategy over the same closes agree (`TracesAgree`, at the least row where they would not) |
| `Analysis_proofs!TypesHold`, `SummaryAddsUp`, `AllTimeIsEarned` | `[]TypeOK`, `[]PnlAddsUp`, `[]AllTimeAddsUp` | `Followed` adds that until the first reset the lots of the replay are the position, with the cost of the lots above its basis by the opening fee; without it a sell could realize against other lots |
| `Analysis_proofs!PartsBehave`, `BacktestsClose`, `WindowsStayIsolated` | `AnalysisSpec => Spec /\ B!Spec /\ C!Spec`, `AnalysisSpec => []BooksClose`, `AnalysisSpec => []WindowsIsolated` | as for `Sources`; the invariants are those of `Backtest_proofs`, carried over by `SameBacktest` |
| `Analysis_proofs!GapsAreExact` | `AnalysisSpec => []GapsExact` | `JoinInv`: the ranges so far end before every bucket that is left, lie apart, cover every other missing bucket, and cover only missing ones (`Joined`). Buckets are on a grid (`Grid`), so between a range and the bucket that follows it by one size there is none. The end of the range is the one place where time and counts of buckets must agree (`Honest`). What is missing is a join of two grids, that of the request and that of the database: `MissingIs` shows, for every size and origin, that the join finds a row exactly if the grids are the same one (`GridsMeet`, with `BucketIs` and `Multiple`) and the row is in the bucket and not past the last bucket's start |
| `Analysis_proofs!CandlesAreExact` | `AnalysisSpec => []CandlesExact` | `MergeInv`: the rows of the range are those from `lo` to `hi`, the ones up to `d` are merged, and each candle is described by the merged rows of its bucket (`Describes`, `Candled`), opened by one that is first in time and closed by one that is last, whichever of several the database took. A row joins the last candle or opens one (`RowJoinsCandle`, `RowOpensCandle`). A sum over a set takes its members in an arbitrary order, so that it exists and may be taken in any other order is shown first, by a smallest set for which it fails (`SumsExist`, `SumsAgree`, `SumsAdd`). The limit of points is arithmetic on the width of the widened bucket (`FewCandles`) |

Only model-checked is liveness (`OverdueRetires`, `CaughtUp`, `Decided`,
`WaitsOrBlocked`, `RequestsEnd`, `TasksEnd`), which is out of the prover's reach.
Every invariant and action property of the passing runs has its theorem.

## 6. Where code and documentation disagree

| configuration | property | the code | the statement |
|---|---|---|---|
| run `desk_expired` | `ExpiredNeverEntered` | expiry is tested before the status, so a thesis that bought expires and its position keeps no thesis that would sell it | "thesis expired before execution." |
| run `stream_durable` | `DeliveredIsStored` | the writer reads only new entries; what was delivered to one that died is never read again | "Durable stream for DB ingestion." |
| run `paper_due` | `DueRuns` | the tick subtracts the naive `last_run_at` of the database from an aware clock; once any active schedule has run, every tick raises `TypeError` | "optional paper-trading schedules" |
| run `sources_shift` | `TicksInPlace` | the repair passes the start of a gap as it is, and `base_time` is that start, so the offsets of the file are counted from a time that is not the hour | offsets are from the start of the hour |
| `CrewDeskPause` | `PauseStopsOrders` | the switches are read once before the review; an order can be committed after the pause | "Autonomous research, trigger monitoring, and paper execution were paused." |
| `CrewDeskReset` | `ResetIsClean` | a manual reset deletes the rows it read and locks nothing; a tick that overlaps leaves a position or a balance | "Manual reset requested; restart with clean bankroll ..." |
| `BackfillCap` | `ThrottledByTasks` | `warming_up`, a status a task ends with, counts as active; and a first backfill counts its rows before they are flushed, so it always ends there | "Kraken backfill active task cap reached." |
| `PaperBuy` | `BuyKeepsRow` | a row that a sell deleted is found again by the next schedule of the tick; a buy fills it, and the flush deletes it: the cash is gone and there is no position | `payload["position"]["quantity"] > 0` after a buy |

| `BackfillTwice` | `NoDuplicates` | `ingest_historical_data` (`tasks.py:127-140`) adds every candle without a look-up; a backfill adds one as often as one download brings it, and two backfills both add it. No migration creates the constraint | "Uses upsert logic to avoid duplicates." (`tasks.py:157`), and the `UniqueConstraint` of `models/instrument.py:48-50` |
| `SourcesTwice` | `NoDuplicateTicks` | only rows with the id of a trade conflict, and records without an owner do not; so rows without an id (all of Dukascopy's) are stored again by each repair | "idempotency prevents duplicates" (`main.py:1754-1755`) |
| `AnalysisGaps` | `GapsAreEmpty` | rows are counted up to the first second of the last bucket; a size that TimescaleDB's origin is no multiple of (7 s, a week) has every bucket reported; a view coarser than the bucket leaves gaps between its rows | "a gap means "no data recorded in the bucket" at the chosen resolution" (`main.py:1691-1692`) |

`PROJECT.json` has the lines of the four runs. The other seven configurations are
not listed as runs, to keep the set of runs one for each part of the system; run
`tlc -config CrewDeskPause.cfg MCCrewDesk` (`CrewDeskReset.cfg MCCrewDesk`,
`BackfillCap.cfg Backfill`, `BackfillTwice.cfg Backfill`, `PaperBuy.cfg
MCPaperSchedules`, `SourcesTwice.cfg MCSources`, `AnalysisGaps.cfg MCAnalysis`) for
their traces. What a passing run checks of the same matter is what the code does
keep: `CopiesPerWorker`, `RecordedIsStored` and `GapsExact` say how many copies
there can be, what a record stands for, and which buckets exactly are reported.

Other things met while modelling, which no property calls wrong:

- A symbol subscribed dynamically is lost at the next reconnect of the Coinbase
  streamer, whose `get_subscription_message` sends the symbols of its start.
  `NothingForgotten` speaks of the others (`remembers`).
- An import that fails writes its record in the transaction that its exception
  rolls back: a committed `import_runs` row only ever says success.
- A file that a download left incomplete is taken as it is by every later import
  of that day, which fails; nothing removes it. No data is wrong, one day is missing.
- The last hour of a Dukascopy range is left out when the range does not end on
  the minute it began with, as hours are counted from the start.
- A CSV file without the expected header, or rows of it without a mapped column,
  are passed over in silence: the import is recorded as a success that stored
  nothing, and for a user it is never tried again.
- A recommendation whose order was refused for lack of cash is marked executed; a
  second click may turn an executed one into a rejected one.
- A run commits once, at its end, so `POST /runs/{id}/cancel` never finds a running
  run, and the row of the account stays locked through the later calls of the model.

## 7. What is not modelled

Of the parts that are modelled: editing the limits of a profile or of a
schedule, the equity curve of the account, several paper accounts with steps of
their own, the hot cache and the pub/sub channels of the publisher (nothing is
derived from them in the database), `sync_exchange_markets` (the markets are
fixed), the tests of models that a user starts, rejecting a recommendation by
hand, audit, trace, prediction and lesson rows (rows of the same transactions).
Two assumptions on numbers: what a sale brings is not negative, in the desk and in
the paper account, though the API accepts a fee above the price; and `PnlAddsUp`
speaks of the time before the first reset, as the replay goes on with the lots of
positions that a reset deleted (`AllTimeAddsUp` covers what comes after).
The ticks, runs and clicks that write the account of the desk are in three
modules and not interleaved: their steps meet in the row of the account and in
the counts of the guardrails, and each module has the effects of the others on
those as a second writer of its own kind.

Left out for good: signals, factors and quantitative analysis, and the ratios of
a backtest (floating-point computation without shared state); the choice of an
exchange by configuration (`price_selection`, `market_resolution`); connectors to
external services (network I/O); CRUD and query handlers of one short
transaction; authentication; the dashboard, whose calls of the API are the
actions of the modules; migrations, which run before any process.

## 8. The plan

Written: 1. `CrewDesk`, 2. `TradeStream` with `Ingest`, 3. `Backfill`,
4. `PaperSchedules`, 5. `CrewRuns`, 6. `Imports` and `Subscriptions` (`Sources`),
7. `Ledger`, `Backtest`, `Candles` (`Analysis`); proofs of every safety property.

Left:

- An abstract `PaperBook` (cash, rows, orders) that the desk, the schedules and
  the runs implement as long as no transaction is overtaken.
