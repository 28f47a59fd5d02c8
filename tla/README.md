# Specification of carcharoth

carcharoth is a research and paper-trading system for US equities: a live engine
that trades a watchlist on an Alpaca paper account, a replay of that engine over
historical bars, a training pipeline for the model behind the signals, and tools
around them (parameter optimisation, permutation tests, a backtest loop, a
terminal UI).  This directory holds TLA+ models of its core logic, TLC
configurations that check them and TLAPS proofs about them.  `PROJECT.json` maps
each definition to the lines it models; paths below are relative to
`src/src/carcharoth/` unless they begin with `src/`.

## 1. Inventory

| Component | State it keeps | Operations | Talks to | What makes it correct |
|---|---|---|---|---|
| Live engine (`engine/engine.py`) | none between ticks except its collaborators'; per tick: snapshot, account state | `tick`: reconcile fills, snapshot, account, one `_process_symbol` per symbol | market data, account, signal generator, risk, executor, repositories | one order per symbol in flight; closes only reduce; tables agree with the broker; positions are worked flat before the close |
| Scheduler (`engine/scheduler.py`) | stop event | `run_forever`: tick, sleep, swallow exceptions | engine, market clock | a failed tick is followed by another |
| Alpaca services (`services/alpaca/`) | the account at the broker (external) | `submit`, `get_order`, `cancel_order`, `get_account_state`, `get_snapshot` | Alpaca | errors become `BrokerError`, `OrderConflictError`, `MarketDataError`, `AccountError` |
| Signal generator and decision policy (`modeling/signal_generator.py`, `modeling/decision.py`) | newest bar each symbol was evaluated on | `generate`, `decide` | predictor, features, HMM context | one evaluation per bar; flatten before anything else; no entry outside the window |
| Risk manager (`risk/basic.py`) | none | `assess` | account, quote | close before reverse; largest lot within every limit |
| Repositories (`persistence/repositories.py`) | orders, trades, decisions, snapshots, runs, metrics, eligibility | one transaction per call, scoped to a `run_id` | PostgreSQL | rows of one run only; terminal rows final |
| Write buffer (`persistence/buffered.py`) | pending rows | `add`, `flush` | bulk insert | every row written once, in order |
| Replay (`backtest/runner.py`, `services/backtest/market_data.py`) | cursor on the bar grid | `run`, `advance_to`, `_reconcile_remaining` | engine, simulated broker | no look-ahead; tables complete at the end |
| Simulated broker (`services/backtest/broker.py`) | cash, holdings, closes, orders, loss base | `submit`, `mark_to_market`, `cancel_pending`, `get_account_state` | replay | ledger explained by the fills; reductions always fill |
| Persistent bars cache (`services/cache/`) | monthly chunks in a shared byte store | `__call__`: read, fetch gaps, merge, write | provider, Redis | the answer is the provider's answer |
| In-process bars cache (`optimize/bars_cache.py`) | one window per symbols and timeframe | `__call__` | provider | no bar that existed when the command began is missing |
| HMM context (`regime/hmm/`) | rolling detector, last evaluation, fit and table caches | `latest`, `compute_series`, refit | detector, Redis | caches change no answer; a live answer is of the newest bars and of a model that is refitted |
| Training (`modeling/training.py`, `dataset.py`, `artifact.py`, `eligibility.py`, `assessment_io.py`) | assessment report on disk and in the database, artifact directory | build rows, assess, persist, fit, publish, finalize, audit a failure | XGBoost, file system, database | rows never reach past their split; what is published was assessed; tables never ahead of the disk |
| Backtest loop (`backtest/loop.py`) | plan of windows | `schedule`, `plan_loop`, `execute_loop` | training and backtest commands | windows tile the calendar; every replay is out of sample |
| Optimiser (`services/optuna/optimizer.py`, `main.py`) | study, runs, one process per worker | trial objective, split, summary | replay, Optuna storage | the budget is spent exactly; every score belongs to its run |
| Quicktest (`quicktest/`) | position and pending order per symbol, curves | simulate, aggregate, persist | model, database | its ledger agrees with its round trips; a finished run is complete |
| Permutation tests (`permutation/`) | chunks in worker processes, records, test rows | permute, collect, verdict, distribution | quicktest | each permutation counted once, in order |
| Performance monitor (`performance.py`) | stages, counters, publication switch | `stage`, `increment`, publish | database, report files | telemetry never fails a run |
| Universe discovery (`universe.py`) | frozen bars, clusters, snapshot directories | discover, publish, list, reuse | Alpaca, file system | clusters are tight; a snapshot that is listed can be used |
| Configuration (`config/`) | layered YAML, provenance | collect, merge, override, resolve a bucket | all commands | each layer once, after its parents; every value traced to its layer |
| TUI (`src/tui/src/`) | forms, overrides, promoted layer, one command, one preview | keys, frames, spawn, poll, cancel | the command line | what runs is what was reviewed; no line lost; the child is reaped |

The behaviours that are hard here:

* a live tick is a long sequence of separate broker calls and database
  transactions, while the broker fills, cancels and rejects on its own;
* a restart starts a new run that sees nothing of the old one;
* the replay has to reproduce, on one thread, the ordering of fills, marks,
  decisions and records around a bar, with bars missing;
* several optimiser workers read, merge and write the same cache keys unlocked;
* an execution of the backtest command goes through dozens of database calls, each
  of which may fail, be interrupted or be committed without an answer, while
  another process may analyze the same run;
* a study's workers, a permutation test's workers and a loop's iterations share
  storage and files, and any of them may fail or be killed between two writes;
* the front end draws on one thread while two processes, two pumps and a preview
  with a timeout answer whenever they like;
* money is floored to whole shares several times on the way to an order.

`PROJECT.json` lists each as a hazard at its line.

## 2. Modules

| Module | Models |
|---|---|
| `LiveTrading` | the live process, its two tables and the broker account |
| `RiskManager` | `assess` as an operator on integers |
| `Backtest` | the replay; EXTENDS `RiskManager`, which sizes its orders |
| `ExposureMachine` | abstract: a symbol's exposure is entered from flat and left to flat |
| `BacktestRun` | one execution of the backtest command around the replay: run row, write buffer, analysis, monitor; the `analyze` command beside it |
| `BarsCache` | the persistent cache, its codec and the resilient store |
| `BarsFetcher` | abstract: what an answer to a bars request may be |
| `ConfigMerge`, `ConfigLayers` | merging one layer, as operators; resolving a profile, file by file |
| `CommandRunner`, `LoopForm`, `TuiApp` | the front end's child processes and pane; the loop form and its preview; the five screens, which compose them |
| `LoopSchedule`, `BacktestLoop` | the calendar of windows; training, publication and replay of a loop's iterations |
| `WindowCache`, `OptimizationStudy` | the in-process cache; a study and its workers, each with its cache |
| `RoundTrips`, `QuickTest`, `PermutationTest` | fill matching; the simulator and its curves; the whole quicktest command with its permutation or Monte Carlo test |
| `TrainingData` | the labelled rows of a split, and the evidence that decides whether a symbol is trained on |
| `Sorting` | `sorted` and what is picked of a sequence; `TrainingData`, `UniverseDiscovery` and `QuickTest` use it |
| `BarShuffle`, `HmmContext`, `UniverseDiscovery` | the shuffle of a window's bars; the regime schedules and caches; the discover command |
| `Algorithms` | the pure algorithms side by side, each over inputs of its own, with the references they are compared with |
| `MC*` | instances of these for TLC |
| `LiveTradingProofs`, `BacktestProofs`, `BarsCacheProofs`, `BacktestRunProofs`, `BacktestLoopProofs`, `OptimizationStudyProofs` | TLAPS proofs about the module of the name |
| `FrontEndProofs`, `ResearchProofs` | TLAPS proofs about `ConfigLayers` and `TuiApp`; about `Algorithms` and `PermutationTest` |

How they are composed: `TuiApp` EXTENDS `CommandRunner`, `LoopForm` and
`ConfigMerge` (the front end resolves and promotes what the loader merges);
`ConfigLayers` EXTENDS `ConfigMerge`; `Backtest` EXTENDS `RiskManager` and implements
`ExposureMachine`; `BarsCache` implements `BarsFetcher`; `BacktestLoop` EXTENDS
`LoopSchedule`; `OptimizationStudy` EXTENDS `WindowCache`; `PermutationTest`
EXTENDS `QuickTest`, which EXTENDS `RoundTrips` and `Sorting`.  `Algorithms` EXTENDS
`RiskManager`,
`BarShuffle`, `HmmContext`, `TrainingData` and `UniverseDiscovery`.

Operators marked "Mutant:" are deliberately wrong variants of the operator after
them.  No specification uses them; `PROJECT.json` names, for each property, the
variant under which TLC finds it violated.

### LiveTrading

Every call a tick makes to the broker or the database is an action; the code
between two calls belongs to the first or the second.  `pc` follows `tick`:

| Code | Actions |
|---|---|
| `_reconcile_fills` | `TickBegins` (`find_open_broker_order_ids`), `GetOrder`/`GetOrderFails`, `UpdateFromBroker`, `SaveFill` |
| `tick` | `GetSnapshot`, `GetAccountState`, `TickAborts`, `TickDone` |
| `_process_symbol` up to submission | `NoOrderWanted`, `ConflictingOrder`/`CancelFails`, `OrderApproved`, `SymbolFails` |
| `submit`, `save_submitted` | `Submit`, `SubmitConflict`, `SubmitRefused`, `SubmitAnswerLost`, `SaveSubmitted`, `SaveSubmittedFails` |
| `_run_live` | `ProcessEnds`, `RunLive` (a new `run_id`) |
| Alpaca (external) | `BrokerFills` (in parts), `BrokerCancels`, `BrokerRejects` |
| the market | `BarCompletes`, for any set of the symbols; `SessionCloses`, at any time |
| `Scheduler.run_forever` between ticks | `TickBegins` while the market is open, `WaitForOpen` afterwards |

`orphans` is a history variable: the orders that were still live when a failure
made the running process lose track of them (a lost answer, a failed save, a
restart).  Properties that only hold while nothing was lost say `orphans = {}`;
`LiveOrdersTracked` says that nothing else loses an order.  Prices are left out:
an entry has any quantity up to `MaxLot` and may always be rejected.  An
evaluation may produce any target the policy allows at that bar.  The clock is a
number of completed bars; entry window and flatten window are bar numbers.  The next
session is left out: once the market is closed a tick under way ends, the broker
works off what it has, and the scheduler waits.

### RiskManager and Backtest

Money is integer and percentages are integers; budgets are held hundredfold, so
that every comparison in `risk/basic.py` is exact.  `Algorithms` compares the
two floors of `_assess_entry` with the largest lot of a set that states the
limits one by one.

`Backtest` is the runner's loop.  `AdvanceTo` moves the cursor to the next grid
timestamp, with any non-empty set of symbols having a bar and any prices;
`FillPending` and `MarkCloses` are `mark_to_market`; `Reconcile`, `NoOrder` and
`SubmitOrder` are the tick (atomic per symbol: it is one thread);
`CancelPending` and `ReconcileRemaining` are the end.  `settled`, `first` and
`late` are history.  Fill prices are floors, but `MCBacktest` assumes the prices
of the instances make every floor exact.

### BacktestRun

`_execute_backtest` in `main.py`, inside `Monitor.execution`.  What the replay
computes is `Backtest`'s subject; here it only hands rows to the `WriteBuffer`, so
a row is the number of the tick it was written in.  Every database call is a step.

| Code | Actions |
|---|---|
| `Monitor.execution`, `checkpoint` | `ExecutionBegins`, `Checkpoint`, `ExecutionEnds` by way of `Publication`; `PublicationInterrupted`, `EndInterrupted` |
| `_execute_backtest` up to the replay | `Setup`, `Create`, `Fetch` |
| `TradingEngine.tick` on the buffered repositories | `SaveSnapshot`, `SaveDecision`, and their failures |
| `WriteBuffer.add`, `flush` | `Adds`, `Flushes`, `Loses`; the flush in `finally`: `FinalFlush`, `FinalFlushFails` |
| `finish`, `BacktestAnalyzer.analyze`, the summary | `Finish`, `AnalysisBegins`, `Analysis`, `AnalysisFails` |
| `_run_analyze` | `AnalysisBegins` and `Analysis` of an analyst |
| Ctrl-C, a raising call, the death of the process | `StepFails`, `Killed` |

`table` and `pending` have the equity snapshots and the decisions; the position
snapshots are added in the same call as the equity snapshot and would only repeat
it.  The trades an analysis reads (`tradesRead`) are not buffered and are known by
their tick.  A failing call either had its transaction committed or not.
`made`, `swallowed` and `overlap` are history.  An analysis deletes what was
committed when its delete began (`seen`) and inserts its own; the unique
constraint of `backtest_metrics` makes one of two overlapping analyses fail
(`Conflicts`), `round_trips` has none.

### BarsCache

Time is in slots of one bar; days and months are multiples of slots, a half-open
interval is a set of slots and a bar is the slot it is of.  A payload carries the
key it was encoded for, its rows and its coverage; `Decodes` is what the codec
validates.  `asked`, `today`, `done`, `entries`, `gaps` and `changed` are the
locals of one `__call__`.  Reading a batch, each fetch of a gap, writing a batch
and the tail fetch are separate steps, and any other process, the clock, damage
in the store or the death of the process may come between them.  Writing is one
step per batch, as `mset` is one command.  Damage is what a validating codec can
tell (an evicted key, another key's payload, rows outside the coverage);
a forged but consistent payload is not considered.

`BarsFetcher` is the promise: an answer holds every bar of the range that was
complete when the call was made, and none the provider does not have when it is
given.  Bars that complete during the call may or may not be in it.

### ConfigMerge and ConfigLayers

A configuration is the function from its leaves (dot paths, as sequences) to
values; a mapping is a prefix that leaves lie below, an empty mapping is the
leaf value `Empty`.  `Merged` is `_merge_layer` on such functions and `Recorded`
the provenance beside it.  `Accepted` is its check for unknown keys: of each path, the
keys down to where the merge stops, which is at an atomic mapping and wherever one
side is no mapping, and no key below.  Overrides are a sequence, each a path with the
leaves it puts there; `Nested` is the layer `_nested` makes of them, in which a later
override replaces what an earlier one put at its path or below, and `Clashing` its
error when a value is in the way.  `ConfigLayers` keeps the stack, the visited set and the
layers of `_collect_layers`: `Descend` takes the next parent of the file on top,
`Collected` appends its body; then `MergeLayer`, `MergeOverrides` and
`ResolveUniverse` are the rest of `resolve_raw`.  Every raise ends in `Fail`.
Unknown keys, cycles, missing files, too deep chains and conflicting buckets are
modelled; value validation (pydantic) is not.

### The front end

| Code | Actions |
|---|---|
| `runner.rs` | `StartOk`, `Poll`, `Cancel`, `Shutdown`, `ScrollBy` on the UI thread; `PumpLine`, `PumpEof` of the two pumps; `Writes`, `PythonEnds`, `UvEnds` of the processes |
| `backtest_loop.rs` | `Edit`, `MoveCursor`, `Refresh`, `RequestPreview`, `PollPreview`, `CancelPreview`; the preview's worker (`JsonCommand`): `JobSpawns`, `JobStoresPid`, `JobWatches` |
| `app.rs` keys | `Tab`, `Quit`, `Dismiss`, `AcceptRun`, `MoveCommand`, `Filter`, `EnterForm`, `EditForm`, `SubmitForm`, `LoopKey`, `LoopStart`, `ReloadConfig`, `OpenPrompt`, `SwitchProfile`, `ApplyOverride`, `DropOverrides`, `ReloadPromotion`, `SwitchSource`, `Select`, `ConfirmPromotion`, `ApplyPromotion`, `OutputKey` |
| `app.rs` refresh, `main.rs` | `Tick`, `Leave`, `Left` |

The UI thread takes a key, then a frame, in turn (`turn`); the rest runs between.
The calls of the command line that the UI waits for (`resolve`, `validate`) answer
at once, by `ConfigMerge` on the model's profiles and layer file, and may fail.  What
the front end itself reads of the promoted layer may be nothing (`Loaded`), whatever
the command line resolved.
A killed group of processes dies as a whole; an exiting process closes its files
before it can be reaped.  A text field is usable or not; a tour (`Tours`) bounds
the screens, fields and runs of one user.

### The loop, training and artifacts

A date is a month and a day; `LoopSchedule` moves an anchor by months and clamps it,
as `add_months` does.  `BacktestLoop` walks the iterations of the buckets in order.
One iteration is `Plan`, `Assess`, `Persist`, `Fit`, `Publish`, `Finalize`,
`Backtest`; `AuditFailure` is the except branch of `train_and_publish`, and `Dies`
may strike anywhere and ends the loop: a new one has places of its own, and what
earlier ones left are `GivenModels`.  A report is a file
replaced as a whole (`audit`) and a row written best effort (`table`); an artifact
is the record of its manifest, which is what `validate_artifact` compares.

### Studies

`OptimizationStudy` is the parent, its workers, the study in Optuna's storage and
the runs in the database.  `Resolve` is the worker's second resolution and the
comparison of the hashes; `Ask`, `FetchBars`, `Replay`, `Link`, `Score` are a
trial; `TrialFails` distinguishes errors that are caught from those that end the
worker; `Killed` and `EditConfig` may come anywhere.  `CommandKilled` leaves the
workers to go on by themselves, without a summary; a command that continues the
study while workers of a killed one still run is not modelled.  A trial's parameters say
where its window begins, so that a worker's cache is asked for different windows;
`Tick` lets bars come into being meanwhile.

### Quicktest and permutation tests

`SimulateBar` and `SkipBar` are `simulate_symbol` for one slot: fill the pending
order at the open, mark, decide.  `SumCurves` is `_sum_curves`.  `PermutationTest`
then takes the command transaction by transaction: run row, rows, round trips,
metrics, finish, then either the pool (`Submit`, `WorkerEnds`, `WorkerFails`,
`Collect` in the order of submission) and its verdict, or `Sample` and
`CreateDistribution`, then result rows and summaries.  `StepFails` ends it anywhere.
What a permutation scores depends on its index alone, as its seed does.

### Algorithms

`kind` says which algorithm a behaviour is about, `given` is its input and `answer`
what it returned: `Assesses`, `Shuffles` and `Builds` are one call, `Prepares`, `Evicts`
and `Restates` a sequence of calls on one cache, `Rolls` a call at any later bar, with the
bars at hand there, and a discover command is `UniverseDiscovery`'s own actions.  The
inputs are constants; what
they may be is `InputsAssumption` (bars in the order of their times whose highs and
lows contain opens and closes) and `HistoriesAssumption`.

`BarShuffle` has logarithms of prices as integers, so that ratios are differences.
In `HmmContext` a model is the observations it was fitted on and a row is a model
with the observations it was asked about, so two rows are equal only when both are.
`UniverseDiscovery` keeps two of the six descriptors, the one that ranks and one
that does not; its publication is one step per file.  `Killed` leaves the temporary
directory behind, and `WriteFails` whatever its removal did not get to: any part of
the files (`fate` says which of the two a directory is from).

`TrainingData` is the path from bars to rows: the calendar's grid, cleaning, the
reasons a row is rejected for, labels, the evidence of a window and the reasons
that exclude a symbol.  Which features are complete is an input, prices are
logarithms.  Left out: the variant without a calendar, which only tests call, and
the counts that are only reported (missing sessions, the longest run of them).

## 3. Runs

| Run | Question | Bounds |
|---|---|---|
| `live_safety` | Do tables, positions and tracked orders stay consistent whatever fails?  Do closes only ever reduce a position? | 1 symbol, 3 orders of up to 2 shares (so that fills are partial), 3 bars, 1 failure |
| `live_liveness` | Are terminal orders reconciled, and positions flattened unless the market closes first? | 1 symbol, 5 orders, 2 bars, 1 failure |
| `live_flip` | Is a position ever taken through flat?  (It is: section 6) | smallest that shows it |
| `replay` | Ledger, fills, loss base, flatten, tables and exposures of a replay | 2 symbols, 2 sessions of 3 bars, bars missing, 2 opening prices, 5 orders |
| `cache_shared` | Can two processes on one store corrupt it or each other's answers? | 2 clients, 1 symbol, 2 months of 2 days, 3 calls, 1 failure |
| `backtest_run` | Do buffered rows, run row, analysis and reported status agree, whatever fails? | 2 ticks with 2 rows each, a flush every 2 rows, 1 analyst, 2 faults |
| `config` | Is each layer merged once, after its parents, and every value credited to its layer? | 4 files; every combination of 6 parent lists (diamonds, cycles, a missing file); a diamond with every pair of bodies of up to 2 entries and 19 sequences of overrides (an atomic mapping with a new key, ancestor and descendant in both orders) |
| `tui` | Is what runs what was reviewed, is output kept, are promotions safe, does a cancelled command end? | 7 tours of one user: at most 2 commands, 2 lines per stream into a pane of 4, 2 previews at once |
| `loop` | Do windows tile, are replays out of sample, do disk and tables agree? | months of 2 to 4 days, anchors on every day of 5 months, 3 iterations (2 trained), 2 buckets, one given model, a death anywhere |
| `study` | Is the budget kept, is every score linked to its run, are all bars there? | 2 workers, studies of 2 and 3 trials continued once, 1 edit, 1 fault, a window whose end is reached meanwhile |
| `permutation` | Do the two ledgers agree, does a verdict count every permutation once, is a finished run complete? | 2 symbols of 3 slots with different gaps, both directions, 3 permutations on 1 to 3 workers, 1 fault |
| `algorithms` | Sizing, shuffle, HMM caches and schedules, training rows, universe discovery, each over a grid | all lots around the limits; 4 bars of 3 shapes; histories of 6 bars with a pause, refits and evictions; a full and a shortened session with each bar there, unsound, missing or doubled; 5 symbols of 5 days with short, late and unsound histories |

Why the bounds are enough: an entry, its close and one more order are the shortest
history in which a close can be sized from an account that is stale, or be
submitted beside another close, which is what `CloseOnlyReduces` excludes
(`OrderApprovedSameSide`, a conflict check of the same side only, lets a second
close through); `live_liveness` has five orders, for re-entries, and
`replay` has a pair of symbols.  One failure is a lost answer, a failed write, a
restart or a rejection; that more of them add nothing is proved.  Three bars are one to
enter on, one to decide again on, and one in the
flatten window.  In the replay, two sessions of three bars have an entry bar, a
flatten bar and a last bar to fill on, and either can be missing.  The cache
instance has a day boundary inside each month, and a month boundary and the
present inside the ranges asked for.  In `backtest_run` a flush takes place in the
middle of a tick, at its beginning and at the end of the replay, and two faults
allow a failed flush followed by an interrupt.  In `config` a diamond is the
smallest graph in which a file is reached twice, and two entries in a body are the
smallest that replace a mapping and add below one.  In `tui` four lines and a
footer overflow the pane, and two previews are one late answer and its successor;
a tour leaves out the product of screens that share nothing but the keyboard.  In
`loop` months of two days clamp what months of four do not.  In `study` three
trials do not divide by two workers, and in `permutation` three permutations
neither.  A history of six bars has a warm-up, a first fit, a refit and an
evaluation that is skipped, and a live process may start at each of its bars and
skip any.  Counters of orders, failures, calls, trials and
fetches only bound behaviours; what the proofs cover is independent of them.

Deadlock is checked in the live runs.  All other processes end, or are out of
calls in the end, so their configurations turn the check off.

### Fairness

`live_liveness` assumes weak fairness of `Tick` and of the broker's work on each
order.  A tick begins only while the market is open (`engine/scheduler.py:37`), and
the market may close at any time, so the fairness promises ticks of an open session
only; that a session stays open long enough is not assumed.  `Scheduler.run_forever`
swallows every exception and waits for the next
interval, a supervisor restarts the process (`RunLive`), and no call blocks for
ever because the clients time out.  For the broker: a market DAY order is filled
or canceled eventually.  Failures, new bars and the close are never required to happen.
`FlatUnlessClosed` asks for the position to be flat and stay flat once the newest bar
is in the flatten window, or for the market to close first; `EventuallyReconciled`
likewise.  So the run shows that ticks in the window work towards a flat position
whatever interferes, not that the minutes of a window suffice.

`tui` assumes weak fairness of the frame (the loop of `main.rs` polls its events with
a timeout) and of the pumps and dying processes together.  No key is ever required,
no command is required to end by itself: `CancelledEnds` is about commands whose
program is gone.

## 4. Properties worth reading first

* `CloseOnlyReduces`: while no live order was lost, no interleaving of fills,
  cancels and bars with the steps of a tick lets a close open or reverse a
  position.  It rests on three orderings in the code: reconcile before reading
  the account, ask the orders table before submitting, never submit while a
  cancel is merely requested.
* `TradesMatchFills`, `LiveOrdersTracked`: what the tables may say about the broker.
* `NextOpenFills`, `LossBaseIsPriorClose`, `FlatGivenBars`: replay ordering around
  a bar.  `FlatGivenBars` is exact: a position stays overnight only if the symbol
  had fewer than two bars in its flatten window.
* `StoreExact`, `ImplementsFetcher`: the shared cache never changes an answer.
  `BarsComplete`: nor does the in-process one, for bars that existed when the
  command began.
* `FinishedComplete`, `SucceededMeansDone`: what may be believed of a run that is
  marked finished or reported as a success.  They hold because the final flush
  raises into the same path as the replay's own exception.  `FinishedComplete`
  names the one exception: rows lost in a flush that the engine took for the
  failure of one symbol.  `RowsInOrder`: emptying the buffer before writing loses
  rows, but never writes one twice.  `AnalysisSeesAll`: the run's own analysis reads
  every row the replay kept.
* `ProvenanceTrue`: the layer a value is credited to gives exactly that value and no
  later layer or override mentions it, through replaced mappings, atomic paths, nulls
  and buckets.  An empty mapping is the exception: merged into a mapping it changes
  nothing and is credited with nothing.
* `StartedAsReviewed`: a loop is started with the arguments its preview was
  validated for, whatever is edited, refreshed or answered late in between.
* `OutputKept`, `CancelledEnds`: the race of a child's exit, two streams and a cancel.
* `PromotionSafe`: a promotion keeps earlier ones and leaves a valid profile, wherever
  the promoted layer could be read when the changes were computed (section 6).
* `OutOfSample`: no replay sees data its model was trained on, whichever artifact of
  which iteration, bucket or earlier loop is found on disk.
* `AuditTrail`: an artifact has an assessment that accepted its cohort, and the
  table is never ahead of the file, whatever died in between.
* `RunsLinked`: a trial is linked to its own completed run, and a run is made under
  the configuration its command resolved, although workers, a parent and an editor of
  the files share nothing but storage.
* `VerdictComplete`: a p-value counts every permutation once, in the order of the
  indices, whatever order the workers end in.
* `BooksBalance`: the simulator's ledger and the one `match_round_trips` rebuilds
  from the fills agree at every point of the summed curve.
* `RowsHonest`: a split has exactly the rows whose path, from the next open to the
  close at the horizon, was traded without a gap in one session of that split; the
  code finds the horizon by counting bars, the property by the clock.
* `RollingCurrent`: wherever a live process starts and whichever bars it skips, the
  row it trades on is no older than the interval and its model is refitted in time.
  It does not say that this is the row of the historical schedule: a live process fits
  and evaluates first at the bar it starts at, training at the first bar of the
  history, and the two keep their phases (section 6).  `CacheTransparent`: a cached
  series is that of a detector without a cache.

## 5. Proofs

`LiveTradingProofs` proves, for every watchlist, lot size, number of orders and
of failures allowed by `ConstantsAssumption`: `TypeOK`, `OneOpenOrderPerSymbol`,
`TradesMatchFills`, `TerminalRowsAgree`, `LiveOrdersTracked`, `NoPyramiding` and
`CloseOnlyReduces`.  None is inductive alone.  `IInv` strengthens them in three
parts:

* `ControlInv`: what each `pc` promises about the locals of the tick: a result
  being processed is terminal only if the broker's order is; a symbol about to be
  submitted has no open row; when the process is down every live order is lost.
* `TablesInv`: rows and trades against the broker.
* `PositionInv`, while `orphans = {}`: a symbol has at most one live order, which
  explains its position (an entry builds it from flat, a close reduces it to
  flat); the request about to be submitted fits the position; and the account
  read at the start of the tick is still true of every symbol ahead that has no
  open order.  The last part is why one read per tick is safe: all of a symbol's
  live orders were reconciled before the read, so what can still move it is open
  in the table and stops its submission.

The step proofs have one case per action.  `CloseOnlyReduces` then follows from
`IInv` and the fact that only `BrokerFills` increases a filled quantity.

`BarsCacheProofs` proves `StoreExact` and the refinement `ImplementsFetcher` for any
number of processes, symbols, calls and failures, and any division into days, months
and batches (`CacheAssumption`).  `CacheInv` adds to the first the types of a call and
`CallsExact`: the chunks a call holds are exact, its gaps end before the day it read,
and that day is not after the clock's.  What a fetch of a range that is over returns
can never change (`FetchedAll`), so any mix of writers leaves exact chunks.

For the refinement, `FetcherInv` says of each call that its result is exactly what the
chunks it is done with have to give, and that each slot its batch is asked for is
either in a chunk it holds or in a gap still to be fetched.  That needs three facts
about the computation: the intervals a batch is divided into cover what the chunks
lack (`IntervalsCover`, each slot has a maximal run around it); the request number,
divided by the number of months, enumerates every symbol and every month of the range
(`RequestOf`, `MonthsOfRange`); and no chunk is asked for a day that is not over, which
the live tail is fetched for (`AnswersComplete`).  No step of another process touches a
call (`OneCall`), so a store that is damaged or emptied in between only makes the call
fetch more.

`BacktestRunProofs` proves, for any number of ticks, rows per flush, analysts and
faults (`RunAssumption`), `RowsInOrder`, `FinishedComplete`, `SucceededMeansDone`,
`AnalysisSeesAll` (the run's own analysis reads all its replay left) and
`DisabledStaysSilent` (after a slow or failing publication only the last status
follows).  `IInv` joins the invariants with

* `LifeInv`: as long as no exception is under way, every row made is stored,
  buffered or swallowed; the buffer is empty from the final flush on, the run row
  is marked after it, and a run row is finished only at the end;
* `OwnAnalysisInv`: how far the run's own analysis is, and that what it has read is
  what the tables hold: nothing writes to them after the final flush;
* `RowsBounded`: rows are of ticks begun, so what is appended next is larger.

The steps are proved for one conjunct at a time (`TypeStep`, `RowsStep`, `LifeStep`,
`OwnStep`, `SucceededStep`), on lemmas about what appending to and emptying the
buffer preserve.

`BacktestProofs` proves, for every watchlist, calendar, price, cost and limit
(`ReplayAssumption`, `RiskAssumption`), `NextOpenFills`, `TablesComplete`,
`LossBaseIsPriorClose`, `LedgerMatches`, `FlatGivenBars` and the refinement
`ImplementsMachine`; and of the risk manager, without any model around it,
`EntriesWithinLimits`: what its two floors approve is the largest affordable lot.
Here `IInv` has

* `TablesInv`: rows and trades against the broker's orders, at each stage;
* `PositionInv`: a symbol has at most one open row, and a pending order either
  enters a flat symbol or closes its whole position.  That is the step of the
  refinement: a fill then moves an exposure from flat or to flat;
* `FillInv`: between submission and fill no bar of the symbol went by;
* `SettledInv`: nothing moves equity between the last tick of a session and the
  first bar of the next, which is when the code takes the loss base.

The ledger (`LedgerInv`) is an induction on the set of filled orders: one more
adds its outlay and its shares (`SubsetInduction`, `TotalInsert`).  `FlatGivenBars` needs
`FlatInv`
besides: after the first bar of the flatten window a symbol's close is pending,
after the second it is filled, and nothing else is open of a symbol whose turn in
the tick is still to come.  It is proved for bars that do not open at zero, where
the simulated broker refuses every order and the close with it.

`BacktestLoopProofs` proves `WindowsTile`, `OutOfSample` and `AuditTrail` for every
calendar and every set of options (`CalendarAssumption`, `DatesAssumption`,
`OptionsAssumption`, which is what `LoopOptions` accepts).  `SchedulesTile` is about
the dates alone: each boundary is the anchor moved by a multiple of the period and
clamped to its month, so windows meet, and training ends before its replay, in
months of any length.  `IInv` then follows the one iteration at work: `ModelInv`
(from publication on, memory has the model of this place), `ArtifactsInv` (what is
on disk is of an earlier place or of this one, and rests on a report that accepted
its cohort), `ReportInv` (memory against file, phase by phase) and `TableInv` (a row
is a copy of the file or older).  A later step never
replaces the report of a place the loop has left, so its artifact stays accounted
for wherever the process dies.

`OptimizationStudyProofs` proves `RunsLinked`, `BarsComplete` and `BudgetKept` for any
number of workers, trials, commands and failures (`WorkersAssumption`,
`ConfigsAssumption`, `WindowAssumption`).  The invariant is local: `AtWork` and
`OnBudget` say of each worker what its own trial and its own share are, and no step
of another worker touches them; `CacheInv` says that its cache has every bar that
existed when the command began, which is why widening may fetch only what lies
outside.  The budget then needs `SharesAddUp`, an induction on the number of
workers, and the count of a union of disjoint sets of trials.

`ResearchProofs` proves `VerdictComplete` and `FinishedRunComplete` for any
number of permutations, workers and rows per flush (`PermutationAssumption`,
`CommandsAssumption`).  Chunks tile the indices (`ChunksTile`), so the records that
were collected always end where a chunk starts; the chunk collected next is that one
whichever ended first (`RecordsInv`); sorting what is in order changes nothing, and
the count of what exceeds the observed score is that of the whole
(`ExceedCounts`).  `StagesInv` and `TestInv` are the order of the transactions.

It also proves seven properties of `Algorithms`, all that are checked of it, for every
input its assumptions admit:

* `LargestAffordableLot`: a floor division keeps exactly the multiples that fit
  (`FloorFits`), so the smaller of the two floors is the largest lot of the set.
* `ShuffleHonest`: in the code's loop a bar opens on the rebuilt close before it, so
  its gap and its shape are those drawn for it (`RebuiltParts`).  An order of 1..n is
  onto, so the bags are the original's (`CountsPermuted`), and a sum does not depend on
  the order (`SumPermuted`): sums over every set of positions, from which any position
  can be taken out, meet at the whole set.  Both closes are the anchor plus all gaps
  and all shapes (`DriftKept`).
* `CacheTransparent`: `SeriesInv` says that every stored fit is what fitting its key
  again gives, and every stored table what its stretch gives without a store; a
  schedule over such a store runs like one without (`ScheduleAlike`).  Restating a
  bar leaves both true, because a key holds the values a fit was made of.
* `RollingCurrent`: `RollingInv` says that the context either never had an answer
  (`Unheard`) or has that of one bar, by the model fitted at one bar (`Told`); one more
  call (`LatestIs`) keeps that.  The bars at hand are as many as a fit observes
  (`RollingAssumption`), so they are observed as the whole history would be
  (`SameObservations`), and where `refit_interval_bars` fits into them a refit is due as
  it would be on the whole history (`SameRefits`).
* `ListedReusable`: `SnapshotInv` says of each directory, also of one left by a killed
  publication, that the manifest is not there without the inputs it has checksums of,
  unless its removal was cut short.
* `ClustersTight`: `ClusterInv` says that the distances of a selection are symmetric and
  not negative, that the clusters so far divide the selected assets, and that the assets
  of a cluster are within the threshold of one another: a join of the nearest two
  clusters under complete linkage keeps that, and the loop ends when every two left have
  assets further apart.  Buckets are then the clusters that are large enough, in the
  order of their names (`Placed`, `InNameOrderIs`).
* `RowsHonest`: `CleanInv` holds after each bar of the feed is taken, so the clean bars of
  a symbol are those that count, each the first sound one of its time, by time
  (`CleanIsItem`).  Between neighbours among them no bar counts (`NoneBetween`), so bars
  that are `BarStep` apart step by step are the bars at those times, and counting to the
  horizon agrees with the clock (`PathIs`).  Rows that are owed are among those the
  calendar lets one expect, and all of these where nothing is missing, because a day has
  one session (`ExpectedAre`).  `TrainingInv` carries this to the data sets, and the
  rows of excluded symbols are gone from what is trained on (`PickedFrom`).
  `TrainingAssumption` says what the calendar is (one session a day, within the regular
  hours), that a symbol is listed once and the horizon is at least one bar, and that bars
  are on the intervals counted from midnight, which is what `scheduled_bars` expects.

Folds are reached through what they are defined by: `FoldLeft` of the community modules
is a recursion over sets of positions, and `ScheduleIs` turns it into one state per
prefix.

And of `PermutationTest`, `BooksBalance`, for any symbols, bars, targets and times:

* `SimInv` is the simulator's side: the equity points of a simulation are at the times
  of its bars, its fills are its symbol's and at such times, and cash plus position at
  any price is the capital plus what its fills are worth at that price (`Funded`);
  `SimulatedOK` is the step.  A value carried forward is then the capital plus the worth
  of the fills until then at the last close (`CarriedIs`), and nothing is carried for a
  symbol without a bar.
* `MatchBooks` is the other side: one lot that is closed in part, or in full, moves worth
  from the lots to the trips and books what the fill gains on that part
  (`MatchLotBooks`), so profit booked plus lots left open is what the fills are worth,
  whatever order opens, reduces or reverses a position.
* Both sides are sums over the same fills in different arrangements: by symbol, by time
  (`AllTradesIs`), and a part of them (`OverPicked`).  `SumMatched`, `SumWhere` and
  `SumAdd` say that neither the order nor what counts for nothing matters.

`SymbolsAssumption` says that a symbol is simulated once (the results are a dictionary)
and that prices are integers.

`FrontEndProofs` proves `ParentsFirst` and `ProvenanceTrue` of `ConfigLayers` for any
files, any way they extend one another, any bodies and any overrides
(`ProjectsAssumption`: names and paths are strings; `AtomicAssumption`: no atomic path
lies in another and none is the root, true of the two of `ATOMIC_PATHS`;
`SourcesAssumption`: no file is called like another source).
`VisitingInv` is the depth-first search: a parent of a file on the stack is still to do,
collected, or the next one on the stack, so a file that has nothing left to do has all
its parents collected.  `CreditInv` holds after each merge: a leaf the layer writes is
credited to it, directly or through the one atomic mapping above it
(`WrittenCredited`, `AtomicUnique`); a leaf it leaves alone keeps its credit, since
whatever would drop the entry would have replaced the leaf (`SurvivorCredited`).

And of `TuiApp`, for any commands, profiles and number of previews:

* `StartedAsReviewed`: `ReviewedInv` says that a preview on show is of the arguments
  the form remembers for it, wherever a key may be taken those are the settings there
  are, and the worker that is listened to is the one for these arguments; late answers
  come from workers nobody listens to.
* `OutputKept`: `RunnerInv` counts the pane and what the channel still holds together:
  of each stream the rows are numbered upwards and nothing is missing after the first
  one shown, and the streams still open are those whose end was neither sent nor
  received.  It includes that nothing moves after the end of a command.
* `PromotionSafe` (an action property): promoted values are validated on top of the
  layer they replace; where that layer was read, it makes no difference, since every leaf
  of it that
  survives is a leaf of the promotion.  This needs `LeavesAssumption`: where one
  profile has leaves below a leaf of another, they are in an atomic mapping that the
  paper profile leaves empty, as in the profiles that ship; and `PaperAssumption`, that
  there is a paper profile.

The library's induction theorems take an operator for the statement; the lemmas
`SubsetInduction`, `NumberInduction` and `LeastNumber` take the set of the subsets or
numbers that a statement holds of, and rest on the well-foundedness the library
proves.  That reaches a sum over orders, the shares of workers, and a fold along a
sequence: it is a recursion over sets of positions, defined wherever its steps stay in
a set (`FoldExists`).

Stated only for the proofs, and not the property of a run: the type invariants and
inductive invariants, `TerminalRowsAgree`, `NoPyramiding`, `DisabledStaysSilent`,
`EntriesWithinLimits`, `SchedulesTile` and `SharesAddUp`.

Only model-checked: liveness, which is out of the proof system's reach.  No module has
a RECURSIVE operator.

## 6. Where code and statement disagree

* `FlatBeforeOpposite` (run `live_flip`): reversals "only after the account confirms
  flat" (`src/README.md:28`).  After a lost answer, a failed save or a restart a
  second close is submitted and the position goes through flat.

Five more are kept to run by hand, each of which TLC finds
violated in seconds (`tlc -config X.cfg M`):

| Configuration, module | Property | Statement and code |
|---|---|---|
| `live_refire`, `MCLiveTrading` | `SignalRefires` | "The signal re-fires next tick" (`engine/engine.py:161`).  A bar is evaluated once, so a signal held back for a conflicting order is lost until the next bar. |
| `live_limit`, `MCLiveTrading` | `PositionLimit` | `max_open_positions`.  Entries approved in one tick do not count each other. |
| `replay_overnight`, `MCBacktest` | `FlatOvernight` | `flatten_minutes = 5` passes the validator that is to leave "at least one five-minute fill bar" (`config/app_config.py:139`), and leaves none.  "Always flattens before the close" (`src/README.md:29`) also fails for a symbol whose last bars are missing; `FlatGivenBars` says exactly when. |
| `backtest_run`, `BacktestRun`, with `FullyPersisted` in place of its invariants | `FullyPersisted` | "One fully-persisted backtest run" (`main.py:245`).  With `--verbose-db` a flush may fail while a symbol's decision is saved; the tick logs it as that symbol's failure, and the buffered rows are gone from a run that ends as SUCCEEDED. |
| `config_provenance`, `MCConfigLayers` | `LeavesOnly` | A provenance map "leaf dot-path" to source (`config/loader.py:23`).  A leaf that a later layer replaced by a mapping keeps its entry beside its children's. |

Observed while modelling, and not checked by a run:

* `aggregate_equity` documents a curve of all symbols; `_sum_curves` leaves out
  symbols without bars, and with them their capital (`quicktest/result.py:46`).
* An excluded benchmark is still a candidate; `--reuse-data` does not apply new
  excluded symbols to the assets it reuses; a killed publication leaves a hidden
  directory whose `buckets.yaml` the listing's pattern matches (`universe.py:278`),
  although a snapshot is published "atomically" (`src/README.md:154`).  A directory
  whose removal was cut short (`universe.py:425` ignores errors) may be listed without
  its inputs, and is then refused when it is reused (`universe.py:441`);
  `ListedReusable` excepts it.
* "Previously promoted values are kept" (`src/tui/src/promote.rs:5`), but
  `src/tui/src/app.rs:659` takes a promoted layer it cannot read or parse for an empty
  one, and the next promotion then writes the selected values alone.
  `PromotionSafe` excepts that case; without the exception TLC finds it violated.
* `refit_interval_bars` may be longer than the bars a rolling HMM context is given
  (`config/app_config.py:46` is not checked against them), which is then never
  refitted; `RollingCurrent` bounds the age of the model where it is not.
* Fits, refits and evaluations of a live process fall on other bars than those of the
  historical schedule, so a model may trade on regime rows that differ from those it
  was trained on at the same bars (`modeling/signal_generator.py:92`,
  `regime/hmm/context.py:157`).
* A preview that is cancelled before its process id is known may outlive the front
  end.
* The historical market data's docstring says orders fill at the close of the
  signal bar, and `_reconcile_remaining`'s that it records fills of orders submitted
  on the last bar; neither is so, without consequence for a run.

## 7. Not modelled, and the plan

Not modelled for good: indicators, regime scores and statistics (stateless floating
point), diagnostics of a model, XGBoost and HMM fitting, ORM declarations and
migrations, logging, dashboards, the Alpaca and Redis client libraries, argument
parsing, drawing in the front end.  Not modelled so far: the cache, config, delete
and listing commands; `backtest --permute` (`main.py:552`), which runs the Monte
Carlo test of `PermutationTest` on a replay's round trips; the branch of `_log_ratio`
for prices that are not positive; value validation of configurations.

The plan is carried out: every safety invariant and action property a passing run
checks is proved too.
