------------------------------ MODULE HmmContext ------------------------------
(***************************************************************************)
(* The HMM posteriors a model is trained on and trades on (regime/hmm): one  *)
(* detector scheduled over a whole history, behind a persistent cache of     *)
(* posterior tables and of fitted models, and the rolling detector of the    *)
(* live path. A fitted model is the observations it was fitted on, and a     *)
(* posterior is a model with the observations it is asked about: two rows    *)
(* are equal only when both were.                                            *)
(***************************************************************************)
EXTENDS Integers, Sequences, FiniteSets, SequencesExt, Functions

CONSTANTS
  TrainingWindow,   \* training_window
  WarmUpRows,       \* warmup_rows: rows the indicators leave incomplete
  Refit,            \* refit_interval_bars
  Interval,         \* evaluate_interval_minutes
  Unfittable        \* observations on which every restart of the fit fails

ASSUME HmmAssumption ==
  {TrainingWindow, WarmUpRows, Refit, Interval} \subseteq Nat \ {0}

\* A store of fits that is only used by a detector built with one.
NoStore == [used |-> FALSE, fits |-> <<>>]

NoModel == [on |-> <<>>, through |-> 0]
NoRow   == <<>>
NoTable == [times |-> <<>>, rows |-> <<>>]

Lookback == TrainingWindow + WarmUpRows

\* The rows a fit and a posterior are computed from: the last Lookback bars,
\* or nothing while there are fewer or a close of them is not positive.
Observations(bars) ==
  LET recent == [i \in 1..Lookback |-> bars[Len(bars) - Lookback + i].value] IN
  IF Len(bars) < Lookback \/ \E i \in 1..Lookback : recent[i] <= 0 THEN <<>> ELSE recent

BarsSinceFit(bars, model) == Cardinality({i \in 1..Len(bars) : bars[i].time > model.through})

\* Mutant: the key of a fit covers the newest rows only.
KeyOfNewest(observations) == SubSeq(observations, 2, Len(observations))

\* HmmFitCache._key: the exact observations.
Key(observations) == observations

\* HmmFitCache.load: a fit found in the store gets the horizon of this call, as
\* a fresh one does; NoModel when there is none.
LoadFit(store, observations, through) ==
  IF store.used /\ Key(observations) \in DOMAIN store.fits
  THEN [on |-> store.fits[Key(observations)], through |-> through] ELSE NoModel

\* HmmFitCache.store.
StoreFit(store, observations, model) ==
  IF ~store.used THEN store
  ELSE [store EXCEPT !.fits = [k \in DOMAIN @ \cup {Key(observations)} |->
          IF k = Key(observations) THEN model.on ELSE @[k]]]

\* HmmRegimeDetector.assess: the model after the call, the store after it, and
\* the posterior of the newest bar (NoRow when there is nothing to say). A refit
\* that fails leaves the model there was.
AssessRegime(model, store, bars) ==
  LET obs    == Observations(bars)
      due    == model = NoModel \/ BarsSinceFit(bars, model) >= Refit
      loaded == LoadFit(store, obs, Last(bars).time)
      fits   == due /\ loaded = NoModel /\ obs \notin Unfittable
      fresh  == [on |-> obs, through |-> Last(bars).time]
      after  == IF fits THEN fresh
                ELSE IF due /\ loaded # NoModel THEN loaded ELSE model
  IN  IF obs = <<>> THEN [model |-> model, store |-> store, row |-> NoRow]
      ELSE [model |-> after,
            store |-> IF fits THEN StoreFit(store, obs, fresh) ELSE store,
            row |-> IF after = NoModel THEN NoRow ELSE <<after.on, obs>>]

Due(last, now) == last = 0 \/ now - last >= Interval

\* HmmModelContext._schedule, a bar of it: assessed at the interval and carried
\* in between.
ScheduleBar(bars, acc, i) ==
  LET now   == bars[i].time
      asked == AssessRegime(acc.model, acc.store, SubSeq(bars, 1, i))
      known == asked.row # NoRow
      kept  == [acc EXCEPT !.rows = Append(@, acc.current)]
  IN  IF ~Due(acc.last, now) THEN kept
      ELSE [model |-> asked.model, store |-> asked.store,
            last |-> IF known THEN now ELSE acc.last,
            current |-> IF known THEN asked.row ELSE acc.current,
            rows |-> Append(acc.rows, IF known THEN asked.row ELSE acc.current)]

Unscheduled(store) ==
  [model |-> NoModel, store |-> store, last |-> 0, current |-> NoRow, rows |-> <<>>]

\* HmmModelContext._schedule: one row per bar.
Schedule(store, bars) ==
  FoldLeft(LAMBDA acc, i : ScheduleBar(bars, acc, i), Unscheduled(store),
           [i \in 1..Len(bars) |-> i])

\* HistoricalHmmCache._key: every bar, time and values.
TableKey(bars) == bars

ValidTable(table, bars) ==
  /\ table.times = [i \in 1..Len(bars) |-> bars[i].time]
  /\ Len(table.rows) = Len(bars)

\* HistoricalHmmCache.load: a table that does not fit the bars is no table.
LoadTable(cache, bars) ==
  IF TableKey(bars) \in DOMAIN cache.tables /\ ValidTable(cache.tables[TableKey(bars)], bars)
  THEN cache.tables[TableKey(bars)] ELSE NoTable

\* HistoricalHmmCache.store.
StoreTable(tables, bars, table) ==
  [k \in DOMAIN tables \cup {TableKey(bars)} |->
     IF k = TableKey(bars) THEN table ELSE tables[k]]

\* HmmModelContext.compute_series: the rows, and the cache after the call. A
\* cache is the persistent store: tables by key and fits by key.
ComputeSeries(cache, bars) ==
  LET loaded == LoadTable(cache, bars)
      fresh  == Schedule([used |-> TRUE, fits |-> cache.fits], bars)
      table  == [times |-> [i \in 1..Len(bars) |-> bars[i].time], rows |-> fresh.rows]
  IN  IF loaded # NoTable THEN [rows |-> loaded.rows, cache |-> cache]
      ELSE [rows |-> fresh.rows,
            cache |-> [fits |-> fresh.store.fits,
                       tables |-> StoreTable(cache.tables, bars, table)]]

EmptyCache == [fits |-> <<>>, tables |-> <<>>]

Unstarted == [model |-> NoModel, last |-> 0, row |-> NoRow]

\* Mutant: an evaluation counts whether or not it had an answer.
LatestAlwaysCounted(rolling, bars) ==
  LET asked == AssessRegime(rolling.model, NoStore, bars) IN
  IF ~Due(rolling.last, Last(bars).time) THEN rolling
  ELSE [model |-> asked.model, last |-> Last(bars).time,
        row |-> IF asked.row = NoRow THEN rolling.row ELSE asked.row]

\* HmmModelContext.latest: the rolling detector is handed the bars at hand and
\* keeps its last answer between evaluations.
Latest(rolling, bars) ==
  LET asked == AssessRegime(rolling.model, NoStore, bars) IN
  IF bars = <<>> \/ ~Due(rolling.last, Last(bars).time) THEN rolling
  ELSE [model |-> asked.model,
        last |-> IF asked.row = NoRow THEN rolling.last ELSE Last(bars).time,
        row |-> IF asked.row = NoRow THEN rolling.row ELSE asked.row]
=============================================================================
