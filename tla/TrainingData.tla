----------------------------- MODULE TrainingData -----------------------------
(*****************************************************************************)
(* The rows a model is trained and validated on, and the evidence that      *)
(* decides whether a symbol may be (modeling/dataset.py, features/session.py *)
(* and window_reasons of modeling/eligibility.py).                           *)
(*                                                                         *)
(* Data: time is an integer, DayLength to a local day; a bar has the time it *)
(* starts, the logarithms of its open and close, and whether its prices and  *)
(* volume are sound. Which times the features are incomplete at is an input. *)
(***************************************************************************)
EXTENDS Sorting, Sequences, SequencesExt

CONSTANTS
  DayLength,      \* a local day
  SessionOpen,    \* SESSION_OPEN and SESSION_CLOSE, within the day
  SessionClose,
  BarStep,        \* timeframe_minutes
  NeutralBand,    \* neutral_band of a classification target
  PctUsable       \* eligibility.min_usable_coverage

ASSUME TrainingDataAssumption ==
  /\ {DayLength, SessionOpen, SessionClose, BarStep} \subseteq Nat \ {0}
  /\ SessionOpen < SessionClose /\ SessionClose < DayLength
  /\ NeutralBand \in Nat /\ PctUsable \in 1..100

\* A bar of the feed.
FeedBar == [time : Int, open : Int, close : Int, sound : BOOLEAN]

DayOf(t) == t \div DayLength

\* is_regular_session.
IsRegular(t) == SessionOpen <= t % DayLength /\ t % DayLength < SessionClose

\* scheduled_bars: the day of every interval that starts in a session, on the
\* intervals counted from local midnight.
ScheduledBars(sessions) ==
  [t \in UNION {{u \in s.open..(s.close - 1) : (u % DayLength) % BarStep = 0} : s \in sessions} |->
     DayOf(t)]

\* _clean, one bar: the first sound bar of each time on the grid is kept; an
\* unsound bar and a second, different one are errors.
Taken(clean, bar, grid) ==
  LET error(code) == [clean EXCEPT !.errors = @ \cup {[time |-> bar.time, code |-> code]}]
      known == bar.time \in DOMAIN clean.rows
  IN  IF bar.time \notin DOMAIN grid \/ ~IsRegular(bar.time) THEN clean
      ELSE IF ~bar.sound THEN error("invalid_ohlcv")
      ELSE IF known /\ clean.rows[bar.time] # bar THEN error("conflicting_duplicate")
      ELSE [clean EXCEPT !.rows = [t \in DOMAIN @ \cup {bar.time} |-> IF t = bar.time THEN bar ELSE @[t]]]

\* _clean: all of them, and the rows in the order of their times.
CleanBars(values, grid) ==
  LET clean[k \in 0..Len(values)] ==
        IF k = 0 THEN [rows |-> <<>>, errors |-> {}] ELSE Taken(clean[k - 1], values[k], grid)
      all   == clean[Len(values)]
      times == Ascending(DOMAIN all.rows, <)
  IN  [bars |-> [i \in DOMAIN times |-> all.rows[times[i]]], errors |-> all.errors]

\* prepare_dataset: the clean bars of each symbol with their rows of the
\* feature matrix, once for all splits.
Prepared(values, symbols, unready, grid) ==
  [s \in ToSet(symbols) |->
     LET clean == CleanBars(values[s], grid)
     IN  [bars |-> clean.bars, errors |-> clean.errors,
          ready |-> [i \in DOMAIN clean.bars |-> <<s, clean.bars[i].time>> \notin unready]]]

Within(t, window) == window.start <= t /\ t < window.end

\* window_evidence, without what is only reported: the rows a calendar lets
\* one expect, the bars there are, and those with every feature.
WindowEvidence(item, window, horizon, grid) ==
  LET bars   == item.bars
      ahead(t) == t + horizon * BarStep
      inside == {i \in DOMAIN bars : Within(bars[i].time, window)}
  IN  [expected |-> Cardinality({t \in DOMAIN grid :
                      /\ Within(t, window) /\ ahead(t) < window.end
                      /\ ahead(t) \in DOMAIN grid /\ grid[ahead(t)] = grid[t]}),
       attempted |-> Cardinality(inside),
       ready |-> Cardinality({i \in inside : item.ready[i]}),
       errors |-> {e.code : e \in {e \in item.errors : e.time < window.end}}]

\* Mutant of Unusable: the bar at the horizon is found by its index alone.
UnusableByIndex(item, i, window, horizon, grid) ==
  LET target == item.bars[i].time + horizon * BarStep
  IN  \/ target >= window.end \/ DayOf(target) # DayOf(item.bars[i].time)
      \/ target \notin DOMAIN grid \/ i + horizon > Len(item.bars) \/ ~item.ready[i]

\* dataset_from_prepared, the reasons a row is rejected for: its target lies
\* behind the split or the session, there is no bar for it, a bar is missing on
\* the way to it, or the row is not complete.
Unusable(item, i, window, horizon, grid) ==
  LET bars   == item.bars
      future == i + horizon
      target == bars[i].time + horizon * BarStep
  IN  \/ target >= window.end
      \/ DayOf(target) # DayOf(bars[i].time) \/ ~IsRegular(target)
      \/ target \notin DOMAIN grid
      \/ future > Len(bars)
      \/ \E j \in i..(future - 1) : bars[j + 1].time - bars[j].time # BarStep
      \/ ~item.ready[i]

\* The label of a move: itself, or its class.
Label(task, move) ==
  IF task = "regression" THEN move
  ELSE IF move < -NeutralBand THEN "short" ELSE IF move > NeutralBand THEN "long" ELSE "flat"

\* The bars of a symbol that become rows.
Kept(item, target, window, grid) ==
  {i \in DOMAIN item.bars : /\ Within(item.bars[i].time, window)
                            /\ ~Unusable(item, i, window, target.horizon, grid)}

\* The rows of one symbol, each labelled from the open of the next bar to the
\* close of the bar at the horizon.
SymbolRows(s, item, target, window, grid) ==
  LET bars == item.bars
      label(i) == Label(target.task, bars[i + target.horizon].close - bars[i + 1].open)
  IN  {[symbol |-> s, time |-> bars[i].time, label |-> label(i)] : i \in Kept(item, target, window, grid)}

\* dataset_from_prepared: the rows of all symbols by time and symbol, and the
\* evidence of each symbol.
DatasetFromPrepared(prepared, symbols, target, window, grid) ==
  LET all == UNION {SymbolRows(s, prepared[s], target, window, grid) : s \in ToSet(symbols)}
      before(a, b) == a.time < b.time \/ (a.time = b.time /\ a.symbol < b.symbol)
      evidence(s) == WindowEvidence(prepared[s], window, target.horizon, grid)
  IN  [rows |-> Ascending(all, before),
       evidence |-> [s \in ToSet(symbols) |->
         [expected |-> evidence(s).expected, attempted |-> evidence(s).attempted,
          errors |-> evidence(s).errors,
          usable |-> Cardinality(Kept(prepared[s], target, window, grid))]]]

\* ModelDataset.select_symbols.
SelectSymbols(dataset, symbols) ==
  [rows |-> Picked(dataset.rows, {i \in DOMAIN dataset.rows : dataset.rows[i].symbol \in symbols}),
   evidence |-> [s \in DOMAIN dataset.evidence \cap symbols |-> dataset.evidence[s]]]

\* report_backtest_eligibility: a replay needs features, not labels.
ReplayEvidence(item, window, grid) ==
  LET e == WindowEvidence(item, window, 0, grid)
  IN  [expected |-> e.expected, attempted |-> e.attempted, errors |-> e.errors,
       usable |-> e.ready]

\* window_reasons: what a window's evidence says against a symbol; a replay has
\* no least number of rows.
WindowReasons(evidence, leastRows) ==
  evidence.errors
  \cup (IF evidence.attempted = 0 THEN {"no_bars"} ELSE {})
  \cup (IF evidence.usable < leastRows THEN {"insufficient_rows"} ELSE {})
  \cup (IF \/ 100 * evidence.usable < PctUsable * evidence.expected
           \/ evidence.expected = 0 /\ PctUsable > 0
        THEN {"insufficient_usable_coverage"} ELSE {})

\* assess: the symbols nothing speaks against in any of the splits.
Cohort(datasets, symbols, leastRows) ==
  {s \in ToSet(symbols) : \A d \in ToSet(datasets) : WindowReasons(d.evidence[s], leastRows) = {}}
=============================================================================
