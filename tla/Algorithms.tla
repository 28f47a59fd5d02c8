----------------------------- MODULE Algorithms -----------------------------
(***************************************************************************)
(* The system's algorithms, each over inputs of its own: the risk manager's  *)
(* lot, the shuffle of a window's bars, the HMM context (cached series and   *)
(* rolling), the rows of a training and universe discovery. `kind` says      *)
(* which one a behaviour is about; `given` is its input and `answer` what it *)
(* returned.                                                                 *)
(***************************************************************************)
EXTENDS RiskManager, BarShuffle, HmmContext, TrainingData, UniverseDiscovery

CONSTANTS
  RiskInputs,         \* [target, held, account, quote]
  ShuffleInputs,      \* [bars, start]
  Histories,          \* bars of the HMM features' input
  Stretches,          \* the parts of a history a run prepares: [from, to]
  RestatedBar,        \* the bar the provider may restate, and the values it
  RestatedValues,     \* may restate it to
  RollingBars,        \* the bars at hand of the live engine
  MaxSeries,          \* bound: calls on the series cache
  TradingSessions,    \* the sessions of the training calendar
  Splits,             \* the training and the validation window
  Listing,            \* the configured symbols, in order
  TrainingInputs,     \* [values, unready, target]
  LeastRows           \* the rows a symbol needs in both windows

\* An account of the risk manager.
AccountRecords ==
  [equity : Int, lastEquity : Int, power : Int, positions : Nat, gross : Int]

\* A bar of the shuffle; and a sequence of them whose highs and lows contain
\* the opens and closes, in the order of their times.
ShuffleBars == [time : Int, open : Int, high : Int, low : Int, close : Int, volume : Nat]
Proper(bar) ==
  /\ bar.low <= bar.open /\ bar.low <= bar.close /\ bar.open <= bar.high /\ bar.close <= bar.high
InOrder(bs) == \A i, j \in 1..Len(bs) : i < j => bs[i].time < bs[j].time

ASSUME InputsAssumption ==
  /\ RiskInputs \subseteq
       [target : {"unchanged", "flat", "long", "short"}, held : Int,
        account : AccountRecords, quote : [bid : Int, ask : Int]]
  /\ ShuffleInputs \subseteq [bars : Seq(ShuffleBars) \ {<<>>}, start : Int]
  /\ \A input \in ShuffleInputs :
       InOrder(input.bars) /\ \A i \in 1..Len(input.bars) : Proper(input.bars[i])

\* Bars of a feed: in the order of their times.
ASSUME HistoriesAssumption ==
  /\ Histories \subseteq Seq([time : Nat, value : Int])
  /\ \A h \in Histories : InOrder(h) /\ RestatedBar \in 1..Len(h)
  /\ RestatedValues \subseteq Int
  /\ Stretches \subseteq [from : Nat \ {0}, to : Nat]
  /\ \A h \in Histories, w \in Stretches : w.to <= Len(h)
  /\ RollingBars \in Nat /\ MaxSeries \in Nat

VARIABLES kind, given, answer

allVars == <<kind, given, answer, discoveryVars>>

Pending == [done |-> FALSE]
Done(x) == [done |-> TRUE, value |-> x]

-----------------------------------------------------------------------------

\* Risk.

Assesses ==
  /\ kind = "risk" /\ ~answer.done /\ UNCHANGED given
  /\ answer' = Done(Assess(given.target, given.held, given.account, given.quote))

\* The lots an entry may have: within the position budget, and within the
\* buying power with both buffers.
Affordable(a, price) ==
  {q \in 1..MaxNotional :
     /\ q * price <= MaxNotional
     /\ 100 * q * price <= PctEquity * a.equity
     /\ q * price * (100 + PctSlippageBuffer) <= a.power * PctPowerBuffer}

\* An entry is approved exactly when nothing locks it out and the largest
\* affordable lot fits under the gross exposure limit, and it has that lot:
\* the two floors of _assess_entry lose no share and exceed no limit.
LargestAffordableLot ==
  kind = "risk" /\ answer.done /\ given.held = 0 /\ given.target \in {"long", "short"} =>
    LET a     == given.account
        price == IF given.target = "long" THEN given.quote.ask ELSE given.quote.bid
        lots  == IF price > 0 THEN Affordable(a, price) ELSE {}
        fits(q) == 100 * (a.gross + q * price) <= PctExposure * a.equity
        locked == \/ a.positions >= MaxOpenPositions
                  \/ a.lastEquity > 0
                     /\ 100 * a.equity < (100 - PctDailyLoss) * a.lastEquity
        order == answer.value
    IN  IF order.approved
        THEN ~locked /\ order.qty \in lots /\ fits(order.qty) /\ \A q \in lots : q <= order.qty
        ELSE \/ locked \/ lots = {}
             \/ \E q \in lots : ~fits(q) /\ \A r \in lots : r <= q

-----------------------------------------------------------------------------

\* Shuffle.

Reorderings(n) == {p \in [1..n -> 1..n] : \A i, j \in 1..n : i # j => p[i] # p[j]}

Shuffles ==
  /\ kind = "shuffle" /\ ~answer.done /\ UNCHANGED given
  /\ LET n == Len(given.bars) - WarmUpBars(given.bars, given.start) IN
     \E gaps \in Reorderings(n), shapes \in Reorderings(n) :
       answer' = Done(Shuffled(given.bars, given.start, gaps, shapes))

\* Gaps and shapes of a window, as a bag.
Parts(bs, split, part(_, _, _)) ==
  LET is == (split + 1)..Len(bs) IN
  [x \in {part(bs, split, i) : i \in is} |-> Cardinality({i \in is : part(bs, split, i) = x})]

\* A shuffled window has nothing new in it: the warm-up is what it was, every
\* bar has its time, the gaps and the bar shapes are the original's in another
\* order, every bar contains its open and close, and the drift from the last
\* close of the warm-up to the last close of the window is the original's.
ShuffleHonest ==
  kind = "shuffle" /\ answer.done =>
    LET old   == given.bars
        new   == answer.value
        split == Cardinality({i \in 1..Len(old) : old[i].time < given.start})
        shape(b, k, i) == Shape(b[i])
        gap(b, k, i)   == b[i].open - (IF i = k + 1 THEN Anchor(old, k) ELSE b[i - 1].close)
    IN  /\ Len(new) = Len(old)
        /\ \A i \in 1..split : new[i] = old[i]
        /\ \A i \in 1..Len(old) :
             /\ new[i].time = old[i].time
             /\ new[i].low <= new[i].open /\ new[i].low <= new[i].close
             /\ new[i].high >= new[i].open /\ new[i].high >= new[i].close
        /\ Parts(new, split, gap) = Parts(old, split, gap)
        /\ Parts(new, split, shape) = Parts(old, split, shape)
        /\ new[Len(old)].close = old[Len(old)].close

-----------------------------------------------------------------------------

\* HMM context.

NoWindow == [from |-> 1, to |-> 0]

Series(answered) == SubSeq(given.market, answered.from, answered.to)

\* A run prepares one stretch of the history, with what earlier runs cached.
Prepares ==
  /\ kind = "series" /\ answer.calls < MaxSeries
  /\ \E window \in Stretches :
       LET made == ComputeSeries(answer.cache, Series(window)) IN
       answer' = [cache |-> made.cache, window |-> window, rows |-> made.rows,
                  calls |-> answer.calls + 1]
  /\ UNCHANGED given

\* The store forgets an entry, or the provider restates a close.
Evicts ==
  /\ kind = "series" /\ answer.calls < MaxSeries
  /\ \/ \E k \in DOMAIN answer.cache.fits :
          answer' = [answer EXCEPT !.window = NoWindow, !.rows = <<>>,
                                   !.cache.fits = [j \in DOMAIN @ \ {k} |-> @[j]]]
     \/ \E k \in DOMAIN answer.cache.tables :
          answer' = [answer EXCEPT !.window = NoWindow, !.rows = <<>>,
                                   !.cache.tables = [j \in DOMAIN @ \ {k} |-> @[j]]]
  /\ UNCHANGED given

Restates ==
  /\ kind = "series" /\ answer.calls = 1
  /\ \E v \in RestatedValues \ {given.market[RestatedBar].value} :
       given' = [given EXCEPT !.market[RestatedBar].value = v]
  /\ answer' = [answer EXCEPT !.window = NoWindow, !.rows = <<>>]

\* The pipeline asks for the bars the detector needs, or for more.
ASSUME RollingAssumption == Lookback <= RollingBars

\* The last RollingBars bars at bar k.
AtHand(k) == SubSeq(given.market, IF k > RollingBars THEN k - RollingBars + 1 ELSE 1, k)

\* The live engine asks the rolling context at a bar with the bars at hand: the
\* first time at whichever bar the process meets first, and not at the bars it
\* flattens at or misses.
Rolls ==
  /\ kind = "rolling"
  /\ \E k \in 1..Len(given.market) :
       /\ \A j \in answer.asked : j < k
       /\ answer' = [asked |-> answer.asked \cup {k}, context |-> Latest(answer.context, AtHand(k))]
  /\ UNCHANGED given

\* What a run prepares depends on its bars only: whatever earlier runs stored
\* and whatever the store has lost since, the rows are those of a detector
\* without a store.
CacheTransparent ==
  kind = "series" =>
    answer.rows = Schedule(NoStore, Series(answer.window)).rows

\* What a training window and its warm-up before bar k are.
ObservedAt(k) == Observations(SubSeq(given.market, 1, k))

\* The feature the live engine trades on is about the newest bar it asked at,
\* or one less than an interval older, unless nothing could be said since; it
\* is computed by a model fitted at a bar asked at, no later and, where the
\* bars at hand suffice to count them, fewer than Refit bars before, unless the
\* refit failed. There is none only as long as no fit succeeded.
RollingCurrent ==
  kind = "rolling" =>
    LET row  == answer.context.row
        time(k) == given.market[k].time
    IN  IF row = NoRow
        THEN \A k \in answer.asked : ObservedAt(k) = <<>> \/ ObservedAt(k) \in Unfittable
        ELSE \E f, k \in answer.asked :
               /\ f <= k /\ row = <<ObservedAt(f), ObservedAt(k)>> /\ ObservedAt(f) \notin Unfittable
               /\ \A j \in answer.asked :
                    j > k => ObservedAt(j) = <<>> \/ time(j) - time(k) < Interval
               /\ Refit <= RollingBars => k - f < Refit \/ ObservedAt(k) \in Unfittable

-----------------------------------------------------------------------------

\* Training.

Stocks == ToSet(Listing)
Grid   == ScheduledBars(TradingSessions)

\* A calendar: the sessions of days, within the regular hours; symbols are listed
\* once. The provider's bars are on the intervals counted from midnight.
ASSUME TrainingAssumption ==
  /\ TradingSessions \subseteq [open : Int, close : Int] /\ IsFiniteSet(TradingSessions)
  /\ \A s \in TradingSessions :
       /\ s.open < s.close /\ DayOf(s.open) = DayOf(s.close - 1)
       /\ IsRegular(s.open) /\ IsRegular(s.close - 1)
  /\ \A s, r \in TradingSessions : DayOf(s.open) = DayOf(r.open) => s = r
  /\ \A k \in 1..2 : Splits[k] \in [start : Int, end : Int]
  /\ Listing \in Seq(Int) /\ \A i, j \in DOMAIN Listing : Listing[i] = Listing[j] => i = j
  /\ LeastRows \in Nat
  /\ \A input \in TrainingInputs :
       /\ \A s \in Stocks :
            /\ s \in DOMAIN input.values /\ input.values[s] \in Seq(FeedBar)
            /\ \A i \in DOMAIN input.values[s] : (input.values[s][i].time % DayLength) % BarStep = 0
       /\ input.target.horizon \in Nat \ {0}

\* What a training builds of its input, and what a replay will be judged on.
Built ==
  LET prepared == Prepared(given.values, Listing, given.unready, Grid)
      made(k)  == DatasetFromPrepared(prepared, Listing, given.target, Splits[k], Grid)
      datasets == <<made(1), made(2)>>
      cohort   == Cohort(datasets, Listing, LeastRows)
  IN  [datasets |-> datasets, cohort |-> cohort,
       chosen |-> <<SelectSymbols(datasets[1], cohort), SelectSymbols(datasets[2], cohort)>>,
       replay |-> [s \in Stocks |-> ReplayEvidence(prepared[s], Splits[2], Grid)]]

Builds == kind = "training" /\ ~answer.done /\ answer' = Done(Built) /\ UNCHANGED given

InSession(t) == \E session \in TradingSessions : session.open <= t /\ t < session.close

\* The bars of a symbol that count: sound, and in a session. A time has the
\* first of them.
Counts(s, t) ==
  /\ InSession(t)
  /\ \E i \in DOMAIN given.values[s] : given.values[s][i].time = t /\ given.values[s][i].sound
BarOf(s, t) ==
  LET sound == {i \in DOMAIN given.values[s] : given.values[s][i].time = t /\ given.values[s][i].sound}
  IN  given.values[s][Min(sound)]

\* The rows a split has to have: those with every feature whose path, from the
\* next open to the close at the horizon, was traded without a gap in one
\* session and ends before the split does.
Owed(split, s) ==
  LET ahead == given.target.horizon IN
  {t \in split.start..(split.end - 1 - BarStep * ahead) :
     /\ <<s, t>> \notin given.unready
     /\ \A k \in 0..ahead : Counts(s, t + BarStep * k) /\ DayOf(t + BarStep * k) = DayOf(t)}

\* Whether nothing of a split is missing or wrong, and nothing before it wrong.
Sound(split, s) ==
  /\ \A i \in DOMAIN given.values[s] :
       LET bar == given.values[s][i] IN
       InSession(bar.time) /\ bar.time < split.end => bar.sound /\ bar = BarOf(s, bar.time)
  /\ \A t \in DOMAIN Grid :
       Within(t, split) => Counts(s, t) /\ <<s, t>> \notin given.unready

\* The row owed at a time: its label is the move on its own path.
OwedRow(s, t) ==
  LET target == given.target
      exit   == BarOf(s, t + BarStep * target.horizon)
  IN  [symbol |-> s, time |-> t, label |-> Label(target.task, exit.close - BarOf(s, t + BarStep).open)]

\* A dataset has exactly the rows it is owed, by time and symbol: no label
\* reaches into the next split or session or over a gap, so that nothing of the
\* validation is trained on. The evidence counts these rows, never more than
\* were to be expected; where nothing is missing the two are equal, whatever
\* the horizon cuts off at a session's end, and nothing speaks against the
\* symbol. The chosen symbols have rows enough in both splits.
RowsHonest ==
  kind = "training" /\ answer.done =>
    \A k \in 1..2 :
      LET split  == Splits[k]
          rows   == answer.value.datasets[k].rows
          chosen == answer.value.chosen[k].rows
          seen(s) == answer.value.datasets[k].evidence[s]
      IN  /\ ToSet(rows) = UNION {{OwedRow(s, t) : t \in Owed(split, s)} : s \in Stocks}
          /\ \A i, j \in DOMAIN rows : i < j =>
               \/ rows[i].time < rows[j].time
               \/ rows[i].time = rows[j].time /\ rows[i].symbol < rows[j].symbol
          /\ \A s \in Stocks :
               /\ seen(s).usable = Cardinality(Owed(split, s))
               /\ seen(s).usable <= seen(s).expected
               /\ Sound(split, s) =>
                    /\ seen(s).usable = seen(s).expected
                    /\ (seen(s).expected > 0 => WindowReasons(seen(s), 0) = {})
               /\ IF s \in answer.value.cohort THEN Cardinality(Owed(split, s)) >= LeastRows
                  ELSE \A i \in DOMAIN chosen : chosen[i].symbol # s
          /\ k = 2 => \A s \in Stocks : answer.value.replay[s].usable <= answer.value.replay[s].expected

-----------------------------------------------------------------------------

AlgorithmsInit ==
  /\ DiscoveryInit
  /\ \/ kind = "risk" /\ given \in RiskInputs /\ answer = Pending
     \/ kind = "shuffle" /\ given \in ShuffleInputs /\ answer = Pending
     \/ /\ kind = "series" /\ given \in {[market |-> h] : h \in Histories}
        /\ answer = [cache |-> EmptyCache, window |-> NoWindow, rows |-> <<>>, calls |-> 0]
     \/ /\ kind = "rolling" /\ given \in {[market |-> h] : h \in Histories}
        /\ answer = [asked |-> {}, context |-> Unstarted]
     \/ kind = "training" /\ given \in TrainingInputs /\ answer = Pending
     \/ kind = "universe" /\ given = "nothing" /\ answer = "nothing"

AlgorithmsNext ==
  \/ (Assesses \/ Shuffles \/ Builds \/ Prepares \/ Evicts \/ Restates \/ Rolls) /\ UNCHANGED <<kind, discoveryVars>>
  \/ kind = "universe" /\ DiscoveryNext /\ UNCHANGED <<kind, given, answer>>

AlgorithmsSpec == AlgorithmsInit /\ [][AlgorithmsNext]_allVars
=============================================================================
