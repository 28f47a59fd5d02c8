-------------------------- MODULE BacktestLoopProofs --------------------------
(***************************************************************************)
(* Proofs about BacktestLoop, for every calendar, schedule, cohort and      *)
(* number of iterations and buckets: the windows, the separation of         *)
(* training and evaluation, and the audit trail.                            *)
(***************************************************************************)
EXTENDS BacktestLoop, FiniteSetTheorems, TLAPS

Dates     == [month : Int, day : Int]
Spans     == [start : Dates, end : Dates]
Statuses  == {"none", "error", "rejected", "passed", "passed_with_exclusions"}
Outcomes  == {"none", "pending", "failed", "published"}
Phases    == {"plan", "assess", "persist", "fit", "publish", "finalize", "audit_failure",
              "backtest", "refused", "failed", "done", "dead"}
Manifests == [place : Nat \X Nat, trainStart : Dates, validationEnd : Dates,
              cohort : SUBSET Symbols]
Models    == GivenModels \cup Manifests
Reports   == [status : Statuses, outcome : Outcomes, effective : SUBSET Symbols,
              model : Models \cup {NoModel}, updated : Nat]
Runs      == [place : Nat \X Nat, data : Spans, model : Models]

TypeOK ==
  /\ options \in Options /\ phase \in Phases
  /\ bucket \in 1..options.buckets /\ iteration \in Nat
  /\ report \in Reports /\ clock \in Nat
  /\ audit \in [Places -> Reports] /\ table \in [Places -> Reports]
  /\ artifacts \subseteq Models
  /\ runs \in Seq(Runs)

Planned == /\ Schedulable(options, Today)
           /\ plans = [b \in 1..options.buckets |-> Schedule(options)]
           /\ iteration < options.iterations

\* What is planned was checked to be schedulable, and stays.
PlanInv ==
  /\ plans = <<>> \/ Planned
  /\ phase \notin {"plan", "refused", "dead"} => Planned
  /\ phase \in {"assess", "persist", "fit", "publish", "finalize"} => options.train
  /\ phase = "plan" => iteration = 0

\* A place the loop has left.
Earlier(p) == p[1] < bucket \/ (p[1] = bucket /\ p[2] < iteration)

\* The runs are those of the places before this one.
RunsInv ==
  /\ OutOfSample
  /\ \A k \in DOMAIN runs : phase # "done" => Earlier(runs[k].place)

\* With training on, the model of the backtest is the one published for it.
ModelInv ==
  options.train /\ phase \in {"finalize", "backtest"} =>
    model.place = place /\ model.validationEnd = Here.validation.end

\* An assessment on which a model may be fitted.
Accepts(r, cohort) ==
  /\ r.status \in {"passed", "passed_with_exclusions"} /\ r.effective = cohort
  /\ Cardinality(cohort) >= MinSymbols /\ (options.strict => cohort = Symbols)

ArtifactsInv ==
  \A a \in artifacts \ GivenModels :
    /\ a.place \in Places
    /\ Earlier(a.place)
       \/ (a.place = place /\ phase \in {"finalize", "backtest", "failed", "done", "dead"})
    /\ Accepts(audit[a.place], a.cohort) /\ audit[a.place].outcome # "failed"

\* The report in memory, and the file of this iteration, at each phase.
ReportInv ==
  /\ phase = "persist" => report.status = "rejected" \/ Accepts(report, report.effective)
  /\ phase \in {"fit", "publish", "finalize"} => Accepts(report, report.effective)
  /\ phase \in {"persist", "fit", "publish"} => report.outcome = "pending"
  /\ phase \in {"fit", "publish"} =>
       Accepts(audit[place], report.effective) /\ audit[place].outcome = "pending"
  /\ phase = "finalize" =>
       /\ report.outcome = "published" /\ report.model \in artifacts
       /\ \A a \in artifacts \ GivenModels : a.place = place => a.cohort = report.effective
  /\ phase = "audit_failure" => report.outcome = "failed"

\* The row is a copy of the file, or older.
TableInv ==
  \A p \in Places :
    /\ audit[p].outcome = "published" => audit[p].model \in artifacts
    /\ table[p].updated <= audit[p].updated /\ audit[p].updated <= clock
    /\ table[p].updated = audit[p].updated => table[p] = audit[p]

IInv ==
  /\ TypeOK /\ PlanInv /\ RunsInv /\ ModelInv /\ ArtifactsInv /\ ReportInv /\ TableInv
-----------------------------------------------------------------------------
(* The calendar. *)

\* A day of the calendar.
CalendarDays == {d \in [month : Months, day : Nat \ {0}] : d.day <= MonthDays[d.month]}

LEMMA MonthsType ==
  /\ Months = 1..Len(MonthDays) /\ Len(MonthDays) \in Nat
  /\ \A m \in Months : MonthDays[m] \in Nat \ {0}
  BY CalendarAssumption DEF Months

LEMMA Moved ==
  ASSUME NEW a \in CalendarDays, NEW n \in Nat, a.month + n \in Months
  PROVE  /\ AddMonths(a, n) \in CalendarDays
         /\ AddMonths(a, n).month = a.month + n
  BY MonthsType DEF CalendarDays, AddMonths, Date, Earliest

\* The day before a day that is not the calendar's first.
LEMMA Yesterday ==
  ASSUME NEW d \in CalendarDays, d.month > 1
  PROVE  /\ DayBefore(d) \in CalendarDays
         /\ DayAfter(DayBefore(d)) = d
         /\ Before(DayBefore(d), d)
         /\ \A e \in CalendarDays : Before(e, d) => ~Before(DayBefore(d), e)
  <1>1. d = Date(d.month, d.day) /\ d.month \in Months /\ d.day \in Nat \ {0}
    BY DEF CalendarDays, Date
  <1>2. CASE d.day > 1
    <2>1. DayBefore(d) = Date(d.month, d.day - 1) /\ d.day <= MonthDays[d.month]
      BY <1>2 DEF DayBefore, CalendarDays
    <2>2. DayBefore(d) \in CalendarDays
      BY <1>1, <1>2, <2>1, MonthsType DEF CalendarDays, Date
    <2>3. DayAfter(DayBefore(d)) = d
      BY <1>1, <1>2, <2>1, MonthsType DEF DayAfter, Date
    <2>4. \A e \in CalendarDays : Before(e, d) => ~Before(DayBefore(d), e)
      BY <1>1, <1>2, <2>1, MonthsType DEF CalendarDays, Before, Date
    <2>5. Before(DayBefore(d), d)
      BY <1>1, <1>2, <2>1, MonthsType DEF Before, Date
    <2>6. QED
      BY <2>2, <2>3, <2>4, <2>5
  <1>3. CASE d.day = 1
    <2>1. d.month - 1 \in Months /\ DayBefore(d) = Date(d.month - 1, MonthDays[d.month - 1])
      BY <1>1, <1>3, MonthsType DEF DayBefore
    <2>2. QED
      BY <1>1, <1>3, <2>1, MonthsType DEF CalendarDays, DayAfter, Before, Date
  <1>4. QED
    BY <1>1, <1>2, <1>3

\* The boundaries of the windows follow one another up to the last one.
LEMMA Multiples ==
  ASSUME NEW k \in Nat, NEW n \in Nat, NEW s \in Nat, k < n
  PROVE  /\ k * s \in Nat /\ (k + 1) * s = k * s + s /\ (k + 1) * s <= n * s
         /\ n * s \in Nat
  <1>1. (k + 1) * s = k * s + s /\ k * s \in Nat
    BY Z3
  <1>2. n * s = (k + 1) * s + (n - (k + 1)) * s
    BY Z3
  <1>3. (n - (k + 1)) * s >= 0 /\ n * s \in Nat
    BY Z3
  <1>4. QED
    BY <1>1, <1>2, <1>3

LEMMA OptionsType ==
  ASSUME NEW o \in Options
  PROVE  /\ o.iterations \in Int /\ o.buckets \in Nat \ {0}
         /\ o.train \in BOOLEAN /\ o.strict \in BOOLEAN
         /\ o.anchor \in CalendarDays
         /\ Step(o) \in Nat \ {0} /\ Offset(o) \in Nat
         /\ Periods[o.trainPeriod] \in Nat \ {0} /\ Periods[o.validationPeriod] \in Nat \ {0}
         /\ o.train => Offset(o) = Periods[o.trainPeriod] + Periods[o.validationPeriod]
  BY OptionsAssumption, CalendarAssumption DEF CalendarDays, Step, Offset
\* The boundaries of the window of iteration k.
LEMMA WindowBounds ==
  ASSUME NEW o \in Options, Schedulable(o, Today), NEW k \in Nat, k < o.iterations,
         NEW s, s = AddMonths(o.anchor, Offset(o) + k * Step(o)),
         NEW n, n = AddMonths(o.anchor, Offset(o) + (k + 1) * Step(o)),
         NEW v, v = AddMonths(o.anchor, Periods[o.trainPeriod] + k * Step(o))
  PROVE  /\ s \in CalendarDays /\ n \in CalendarDays /\ s.month < n.month
         /\ n.month > 1 /\ ~Before(Today, n)
         /\ o.train => /\ v \in CalendarDays /\ v.month > 1
                       /\ o.anchor.month < v.month /\ v.month < s.month
         /\ Window(o, k).data = [start |-> s, end |-> DayBefore(n)]
         /\ o.train =>
              /\ Window(o, k).train = [start |-> o.anchor, end |-> DayBefore(v)]
              /\ Window(o, k).validation = [start |-> v, end |-> DayBefore(s)]
  <1> DEFINE off  == Offset(o)
             step == Step(o)
             from == k * step
             to   == (k + 1) * step
             all  == o.iterations * step
             last == AddMonths(o.anchor, off + all)
  <1>1. o.iterations \in Nat /\ o.anchor.month + off + all \in Months
        /\ ~Before(Today, last)
    BY OptionsType DEF Schedulable
  <1>2. step \in Nat \ {0} /\ off \in Nat /\ o.anchor \in CalendarDays
        /\ Periods[o.trainPeriod] \in Nat \ {0} /\ Periods[o.validationPeriod] \in Nat \ {0}
        /\ (o.train => off = Periods[o.trainPeriod] + Periods[o.validationPeriod])
    BY OptionsType
  <1>3. from \in Nat /\ to = from + step /\ to <= all /\ all \in Nat
    <2> HIDE DEF step
    <2>1. QED
      BY <1>1, <1>2, Multiples
  <1>4. Window(o, k).data = [start |-> s, end |-> DayBefore(n)]
        /\ (o.train => Window(o, k).train = [start |-> o.anchor, end |-> DayBefore(v)]
                       /\ Window(o, k).validation = [start |-> v, end |-> DayBefore(s)])
    BY DEF Window
  <1>5. o.anchor.month \in Months /\ o.anchor.month \in Nat \ {0}
    BY <1>2, MonthsType DEF CalendarDays
  <1> HIDE DEF off, step, from, to, all
  <1>6. /\ o.anchor.month + (off + from) \in Months
        /\ o.anchor.month + (off + to) \in Months
        /\ o.anchor.month + (off + all) \in Months
        /\ o.train => o.anchor.month + (Periods[o.trainPeriod] + from) \in Months
    <2>1. \A x \in Nat : x <= off + all => o.anchor.month + x \in Months
      <3>1. Months = 1..Len(MonthDays) /\ Len(MonthDays) \in Nat
        BY MonthsType
      <3>2. o.anchor.month + off + all <= Len(MonthDays)
        BY <3>1, <1>1
      <3>3. QED
        BY <3>1, <3>2, <1>2, <1>3, <1>5
    <2>2. /\ off + from \in Nat /\ off + from <= off + all
          /\ off + to \in Nat /\ off + to <= off + all
          /\ off + all \in Nat
      BY <1>2, <1>3
    <2>3. o.train => /\ Periods[o.trainPeriod] + from \in Nat
                     /\ Periods[o.trainPeriod] + from <= off + all
      BY <1>2, <1>3
    <2>4. QED
      BY <2>1, <2>2, <2>3
  <1>7. /\ s \in CalendarDays /\ s.month = o.anchor.month + (off + from)
        /\ n \in CalendarDays /\ n.month = o.anchor.month + (off + to)
        /\ last \in CalendarDays /\ last.month = o.anchor.month + (off + all)
    <2>1. s = AddMonths(o.anchor, off + from) /\ n = AddMonths(o.anchor, off + to)
      BY DEF off, step, from, to
    <2>2. off + from \in Nat /\ off + to \in Nat /\ off + all \in Nat
      BY <1>2, <1>3
    <2>3. QED
      BY <2>1, <2>2, <1>2, <1>6, Moved
  <1>8. o.train => v \in CalendarDays
                   /\ v.month = o.anchor.month + (Periods[o.trainPeriod] + from)
    <2>1. v = AddMonths(o.anchor, Periods[o.trainPeriod] + from)
      BY DEF step, from
    <2>2. Periods[o.trainPeriod] + from \in Nat
      BY <1>2, <1>3
    <2>3. QED
      BY <2>1, <2>2, <1>2, <1>6, Moved
  <1>9. ~Before(Today, n)
    <2>1. CASE to = all
      BY <2>1, <1>1 DEF off, step, to
    <2>2. CASE to < all
      <3>1. n.month < last.month /\ n.month \in Int /\ last.month \in Int
        BY <2>2, <1>2, <1>3, <1>5, <1>7
      <3>2. Today.month \in Int /\ ~(Today.month < last.month)
        BY <1>1, DatesAssumption DEF Before
      <3>3. QED
        BY <3>1, <3>2 DEF Before
    <2>3. QED
      BY <2>1, <2>2, <1>2, <1>3
  <1>10. s.month < n.month /\ n.month > 1
    BY <1>2, <1>3, <1>5, <1>7
  <1>11. o.train => /\ v \in CalendarDays /\ v.month > 1
                    /\ o.anchor.month < v.month /\ v.month < s.month
    BY <1>2, <1>3, <1>5, <1>7, <1>8
  <1>12. QED
    BY <1>4, <1>7, <1>9, <1>10, <1>11

\* What is schedulable tiles the calendar: the separation of windows rests on
\* every boundary being taken from the anchor (LoopOptions.schedule).
THEOREM SchedulesTile ==
  \A o \in Options : Schedulable(o, Today) => Tiles(Schedule(o), o, Today)
  <1> SUFFICES ASSUME NEW o \in Options, Schedulable(o, Today)
               PROVE  Tiles(Schedule(o), o, Today)
    OBVIOUS
  <1> DEFINE At(k) == AddMonths(o.anchor, Offset(o) + k * Step(o))
             Val(k) == AddMonths(o.anchor, Periods[o.trainPeriod] + k * Step(o))
  <1>1. o.iterations \in Nat \ {0} /\ o.anchor \in CalendarDays
    BY OptionsType DEF Schedulable
  <1>2. ASSUME NEW k \in Nat, k < o.iterations
        PROVE  /\ At(k) \in CalendarDays /\ At(k + 1) \in CalendarDays
               /\ At(k).month < At(k + 1).month
               /\ At(k + 1).month > 1 /\ ~Before(Today, At(k + 1))
               /\ o.train => /\ Val(k) \in CalendarDays /\ Val(k).month > 1
                             /\ o.anchor.month < Val(k).month /\ Val(k).month < At(k).month
               /\ Window(o, k).data = [start |-> At(k), end |-> DayBefore(At(k + 1))]
               /\ o.train =>
                    /\ Window(o, k).train = [start |-> o.anchor, end |-> DayBefore(Val(k))]
                    /\ Window(o, k).validation = [start |-> Val(k), end |-> DayBefore(At(k))]
    BY <1>2, WindowBounds
  <1> HIDE DEF At, Val
  <1>3. ASSUME NEW a \in CalendarDays, NEW b \in CalendarDays, a.month < b.month
        PROVE  ~Before(DayBefore(b), a) /\ DayAfter(DayBefore(b)) = b
               /\ Before(DayBefore(b), b)
    <2>1. a.month \in Nat \ {0} /\ b.month \in Nat
      BY MonthsType DEF CalendarDays
    <2>2. b.month > 1 /\ Before(a, b)
      BY <2>1, <1>3 DEF Before
    <2>3. QED
      BY <2>2, Yesterday
  <1>4. SUFFICES ASSUME NEW i \in 1..o.iterations
        PROVE  LET w == Schedule(o)[i]
               IN /\ Ordered(w.data) /\ Before(w.data.end, Today)
                  /\ i > 1 => w.data.start = DayAfter(Schedule(o)[i - 1].data.end)
                  /\ o.train =>
                       /\ Ordered(w.train) /\ Ordered(w.validation)
                       /\ w.train.start = o.anchor
                       /\ w.validation.start = DayAfter(w.train.end)
                       /\ w.data.start = DayAfter(w.validation.end)
    BY DEF Tiles, Schedule
  <1> DEFINE k == i - 1
             w == Window(o, k)
  <1>5. k \in Nat /\ k < o.iterations /\ Schedule(o)[i] = w
    BY <1>1 DEF Schedule
  <1>6. w.data = [start |-> At(k), end |-> DayBefore(At(k + 1))]
    BY <1>2, <1>5
  <1>7. Ordered(w.data)
    <2>1. ~Before(DayBefore(At(k + 1)), At(k))
      BY <1>2, <1>3, <1>5
    <2>2. QED
      BY <2>1, <1>6 DEF Ordered
  <1>8. Before(w.data.end, Today)
    <2>1. Before(DayBefore(At(k + 1)), At(k + 1)) /\ ~Before(Today, At(k + 1))
          /\ DayBefore(At(k + 1)) \in CalendarDays /\ At(k + 1) \in CalendarDays
      BY <1>2, <1>5, Yesterday
    <2>2. \A a, b \in CalendarDays : Before(a, b) /\ ~Before(Today, b) => Before(a, Today)
      BY DatesAssumption, MonthsType DEF CalendarDays, Before
    <2>3. QED
      BY <2>1, <2>2, <1>6
  <1>9. i > 1 => w.data.start = DayAfter(Schedule(o)[i - 1].data.end)
    <2> SUFFICES ASSUME i > 1 PROVE w.data.start = DayAfter(Schedule(o)[k].data.end)
      OBVIOUS
    <2> DEFINE j == k - 1
    <2>1. j \in Nat /\ j < o.iterations /\ Schedule(o)[k] = Window(o, j) /\ j + 1 = k
      BY <1>1 DEF Schedule
    <2>2. Window(o, j).data.end = DayBefore(At(k))
          /\ DayAfter(DayBefore(At(k))) = At(k)
      <3>1. At(j) \in CalendarDays /\ At(j + 1) \in CalendarDays /\ At(j).month < At(j + 1).month
            /\ Window(o, j).data = [start |-> At(j), end |-> DayBefore(At(j + 1))]
        BY <2>1, <1>2
      <3>2. At(j + 1) = At(k)
        BY <2>1
      <3>3. QED
        BY <3>1, <3>2, <1>3
    <2>3. QED
      BY <2>1, <2>2, <1>6
  <1>10. ASSUME o.train
         PROVE  /\ Ordered(w.train) /\ Ordered(w.validation)
                /\ w.train.start = o.anchor
                /\ w.validation.start = DayAfter(w.train.end)
                /\ w.data.start = DayAfter(w.validation.end)
    <2>1. /\ w.train = [start |-> o.anchor, end |-> DayBefore(Val(k))]
          /\ w.validation = [start |-> Val(k), end |-> DayBefore(At(k))]
          /\ Val(k) \in CalendarDays /\ At(k) \in CalendarDays
          /\ o.anchor.month < Val(k).month /\ Val(k).month < At(k).month
      BY <1>10, <1>2, <1>5
    <2>2. ~Before(DayBefore(Val(k)), o.anchor) /\ DayAfter(DayBefore(Val(k))) = Val(k)
      BY <2>1, <1>1, <1>3
    <2>3. ~Before(DayBefore(At(k)), Val(k)) /\ DayAfter(DayBefore(At(k))) = At(k)
      BY <2>1, <1>3
    <2>4. QED
      BY <2>1, <2>2, <2>3, <1>6 DEF Ordered
  <1>11. QED
    BY <1>5, <1>7, <1>8, <1>9, <1>10
-----------------------------------------------------------------------------
(* What the steps are made of. *)

LEMMA DaysAreDates == CalendarDays \subseteq Dates
  BY MonthsType DEF CalendarDays, Dates

\* The window of this iteration is one of the schedule.
LEMMA HereIs ==
  ASSUME TypeOK, Planned
  PROVE  /\ place \in Places /\ place \in Nat \X Nat
         /\ Here.data \in Spans
         /\ options.train => /\ Here.train.start \in Dates /\ Here.validation.end \in Dates
                             /\ DayAfter(Here.validation.end) = Here.data.start
  <1> DEFINE s == AddMonths(options.anchor, Offset(options) + iteration * Step(options))
             n == AddMonths(options.anchor, Offset(options) + (iteration + 1) * Step(options))
             v == AddMonths(options.anchor,
                            Periods[options.trainPeriod] + iteration * Step(options))
  <1>1. options \in Options /\ options.iterations \in Int /\ options.buckets \in Nat \ {0}
        /\ iteration \in Nat /\ iteration < options.iterations
        /\ bucket \in 1..options.buckets /\ Schedulable(options, Today)
    BY OptionsType DEF TypeOK, Planned
  <1>2. place \in Places /\ place \in Nat \X Nat
    BY <1>1 DEF place, Places
  <1>3. Here = Window(options, iteration)
    <2>1. Here = Schedule(options)[iteration + 1]
      BY <1>1 DEF Here, Planned
    <2>2. iteration + 1 \in 1..options.iterations /\ (iteration + 1) - 1 = iteration
      BY <1>1
    <2>3. QED
      BY <2>1, <2>2 DEF Schedule
  <1>4. /\ s \in CalendarDays /\ n \in CalendarDays /\ s.month < n.month
        /\ n.month > 1
        /\ options.train => v \in CalendarDays /\ v.month > 1
                            /\ options.anchor.month < v.month /\ v.month < s.month
        /\ Here.data = [start |-> s, end |-> DayBefore(n)]
        /\ options.train =>
             /\ Here.train = [start |-> options.anchor, end |-> DayBefore(v)]
             /\ Here.validation = [start |-> v, end |-> DayBefore(s)]
    <2> HIDE DEF s, n, v
    <2>1. s = AddMonths(options.anchor, Offset(options) + iteration * Step(options))
          /\ n = AddMonths(options.anchor, Offset(options) + (iteration + 1) * Step(options))
          /\ v = AddMonths(options.anchor,
                           Periods[options.trainPeriod] + iteration * Step(options))
      BY DEF s, n, v
    <2>2. QED
      BY <1>1, <1>3, <2>1, WindowBounds
  <1> HIDE DEF s, n, v
  <1>5. Here.data \in Spans
    BY <1>4, Yesterday, DaysAreDates DEF Spans
  <1>6. ASSUME options.train
        PROVE  /\ Here.train.start \in Dates /\ Here.validation.end \in Dates
               /\ DayAfter(Here.validation.end) = Here.data.start
    <2>1. s.month > 1
      BY <1>4, <1>6, MonthsType DEF CalendarDays
    <2>2. DayBefore(s) \in CalendarDays /\ DayAfter(DayBefore(s)) = s
      BY <2>1, <1>4, Yesterday
    <2>3. options.anchor \in CalendarDays
      BY <1>1, OptionsType
    <2>4. QED
      BY <2>2, <2>3, <1>4, <1>6, DaysAreDates
  <1>7. QED
    BY <1>2, <1>5, <1>6

\* This place is not one the loop has left.
LEMMA HereIsNotEarlier ==
  ASSUME TypeOK
  PROVE  ~Earlier(place)
  BY OptionsType DEF TypeOK, Earlier, place

\* What persisting a report changes: the file and perhaps the row of this place.
LEMMA PersistedFields ==
  ASSUME TypeOK, place \in Places, NEW r \in Reports, Persisted(r)
  PROVE  /\ clock' = clock + 1
         /\ audit' \in [Places -> Reports] /\ table' \in [Places -> Reports]
         /\ audit'[place] = [r EXCEPT !.updated = clock + 1]
         /\ table'[place] \in {table[place], audit'[place]}
         /\ \A p \in Places : p # place => audit'[p] = audit[p] /\ table'[p] = table[p]
  <1> DEFINE stamped == [r EXCEPT !.updated = clock + 1]
  <1>1. stamped \in Reports /\ clock' = clock + 1
    <2>1. clock + 1 \in Nat
      BY DEF TypeOK
    <2>2. stamped \in Reports
      BY <2>1 DEF Reports
    <2>3. clock' = clock + 1
      BY DEF Persisted
    <2>4. QED
      BY <2>2, <2>3
  <1>2. audit' = [audit EXCEPT ![place] = stamped]
        /\ (table' = table \/ table' = [table EXCEPT ![place] = stamped])
    BY DEF Persisted
  <1> HIDE DEF stamped
  <1>3. audit \in [Places -> Reports] /\ table \in [Places -> Reports]
    BY DEF TypeOK
  <1>4. audit' \in [Places -> Reports] /\ table' \in [Places -> Reports]
        /\ audit'[place] = stamped /\ table'[place] \in {table[place], stamped}
        /\ \A p \in Places : p # place => audit'[p] = audit[p] /\ table'[p] = table[p]
    BY <1>1, <1>2, <1>3
  <1>5. QED
    BY <1>1, <1>4 DEF stamped

LEMMA PersistedType ==
  ASSUME TypeOK, place \in Places, Persisted(report) \/ PersistFails
  PROVE  clock' \in Nat /\ audit' \in [Places -> Reports] /\ table' \in [Places -> Reports]
  <1>1. clock \in Nat /\ report \in Reports
    BY DEF TypeOK
  <1>2. CASE Persisted(report)
    <2>1. clock' = clock + 1 /\ audit' \in [Places -> Reports]
          /\ table' \in [Places -> Reports]
      BY <1>1, <1>2, PersistedFields
    <2>2. QED
      BY <1>1, <2>1
  <1>3. CASE PersistFails
    BY <1>3 DEF PersistFails, TypeOK
  <1>4. QED
    BY <1>2, <1>3

\* A new window, or the next bucket, leaves this place behind.
LEMMA Moves ==
  ASSUME TypeOK,
         \/ iteration' = iteration + 1 /\ bucket' = bucket
         \/ iteration' = 0 /\ bucket' = bucket + 1,
         NEW p \in Nat \X Nat, Earlier(p) \/ p = place
  PROVE  Earlier(p)'
  BY OptionsType DEF TypeOK, Earlier, place

-----------------------------------------------------------------------------
(* Types and plans. *)

LEMMA InitIInv == Init => IInv
  <1> SUFFICES ASSUME Init PROVE IInv
    OBVIOUS
  <1>1. options \in Options /\ options.buckets \in Nat \ {0}
    BY OptionsType DEF Init
  <1>2. TypeOK
    <2>1. NoReport \in Reports
      BY DEF NoReport, Reports, Statuses, Outcomes
    <2>2. QED
      BY <1>1, <2>1 DEF Init, TypeOK, Phases, Models
  <1>3. PlanInv /\ RunsInv /\ ModelInv
    BY DEF Init, PlanInv, RunsInv, OutOfSample, ModelInv
  <1>4. ArtifactsInv /\ ReportInv
    BY DEF Init, ArtifactsInv, ReportInv
  <1>5. TableInv
    BY DEF Init, TableInv, NoReport
  <1>6. QED
    BY <1>2, <1>3, <1>4, <1>5 DEF IInv

LEMMA PlanStep == TypeOK /\ PlanInv /\ [Next]_vars => PlanInv'
  <1> SUFFICES ASSUME TypeOK, PlanInv, [Next]_vars PROVE PlanInv'
    OBVIOUS
  <1> DEFINE Keeps == options' = options /\ plans' = plans
  <1>1. CASE Plan
    <2>1. options' = options /\ iteration' = iteration
      BY <1>1 DEF Plan, place
    <2>2. \/ phase' = "refused" /\ plans' = <<>>
          \/ /\ Schedulable(options, Today) /\ iteration < options.iterations
             /\ plans' = [b \in 1..options.buckets |-> Schedule(options)]
             /\ phase' \in {"assess", "backtest"}
             /\ phase' = "assess" => options.train
      <3>1. Schedulable(options, Today) => iteration < options.iterations
        BY <1>1, OptionsType DEF Schedulable, Plan, PlanInv, TypeOK
      <3>2. QED
        BY <1>1, <3>1 DEF Plan
    <2>3. QED
      BY <2>1, <2>2 DEF PlanInv, Planned
  <1>2. CASE Assess
    BY <1>2 DEF Assess, place, PlanInv, Planned
  <1>3. CASE Persist
    BY <1>3 DEF Persist, place, PlanInv, Planned
  <1>4. CASE Fit
    BY <1>4 DEF Fit, place, PlanInv, Planned
  <1>5. CASE Publish
    BY <1>5 DEF Publish, place, PlanInv, Planned
  <1>6. CASE Finalize
    BY <1>6 DEF Finalize, place, PlanInv, Planned
  <1>7. CASE AuditFailure
    BY <1>7 DEF AuditFailure, place, PlanInv, Planned
  <1>8. CASE Backtest
    <2>1. iteration' < options.iterations /\ options' = options /\ plans' = plans
          /\ (phase' \in {"assess", "backtest", "done", "failed"})
          /\ (phase' = "assess" => options.train)
      <3>1. iteration < options.iterations /\ options.iterations \in Int /\ iteration \in Nat
        BY <1>8, OptionsType DEF Backtest, PlanInv, Planned, TypeOK
      <3>2. QED
        BY <1>8, <3>1 DEF Backtest, place
    <2>2. QED
      BY <1>8, <2>1 DEF Backtest, PlanInv, Planned
  <1>9. CASE Dies
    BY <1>9 DEF Dies, place, PlanInv, Planned
  <1>10. CASE UNCHANGED vars
    BY <1>10 DEF vars, place, PlanInv, Planned
  <1>11. QED
    BY <1>1, <1>2, <1>3, <1>4, <1>5, <1>6, <1>7, <1>8, <1>9, <1>10 DEF Next
\* What a step leaves alone, when it is not one of the loop itself.
LEMMA WithinPlace ==
  ASSUME [Next]_vars, ~Plan, ~Backtest
  PROVE  options' = options /\ plans' = plans /\ bucket' = bucket /\ iteration' = iteration
         /\ runs' = runs /\ (artifacts \subseteq artifacts') /\ (model' = model \/ Publish)
         /\ (phase' = "done" => phase = "done")
  <1>1. CASE Assess
    BY <1>1 DEF Assess, place, diskVars
  <1>2. CASE Persist
    BY <1>2 DEF Persist, place, diskVars
  <1>3. CASE Fit
    BY <1>3 DEF Fit, place, diskVars
  <1>4. CASE Publish
    BY <1>4 DEF Publish, place, diskVars
  <1>5. CASE Finalize
    BY <1>5 DEF Finalize, place, diskVars
  <1>6. CASE AuditFailure
    BY <1>6 DEF AuditFailure, place, diskVars
  <1>7. CASE Dies
    BY <1>7 DEF Dies, place, diskVars
  <1>8. CASE UNCHANGED vars
    BY <1>8 DEF vars, place, diskVars
  <1>9. QED
    BY <1>1, <1>2, <1>3, <1>4, <1>5, <1>6, <1>7, <1>8 DEF Next

\* The manifest that is published.
LEMMA ManifestType ==
  ASSUME TypeOK, Planned, options.train
  PROVE  Manifest \in Manifests
  <1>1. place \in Nat \X Nat /\ Here.train.start \in Dates /\ Here.validation.end \in Dates
    BY HereIs
  <1>2. report.effective \in SUBSET Symbols
    BY DEF TypeOK, Reports
  <1>3. QED
    BY <1>1, <1>2 DEF Manifest, Manifests

LEMMA TypeStep == TypeOK /\ PlanInv /\ [Next]_vars => TypeOK'
  <1> SUFFICES ASSUME TypeOK, PlanInv, [Next]_vars PROVE TypeOK'
    OBVIOUS
  <1> USE DEF Phases
  <1>0. options.buckets \in Nat \ {0} /\ options.iterations \in Int
        /\ (Planned => place \in Places)
        /\ (options' = options => Places' = Places)
    BY OptionsType, HereIs DEF TypeOK, Places
  <1>1. CASE Plan
    <2>1. UNCHANGED <<options, bucket, iteration, report, audit, table, clock, artifacts, runs>>
          /\ phase' \in Phases
      BY <1>1 DEF Plan, place, auditVars, diskVars
    <2>2. QED
      BY <2>1, <1>0 DEF TypeOK
  <1>2. CASE Assess
    <2>1. UNCHANGED <<options, bucket, iteration, audit, table, clock, artifacts, runs>>
          /\ phase' \in Phases
      BY <1>2 DEF Assess, place, auditVars, diskVars
    <2>2. report' \in Reports
      <3>1. Symbols \in SUBSET Symbols /\ NoReport \in Reports
        BY DEF NoReport, Reports, Statuses, Outcomes
      <3>2. \A against \in SUBSET Symbols, global \in BOOLEAN :
              Assessed(against, global) \in Reports
        BY <3>1 DEF Assessed, NoReport, Reports, Statuses, Outcomes
      <3>3. [Unassessed EXCEPT !.outcome = "failed"] \in Reports
        BY <3>1 DEF Unassessed, NoReport, Reports, Statuses, Outcomes
      <3>4. QED
        BY <3>2, <3>3, <1>2 DEF Assess
    <2>3. QED
      BY <2>1, <2>2, <1>0 DEF TypeOK
  <1>3. CASE Persist
    <2>1. UNCHANGED <<options, bucket, iteration, artifacts, runs>> /\ phase' \in Phases
      BY <1>3 DEF Persist, place, diskVars
    <2>2. report' \in Reports
      BY <1>3 DEF Persist, TypeOK, Reports, Outcomes
    <2>3. clock' \in Nat /\ audit' \in [Places -> Reports] /\ table' \in [Places -> Reports]
      <3>1. Planned /\ (Persisted(report) \/ PersistFails)
        BY <1>3 DEF PlanInv, Persist
      <3>2. QED
        BY <3>1, <1>0, PersistedType
    <2>4. QED
      BY <2>1, <2>2, <2>3, <1>0 DEF TypeOK
  <1>4. CASE Fit
    <2>1. UNCHANGED <<options, bucket, iteration, audit, table, clock, artifacts, runs>>
          /\ phase' \in Phases
      BY <1>4 DEF Fit, place, auditVars
    <2>2. report' \in Reports
      BY <1>4 DEF Fit, TypeOK, Reports, Outcomes
    <2>3. QED
      BY <2>1, <2>2, <1>0 DEF TypeOK
  <1>5. CASE Publish
    <2>1. UNCHANGED <<options, bucket, iteration, audit, table, clock, runs>>
          /\ phase' \in Phases
      BY <1>5 DEF Publish, place, auditVars
    <2>2. Manifest \in Models
      <3>1. Planned /\ options.train
        BY <1>5 DEF Publish, PlanInv
      <3>2. QED
        BY <3>1, ManifestType DEF Models
    <2>3. report' \in Reports /\ artifacts' \subseteq Models
      <3> DEFINE m == Manifest
      <3>1. \/ artifacts' = artifacts \cup {m}
               /\ report' = [report EXCEPT !.outcome = "published", !.model = m]
            \/ artifacts' = artifacts
               /\ report' = [report EXCEPT !.outcome = "failed", !.model = NoModel]
        BY <1>5 DEF Publish
      <3>2. m \in Models
        BY <2>2
      <3> HIDE DEF m
      <3>3. artifacts \subseteq Models /\ report \in Reports
        BY DEF TypeOK
      <3>4. report' \in Reports
        BY <3>1, <3>2, <3>3 DEF Reports, Outcomes
      <3>5. QED
        BY <3>1, <3>2, <3>3, <3>4
    <2>4. QED
      BY <2>1, <2>3, <1>0 DEF TypeOK
  <1>6. ASSUME Persisted(report) \/ PersistFails, Planned,
               UNCHANGED <<options, place, report, artifacts, runs>>, phase' \in Phases
        PROVE  TypeOK'
    <2>1. clock' \in Nat /\ audit' \in [Places -> Reports] /\ table' \in [Places -> Reports]
      BY <1>0, <1>6, PersistedType
    <2>2. bucket' = bucket /\ iteration' = iteration
      BY <1>6 DEF place
    <2>3. QED
      BY <2>1, <2>2, <1>0, <1>6 DEF TypeOK
  <1>7. CASE Finalize
    BY <1>6, <1>7 DEF Finalize, diskVars, PlanInv
  <1>8. CASE AuditFailure
    BY <1>6, <1>8 DEF AuditFailure, diskVars, PlanInv
  <1>9. CASE Backtest
    <2>1. UNCHANGED <<options, audit, table, clock, artifacts>> /\ phase' \in Phases
      BY <1>9 DEF Backtest, auditVars, diskVars
    <2>2. bucket' \in 1..options.buckets /\ iteration' \in Nat
      <3>1. iteration + 1 <= options.iterations
        BY <1>9, <1>0 DEF Backtest, PlanInv, Planned, TypeOK
      <3>2. QED
        BY <1>0, <1>9, <3>1 DEF Backtest, TypeOK, place
    <2>3. report' \in Reports
      <3>1. NoReport \in Reports
        BY DEF NoReport, Reports, Statuses, Outcomes
      <3>2. report' \in {report, NoReport}
        BY <1>9 DEF Backtest
      <3>3. QED
        BY <3>1, <3>2 DEF TypeOK
    <2>4. runs' \in Seq(Runs)
      <3>1. [place |-> place, data |-> Here.data, model |-> model] \in Runs
            \/ model \notin artifacts
        BY <1>9, HereIs DEF Backtest, PlanInv, Runs, TypeOK
      <3>2. runs' = runs \/ (model \in artifacts
               /\ runs' = Append(runs, [place |-> place, data |-> Here.data, model |-> model]))
        BY <1>9 DEF Backtest
      <3>3. QED
        BY <3>1, <3>2 DEF TypeOK
    <2>5. QED
      BY <2>1, <2>2, <2>3, <2>4, <1>0 DEF TypeOK
  <1>10. CASE Dies
    BY <1>0, <1>10 DEF Dies, place, auditVars, diskVars, TypeOK
  <1>11. CASE UNCHANGED vars
    BY <1>0, <1>11 DEF vars, place, auditVars, diskVars, TypeOK
  <1>12. QED
    BY <1>1, <1>2, <1>3, <1>4, <1>5, <1>7, <1>8, <1>9, <1>10, <1>11 DEF Next
-----------------------------------------------------------------------------
(* The backtests that were made. *)

\* What the window after this place, or its end, does to the places.
LEMMA BacktestMoves ==
  ASSUME TypeOK, Planned, Backtest, NEW p \in Nat \X Nat, Earlier(p) \/ p = place
  PROVE  /\ phase' \notin {"done", "failed"} => Earlier(p)'
         /\ phase' \in {"done", "failed"} => (bucket' = bucket /\ iteration' = iteration)
  <1>1. \/ phase' \in {"done", "failed"} /\ place' = place
        \/ phase' \in {"assess", "backtest"} /\ iteration' = iteration + 1 /\ bucket' = bucket
        \/ phase' \in {"assess", "backtest"} /\ iteration' = 0 /\ bucket' = bucket + 1
    BY DEF Backtest
  <1>2. CASE phase' \in {"done", "failed"} /\ place' = place
    BY <1>2 DEF place
  <1>3. CASE /\ phase' \in {"assess", "backtest"}
             /\ \/ iteration' = iteration + 1 /\ bucket' = bucket
                \/ iteration' = 0 /\ bucket' = bucket + 1
    <2>1. Earlier(p)'
      BY <1>3, Moves
    <2>2. QED
      BY <1>3, <2>1
  <1>4. QED
    BY <1>1, <1>2, <1>3

LEMMA RunsStep ==
  TypeOK /\ PlanInv /\ RunsInv /\ ModelInv /\ [Next]_vars => RunsInv'
  <1> SUFFICES ASSUME TypeOK, PlanInv, RunsInv, ModelInv, [Next]_vars PROVE RunsInv'
    OBVIOUS
  <1>1. CASE Plan
    <2>1. UNCHANGED <<options, bucket, iteration, artifacts, runs>> /\ phase = "plan"
      BY <1>1 DEF Plan, place, diskVars
    <2>2. QED
      BY <2>1 DEF RunsInv, OutOfSample, Earlier
  <1>2. CASE ~Plan /\ ~Backtest
    <2>1. UNCHANGED <<options, bucket, iteration, runs>> /\ artifacts \subseteq artifacts'
          /\ (phase' = "done" => phase = "done")
          /\ (phase # "done" \/ UNCHANGED vars)
      <3>1. phase # "done" \/ UNCHANGED vars
        BY <1>2 DEF Next, Assess, Persist, Fit, Publish, Finalize, AuditFailure, Dies, Ended
      <3>2. QED
        BY <1>2, <3>1, WithinPlace
    <2>2. phase' # "done" => phase # "done"
      BY <2>1 DEF vars
    <2>3. QED
      BY <2>1, <2>2 DEF RunsInv, OutOfSample, Earlier
  <1>3. CASE Backtest
    <2>1. options' = options /\ artifacts' = artifacts /\ phase = "backtest" /\ Planned
      BY <1>3 DEF Backtest, diskVars, PlanInv
    <2>2. ASSUME runs' = runs, phase' = "failed"
          PROVE  RunsInv'
      <3>1. UNCHANGED <<bucket, iteration>>
        BY <1>3, <2>2 DEF Backtest, place
      <3>2. QED
        BY <2>1, <2>2, <3>1 DEF RunsInv, OutOfSample, Earlier
    <2>3. ASSUME model \in artifacts, Usable(model, Here.data.start),
                 runs' = Append(runs, [place |-> place, data |-> Here.data, model |-> model]),
                 phase' # "failed"
          PROVE  RunsInv'
      <3> DEFINE new == [place |-> place, data |-> Here.data, model |-> model]
      <3>1. /\ runs \in Seq(Runs) /\ Len(runs) \in Nat
            /\ DOMAIN runs = 1..Len(runs) /\ DOMAIN runs' = 1..(Len(runs) + 1)
            /\ \A k \in 1..Len(runs) : runs'[k] = runs[k] /\ runs[k].place \in Nat \X Nat
            /\ runs'[Len(runs) + 1] = new
        <4>1. runs \in Seq(Runs)
          BY DEF TypeOK
        <4>2. \A k \in 1..Len(runs) : runs[k].place \in Nat \X Nat
          <5>1. \A k \in 1..Len(runs) : runs[k] \in Runs
            BY <4>1
          <5>2. QED
            BY <5>1 DEF Runs
        <4>3. QED
          BY <4>1, <4>2, <2>3
      <3>2. \A k \in 1..Len(runs) : runs[k].place # place
        <4>1. \A k \in 1..Len(runs) : Earlier(runs[k].place)
          BY <2>1, <3>1 DEF RunsInv
        <4>2. QED
          BY <4>1, HereIsNotEarlier
      <3>3. /\ Before(model.validationEnd, Here.data.start)
            /\ Before(DiscoveryEnd, model.trainStart)
        BY <2>3 DEF Usable
      <3>4. options.train => model.place = place
                             /\ DayAfter(model.validationEnd) = Here.data.start
        BY <2>1, HereIs DEF ModelInv
      <3> HIDE DEF place
      <3>5. OutOfSample'
        <4> SUFFICES ASSUME NEW k \in 1..(Len(runs) + 1)
            PROVE  LET run == runs'[k]
                   IN /\ Before(run.model.validationEnd, run.data.start)
                      /\ Before(DiscoveryEnd, run.model.trainStart)
                      /\ options.train => /\ run.model.place = run.place
                                          /\ DayAfter(run.model.validationEnd) = run.data.start
                      /\ run.model \in artifacts
                      /\ \A l \in 1..(k - 1) : runs'[l].place # run.place
          BY <2>1, <3>1 DEF OutOfSample
        <4>1. \A l \in 1..(k - 1) : l \in 1..Len(runs)
          BY <3>1
        <4>2. CASE k = Len(runs) + 1
          BY <4>1, <4>2, <2>3, <3>1, <3>2, <3>3, <3>4
        <4>3. CASE k \in 1..Len(runs)
          BY <4>1, <4>3, <3>1 DEF RunsInv, OutOfSample
        <4>4. QED
          BY <4>2, <4>3, <3>1
      <3>6. ASSUME phase' # "done", NEW k \in DOMAIN runs', NEW p, p = runs'[k].place
            PROVE  p[1] < bucket' \/ (p[1] = bucket' /\ p[2] < iteration')
        <4>1. p \in Nat \X Nat /\ (Earlier(p) \/ p = place)
          <5>1. place \in Nat \X Nat
            BY <2>1, HereIs
          <5>2. CASE k = Len(runs) + 1
            BY <5>1, <5>2, <3>1, <3>6
          <5>3. CASE k \in 1..Len(runs)
            BY <5>3, <3>1, <2>1, <3>6 DEF RunsInv
          <5>4. QED
            BY <5>2, <5>3, <3>1, <3>6
        <4>2. \A q \in Nat \X Nat : (Earlier(q) \/ q = place) =>
                 (q[1] < bucket' \/ (q[1] = bucket' /\ q[2] < iteration'))
          BY <1>3, <2>1, <2>3, <3>6, BacktestMoves DEF Earlier
        <4>3. QED
          BY <4>1, <4>2
      <3>7. QED
        BY <3>5, <3>6 DEF RunsInv, Earlier
    <2>4. QED
      BY <1>3, <2>2, <2>3 DEF Backtest
  <1>4. QED
    BY <1>1, <1>2, <1>3

LEMMA ModelStep == TypeOK /\ PlanInv /\ ModelInv /\ [Next]_vars => ModelInv'
  <1> SUFFICES ASSUME TypeOK, PlanInv, ModelInv, [Next]_vars PROVE ModelInv'
    OBVIOUS
  <1>1. CASE Plan
    BY <1>1 DEF Plan, ModelInv
  <1>2. CASE Backtest
    BY <1>2 DEF Backtest, ModelInv, place, Here
  <1>3. CASE Publish
    <2>1. UNCHANGED <<options, plans, bucket, iteration>>
          /\ (model' = Manifest \/ phase' = "audit_failure")
      BY <1>3 DEF Publish, place
    <2>2. place' = place /\ Here' = Here
      BY <2>1 DEF place, Here
    <2>3. QED
      BY <2>1, <2>2 DEF ModelInv, Manifest
  <1>4. CASE ~Plan /\ ~Backtest /\ ~Publish
    <2>1. UNCHANGED <<options, plans, bucket, iteration, model>>
      BY <1>4, WithinPlace
    <2>2. place' = place /\ Here' = Here
      BY <2>1 DEF place, Here
    <2>3. phase' \in {"finalize", "backtest"} => phase \in {"finalize", "backtest"}
      BY <1>4 DEF Next, Assess, Persist, Fit, Finalize, AuditFailure, Dies, vars
    <2>4. QED
      BY <2>1, <2>2, <2>3 DEF ModelInv
  <1>5. QED
    BY <1>1, <1>2, <1>3, <1>4
-----------------------------------------------------------------------------
(* The audit trail. *)

\* The phases in which this place may have its artifact.
Published == {"finalize", "backtest", "failed", "done", "dead"}

\* What persisting, or failing to, does to the files.
LEMMA PersistedAudit ==
  ASSUME TypeOK, place \in Places, Persisted(report) \/ PersistFails,
         NEW p \in Places
  PROVE  \/ audit'[p] = audit[p]
         \/ p = place /\ audit'[p] = [report EXCEPT !.updated = clock + 1]
  <1>1. report \in Reports
    BY DEF TypeOK
  <1>2. CASE Persisted(report)
    BY <1>1, <1>2, PersistedFields
  <1>3. CASE PersistFails
    BY <1>3 DEF PersistFails
  <1>4. QED
    BY <1>2, <1>3

\* Only the time stamp changes.
LEMMA StampedFields ==
  ASSUME NEW r \in Reports, NEW t \in Nat, NEW s, s = [r EXCEPT !.updated = t]
  PROVE  /\ s.updated = t /\ s.outcome = r.outcome /\ s.model = r.model
         /\ \A c : Accepts(s, c) <=> Accepts(r, c)
  BY DEF Reports, Accepts

LEMMA ArtifactsStep ==
  TypeOK /\ PlanInv /\ ArtifactsInv /\ ReportInv /\ [Next]_vars => ArtifactsInv'
  <1> SUFFICES ASSUME TypeOK, PlanInv, ArtifactsInv, ReportInv, [Next]_vars
               PROVE  ArtifactsInv'
    OBVIOUS
  <1>0. /\ Planned => place \in Places
        /\ options' = options => Places' = Places
    BY HereIs DEF Places
  <1>1. ASSUME UNCHANGED <<options, bucket, iteration, artifacts, audit>>,
               phase \in Published => phase' \in Published
        PROVE  ArtifactsInv'
    BY <1>0, <1>1 DEF ArtifactsInv, Earlier, place, Published, Accepts
  <1>2. CASE Plan \/ Assess \/ Fit \/ Dies \/ UNCHANGED vars
    <2>1. UNCHANGED <<options, bucket, iteration, artifacts, audit>>
          /\ (phase \in Published => phase' \in Published)
      BY <1>2 DEF Plan, Assess, Fit, Dies, vars, place, auditVars, diskVars, Published
    <2>2. QED
      BY <2>1, <1>1
  <1>3. ASSUME UNCHANGED <<options, bucket, iteration, artifacts>>, Planned,
               Persisted(report) \/ PersistFails,
               phase \notin Published \/ (phase = "finalize" /\ phase' = "backtest")
        PROVE  ArtifactsInv'
    <2> SUFFICES ASSUME NEW a \in artifacts \ GivenModels
        PROVE  /\ a.place \in Places
               /\ Earlier(a.place) \/ (a.place = place /\ phase' \in Published)
               /\ Accepts(audit'[a.place], a.cohort) /\ audit'[a.place].outcome # "failed"
      BY <1>0, <1>3 DEF ArtifactsInv, Earlier, place, Published, Accepts
    <2>1. /\ a.place \in Places
          /\ Earlier(a.place) \/ (a.place = place /\ phase \in Published)
          /\ Accepts(audit[a.place], a.cohort) /\ audit[a.place].outcome # "failed"
      BY DEF ArtifactsInv, Published
    <2>2. CASE audit'[a.place] = audit[a.place]
      BY <2>1, <2>2, <1>3 DEF Published
    <2>3. CASE a.place = place /\ audit'[a.place] = [report EXCEPT !.updated = clock + 1]
      <3>1. phase = "finalize" /\ phase' = "backtest"
        BY <2>1, <2>3, <1>3, HereIsNotEarlier
      <3>2. Accepts(report, report.effective) /\ report.outcome = "published"
            /\ a.cohort = report.effective
        BY <2>3, <3>1 DEF ReportInv
      <3>3. report \in Reports /\ clock + 1 \in Nat
        BY DEF TypeOK
      <3>4. QED
        BY <2>1, <2>3, <3>1, <3>2, <3>3, StampedFields DEF Published
    <2>4. QED
      BY <2>1, <2>2, <2>3, <1>0, <1>3, PersistedAudit
  <1>4. CASE Persist \/ AuditFailure \/ Finalize
    <2>1. UNCHANGED <<options, bucket, iteration, artifacts>> /\ Planned
          /\ (Persisted(report) \/ PersistFails)
          /\ (phase \notin Published \/ (phase = "finalize" /\ phase' = "backtest"))
      BY <1>4 DEF Persist, AuditFailure, Finalize, place, diskVars, PlanInv, Published
    <2>2. QED
      BY <2>1, <1>3
  <1>5. CASE Publish
    <2>1. UNCHANGED <<options, bucket, iteration, audit>> /\ Planned /\ phase = "publish"
      BY <1>5 DEF Publish, place, auditVars, PlanInv
    <2>2. CASE UNCHANGED artifacts
      BY <1>1, <2>1, <2>2 DEF Published
    <2>3. CASE artifacts' = artifacts \cup {Manifest} /\ phase' = "finalize"
      <3>1. Accepts(audit[place], report.effective) /\ audit[place].outcome = "pending"
        BY <2>1 DEF ReportInv
      <3>2. Manifest.place = place /\ Manifest.cohort = report.effective
        BY DEF Manifest
      <3>3. \A a \in artifacts' \ GivenModels :
              a = Manifest \/ a \in artifacts \ GivenModels
        BY <2>3
      <3> HIDE DEF place, Manifest
      <3>4. ASSUME NEW a \in artifacts' \ GivenModels
            PROVE  /\ a.place \in Places
                   /\ Earlier(a.place) \/ (a.place = place /\ phase' \in Published)
                   /\ Accepts(audit[a.place], a.cohort) /\ audit[a.place].outcome # "failed"
        <4>1. CASE a = Manifest
          BY <4>1, <1>0, <2>1, <2>3, <3>1, <3>2 DEF Published
        <4>2. CASE a \in artifacts \ GivenModels
          BY <4>2, <2>1, <2>3 DEF ArtifactsInv, Published
        <4>3. QED
          BY <3>3, <4>1, <4>2
      <3>5. QED
        BY <3>4, <2>1, <1>0 DEF ArtifactsInv, Earlier, place, Published, Accepts
    <2>4. QED
      BY <1>5, <2>2, <2>3 DEF Publish
  <1>6. CASE Backtest
    <2>1. UNCHANGED <<options, artifacts, audit>> /\ Planned /\ phase = "backtest"
      BY <1>6 DEF Backtest, auditVars, diskVars, PlanInv
    <2>2. ASSUME NEW p \in Nat \X Nat, Earlier(p) \/ p = place
          PROVE  \/ p[1] < bucket' \/ (p[1] = bucket' /\ p[2] < iteration')
                 \/ phase' \in {"done", "failed"} /\ bucket' = bucket /\ iteration' = iteration
      BY <1>6, <2>1, <2>2, BacktestMoves DEF Earlier
    <2>3. ASSUME NEW a \in artifacts \ GivenModels
          PROVE  /\ a.place \in Places /\ a.place \in Nat \X Nat
                 /\ Earlier(a.place) \/ a.place = place
                 /\ Accepts(audit[a.place], a.cohort) /\ audit[a.place].outcome # "failed"
      <3>1. Places \subseteq Nat \X Nat
        BY OptionsType DEF Places, TypeOK
      <3>2. QED
        BY <3>1 DEF ArtifactsInv
    <2>4. ASSUME NEW a \in artifacts \ GivenModels
          PROVE  \/ a.place[1] < bucket' \/ (a.place[1] = bucket' /\ a.place[2] < iteration')
                 \/ a.place = place' /\ phase' \in Published
      <3>1. CASE a.place = place /\ bucket' = bucket /\ iteration' = iteration
                 /\ phase' \in {"done", "failed"}
        BY <3>1 DEF Published, place
      <3>2. CASE Earlier(a.place) /\ bucket' = bucket /\ iteration' = iteration
        BY <3>2 DEF Earlier
      <3>3. QED
        BY <2>2, <2>3, <3>1, <3>2
    <2>5. QED
      BY <1>0, <2>1, <2>3, <2>4 DEF ArtifactsInv, Earlier, Published, Accepts
  <1>7. QED
    BY <1>2, <1>4, <1>5, <1>6 DEF Next
\* What the assessment keeps is what may be fitted on, or it is rejected.
LEMMA AssessedAccepts ==
  ASSUME options.strict \in BOOLEAN, NEW against \in SUBSET Symbols, NEW global \in BOOLEAN,
         NEW r, r = Assessed(against, global)
  PROVE  /\ r.outcome = "pending"
         /\ r.status = "rejected" \/ Accepts(r, r.effective)
  <1> DEFINE kept == Symbols \ against
             status == IF global \/ Cardinality(kept) < MinSymbols
                          \/ (options.strict /\ against # {})
                       THEN "rejected"
                       ELSE IF against # {} THEN "passed_with_exclusions" ELSE "passed"
  <1>1. /\ r.status = status /\ r.outcome = "pending"
        /\ r.effective = IF global THEN {} ELSE kept
    BY DEF Assessed, NoReport
  <1>2. Cardinality(kept) \in Nat
    <2>1. IsFiniteSet(kept)
      BY SymbolsAssumption, FS_Subset
    <2>2. QED
      BY <2>1, FS_CardinalityType
  <1>3. CASE status # "rejected"
    <2>1. ~global /\ Cardinality(kept) >= MinSymbols /\ (options.strict => against = {})
          /\ status \in {"passed", "passed_with_exclusions"}
      BY <1>2, <1>3, MinSymbolsAssumption
    <2>2. options.strict => kept = Symbols
      BY <2>1
    <2>3. QED
      BY <1>1, <2>1, <2>2 DEF Accepts
  <1>4. QED
    BY <1>1, <1>3

LEMMA ReportStep ==
  TypeOK /\ PlanInv /\ ArtifactsInv /\ ReportInv /\ [Next]_vars => ReportInv'
  <1> SUFFICES ASSUME TypeOK, PlanInv, ArtifactsInv, ReportInv, [Next]_vars
               PROVE  ReportInv'
    OBVIOUS
  <1>0. options.strict \in BOOLEAN /\ (Planned => place \in Places) /\ report \in Reports
    BY OptionsType, HereIs DEF TypeOK
  <1>1. CASE Plan \/ Dies \/ Finalize \/ AuditFailure \/ Backtest
    <2>1. phase' \notin {"persist", "fit", "publish", "finalize", "audit_failure"}
      BY <1>1 DEF Plan, Dies, Finalize, AuditFailure, Backtest
    <2>2. QED
      BY <2>1 DEF ReportInv
  <1>2. CASE UNCHANGED vars
    <2>1. UNCHANGED <<options, phase, bucket, iteration, report, audit, artifacts>>
      BY <1>2 DEF vars, place, auditVars, diskVars
    <2>2. QED
      BY <2>1 DEF ReportInv, Accepts, place
  <1>3. CASE Assess
    <2>1. CASE phase' = "persist"
      <3>1. PICK against \in SUBSET Symbols, global \in BOOLEAN :
              report' = Assessed(against, global)
        BY <1>3, <2>1 DEF Assess
      <3>2. options' = options
        BY <1>3 DEF Assess
      <3>3. report'.outcome = "pending"
            /\ (report'.status = "rejected" \/ Accepts(report', report'.effective))
        BY <1>0, <3>1, AssessedAccepts
      <3>4. QED
        BY <2>1, <3>2, <3>3 DEF ReportInv, Accepts
    <2>2. CASE phase' = "audit_failure"
      <3>1. report'.outcome = "failed"
        BY <1>3, <2>2 DEF Assess, Unassessed, NoReport
      <3>2. QED
        BY <2>2, <3>1 DEF ReportInv
    <2>3. QED
      BY <1>3, <2>1, <2>2 DEF Assess
  <1>4. CASE Persist
    <2>1. CASE phase' = "fit"
      <3>1. UNCHANGED <<options, bucket, iteration, report>> /\ report.outcome = "pending"
            /\ Accepts(report, report.effective) /\ Planned /\ Persisted(report)
        BY <1>4, <2>1 DEF Persist, ReportInv, PlanInv, place
      <3>2. audit'[place] = [report EXCEPT !.updated = clock + 1]
        BY <1>0, <3>1, PersistedFields
      <3>3. clock + 1 \in Nat
        BY DEF TypeOK
      <3>4. Accepts(audit'[place], report.effective) /\ audit'[place].outcome = "pending"
        BY <1>0, <3>1, <3>2, <3>3, StampedFields
      <3>5. QED
        BY <2>1, <3>1, <3>4 DEF ReportInv, Accepts, place
    <2>2. CASE phase' = "audit_failure"
      <3>1. report' = [report EXCEPT !.outcome = "failed"]
        BY <1>4, <2>2 DEF Persist
      <3>2. QED
        BY <2>2, <3>1, <1>0 DEF ReportInv, Reports
    <2>3. QED
      BY <1>4, <2>1, <2>2 DEF Persist
  <1>5. CASE Fit
    <2>1. CASE phase' = "publish"
      <3>1. UNCHANGED <<options, bucket, iteration, report, audit>> /\ phase = "fit"
        BY <1>5, <2>1 DEF Fit, place, auditVars
      <3>2. QED
        BY <2>1, <3>1 DEF ReportInv, Accepts, place
    <2>2. CASE phase' = "audit_failure"
      <3>1. report' = [report EXCEPT !.outcome = "failed"]
        BY <1>5, <2>2 DEF Fit
      <3>2. QED
        BY <2>2, <3>1, <1>0 DEF ReportInv, Reports
    <2>3. QED
      BY <1>5, <2>1, <2>2 DEF Fit
  <1>6. CASE Publish
    <2>1. CASE phase' = "finalize"
      <3> DEFINE m == Manifest
      <3>1. /\ UNCHANGED <<options, bucket, iteration>> /\ phase = "publish"
            /\ artifacts' = artifacts \cup {m}
            /\ report' = [report EXCEPT !.outcome = "published", !.model = m]
        BY <1>6, <2>1 DEF Publish, place
      <3>2. m.cohort = report.effective
        BY DEF Manifest
      <3>3. \A a \in artifacts \ GivenModels : a.place # place
        BY <3>1, HereIsNotEarlier DEF ArtifactsInv
      <3> HIDE DEF m
      <3>4. report'.outcome = "published" /\ report'.model \in artifacts'
            /\ report'.effective = report.effective /\ report'.status = report.status
        BY <1>0, <3>1 DEF Reports
      <3>5. Accepts(report', report'.effective)
        BY <3>1, <3>4 DEF ReportInv, Accepts
      <3>6. \A a \in artifacts' \ GivenModels : a.place = place => a.cohort = report'.effective
        BY <3>1, <3>2, <3>3, <3>4
      <3>7. QED
        BY <2>1, <3>1, <3>4, <3>5, <3>6 DEF ReportInv, Accepts, place
    <2>2. CASE phase' = "audit_failure"
      <3>1. report' = [report EXCEPT !.outcome = "failed", !.model = NoModel]
        BY <1>6, <2>2 DEF Publish
      <3>2. QED
        BY <2>2, <3>1, <1>0 DEF ReportInv, Reports
    <2>3. QED
      BY <1>6, <2>1, <2>2 DEF Publish
  <1>7. QED
    BY <1>1, <1>2, <1>3, <1>4, <1>5, <1>6 DEF Next

LEMMA TableStep ==
  TypeOK /\ PlanInv /\ ReportInv /\ TableInv /\ [Next]_vars => TableInv'
  <1> SUFFICES ASSUME TypeOK, PlanInv, ReportInv, TableInv, [Next]_vars
               PROVE  TableInv'
    OBVIOUS
  <1>0. (Planned => place \in Places) /\ report \in Reports /\ clock \in Nat
        /\ (options' = options => Places' = Places)
        /\ (\A p \in Places : audit[p] \in Reports /\ table[p] \in Reports)
    BY HereIs DEF TypeOK, Places
  <1>1. CASE Plan \/ Assess \/ Fit \/ Publish \/ Backtest \/ Dies \/ UNCHANGED vars
    <2>1. UNCHANGED <<options, audit, table, clock>> /\ artifacts \subseteq artifacts'
      BY <1>1 DEF Plan, Assess, Fit, Publish, Backtest, Dies, vars, auditVars, diskVars
    <2>2. QED
      BY <2>1, <1>0 DEF TableInv
  <1>2. CASE Persist \/ AuditFailure \/ Finalize
    <2>1. options' = options /\ artifacts' = artifacts /\ Planned
          /\ (Persisted(report) \/ PersistFails)
      BY <1>2 DEF Persist, AuditFailure, Finalize, diskVars, PlanInv
    <2>2. report.outcome = "published" => report.model \in artifacts
      BY <1>2 DEF Persist, AuditFailure, Finalize, ReportInv
    <2>3. CASE PersistFails
      <3>1. clock' = clock + 1 /\ audit' = audit /\ table' = table
        BY <2>3 DEF PersistFails
      <3>2. \A p \in Places : audit[p].updated \in Nat
        BY <1>0 DEF Reports
      <3>3. QED
        BY <1>0, <2>1, <3>1, <3>2 DEF TableInv
    <2>4. CASE Persisted(report)
      <3> DEFINE s == [report EXCEPT !.updated = clock + 1]
      <3>1. /\ clock' = clock + 1 /\ audit'[place] = s /\ table'[place] \in {table[place], s}
            /\ \A p \in Places : p # place => audit'[p] = audit[p] /\ table'[p] = table[p]
        BY <1>0, <2>1, <2>4, PersistedFields
      <3>2. s.updated = clock + 1 /\ s.outcome = report.outcome /\ s.model = report.model
        BY <1>0, StampedFields
      <3> HIDE DEF s
      <3>3. SUFFICES ASSUME NEW p \in Places
            PROVE  /\ audit'[p].outcome = "published" => audit'[p].model \in artifacts
                   /\ table'[p].updated <= audit'[p].updated /\ audit'[p].updated <= clock'
                   /\ table'[p].updated = audit'[p].updated => table'[p] = audit'[p]
        BY <1>0, <2>1 DEF TableInv
      <3>4. /\ audit[p].outcome = "published" => audit[p].model \in artifacts
            /\ table[p].updated <= audit[p].updated /\ audit[p].updated <= clock
            /\ table[p].updated = audit[p].updated => table[p] = audit[p]
            /\ table[p].updated \in Nat /\ audit[p].updated \in Nat
        BY <1>0 DEF TableInv, Reports
      <3>5. CASE p # place
        BY <1>0, <3>1, <3>4, <3>5
      <3>6. CASE p = place /\ table'[p] = s
        BY <1>0, <2>2, <3>1, <3>2, <3>6
      <3>7. CASE p = place /\ table'[p] = table[p]
        BY <1>0, <2>2, <3>1, <3>2, <3>4, <3>7
      <3>8. QED
        BY <3>1, <3>5, <3>6, <3>7
    <2>5. QED
      BY <2>1, <2>3, <2>4
  <1>3. QED
    BY <1>1, <1>2 DEF Next

-----------------------------------------------------------------------------
(* The theorems. *)

\* The invariant of the loop is inductive: what is planned, what was run, and
\* what memory, the files, the rows and the artifacts say of each place.
THEOREM Inductive == Spec => []IInv
  <1>1. Init => IInv
    BY InitIInv
  <1>2. IInv /\ [Next]_vars => IInv'
    BY TypeStep, PlanStep, RunsStep, ModelStep, ArtifactsStep, ReportStep, TableStep
    DEF IInv
  <1>3. QED
    BY <1>1, <1>2, PTL DEF Spec

\* Every variable of the loop keeps to its type (LoopResult, AssessmentReport).
THEOREM TypeCorrect == Spec => []TypeOK
  <1>1. IInv => TypeOK
    BY DEF IInv
  <1>2. QED
    BY <1>1, Inductive, PTL

\* Whatever the calendar, the windows the loop runs follow one another without
\* a gap or an overlap and end before today (LoopOptions.schedule).
THEOREM WindowsHold == Spec => []WindowsTile
  <1>1. IInv => WindowsTile
    <2> SUFFICES ASSUME IInv PROVE WindowsTile
      OBVIOUS
    <2>1. CASE plans = <<>>
      BY <2>1 DEF WindowsTile
    <2>2. CASE Planned
      <3>1. options \in Options /\ Schedulable(options, Today)
        BY <2>2 DEF Planned, IInv, TypeOK
      <3>2. Tiles(Schedule(options), options, Today)
        BY <3>1, SchedulesTile
      <3>3. QED
        BY <2>2, <3>2 DEF WindowsTile, Planned
    <2>3. QED
      BY <2>1, <2>2 DEF IInv, PlanInv
  <1>2. QED
    BY <1>1, Inductive, PTL

\* No backtest of the loop sees data its model was trained or validated on,
\* and none replaces another: the model is checked again for each window, and
\* is the one its own iteration published (execute_loop, validate_artifact).
THEOREM OutOfSampleHolds == Spec => []OutOfSample
  <1>1. IInv => OutOfSample
    BY DEF IInv, RunsInv
  <1>2. QED
    BY <1>1, Inductive, PTL

\* Wherever the process dies or a write fails, an artifact has an assessment on
\* disk that accepted its cohort, and no row is ahead of its file
\* (train_model, persist_assessment).
THEOREM AuditTrailHolds == Spec => []AuditTrail
  <1>1. IInv => AuditTrail
    BY DEF IInv, ArtifactsInv, TableInv, Accepts, AuditTrail
  <1>2. QED
    BY <1>1, Inductive, PTL
=============================================================================
