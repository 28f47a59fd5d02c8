---------------------------- MODULE LoopSchedule ----------------------------
(***************************************************************************)
(* The calendar of a research loop (backtest/loop.py): every boundary is   *)
(* the anchor moved by whole months, clamped to the length of the month it *)
(* falls in.  A date is a month number and a day.                          *)
(***************************************************************************)
EXTENDS Integers, Sequences

CONSTANTS
  MonthDays,   \* the length of each month number
  Periods      \* the months in each period

\* Months and periods are not empty.
ASSUME CalendarAssumption ==
  /\ MonthDays \in Seq(Nat \ {0})
  /\ \A p \in DOMAIN Periods : Periods[p] \in Nat \ {0}

Date(m, d) == [month |-> m, day |-> d]
Months == DOMAIN MonthDays
Earliest(a, b) == IF a < b THEN a ELSE b

Before(a, b) == a.month < b.month \/ (a.month = b.month /\ a.day < b.day)

\* add_months: always from the anchor, never from a clamped boundary.
AddMonths(anchor, months) ==
  LET month == anchor.month + months
  IN Date(month, Earliest(anchor.day, MonthDays[month]))

DayBefore(d) ==
  IF d.day > 1 THEN Date(d.month, d.day - 1)
  ELSE Date(d.month - 1, MonthDays[d.month - 1])

DayAfter(d) ==
  IF d.day < MonthDays[d.month] THEN Date(d.month, d.day + 1) ELSE Date(d.month + 1, 1)

Offset(o) == IF o.train THEN Periods[o.trainPeriod] + Periods[o.validationPeriod] ELSE 0
Step(o) == Periods[o.backtestPeriod]

\* schedule refuses before it allocates: the last boundary is checked first.
Schedulable(o, today) ==
  /\ o.iterations >= 1
  /\ o.anchor.month + Offset(o) + o.iterations * Step(o) \in Months
  /\ ~Before(today, AddMonths(o.anchor, Offset(o) + o.iterations * Step(o)))

\* Mutant of Window: a window ends one period after its clamped start.
WindowChained(o, i) ==
  LET start == AddMonths(o.anchor, Offset(o) + i * Step(o))
      validation == AddMonths(o.anchor, Periods[o.trainPeriod] + i * Step(o))
      data == [start |-> start, end |-> DayBefore(AddMonths(start, Step(o)))]
  IN IF ~o.train THEN [data |-> data]
     ELSE [data |-> data,
           train |-> [start |-> o.anchor, end |-> DayBefore(validation)],
           validation |-> [start |-> validation, end |-> DayBefore(start)]]

\* LoopOptions.schedule: the window of iteration i, counted from 0.
Window(o, i) ==
  LET start == AddMonths(o.anchor, Offset(o) + i * Step(o))
      next == AddMonths(o.anchor, Offset(o) + (i + 1) * Step(o))
      validation == AddMonths(o.anchor, Periods[o.trainPeriod] + i * Step(o))
      data == [start |-> start, end |-> DayBefore(next)]
  IN IF ~o.train THEN [data |-> data]
     ELSE [data |-> data,
           train |-> [start |-> o.anchor, end |-> DayBefore(validation)],
           validation |-> [start |-> validation, end |-> DayBefore(start)]]

Ordered(w) == ~Before(w.end, w.start)

\* LoopOptions.schedule.
Schedule(o) == [k \in 1..o.iterations |-> Window(o, k - 1)]

\* What a schedule has to be, whatever the lengths of the months: the
\* backtest windows follow one another without a gap or an overlap and end
\* before today; each training starts at the anchor and is followed by its
\* validation, which is followed by its backtest.
Tiles(windows, o, today) ==
  \A k \in DOMAIN windows :
    LET w == windows[k]
    IN /\ Ordered(w.data) /\ Before(w.data.end, today)
       /\ k > 1 => w.data.start = DayAfter(windows[k - 1].data.end)
       /\ o.train =>
            /\ Ordered(w.train) /\ Ordered(w.validation)
            /\ w.train.start = o.anchor
            /\ w.validation.start = DayAfter(w.train.end)
            /\ w.data.start = DayAfter(w.validation.end)
=============================================================================
