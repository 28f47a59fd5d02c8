---------------------------- MODULE WindowCache -----------------------------
(***************************************************************************)
(* The read-through cache of one process (optimize/bars_cache.py).  A bar  *)
(* is its instant; a fetch at an instant "now" returns the bars of its     *)
(* window that exist by then, and an entry keeps what it was given.        *)
(***************************************************************************)
EXTENDS Integers

NoEntry == [start |-> 0, end |-> 0, bars |-> {}]

EarlierOf(a, b) == IF a < b THEN a ELSE b
LaterOf(a, b) == IF a < b THEN b ELSE a

\* What upstream answers at this moment, [start, end).
Existing(start, end, now) == {t \in start..(end - 1) : t < now}

Slice(bars, start, end) == {t \in bars : start <= t /\ t < end}

Covers(entry, start, end) == entry # NoEntry /\ entry.start <= start /\ end <= entry.end

\* Mutant of Widened: only the missing part is fetched, and replaces the rest.
WidenedByGap(entry, start, end, now) ==
  IF Covers(entry, start, end) THEN entry
  ELSE IF entry = NoEntry THEN [start |-> start, end |-> end, bars |-> Existing(start, end, now)]
  ELSE [start |-> EarlierOf(start, entry.start), end |-> LaterOf(end, entry.end),
        bars |-> Existing(start, entry.start, now)]

\* BarsCache.__call__: the entry after the request; the caller gets its slice.
Widened(entry, start, end, now) ==
  IF Covers(entry, start, end) THEN entry
  ELSE LET from == IF entry = NoEntry THEN start ELSE EarlierOf(start, entry.start)
           to == IF entry = NoEntry THEN end ELSE LaterOf(end, entry.end)
       IN [start |-> from, end |-> to, bars |-> Existing(from, to, now)]
=============================================================================
