------------------------------ MODULE RoundTrips ------------------------------
(***************************************************************************)
(* match_round_trips (analysis/metrics.py): fills are matched first in first *)
(* out into round trips. A trade is [symbol, side, qty, price, time]; what   *)
(* is left open is a deque of lots for each symbol and direction. The        *)
(* decision a trip is annotated with is left out.                            *)
(***************************************************************************)
EXTENDS Integers, Sequences, SequencesExt

Opened(side)  == IF side = "buy" THEN "long" ELSE "short"
Closed(side)  == IF side = "buy" THEN "short" ELSE "long"
Signed(dir)   == IF dir = "long" THEN 1 ELSE -1
Smaller(a, b) == IF a < b THEN a ELSE b

Trip(trade, lot, matched) ==
  [symbol |-> trade.symbol, direction |-> Closed(trade.side), qty |-> matched,
   entry |-> lot.price, exit |-> trade.price,
   pnl |-> Signed(Closed(trade.side)) * (trade.price - lot.price) * matched,
   openedAt |-> lot.time, closedAt |-> trade.time]

\* One lot of the closing deque: as much of it as the fill still wants.
MatchLot(trade, acc, lot) ==
  LET matched == Smaller(acc.remaining, lot.qty) IN
  [remaining |-> acc.remaining - matched,
   kept  |-> IF matched = lot.qty THEN acc.kept
             ELSE Append(acc.kept, [lot EXCEPT !.qty = @ - matched]),
   trips |-> IF matched = 0 THEN acc.trips ELSE Append(acc.trips, Trip(trade, lot, matched))]

\* The lots of the closing deque, oldest first, as far as the fill reaches.
MatchLots(trade, lots) ==
  FoldLeft(LAMBDA acc, lot : MatchLot(trade, acc, lot),
           [remaining |-> trade.qty, kept |-> <<>>, trips |-> <<>>], lots)

\* One fill: it closes opposite lots, and what remains opens a lot.
MatchTrade(acc, trade) ==
  LET close == <<trade.symbol, Closed(trade.side)>>
      open  == <<trade.symbol, Opened(trade.side)>>
      m     == MatchLots(trade, acc.lots[close])
      lot   == [qty |-> m.remaining, price |-> trade.price, time |-> trade.time]
  IN  [lots  |-> [acc.lots EXCEPT ![close] = m.kept,
                                  ![open]  = IF m.remaining > 0 THEN Append(@, lot) ELSE @],
       trips |-> acc.trips \o m.trips]

\* match_round_trips over trades in the order of their times.
Match(symbols, trades) ==
  FoldLeft(MatchTrade,
           [lots |-> [k \in symbols \X {"long", "short"} |-> <<>>], trips |-> <<>>], trades)

SumPnl(trips) == SumFunction([i \in DOMAIN trips |-> trips[i].pnl])
===============================================================================
