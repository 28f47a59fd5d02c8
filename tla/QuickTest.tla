------------------------------ MODULE QuickTest ------------------------------
(***************************************************************************)
(* The quick test (quicktest/simulator.py, result.py): every symbol is       *)
(* simulated alone, one after the other, with its own capital and at most    *)
(* one position; orders fill at the open of the symbol's next bar. What the   *)
(* model wants is a choice of the instance. Bars the simulation skips (outside the    *)
(* window or the regular session) are slots without a bar. Percentages are   *)
(* integers; the instances' prices make every amount exact.                  *)
(***************************************************************************)
EXTENDS RoundTrips, Sorting

CONSTANTS
  Symbols,        \* the sequence of the configured symbols
  Slots,          \* bound: bar slots of the window
  Market,        \* symbol -> slot -> its possible bars and what its model may
                  \* want at each: [open, close, target]
  Capital,        \* quicktest.capital, of each symbol
  PctSize,        \* position_size_pct
  PctHalfSpread, PctSlippage

ASSUME QuickTestAssumption ==
  /\ Slots \in Nat \ {0} /\ Capital \in Nat \ {0} /\ PctSize \in 1..100
  /\ PctHalfSpread \in 0..99 /\ PctSlippage \in 0..99

\* The result is a dict: a symbol is in it once.
ASSUME SymbolsAssumption ==
  /\ Symbols \in Seq(ToSet(Symbols)) /\ \A i, j \in DOMAIN Symbols : Symbols[i] = Symbols[j] => i = j
  /\ \A s \in ToSet(Symbols), t \in 1..Slots :
       Market[s][t] \subseteq
         [open : Int, close : Int, target : {"unchanged", "flat", "long", "short"}]

VARIABLES
  results,   \* the finished symbols' simulations, in the order of Symbols
  sim,       \* the simulation of the current symbol
  slot       \* its next bar slot

simVars == <<results, sim, slot>>

Syms    == ToSet(Symbols)
NoOrder == [side |-> "none", qty |-> 0]

\* holding is the signed quantity and the entry price, 0 when flat.
Fresh == [cash |-> Capital, qty |-> 0, entry |-> 0, pending |-> NoOrder, bars |-> <<>>,
          trades |-> <<>>, equity |-> <<>>]

Stake == (Capital * PctSize) \div 100

FillPrice(side, open) ==
  IF side = "buy"
  THEN (open * (100 + PctHalfSpread) * (100 + PctSlippage)) \div 10000
  ELSE (open * (100 - PctHalfSpread) * (100 - PctSlippage)) \div 10000

Delta(side, qty) == IF side = "buy" THEN qty ELSE -qty

Abs(n) == IF n < 0 THEN -n ELSE n

\* The entry price after a fill: of an opening or crossing fill its own, of
\* an increase the average, of a reduction the old one.
EntryAfter(r, delta, price) ==
  LET qty == r.qty + delta IN
  IF r.qty = 0 \/ r.qty * qty < 0 THEN price
  ELSE IF qty = 0 THEN 0
  ELSE IF r.qty * delta > 0 THEN (r.entry * Abs(r.qty) + price * Abs(delta)) \div Abs(qty)
  ELSE r.entry

\* The pending order fills at the bar's open.
Filled(r, symbol, bar, t) ==
  IF r.pending = NoOrder THEN r
  ELSE LET price == FillPrice(r.pending.side, bar.open)
           delta == Delta(r.pending.side, r.pending.qty)
       IN  [r EXCEPT !.cash = @ - delta * price, !.qty = @ + delta,
                     !.entry = EntryAfter(r, delta, price), !.pending = NoOrder,
                     !.trades = Append(@, [symbol |-> symbol, side |-> r.pending.side,
                                           qty |-> r.pending.qty, price |-> price, time |-> t])]

\* _plan: any other target closes the position first; only a flat symbol
\* enters, with its fixed stake.
Plan(target, held, close) ==
  LET current == IF held > 0 THEN "long" ELSE "short" IN
  IF target = "unchanged" THEN NoOrder
  ELSE IF held # 0
       THEN IF target = current THEN NoOrder
            ELSE [side |-> IF held > 0 THEN "sell" ELSE "buy", qty |-> Abs(held)]
  ELSE IF target = "flat" \/ close <= 0 THEN NoOrder
  ELSE [side |-> IF target = "long" THEN "buy" ELSE "sell", qty |-> Stake \div close]

\* One bar: fill, decide, mark to the close.
Simulated(r, symbol, bar, target, t) ==
  LET f == Filled(r, symbol, bar, t) IN
  [f EXCEPT !.pending = Plan(target, f.qty, bar.close),
            !.bars    = Append(@, [open |-> bar.open, close |-> bar.close, time |-> t]),
            !.equity  = Append(@, [time |-> t, equity |-> f.cash + f.qty * bar.close,
                                   cash |-> f.cash])]

Current   == Symbols[Len(results) + 1]
Simulates == Len(results) < Len(Symbols)

\* simulate_symbol, one bar of the current symbol.
SimulateBar ==
  /\ Simulates /\ slot <= Slots
  /\ \E bar \in Market[Current][slot] :
       sim' = Simulated(sim, Current, bar, bar.target, slot)
  /\ slot' = slot + 1
  /\ UNCHANGED results

\* The symbol has no bar in the slot, or one the simulation skips.
SkipBar ==
  /\ Simulates /\ slot <= Slots
  /\ slot' = slot + 1
  /\ UNCHANGED <<results, sim>>

\* The symbol's window ends; a position may stay open.
SymbolEnds ==
  /\ Simulates /\ slot > Slots
  /\ results' = Append(results, sim)
  /\ sim' = Fresh /\ slot' = 1

SimInit == results = <<>> /\ sim = Fresh /\ slot = 1

-----------------------------------------------------------------------------
\* QuickTestResult: the fills of all symbols by time, and the summed curve.

TradesAt(rs, t) ==
  FlattenSeq([i \in DOMAIN rs |->
                Picked(rs[i].trades, {k \in DOMAIN rs[i].trades : rs[i].trades[k].time = t})])

AllTrades(rs) == FlattenSeq([t \in 1..Slots |-> TradesAt(rs, t)])

Curves(rs) == Picked(rs, {i \in DOMAIN rs : rs[i].equity # <<>>})

\* The positions of what a sequence has until t.
Until(seq, t) == {k \in DOMAIN seq : seq[k].time <= t}

\* Mutant: a symbol counts from its first point only.
CarriedFromFirst(r, t) ==
  LET until == Until(r.equity, t) IN IF until = {} THEN 0 ELSE r.equity[Max(until)].equity

\* A curve's last value until t, the capital before its first point.
Carried(r, t) ==
  LET until == Until(r.equity, t) IN IF until = {} THEN Capital ELSE r.equity[Max(until)].equity

\* _sum_curves over the symbols that have a curve, on the union of their times.
SumCurves(rs) ==
  LET curves == Curves(rs)
      times  == Ascending({p.time : p \in UNION {ToSet(curves[i].equity) : i \in DOMAIN curves}}, <)
  IN  [k \in DOMAIN times |->
         [time |-> times[k],
          equity |-> SumFunction([i \in DOMAIN curves |-> Carried(curves[i], times[k])])]]

Trips(rs) == Match(Syms, AllTrades(rs)).trips
=============================================================================
