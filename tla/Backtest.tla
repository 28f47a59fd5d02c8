------------------------------- MODULE Backtest -------------------------------
(***************************************************************************)
(* The replay: BacktestRunner drives the same TradingEngine.tick over the    *)
(* bar grid, with the SimulatedBroker as account and executor.               *)
(*                                                                          *)
(* One thread, so a tick's reads cannot go stale; what can go wrong is the   *)
(* order of fills, marks, decisions and records around a bar, and bars that  *)
(* are missing.  Money and prices are integers, costs integer percentages.   *)
(***************************************************************************)
EXTENDS RiskManager, Sequences, FiniteSets, FiniteSetsExt

CONSTANTS
  Symbols,         \* the tradable symbols
  Watchlist,       \* their order in the configuration
  Sessions,        \* sessions of the replayed window (a bound)
  BarsPerSession,  \* bars of a session
  EntryFrom,       \* first bar of a session entries are allowed on
  CutoffFrom,      \* first bar entries are cut off again
  FlattenFrom,     \* first bar of the mandatory end-of-day flatten
  Opens, Closes,   \* the prices a bar may open and close at
  BarsMayLack,   \* whether a symbol may have no bar at a grid timestamp
  InitialCapital, Margin, PctHalfSpread, PctSlippage,
  MaxOrders        \* orders of a replay (a bound)

ASSUME ReplayAssumption ==
  /\ Symbols # {} /\ IsFiniteSet(Symbols)
  /\ Watchlist \in Seq(Symbols)
  /\ \A i, j \in 1..Len(Watchlist) : Watchlist[i] = Watchlist[j] => i = j
  /\ Sessions \in Nat \ {0} /\ BarsPerSession \in Nat \ {0}
  /\ EntryFrom \in Nat /\ CutoffFrom \in Nat /\ FlattenFrom \in Nat
  /\ CutoffFrom <= FlattenFrom
  /\ Opens \subseteq Nat /\ Closes \subseteq Nat \ {0}
  /\ BarsMayLack \in BOOLEAN
  /\ InitialCapital \in Nat /\ Margin \in Nat \ {0}
  /\ PctHalfSpread \in 0..99 /\ PctSlippage \in 0..99
  /\ MaxOrders \in Nat

VARIABLES
  pc,           \* where the runner is
  now,          \* the cursor: the grid timestamp being replayed
  bar,          \* newest bar of each symbol: timestamp (0: none), open, close
  cash, holding, closes, lastEquity,   \* SimulatedBroker
  order,        \* SimulatedBroker._orders
  count,        \* orders accepted so far
  toFill,       \* pending orders mark_to_market still has to fill
  row,          \* orders table: status of each saved order
  trade,        \* trades table: the fill price recorded per order, 0 if none
  next,         \* index in the watchlist of the next symbol to process
  lastAttempt,  \* the bar each symbol was last evaluated on
  settled,      \* history: equity after the last tick
  first,        \* history: first bar of an order's symbol after its submission
  late          \* history: bars of each symbol in the session's flatten window

brokerVars == <<cash, holding, closes, lastEquity, order, count>>
dbVars     == <<row, trade>>
seen       == <<first, late>>
vars == <<pc, now, bar, brokerVars, toFill, dbVars, next, lastAttempt, settled, seen>>

Orders   == 1..MaxOrders
Horizon  == Sessions * BarsPerSession
Session(t) == (t - 1) \div BarsPerSession
Slot(t)    == ((t - 1) % BarsPerSession) + 1

Unused == [status |-> "none", sym |-> CHOOSE s \in Symbols : TRUE, side |-> "buy", qty |-> 0,
           kind |-> "entry", submitted |-> 0, filled |-> 0, price |-> 0]

Pending  == {o \in Orders : order[o].status = "accepted"}
OpenRows == {o \in Orders : row[o] = "accepted"}
OpenOrders(s) == {o \in OpenRows : order[o].sym = s}
Sym == Watchlist[next]

-----------------------------------------------------------------------------
(* SimulatedBroker: valuation. *)

Equity == cash + MapThenSumSet(LAMBDA s : holding[s] * closes[s], Symbols)
Gross  == MapThenSumSet(LAMBDA s : Size(holding[s]) * closes[s], Symbols)
Power  == IF Equity * Margin > Gross THEN Equity * Margin - Gross ELSE 0
Held   == {s \in Symbols : holding[s] # 0}

Account == [equity |-> Equity, lastEquity |-> lastEquity, power |-> Power,
            positions |-> Cardinality(Held), gross |-> Gross]

Quote(s) == [bid |-> (bar[s].close * (100 - PctHalfSpread)) \div 100,
             ask |-> (bar[s].close * (100 + PctHalfSpread)) \div 100]

FillPrice(side, open) ==
  IF side = "buy"
  THEN (open * (100 + PctHalfSpread) * (100 + PctSlippage)) \div 10000
  ELSE (open * (100 - PctHalfSpread) * (100 - PctSlippage)) \div 10000

-----------------------------------------------------------------------------
(* mark_to_market: prior orders fill at this bar's open, then marks move.    *)

\* The history of bars that can decide on, or fill, a flatten.
Later(t, traded) ==
  [s \in Symbols |-> (IF Session(t) = Session(now) THEN late[s] ELSE 0)
                     + (IF s \in traded /\ Slot(t) >= FlattenFrom THEN 1 ELSE 0)]

\* Mutant: the loss base moves with every bar.
AdvanceRollsEveryBar(t, traded, prices) ==
  /\ pc = "advance"
  /\ t > now /\ t <= Horizon
  /\ bar' = [s \in Symbols |->
       IF s \in traded THEN [t |-> t, open |-> prices[s].open, close |-> prices[s].close]
                       ELSE bar[s]]
  /\ now' = t
  /\ lastEquity' = Equity
  /\ toFill' = {o \in Pending : order[o].sym \in traded}
  /\ first' = [o \in Orders |-> IF o \in Pending /\ order[o].sym \in traded /\ first[o] = 0
                                THEN t ELSE first[o]]
  /\ late' = Later(t, traded)
  /\ pc' = "fill"
  /\ UNCHANGED <<cash, holding, closes, order, count, dbVars, next, lastAttempt, settled>>

\* Mutant: a pending order is filled at the newest bar, present or not.
AdvanceFillsStale(t, traded, prices) ==
  /\ pc = "advance"
  /\ t > now /\ t <= Horizon
  /\ bar' = [s \in Symbols |->
       IF s \in traded THEN [t |-> t, open |-> prices[s].open, close |-> prices[s].close]
                       ELSE bar[s]]
  /\ now' = t
  /\ lastEquity' = IF now > 0 /\ Session(t) # Session(now) THEN Equity ELSE lastEquity
  /\ toFill' = Pending
  /\ first' = [o \in Orders |-> IF o \in Pending /\ order[o].sym \in traded /\ first[o] = 0
                                THEN t ELSE first[o]]
  /\ late' = Later(t, traded)
  /\ pc' = "fill"
  /\ UNCHANGED <<cash, holding, closes, order, count, dbVars, next, lastAttempt, settled>>

\* The next timestamp of the grid, and the bars that exist at it.
AdvanceTo(t, traded, prices) ==
  /\ pc = "advance"
  /\ t > now /\ t <= Horizon
  /\ bar' = [s \in Symbols |->
       IF s \in traded THEN [t |-> t, open |-> prices[s].open, close |-> prices[s].close]
                       ELSE bar[s]]
  /\ now' = t
  /\ lastEquity' = IF now > 0 /\ Session(t) # Session(now) THEN Equity ELSE lastEquity
  /\ toFill' = {o \in Pending : order[o].sym \in traded}
  /\ first' = [o \in Orders |-> IF o \in Pending /\ order[o].sym \in traded /\ first[o] = 0
                                THEN t ELSE first[o]]
  /\ late' = Later(t, traded)
  /\ pc' = "fill"
  /\ UNCHANGED <<cash, holding, closes, order, count, dbVars, next, lastAttempt, settled>>

Increases(o) ==
  LET b == order[o] IN
  Size(holding[b.sym] + Dir(b.side) * b.qty) > Size(holding[b.sym])

\* The order's fill is refused: no valid open, or an increase the margin
\* cannot pay for at the marks of the previous bar.
Refused(o, price) ==
  \/ bar[order[o].sym].open <= 0
  \/ Increases(o) /\ order[o].qty * price > Power

\* Mutant: the fill is applied before it is validated.
FillBeforeCheck(o) ==
  /\ pc = "fill"
  /\ o \in toFill /\ \A p \in toFill : o <= p
  /\ toFill' = toFill \ {o}
  /\ LET b     == order[o]
         price == FillPrice(b.side, bar[b.sym].open)
     IN  /\ order' = IF Refused(o, price)
                     THEN [order EXCEPT ![o].status = "rejected"]
                     ELSE [order EXCEPT ![o].status = "filled", ![o].filled = now,
                                        ![o].price = price]
         /\ cash' = cash - Dir(b.side) * b.qty * price
         /\ holding' = [holding EXCEPT ![b.sym] = @ + Dir(b.side) * b.qty]
  /\ UNCHANGED <<pc, now, bar, closes, lastEquity, count, dbVars, next, lastAttempt,
                 settled, seen>>

FillPending(o) ==
  /\ pc = "fill"
  /\ o \in toFill /\ \A p \in toFill : o <= p
  /\ toFill' = toFill \ {o}
  /\ LET b     == order[o]
         price == FillPrice(b.side, bar[b.sym].open)
     IN  IF Refused(o, price)
         THEN /\ order' = [order EXCEPT ![o].status = "rejected"]
              /\ UNCHANGED <<cash, holding>>
         ELSE /\ order' = [order EXCEPT ![o].status = "filled", ![o].filled = now,
                                        ![o].price = price]
              /\ cash' = cash - Dir(b.side) * b.qty * price
              /\ holding' = [holding EXCEPT ![b.sym] = @ + Dir(b.side) * b.qty]
  /\ UNCHANGED <<pc, now, bar, closes, lastEquity, count, dbVars, next, lastAttempt,
                 settled, seen>>

MarkCloses ==
  /\ pc = "fill"
  /\ toFill = {}
  /\ closes' = [s \in Symbols |-> IF bar[s].t = now THEN bar[s].close ELSE closes[s]]
  /\ pc' = "reconcile"
  /\ UNCHANGED <<now, bar, cash, holding, lastEquity, order, count, toFill, dbVars, next,
                 lastAttempt, settled, seen>>

-----------------------------------------------------------------------------
(* TradingEngine.tick. *)

\* Every order of the table that was open takes the broker's status, and a
\* filled one without a trade gets its trade.
ReconcileFills ==
  /\ row' = [o \in Orders |-> IF o \in OpenRows THEN order[o].status ELSE row[o]]
  /\ trade' = [o \in Orders |->
       IF o \in OpenRows /\ order[o].status = "filled" /\ trade[o] = 0
       THEN order[o].price ELSE trade[o]]

Reconcile ==
  /\ pc = "reconcile"
  /\ ReconcileFills
  /\ pc' = "symbols"
  /\ next' = 1
  /\ UNCHANGED <<now, bar, brokerVars, toFill, lastAttempt, settled, seen>>

Processing == pc = "symbols" /\ next <= Len(Watchlist)

\* Mutant: the boundary minute of the flatten window is left out.
FlattenDueLate(s) ==
  /\ holding[s] # 0
  /\ Slot(IF bar[s].t > 0 THEN bar[s].t ELSE now) > FlattenFrom

\* The safety time is the newest bar's timestamp, however old; without any
\* bar it is the cursor.
FlattenDue(s) ==
  /\ holding[s] # 0
  /\ Slot(IF bar[s].t > 0 THEN bar[s].t ELSE now) >= FlattenFrom

Evaluates(s) == ~FlattenDue(s) /\ bar[s].t > 0 /\ lastAttempt[s] # bar[s].t

EntriesAllowed(s) == Slot(bar[s].t) >= EntryFrom /\ Slot(bar[s].t) < CutoffFrom

\* Every target the model and the policy can arrive at.
Targets(s) ==
  IF FlattenDue(s) THEN {"flat"}
  ELSE IF ~Evaluates(s) THEN {"unchanged"}
  ELSE {"unchanged", "flat"} \cup
       (IF EntriesAllowed(s) THEN {"long", "short"} ELSE {ExposureOf(holding[s])})

Attempted ==
  lastAttempt' = IF Evaluates(Sym) THEN [lastAttempt EXCEPT ![Sym] = bar[Sym].t] ELSE lastAttempt

\* Nothing to submit: unchanged, no quote, rejected by risk, or an order of
\* the symbol is still open; an opposite one would be canceled.
NoOrder(target) ==
  /\ Processing
  /\ target \in Targets(Sym)
  /\ LET d == Assess(target, holding[Sym], Account, Quote(Sym)) IN
       /\ ~d.approved \/ bar[Sym].t = 0 \/ OpenOrders(Sym) # {}
       /\ order' = [o \in Orders |->
            IF d.approved /\ bar[Sym].t > 0 /\ o \in OpenOrders(Sym) \cap Pending
               /\ order[o].side # d.side
            THEN [order[o] EXCEPT !.status = "canceled"] ELSE order[o]]
  /\ Attempted
  /\ next' = next + 1
  /\ UNCHANGED <<pc, now, bar, cash, holding, closes, lastEquity, count, toFill, dbVars,
                 settled, seen>>

\* The order is accepted, and saved, to wait for the next bar of its symbol.
SubmitOrder(target) ==
  /\ Processing
  /\ count < MaxOrders
  /\ target \in Targets(Sym)
  /\ bar[Sym].t > 0
  /\ OpenOrders(Sym) = {}
  /\ LET d == Assess(target, holding[Sym], Account, Quote(Sym)) IN
       /\ d.approved
       /\ order' = [order EXCEPT ![count + 1] =
            [status |-> "accepted", sym |-> Sym, side |-> d.side, qty |-> d.qty,
             kind |-> d.kind, submitted |-> now, filled |-> 0, price |-> 0]]
  /\ row' = [row EXCEPT ![count + 1] = "accepted"]
  /\ count' = count + 1
  /\ Attempted
  /\ next' = next + 1
  /\ UNCHANGED <<pc, now, bar, cash, holding, closes, lastEquity, toFill, trade, settled, seen>>

TickDone ==
  /\ pc = "symbols"
  /\ next > Len(Watchlist)
  /\ pc' = "advance"
  /\ settled' = Equity
  /\ UNCHANGED <<now, bar, brokerVars, toFill, dbVars, next, lastAttempt, seen>>

-----------------------------------------------------------------------------
(* The end of the grid: what is pending is canceled, then reconciled once.   *)

CancelPending ==
  /\ pc = "advance"
  /\ now > 0
  /\ order' = [o \in Orders |->
       IF o \in Pending THEN [order[o] EXCEPT !.status = "canceled"] ELSE order[o]]
  /\ pc' = "remaining"
  /\ UNCHANGED <<now, bar, cash, holding, closes, lastEquity, count, toFill, dbVars, next,
                 lastAttempt, settled, seen>>

\* Mutant: the runner stops without a last reconciliation.
StopUnreconciled ==
  /\ pc = "remaining"
  /\ pc' = "done"
  /\ UNCHANGED <<now, bar, brokerVars, toFill, dbVars, next, lastAttempt, settled, seen>>

ReconcileRemaining ==
  /\ pc = "remaining"
  /\ ReconcileFills
  /\ pc' = "done"
  /\ UNCHANGED <<now, bar, brokerVars, toFill, next, lastAttempt, settled, seen>>

-----------------------------------------------------------------------------

Init ==
  /\ pc = "advance" /\ now = 0
  /\ bar = [s \in Symbols |-> [t |-> 0, open |-> 0, close |-> 0]]
  /\ cash = InitialCapital /\ lastEquity = InitialCapital /\ settled = InitialCapital
  /\ holding = [s \in Symbols |-> 0]
  /\ closes = [s \in Symbols |-> 0]
  /\ order = [o \in Orders |-> Unused] /\ count = 0
  /\ toFill = {}
  /\ row = [o \in Orders |-> "none"] /\ trade = [o \in Orders |-> 0]
  /\ next = 1
  /\ lastAttempt = [s \in Symbols |-> 0]
  /\ first = [o \in Orders |-> 0]
  /\ late = [s \in Symbols |-> 0]

Prices == [open : Opens, close : Closes]

\* The grid is the union of the symbols' timestamps: some symbol has a bar.
Advance ==
  \E traded \in (SUBSET Symbols) \ {{}} : \E prices \in [traded -> Prices] :
    IF BarsMayLack
    THEN \E t \in now + 1..Horizon : AdvanceTo(t, traded, prices)
    ELSE traded = Symbols /\ AdvanceTo(now + 1, traded, prices)

Next ==
  \/ Advance \/ MarkCloses \/ Reconcile \/ TickDone \/ CancelPending \/ ReconcileRemaining
  \/ \E o \in Orders : FillPending(o)
  \/ \E target \in {"unchanged", "flat", "long", "short"} : NoOrder(target) \/ SubmitOrder(target)

Spec == Init /\ [][Next]_vars

-----------------------------------------------------------------------------
(* Properties. *)

Status == {"none", "accepted", "filled", "rejected", "canceled"}
Order  == [status : Status, sym : Symbols, side : {"buy", "sell"}, qty : Nat,
           kind : {"entry", "close"}, submitted : Nat, filled : Nat, price : Nat]

Filled == {o \in Orders : order[o].status = "filled"}

\* Cash and holdings are exactly what the filled orders explain: an order is
\* filled at most once, and a rejected or canceled one has no effect.
LedgerMatches ==
  /\ cash = InitialCapital
            - MapThenSumSet(LAMBDA o : Dir(order[o].side) * order[o].qty * order[o].price, Filled)
  /\ \A s \in Symbols : holding[s] =
       MapThenSumSet(LAMBDA o : Dir(order[o].side) * order[o].qty,
                     {o \in Filled : order[o].sym = s})

\* An order fills at the open of the first bar of its symbol after the one it
\* was decided on, and is not left waiting beyond it: replay looks neither
\* ahead nor back.
NextOpenFills ==
  \A o \in Orders :
    /\ o \in Filled => /\ order[o].filled = first[o] /\ first[o] > order[o].submitted
                       /\ order[o].filled = now =>
                            order[o].price = FillPrice(order[o].side, bar[order[o].sym].open)
    /\ o \in Pending /\ first[o] # 0 => pc = "fill" /\ o \in toFill

\* The daily loss limit is measured from the equity of the last tick of the
\* previous session, before the new session's fills and marks.
LossBaseIsPriorClose ==
  [][lastEquity' # lastEquity =>
      Session(now') # Session(now) /\ lastEquity' = settled]_vars

\* After the run the tables say what the broker did: nothing is open, every
\* fill has its trade at its price, and nothing else has one.
TablesComplete ==
  pc = "done" => \A o \in Orders :
    /\ order[o].status # "accepted"
    /\ row[o] = order[o].status
    /\ trade[o] = order[o].price

\* The engine's promise about exposures, kept by the replay.
exposure == [s \in Symbols |-> ExposureOf(holding[s])]
Machine == INSTANCE ExposureMachine
ImplementsMachine == Machine!Spec

\* The flatten works whenever the data let it: a position is only held overnight
\* in a symbol that had less than two bars in the flatten window, one to decide
\* on and one to fill at.
FlatGivenBars ==
  [][now > 0 /\ Session(now') # Session(now) => \A s \in Held : late[s] < 2]_vars

\* README: "Intraday safety always flattens before the close".
FlatOvernight == [][now > 0 /\ Session(now') # Session(now) => Held = {}]_vars
=============================================================================
