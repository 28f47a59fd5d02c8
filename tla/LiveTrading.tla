----------------------------- MODULE LiveTrading -----------------------------
(***************************************************************************)
(* The live paper-trading process: TradingEngine.tick driven by the         *)
(* Scheduler, the order, trade and decision repositories, and the broker    *)
(* account it trades on.                                                    *)
(*                                                                          *)
(* A tick is not atomic.  It calls the broker and the database several      *)
(* times, the broker fills, cancels and rejects orders in between, any call *)
(* may fail, and the process may stop or die between any two calls.  Every  *)
(* call is a step here.  Prices are abstracted away: sizing is any lot size *)
(* up to MaxLot, a prediction is any target exposure.                       *)
(***************************************************************************)
EXTENDS Integers, Sequences, FiniteSets

CONSTANTS
  Symbols,        \* the symbols of the watchlist
  Watchlist,      \* the watchlist: the order a tick processes them in
  NumOrders,      \* orders the broker accepts in a behaviour (a bound)
  MaxLot,         \* bound of the quantity an entry is sized to
  MaxPositions,   \* risk.max_open_positions
  EntryFrom,      \* first bar of the session an entry may be decided on
  CutoffFrom,     \* first bar entries are cut off again
  FlattenFrom,    \* first bar of the mandatory end-of-day flatten
  MaxBar,         \* bars of the session (a bound)
  MaxFaults       \* failed calls, stops and crashes in a behaviour (a bound)

ASSUME ConstantsAssumption ==
  /\ Symbols # {} /\ IsFiniteSet(Symbols)
  /\ Watchlist \in Seq(Symbols)
  /\ \A i, j \in 1..Len(Watchlist) : Watchlist[i] = Watchlist[j] => i = j
  /\ NumOrders \in Nat
  /\ MaxLot \in Nat \ {0}
  /\ MaxPositions \in Nat
  /\ EntryFrom \in Nat /\ CutoffFrom \in Nat /\ FlattenFrom \in Nat
  /\ CutoffFrom <= FlattenFrom
  /\ MaxBar \in Nat
  /\ MaxFaults \in Nat

VARIABLES
  broker,       \* the broker's orders
  position,     \* the broker account's position in each symbol
  cancels,      \* orders whose cancellation the broker has been asked for
  row,          \* orders table: the run that saved the order, and its status
  trades,       \* trades table: quantities recorded per order
  pc,           \* where the process is
  run,          \* run_id of the current process
  todo,         \* open orders the tick still has to reconcile
  cur,          \* the order being reconciled
  res,          \* the broker's answer about it
  snap,         \* the tick's market snapshot
  acct,         \* the tick's account state: position per symbol
  next,         \* index in the watchlist of the next symbol to process
  req,          \* the approved order about to be submitted
  lastAttempt,  \* the bar each symbol was last evaluated on
  outcome,      \* how the last evaluation of each symbol ended
  clock,        \* bars of the session completed so far
  bar,          \* the newest completed bar of each symbol, 0 if none
  session,      \* whether the market is open
  orphans,      \* history: orders that were live when the process lost track
  faults        \* history: failures so far

brokerVars == <<broker, position, cancels>>
dbVars     == <<row, trades>>
tickVars   == <<todo, cur, res, snap, acct, next, req>>
marketVars == <<clock, bar, session>>
vars == <<brokerVars, dbVars, pc, run, tickVars, lastAttempt, outcome,
          marketVars, orphans, faults>>

\* Broker order ids are opaque: the broker numbers the orders it accepts.
Orders  == 1..NumOrders
NoOrder == 0

Side     == {"buy", "sell"}
Kind     == {"entry", "close"}
Terminal == {"filled", "canceled", "rejected"}
Status   == {"none", "open"} \cup Terminal
Exposure == {"flat", "long", "short"}
Outcome  == {"none", "unchanged", "evaluated", "rejected", "error", "conflict",
             "approved"}
Request  == [side : Side, qty : Nat, kind : Kind]

Unused == [status |-> "none", sym |-> CHOOSE s \in Symbols : TRUE, side |-> "buy",
           qty |-> 0, filled |-> 0, kind |-> "entry"]
NoRequest == [side |-> "buy", qty |-> 0, kind |-> "entry"]
NoResult  == [status |-> "none", filled |-> 0]
NoSnap    == [asOf |-> 0, bars |-> [s \in Symbols |-> 0]]
Flat      == [s \in Symbols |-> 0]

Size(n)      == IF n < 0 THEN -n ELSE n
Dir(side)    == IF side = "buy" THEN 1 ELSE -1
ExposureOf(n) == IF n > 0 THEN "long" ELSE IF n < 0 THEN "short" ELSE "flat"

\* Orders live at the broker, and orders this run believes open.
AllLive      == {o \in Orders : broker[o].status = "open"}
Live(s)      == {o \in AllLive : broker[o].sym = s}
OpenRows     == {o \in Orders : row[o].run = run /\ row[o].status = "open"}
OpenOrders(s) == {o \in OpenRows : broker[o].sym = s}

Used  == {o \in Orders : broker[o].status # "none"}
Fresh == {o \in Orders \ Used : \A p \in Orders : p < o => p \in Used}
Sym   == Watchlist[next]

-----------------------------------------------------------------------------
(* The broker, outside the process: it accepts orders, fills them in parts, *)
(* cancels on request and asynchronously, and may reject or expire an order. *)

Accepted(o, s, r) ==
  broker' = [broker EXCEPT ![o] = [status |-> "open", sym |-> s, side |-> r.side,
                                   qty |-> r.qty, filled |-> 0, kind |-> r.kind]]

BrokerFills(o, q) ==
  /\ broker[o].status = "open"
  /\ q <= broker[o].qty - broker[o].filled
  /\ broker' = [broker EXCEPT
       ![o].filled = @ + q,
       ![o].status = IF broker[o].filled + q = broker[o].qty THEN "filled" ELSE "open"]
  /\ position' = [position EXCEPT ![broker[o].sym] = @ + Dir(broker[o].side) * q]
  /\ UNCHANGED <<cancels, dbVars, pc, run, tickVars, lastAttempt, outcome,
                 marketVars, orphans, faults>>

BrokerCancels(o) ==
  /\ broker[o].status = "open"
  /\ o \in cancels
  /\ broker' = [broker EXCEPT ![o].status = "canceled"]
  /\ UNCHANGED <<position, cancels, dbVars, pc, run, tickVars, lastAttempt,
                 outcome, marketVars, orphans, faults>>

BrokerRejects(o) ==
  /\ faults < MaxFaults
  /\ broker[o].status = "open"
  /\ broker' = [broker EXCEPT ![o].status = "rejected"]
  /\ faults' = faults + 1
  /\ UNCHANGED <<position, cancels, dbVars, pc, run, tickVars, lastAttempt,
                 outcome, marketVars, orphans>>

\* A bar of the session completes; a symbol that did not trade has no bar.
BarCompletes(traded) ==
  /\ session = "open"
  /\ clock < MaxBar
  /\ clock' = clock + 1
  /\ bar' = [s \in Symbols |-> IF s \in traded THEN clock + 1 ELSE bar[s]]
  /\ UNCHANGED <<brokerVars, dbVars, pc, run, tickVars, lastAttempt, outcome,
                 session, orphans, faults>>

\* The market closes, early on some days, and does not open again before the
\* next session, which is left out.
SessionCloses ==
  /\ session = "open"
  /\ session' = "closed"
  /\ UNCHANGED <<brokerVars, dbVars, pc, run, tickVars, lastAttempt, outcome,
                 clock, bar, orphans, faults>>

-----------------------------------------------------------------------------
(* The tick: reconcile the open orders, read the market, read the account.   *)

\* Locals of a tick go out of scope when it ends, however it ends.
TickEnds ==
  /\ pc' = "idle"
  /\ todo' = {} /\ cur' = NoOrder /\ res' = NoResult
  /\ snap' = NoSnap /\ acct' = Flat /\ next' = 1 /\ req' = NoRequest

\* The scheduler ticks only while the market is open; a tick under way when
\* it closes runs to its end.
TickBegins ==
  /\ pc = "idle"
  /\ session = "open"
  /\ pc' = "reconcile"
  /\ todo' = OpenRows
  /\ UNCHANGED <<brokerVars, dbVars, run, cur, res, snap, acct, next, req,
                 lastAttempt, outcome, marketVars, orphans, faults>>

\* The scheduler sleeps and asks the market clock again.
WaitForOpen ==
  /\ pc = "idle"
  /\ session = "closed"
  /\ UNCHANGED vars

GetOrder(o) ==
  /\ pc = "reconcile"
  /\ o \in todo
  /\ cur' = o
  /\ res' = [status |-> broker[o].status, filled |-> broker[o].filled]
  /\ pc' = "update"
  /\ UNCHANGED <<brokerVars, dbVars, run, todo, snap, acct, next, req,
                 lastAttempt, outcome, marketVars, orphans, faults>>

\* A failed lookup is logged and the next order is tried.
GetOrderFails(o) ==
  /\ pc = "reconcile"
  /\ o \in todo
  /\ faults < MaxFaults
  /\ faults' = faults + 1
  /\ todo' = todo \ {o}
  /\ UNCHANGED <<brokerVars, dbVars, pc, run, cur, res, snap, acct, next, req,
                 lastAttempt, outcome, marketVars, orphans>>

\* Mutant: a partial fill is recorded as a trade.
UpdateRecordsPartial ==
  /\ pc = "update"
  /\ row' = [row EXCEPT ![cur].status = res.status]
  /\ IF res.filled > 0 /\ trades[cur] = <<>>
     THEN pc' = "fill" /\ UNCHANGED <<todo, cur, res>>
     ELSE pc' = "reconcile" /\ todo' = todo \ {cur} /\ cur' = NoOrder /\ res' = NoResult
  /\ UNCHANGED <<brokerVars, trades, run, snap, acct, next, req, lastAttempt,
                 outcome, marketVars, orphans, faults>>

\* Mutant: only filled orders are updated in the table.
UpdateFilledOnly ==
  /\ pc = "update"
  /\ row' = IF res.status = "filled" THEN [row EXCEPT ![cur].status = "filled"] ELSE row
  /\ IF res.status = "filled" /\ trades[cur] = <<>>
     THEN pc' = "fill" /\ UNCHANGED <<todo, cur, res>>
     ELSE pc' = "reconcile" /\ todo' = todo \ {cur} /\ cur' = NoOrder /\ res' = NoResult
  /\ UNCHANGED <<brokerVars, trades, run, snap, acct, next, req, lastAttempt,
                 outcome, marketVars, orphans, faults>>

\* The status is committed on its own; the fill is a second transaction.
UpdateFromBroker ==
  /\ pc = "update"
  /\ row' = [row EXCEPT ![cur].status = res.status]
  /\ IF res.status = "filled" /\ trades[cur] = <<>>
     THEN /\ pc' = "fill"
          /\ UNCHANGED <<todo, cur, res>>
     ELSE /\ pc' = "reconcile"
          /\ todo' = todo \ {cur} /\ cur' = NoOrder /\ res' = NoResult
  /\ UNCHANGED <<brokerVars, trades, run, snap, acct, next, req, lastAttempt,
                 outcome, marketVars, orphans, faults>>

SaveFill ==
  /\ pc = "fill"
  /\ trades' = [trades EXCEPT ![cur] = Append(@, res.filled)]
  /\ pc' = "reconcile"
  /\ todo' = todo \ {cur} /\ cur' = NoOrder /\ res' = NoResult
  /\ UNCHANGED <<brokerVars, row, run, snap, acct, next, req, lastAttempt,
                 outcome, marketVars, orphans, faults>>

GetSnapshot ==
  /\ pc = "reconcile"
  /\ todo = {}
  /\ snap' = [asOf |-> clock, bars |-> bar]
  /\ pc' = "account"
  /\ UNCHANGED <<brokerVars, dbVars, run, todo, cur, res, acct, next, req,
                 lastAttempt, outcome, marketVars, orphans, faults>>

GetAccountState ==
  /\ pc = "account"
  /\ acct' = position
  /\ pc' = "symbols"
  /\ UNCHANGED <<brokerVars, dbVars, run, todo, cur, res, snap, next, req,
                 lastAttempt, outcome, marketVars, orphans, faults>>

\* A failing repository, MarketDataError or AccountError ends the tick; the
\* scheduler logs it and waits for the next interval.
TickAborts ==
  /\ pc \in {"reconcile", "update", "fill", "account"}
  /\ faults < MaxFaults
  /\ faults' = faults + 1
  /\ TickEnds
  /\ UNCHANGED <<brokerVars, dbVars, run, lastAttempt, outcome, marketVars, orphans>>

-----------------------------------------------------------------------------
(* _process_symbol: intent, risk, conflicting orders, submission.            *)

NextSymbol ==
  /\ pc' = "symbols"
  /\ next' = next + 1
  /\ req' = NoRequest
  /\ UNCHANGED <<todo, cur, res, snap, acct>>

TickDone ==
  /\ pc = "symbols"
  /\ next > Len(Watchlist)
  /\ TickEnds
  /\ UNCHANGED <<brokerVars, dbVars, run, lastAttempt, outcome, marketVars,
                 orphans, faults>>

Processing == pc = "symbols" /\ next <= Len(Watchlist)

AlreadyEvaluated(s) == snap.bars[s] > 0 /\ lastAttempt[s] = snap.bars[s]

\* Mutant: the one-decision-per-bar rule goes before the safety flatten.
FlattenOncePerBar(s) ==
  /\ acct[s] # 0
  /\ ~AlreadyEvaluated(s)
  /\ (IF snap.bars[s] > 0 THEN snap.bars[s] ELSE snap.asOf + 1) >= FlattenFrom

\* Session safety: the newest bar is in the flatten window, or there is no
\* bar and the wall clock (one interval past the last completed bar) is.
FlattenDue(s) ==
  /\ acct[s] # 0
  /\ (IF snap.bars[s] > 0 THEN snap.bars[s] ELSE snap.asOf + 1) >= FlattenFrom

Evaluates(s) ==
  ~FlattenDue(s) /\ snap.bars[s] > 0 /\ lastAttempt[s] # snap.bars[s]

\* DecisionPolicy.decide over every prediction: outside the entry window a
\* position may be kept or closed, never opened or reversed.
PolicyTargets(s) ==
  IF snap.bars[s] >= EntryFrom /\ snap.bars[s] < CutoffFrom
  THEN Exposure
  ELSE {"flat", ExposureOf(acct[s])}

Targets(s) ==
  IF FlattenDue(s) THEN {"flat"}
  ELSE IF Evaluates(s) THEN PolicyTargets(s) \cup {"unchanged"}
  ELSE {"unchanged"}

Held == {s \in Symbols : acct[s] # 0}

\* BasicRiskManager.assess: the orders it may approve for a target.  A close
\* takes the whole position and bypasses every entry limit.
Approvals(s, target) ==
  IF target \in {"unchanged", ExposureOf(acct[s])} THEN {}
  ELSE IF acct[s] # 0
       THEN {[side |-> IF acct[s] > 0 THEN "sell" ELSE "buy",
              qty |-> Size(acct[s]), kind |-> "close"]}
  ELSE IF Cardinality(Held) >= MaxPositions THEN {}
  ELSE {[side |-> IF target = "long" THEN "buy" ELSE "sell",
         qty |-> q, kind |-> "entry"] : q \in 1..MaxLot}

Attempted ==
  lastAttempt' = IF Evaluates(Sym)
                 THEN [lastAttempt EXCEPT ![Sym] = snap.bars[Sym]]
                 ELSE lastAttempt

\* Nothing to do: the target is unchanged, or risk rejects the target.  An
\* entry can be rejected for reasons of price, budget or loss left out here.
NoOrderWanted ==
  /\ Processing
  /\ \E target \in Targets(Sym) :
       /\ acct[Sym] = 0 \/ Approvals(Sym, target) = {}
       /\ outcome' = [outcome EXCEPT ![Sym] =
            IF target # "unchanged" THEN "rejected"
            ELSE IF AlreadyEvaluated(Sym) THEN "evaluated" ELSE "unchanged"]
  /\ Attempted
  /\ NextSymbol
  /\ UNCHANGED <<brokerVars, dbVars, run, marketVars, orphans, faults>>

\* No quote, or an exception anywhere before submission: logged, and the
\* tick goes on with the next symbol.
SymbolFails ==
  /\ Processing
  /\ faults < MaxFaults
  /\ faults' = faults + 1
  /\ Attempted
  /\ outcome' = [outcome EXCEPT ![Sym] = "error"]
  /\ NextSymbol
  /\ UNCHANGED <<brokerVars, dbVars, run, marketVars, orphans>>

\* Mutant: a cancel request is taken for a cancellation.
CancelAssumed ==
  /\ Processing
  /\ OpenOrders(Sym) # {}
  /\ \E target \in Targets(Sym) : \E r \in Approvals(Sym, target) :
       LET opposite == {o \in OpenOrders(Sym) : broker[o].side # r.side}
       IN  /\ cancels' = cancels \cup opposite
           /\ row' = [o \in Orders |-> IF o \in opposite
                                       THEN [row[o] EXCEPT !.status = "canceled"]
                                       ELSE row[o]]
  /\ outcome' = [outcome EXCEPT ![Sym] = "conflict"]
  /\ Attempted
  /\ NextSymbol
  /\ UNCHANGED <<broker, position, trades, run, marketVars, orphans, faults>>

\* An order of this run is still open for the symbol: opposite-side ones are
\* asked to cancel, and the symbol waits.
ConflictingOrder ==
  /\ Processing
  /\ OpenOrders(Sym) # {}
  /\ \E target \in Targets(Sym) : \E r \in Approvals(Sym, target) :
       cancels' = cancels \cup {o \in OpenOrders(Sym) : broker[o].side # r.side}
  /\ outcome' = [outcome EXCEPT ![Sym] = "conflict"]
  /\ Attempted
  /\ NextSymbol
  /\ UNCHANGED <<broker, position, dbVars, run, marketVars, orphans, faults>>

CancelFails ==
  /\ Processing
  /\ faults < MaxFaults
  /\ faults' = faults + 1
  /\ OpenOrders(Sym) # {}
  /\ \E target \in Targets(Sym) : Approvals(Sym, target) # {}
  /\ outcome' = [outcome EXCEPT ![Sym] = "conflict"]
  /\ Attempted
  /\ NextSymbol
  /\ UNCHANGED <<brokerVars, dbVars, run, marketVars, orphans>>

\* Mutant: only an opposite-side open order holds an order back.
OrderApprovedSameSide ==
  /\ Processing
  /\ \E target \in Targets(Sym) : \E r \in Approvals(Sym, target) :
       /\ \A o \in OpenOrders(Sym) : broker[o].side = r.side
       /\ req' = r
  /\ outcome' = [outcome EXCEPT ![Sym] = "approved"]
  /\ Attempted
  /\ pc' = "submit"
  /\ UNCHANGED <<brokerVars, dbVars, run, todo, cur, res, snap, acct, next,
                 marketVars, orphans, faults>>

\* Mutant: submission without asking for the symbol's open orders.
OrderApprovedUnchecked ==
  /\ Processing
  /\ \E target \in Targets(Sym) : \E r \in Approvals(Sym, target) : req' = r
  /\ outcome' = [outcome EXCEPT ![Sym] = "approved"]
  /\ Attempted
  /\ pc' = "submit"
  /\ UNCHANGED <<brokerVars, dbVars, run, todo, cur, res, snap, acct, next,
                 marketVars, orphans, faults>>

OrderApproved ==
  /\ Processing
  /\ OpenOrders(Sym) = {}
  /\ \E target \in Targets(Sym) : \E r \in Approvals(Sym, target) : req' = r
  /\ outcome' = [outcome EXCEPT ![Sym] = "approved"]
  /\ Attempted
  /\ pc' = "submit"
  /\ UNCHANGED <<brokerVars, dbVars, run, todo, cur, res, snap, acct, next,
                 marketVars, orphans, faults>>

\* Wash-trade protection: the broker refuses an order while an opposite-side
\* order is live.
WashTrade == \E o \in Live(Sym) : broker[o].side # req.side

Submit(o) ==
  /\ pc = "submit"
  /\ o \in Fresh
  /\ ~WashTrade
  /\ Accepted(o, Sym, req)
  /\ cur' = o
  /\ pc' = "save"
  /\ UNCHANGED <<position, cancels, dbVars, run, todo, res, snap, acct, next,
                 req, lastAttempt, outcome, marketVars, orphans, faults>>

SubmitConflict ==
  /\ pc = "submit"
  /\ WashTrade \/ Fresh = {}
  /\ NextSymbol
  /\ UNCHANGED <<brokerVars, dbVars, run, lastAttempt, outcome, marketVars,
                 orphans, faults>>

SubmitRefused ==
  /\ pc = "submit"
  /\ faults < MaxFaults
  /\ faults' = faults + 1
  /\ NextSymbol
  /\ UNCHANGED <<brokerVars, dbVars, run, lastAttempt, outcome, marketVars, orphans>>

\* The broker has the order but the answer is lost: BrokerError, swallowed.
SubmitAnswerLost(o) ==
  /\ pc = "submit"
  /\ faults < MaxFaults
  /\ o \in Fresh
  /\ ~WashTrade
  /\ Accepted(o, Sym, req)
  /\ orphans' = orphans \cup {o}
  /\ faults' = faults + 1
  /\ NextSymbol
  /\ UNCHANGED <<position, cancels, dbVars, run, lastAttempt, outcome, marketVars>>

SaveSubmitted ==
  /\ pc = "save"
  /\ row' = [row EXCEPT ![cur] = [run |-> run, status |-> "open"]]
  /\ pc' = "symbols"
  /\ next' = next + 1
  /\ req' = NoRequest
  /\ cur' = NoOrder
  /\ UNCHANGED <<brokerVars, trades, run, todo, res, snap, acct, lastAttempt,
                 outcome, marketVars, orphans, faults>>

SaveSubmittedFails ==
  /\ pc = "save"
  /\ faults < MaxFaults
  /\ faults' = faults + 1
  /\ orphans' = orphans \cup ({cur} \cap AllLive)
  /\ pc' = "symbols"
  /\ next' = next + 1
  /\ req' = NoRequest
  /\ cur' = NoOrder
  /\ UNCHANGED <<brokerVars, dbVars, run, todo, res, snap, acct, lastAttempt,
                 outcome, marketVars>>

-----------------------------------------------------------------------------
(* The process dies or is stopped, and is started again under a new run_id,  *)
(* whose repositories see nothing of the old run.                            *)

ProcessEnds ==
  /\ pc # "down"
  /\ faults < MaxFaults
  /\ faults' = faults + 1
  /\ orphans' = orphans \cup AllLive
  /\ pc' = "down"
  /\ todo' = {} /\ cur' = NoOrder /\ res' = NoResult
  /\ snap' = NoSnap /\ acct' = Flat /\ next' = 1 /\ req' = NoRequest
  /\ lastAttempt' = [s \in Symbols |-> 0]
  /\ UNCHANGED <<brokerVars, dbVars, run, outcome, marketVars>>

RunLive ==
  /\ pc = "down"
  /\ pc' = "idle"
  /\ run' = run + 1
  /\ UNCHANGED <<brokerVars, dbVars, tickVars, lastAttempt, outcome, marketVars,
                 orphans, faults>>

-----------------------------------------------------------------------------

Init ==
  /\ broker = [o \in Orders |-> Unused]
  /\ position = Flat
  /\ cancels = {}
  /\ row = [o \in Orders |-> [run |-> 0, status |-> "none"]]
  /\ trades = [o \in Orders |-> <<>>]
  /\ pc = "idle"
  /\ run = 1
  /\ todo = {} /\ cur = NoOrder /\ res = NoResult
  /\ snap = NoSnap /\ acct = Flat /\ next = 1 /\ req = NoRequest
  /\ lastAttempt = [s \in Symbols |-> 0]
  /\ outcome = [s \in Symbols |-> "none"]
  /\ clock = 0
  /\ bar = [s \in Symbols |-> 0]
  /\ session = "open"
  /\ orphans = {}
  /\ faults = 0

Tick ==
  \/ TickBegins \/ UpdateFromBroker \/ SaveFill \/ GetSnapshot
  \/ GetAccountState \/ TickDone \/ NoOrderWanted \/ ConflictingOrder
  \/ OrderApproved \/ SubmitConflict \/ SaveSubmitted \/ RunLive
  \/ \E o \in Orders : GetOrder(o) \/ Submit(o)

Failure ==
  \/ TickAborts \/ SymbolFails \/ CancelFails \/ SubmitRefused \/ SaveSubmittedFails
  \/ ProcessEnds
  \/ \E o \in Orders : GetOrderFails(o) \/ SubmitAnswerLost(o) \/ BrokerRejects(o)

Broker(o) == BrokerCancels(o) \/ \E q \in 1..broker[o].qty : BrokerFills(o, q)

Next ==
  \/ Tick
  \/ Failure
  \/ \E o \in Orders : Broker(o)
  \/ \E traded \in SUBSET Symbols : BarCompletes(traded)
  \/ SessionCloses
  \/ WaitForOpen

Spec == Init /\ [][Next]_vars

\* While the market is open the scheduler keeps ticking, calls return, the
\* process is restarted, and the broker does not sit on an order for ever.
\* Neither failures nor the close are ever required: what is promised is
\* promised of a session that stays open long enough.
Fairness == WF_vars(Tick) /\ \A o \in Orders : WF_vars(Broker(o))

FairSpec == Spec /\ Fairness

-----------------------------------------------------------------------------
(* Properties. *)

Order == [status : Status, sym : Symbols, side : Side, qty : Nat, filled : Nat, kind : Kind]

TypeOK ==
  /\ broker \in [Orders -> Order]
  /\ position \in [Symbols -> Int]
  /\ cancels \subseteq Orders
  /\ row \in [Orders -> [run : Nat, status : Status]]
  /\ trades \in [Orders -> Seq(Nat)]
  /\ pc \in {"down", "idle", "reconcile", "update", "fill", "account",
             "symbols", "submit", "save"}
  /\ run \in Nat \ {0}
  /\ todo \subseteq Orders
  /\ cur \in Orders \cup {NoOrder}
  /\ res \in [status : Status, filled : Nat]
  /\ snap \in [asOf : Nat, bars : [Symbols -> Nat]]
  /\ acct \in [Symbols -> Int]
  /\ next \in Nat \ {0}
  /\ req \in Request
  /\ lastAttempt \in [Symbols -> Nat]
  /\ outcome \in [Symbols -> Outcome]
  /\ clock \in Nat
  /\ bar \in [Symbols -> Nat]
  /\ session \in {"open", "closed"}
  /\ orphans \subseteq Orders
  /\ faults \in Nat

\* A run never has two orders of one symbol open in its orders table,
\* whatever fails: the table is asked before every submission.
OneOpenOrderPerSymbol ==
  \A o, p \in OpenRows : broker[o].sym = broker[p].sym => o = p

\* The trades table holds at most one trade of an order, only of an order the
\* broker filled completely, and for exactly the quantity that was filled.
TradesMatchFills ==
  \A o \in Orders : trades[o] # <<>> =>
    /\ broker[o].status = "filled"
    /\ trades[o] = <<broker[o].filled>>
    /\ broker[o].filled = broker[o].qty

\* A row that reached a terminal status agrees with the broker: the run never
\* writes off an order that can still fill.
TerminalRowsAgree ==
  \A o \in Orders : row[o].status \in Terminal => broker[o].status = row[o].status

\* As long as no live order was lost track of, a close never does anything but
\* reduce the position and an entry only ever builds on a flat one: whatever
\* fills, cancels and new bars come between the steps of a tick.
CloseOnlyReduces ==
  [][orphans = {} =>
      \A o \in Orders : broker[o].kind = "close" /\ broker'[o].filled > broker[o].filled =>
        LET s == broker[o].sym IN Size(position'[s]) < Size(position[s])]_vars

\* No pyramiding: with every live order tracked, a position never exceeds the
\* lot of the entry that opened it.
NoPyramiding ==
  orphans = {} => \A s \in Symbols : Size(position[s]) <= MaxLot

\* Live orders are known: an order that can still fill is open in the current
\* run's table, or is just being saved, or was lost track of by a failure.
LiveOrdersTracked ==
  \A o \in Orders : broker[o].status = "open" =>
    o \in OpenRows \/ (pc = "save" /\ cur = o) \/ o \in orphans

\* README: reversals "open the opposite direction only after the account
\* confirms flat"; without the proviso about lost orders.
FlatBeforeOpposite ==
  [][\A o \in Orders : broker[o].kind = "close" /\ broker'[o].filled > broker[o].filled =>
        LET s == broker[o].sym IN Size(position'[s]) < Size(position[s])]_vars

\* risk.max_open_positions bounds the symbols a position is held in.
PositionLimit == Cardinality({s \in Symbols : position[s] # 0}) <= MaxPositions

\* The comment in _clear_conflicting_orders: after an order was held back
\* for a conflicting one, "the signal re-fires next tick".
SignalRefires ==
  [][\A s \in Symbols : outcome[s] = "conflict" => outcome'[s] # "evaluated"]_vars

\* Every order of the run the broker is done with is eventually closed in
\* the table, unless the run ends or the market closes first.
EventuallyReconciled ==
  \A o \in Orders :
    (o \in OpenRows /\ broker[o].status \in Terminal)
      ~> (o \notin OpenRows \/ session = "closed")

\* Once the newest bar of a symbol is in the flatten window, every tick until
\* the market closes works at closing the position, late fills, conflicting
\* orders and failed calls notwithstanding: it ends flat and stays flat, or
\* only the close of the market keeps it from that.
FlatUnlessClosed ==
  \A s \in Symbols :
    (bar[s] >= FlattenFrom) ~> (session = "closed" \/ [](position[s] = 0))

-----------------------------------------------------------------------------
(* The inductive invariant behind the safety properties. *)

\* What each program counter promises about the locals of the tick.
ControlInv ==
  /\ todo # {} => pc \in {"reconcile", "update", "fill"}
  /\ todo \subseteq Orders
  /\ \A o \in todo : o \in OpenRows \/ (pc = "fill" /\ o = cur)
  /\ pc = "update" =>
       /\ cur \in todo
       /\ res.status # "none"
       /\ res.status \in Terminal =>
            res.status = broker[cur].status /\ res.filled = broker[cur].filled
  /\ pc = "fill" =>
       /\ cur \in Orders
       /\ broker[cur].status = "filled" /\ res.filled = broker[cur].filled
       /\ trades[cur] = <<>>
  /\ pc \in {"submit", "save"} => next <= Len(Watchlist) /\ OpenOrders(Sym) = {}
  /\ pc = "save" =>
       /\ cur \in Used
       /\ row[cur].status = "none"
       /\ broker[cur].sym = Sym
  /\ pc = "down" => AllLive \subseteq orphans

\* How the tables relate to the broker.
TablesInv ==
  /\ \A o \in Orders : row[o].status # "none" => o \in Used
  /\ \A o \in Orders : row[o].run <= run
  /\ \A o \in Orders : broker[o].filled <= broker[o].qty
  /\ \A o \in Orders : broker[o].status = "filled" => broker[o].filled = broker[o].qty
  /\ OneOpenOrderPerSymbol
  /\ TradesMatchFills
  /\ TerminalRowsAgree
  /\ LiveOrdersTracked

\* A symbol has at most one order the broker can still fill ...
OneLiveOrder == \A o, p \in AllLive : broker[o].sym = broker[p].sym => o = p

\* ... which is building the position from flat or reducing it to flat.
LiveOrderExplained ==
  \A o \in AllLive : LET b == broker[o] IN
    /\ b.kind = "entry" => b.qty <= MaxLot /\ position[b.sym] = Dir(b.side) * b.filled
    /\ b.kind = "close" => position[b.sym] = Dir(b.side) * (b.filled - b.qty)

\* The request about to be submitted still fits the position.
RequestCurrent ==
  pc = "submit" =>
    /\ req.kind = "entry" => position[Sym] = 0 /\ req.qty <= MaxLot
    /\ req.kind = "close" => position[Sym] = -(Dir(req.side) * req.qty)

\* The account state read at the start of the tick is still true of every
\* symbol the tick has not reached, unless an order of the symbol is open.
Ahead(i) ==
  \/ pc = "symbols" /\ i >= next
  \/ pc \in {"submit", "save"} /\ i > next

AccountCurrent ==
  \A i \in 1..Len(Watchlist) : Ahead(i) /\ OpenOrders(Watchlist[i]) = {} =>
    position[Watchlist[i]] = acct[Watchlist[i]]

PositionInv ==
  orphans = {} => OneLiveOrder /\ LiveOrderExplained /\ NoPyramiding
                  /\ RequestCurrent /\ AccountCurrent

IInv == TypeOK /\ ControlInv /\ TablesInv /\ PositionInv
=============================================================================
