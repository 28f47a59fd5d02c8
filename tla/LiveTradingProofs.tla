-------------------------- MODULE LiveTradingProofs --------------------------
(***************************************************************************)
(* Proofs about LiveTrading, for every watchlist, every number of orders,   *)
(* bars and failures.  IInv, defined in LiveTrading, is inductive.          *)
(***************************************************************************)
EXTENDS LiveTrading, TLAPS

LEMMA UnusedType == Unused \in Order /\ Unused.status = "none" /\ Unused.filled = 0
                    /\ Unused.qty = 0
  <1>1. (CHOOSE s \in Symbols : TRUE) \in Symbols
    BY ConstantsAssumption
  <1>2. QED
    BY <1>1 DEF Unused, Order, Status, Terminal, Side, Kind

\* Every field has its type, at every step of every process.
THEOREM InitTypeOK == Init => TypeOK
  <1> SUFFICES ASSUME Init PROVE TypeOK
    OBVIOUS
  <1>1. broker \in [Orders -> Order]
    BY UnusedType DEF Init
  <1>2. trades \in [Orders -> Seq(Nat)]
    BY DEF Init
  <1>3. QED
    BY <1>1, <1>2 DEF Init, TypeOK, Flat, NoResult, NoSnap, NoRequest, Status, Outcome,
       Terminal, Request, Side, Kind

\* What risk may approve is a request the broker can be sent.
LEMMA ApprovalsType ==
  ASSUME TypeOK, NEW s \in Symbols, NEW target, NEW r \in Approvals(s, target)
  PROVE  /\ r \in Request
         /\ r.kind = "entry" => acct[s] = 0 /\ r.qty <= MaxLot
         /\ r.kind = "close" => acct[s] = -(Dir(r.side) * r.qty)
  <1>1. acct[s] \in Int
    BY DEF TypeOK
  <1>2. CASE acct[s] # 0
    <2>1. r = [side |-> IF acct[s] > 0 THEN "sell" ELSE "buy",
               qty |-> Size(acct[s]), kind |-> "close"]
      BY <1>2 DEF Approvals
    <2>2. Size(acct[s]) \in Nat
      BY <1>1 DEF Size
    <2>3. acct[s] = -(Dir(r.side) * r.qty)
      BY <1>1, <1>2, <2>1 DEF Dir, Size
    <2>4. QED
      BY <2>1, <2>2, <2>3 DEF Request, Side, Kind
  <1>3. CASE acct[s] = 0
    <2>1. PICK q \in 1..MaxLot :
            r = [side |-> IF target = "long" THEN "buy" ELSE "sell",
                 qty |-> q, kind |-> "entry"]
      BY <1>3 DEF Approvals
    <2>2. q \in Nat /\ q <= MaxLot
      BY ConstantsAssumption
    <2>3. QED
      BY <1>3, <2>1, <2>2 DEF Request, Side, Kind
  <1>4. QED
    BY <1>2, <1>3

LEMMA SymType == ASSUME TypeOK, next <= Len(Watchlist) PROVE Sym \in Symbols
  BY ConstantsAssumption DEF TypeOK, Sym

\* The locals of a tick have their types when they go out of scope.
LEMMA LocalsType ==
  /\ NoResult \in [status : Status, filled : Nat]
  /\ NoSnap \in [asOf : Nat, bars : [Symbols -> Nat]]
  /\ Flat \in [Symbols -> Int]
  /\ NoRequest \in Request
  BY DEF NoResult, NoSnap, Flat, NoRequest, Status, Terminal, Request, Side, Kind

LEMMA RequestType == NoRequest \in Request
  BY LocalsType

LEMMA AttemptedType ==
  ASSUME TypeOK, Attempted, Sym \in Symbols
  PROVE  lastAttempt' \in [Symbols -> Nat]
  BY DEF TypeOK, Attempted

LEMMA AcceptedType ==
  ASSUME TypeOK, NEW o \in Orders, pc = "submit", Sym \in Symbols, Accepted(o, Sym, req)
  PROVE  broker' \in [Orders -> Order]
  BY DEF TypeOK, Accepted, Order, Status, Request

LEMMA OrderStatusType ==
  ASSUME NEW b \in Order, NEW st \in Status
  PROVE  [b EXCEPT !.status = st] \in Order
  BY DEF Order

LEMMA FillType ==
  ASSUME NEW b \in Order, NEW q \in Nat, NEW st \in Status
  PROVE  [b EXCEPT !.filled = @ + q, !.status = st] \in Order
  <1>1. b.filled + q \in Nat
    BY DEF Order
  <1>2. QED
    BY <1>1 DEF Order

LEMMA StepTypeOK == TypeOK /\ ControlInv /\ [Next]_vars => TypeOK'
  <1> SUFFICES ASSUME TypeOK, ControlInv, [Next]_vars PROVE TypeOK'
    OBVIOUS
  <1> USE DEF TypeOK, brokerVars, dbVars, tickVars, marketVars, Status, Terminal, Outcome
  <1>1. CASE UNCHANGED vars
    BY <1>1 DEF vars
  <1>2. CASE TickBegins
    BY <1>2 DEF TickBegins, OpenRows
  <1>3. ASSUME NEW o \in Orders, GetOrder(o) PROVE TypeOK'
    BY <1>3 DEF GetOrder, Order
  <1>4. CASE UpdateFromBroker
    <2>1. row' \in [Orders -> [run : Nat, status : Status]]
      BY <1>4 DEF UpdateFromBroker
    <2>2. QED
      BY <1>4, <2>1, LocalsType DEF UpdateFromBroker
  <1>5. CASE SaveFill
    <2>1. \A o \in Orders : Append(trades[o], res.filled) \in Seq(Nat)
      OBVIOUS
    <2>2. trades' \in [Orders -> Seq(Nat)]
      BY <1>5, <2>1 DEF SaveFill
    <2>3. QED
      BY <1>5, <2>2, LocalsType DEF SaveFill
  <1>6. CASE GetSnapshot
    BY <1>6 DEF GetSnapshot
  <1>7. CASE GetAccountState
    BY <1>7 DEF GetAccountState
  <1>8. CASE TickDone
    BY <1>8, LocalsType DEF TickDone, TickEnds
  <1>9. CASE NoOrderWanted
    <2>1. Sym \in Symbols
      BY <1>9, SymType DEF NoOrderWanted, Processing
    <2>2. outcome' \in [Symbols -> Outcome]
      BY <1>9 DEF NoOrderWanted
    <2>3. lastAttempt' \in [Symbols -> Nat]
      BY <1>9, <2>1, AttemptedType DEF NoOrderWanted
    <2>4. QED
      BY <1>9, <2>2, <2>3, RequestType DEF NoOrderWanted, NextSymbol, Processing
  <1>10. CASE ConflictingOrder
    <2>1. Sym \in Symbols
      BY <1>10, SymType DEF ConflictingOrder, Processing
    <2>2. outcome' \in [Symbols -> Outcome]
      BY <1>10 DEF ConflictingOrder
    <2>3. lastAttempt' \in [Symbols -> Nat]
      BY <1>10, <2>1, AttemptedType DEF ConflictingOrder
    <2>4. cancels' \subseteq Orders
      <3>1. OpenOrders(Sym) \subseteq Orders
        BY DEF OpenOrders, OpenRows
      <3>2. QED
        BY <1>10, <3>1 DEF ConflictingOrder
    <2>5. /\ pc' = "symbols" /\ next' = next + 1 /\ req' = NoRequest
          /\ UNCHANGED <<broker, position, row, trades, run, todo, cur, res, snap, acct,
                         clock, bar, session, orphans, faults>>
      BY <1>10 DEF ConflictingOrder, NextSymbol
    <2>6. QED
      BY <2>2, <2>3, <2>4, <2>5, RequestType
  <1>11. CASE OrderApproved
    <2>1. req' \in Request
      BY <1>11, SymType, ApprovalsType DEF OrderApproved, Processing
    <2>2. QED
      BY <1>11, <2>1, SymType, AttemptedType DEF OrderApproved, Processing
  <1>12. CASE SubmitConflict
    BY <1>12, RequestType DEF SubmitConflict, NextSymbol
  <1>13. CASE SaveSubmitted
    <2>1. row' \in [Orders -> [run : Nat, status : Status]]
      BY <1>13 DEF SaveSubmitted
    <2>2. QED
      BY <1>13, <2>1, RequestType DEF SaveSubmitted
  <1>14. CASE RunLive
    BY <1>14 DEF RunLive
  <1>15. ASSUME NEW o \in Orders, Submit(o) PROVE TypeOK'
    <2>1. broker' \in [Orders -> Order]
      BY <1>15, AcceptedType, SymType DEF Submit, ControlInv
    <2>2. QED
      BY <1>15, <2>1 DEF Submit
  <1>16. CASE TickAborts
    BY <1>16, LocalsType DEF TickAborts, TickEnds
  <1>17. CASE SymbolFails
    <2>1. Sym \in Symbols
      BY <1>17, SymType DEF SymbolFails, Processing
    <2>2. outcome' \in [Symbols -> Outcome]
      BY <1>17 DEF SymbolFails
    <2>3. lastAttempt' \in [Symbols -> Nat]
      BY <1>17, <2>1, AttemptedType DEF SymbolFails
    <2>4. QED
      BY <1>17, <2>2, <2>3, RequestType
         DEF SymbolFails, NextSymbol, Processing
  <1>18. CASE CancelFails
    <2>1. Sym \in Symbols
      BY <1>18, SymType DEF CancelFails, Processing
    <2>2. outcome' \in [Symbols -> Outcome]
      BY <1>18 DEF CancelFails
    <2>3. lastAttempt' \in [Symbols -> Nat]
      BY <1>18, <2>1, AttemptedType DEF CancelFails
    <2>4. QED
      BY <1>18, <2>2, <2>3, RequestType
         DEF CancelFails, NextSymbol, Processing
  <1>19. CASE SubmitRefused
    BY <1>19, RequestType DEF SubmitRefused, NextSymbol
  <1>20. CASE SaveSubmittedFails
    BY <1>20, RequestType DEF SaveSubmittedFails, AllLive
  <1>21. CASE ProcessEnds
    BY <1>21, LocalsType DEF ProcessEnds, AllLive
  <1>22. ASSUME NEW o \in Orders, GetOrderFails(o) PROVE TypeOK'
    BY <1>22 DEF GetOrderFails
  <1>23. ASSUME NEW o \in Orders, SubmitAnswerLost(o) PROVE TypeOK'
    <2>1. broker' \in [Orders -> Order]
      BY <1>23, AcceptedType, SymType DEF SubmitAnswerLost, ControlInv
    <2>2. QED
      BY <1>23, <2>1, RequestType DEF SubmitAnswerLost, NextSymbol
  <1>24. ASSUME NEW o \in Orders, BrokerRejects(o) PROVE TypeOK'
    <2>1. broker' \in [Orders -> Order]
      BY <1>24, OrderStatusType DEF BrokerRejects
    <2>2. QED
      BY <1>24, <2>1 DEF BrokerRejects
  <1>25. ASSUME NEW o \in Orders, BrokerCancels(o) PROVE TypeOK'
    <2>1. broker' \in [Orders -> Order]
      BY <1>25, OrderStatusType DEF BrokerCancels
    <2>2. QED
      BY <1>25, <2>1 DEF BrokerCancels
  <1>26. ASSUME NEW o \in Orders, NEW q \in 1..broker[o].qty, BrokerFills(o, q)
         PROVE TypeOK'
    <2>1. broker[o] \in Order /\ q \in Nat
      BY <1>26 DEF Order
    <2>2. broker' \in [Orders -> Order]
      BY <1>26, <2>1, FillType DEF BrokerFills
    <2>3. position' \in [Symbols -> Int]
      <3>1. Dir(broker[o].side) * q \in Int
        BY <2>1 DEF Dir
      <3>2. QED
        <4> DEFINE s == broker[o].sym
                   d == Dir(broker[o].side) * q
        <4>1. position' = [position EXCEPT ![s] = @ + d]
          BY <1>26 DEF BrokerFills
        <4>2. position[s] + d \in Int
          BY <2>1, <3>1 DEF Order
        <4> HIDE DEF s, d
        <4>3. QED
          BY <4>1, <4>2
    <2>4. QED
      BY <1>26, <2>2, <2>3 DEF BrokerFills
  <1>27. ASSUME NEW traded \in SUBSET Symbols, BarCompletes(traded) PROVE TypeOK'
    BY <1>27 DEF BarCompletes
  <1>27a. CASE SessionCloses \/ WaitForOpen
    BY <1>27a DEF SessionCloses, WaitForOpen, vars
  <1>28. QED
    BY <1>1, <1>2, <1>3, <1>4, <1>5, <1>6, <1>7, <1>8, <1>9, <1>10, <1>11,
       <1>12, <1>13, <1>14, <1>15, <1>16, <1>17, <1>18, <1>19, <1>20, <1>21,
       <1>22, <1>23, <1>24, <1>25, <1>26, <1>27, <1>27a
       DEF Next, Tick, Failure, Broker

\* A step of the broker changes one live order, and neither its terms nor the
\* tables and the process.
BrokerStep(o) ==
  BrokerRejects(o) \/ BrokerCancels(o) \/ \E q \in 1..broker[o].qty : BrokerFills(o, q)

LEMMA BrokerStepMoves ==
  ASSUME TypeOK, NEW o \in Orders, BrokerStep(o)
  PROVE  /\ broker[o].status = "open" /\ broker'[o].status # "none"
         /\ \A p \in Orders : p # o => broker'[p] = broker[p]
         /\ \A p \in Orders : /\ broker'[p].sym = broker[p].sym
                              /\ broker'[p].side = broker[p].side
                              /\ broker'[p].qty = broker[p].qty
                              /\ broker'[p].kind = broker[p].kind
         /\ UNCHANGED <<cancels, row, trades, pc, run, todo, cur, res, snap, acct,
                        next, req, orphans>>
  <1> USE DEF TypeOK, Order, dbVars, tickVars
  <1>1. CASE BrokerRejects(o)
    BY <1>1 DEF BrokerRejects
  <1>2. CASE BrokerCancels(o)
    BY <1>2 DEF BrokerCancels
  <1>3. ASSUME NEW q \in 1..broker[o].qty, BrokerFills(o, q)
        PROVE  /\ broker[o].status = "open" /\ broker'[o].status # "none"
               /\ \A p \in Orders : p # o => broker'[p] = broker[p]
               /\ \A p \in Orders : /\ broker'[p].sym = broker[p].sym
                                    /\ broker'[p].side = broker[p].side
                                    /\ broker'[p].qty = broker[p].qty
                                    /\ broker'[p].kind = broker[p].kind
               /\ UNCHANGED <<cancels, row, trades, pc, run, todo, cur, res, snap,
                              acct, next, req, orphans>>
    BY <1>3 DEF BrokerFills
  <1>4. QED
    BY <1>1, <1>2, <1>3 DEF BrokerStep

LEMMA StepControlInv == IInv /\ [Next]_vars => ControlInv'
  <1> SUFFICES ASSUME IInv, [Next]_vars PROVE ControlInv'
    OBVIOUS
  <1> USE DEF IInv, brokerVars, dbVars, tickVars, marketVars
  <1>1. CASE UNCHANGED vars
    BY <1>1 DEF vars, ControlInv, TypeOK, Order, Used, AllLive, OpenRows, OpenOrders, Sym, Terminal
  <1>2. CASE TickBegins
    BY <1>2 DEF TickBegins, ControlInv, TypeOK, Order, Used, AllLive, OpenRows, OpenOrders, Sym, Terminal
  <1>3. ASSUME NEW o \in Orders, GetOrder(o) PROVE ControlInv'
    BY <1>3 DEF GetOrder, TablesInv, ControlInv, TypeOK, Order, Used, AllLive, OpenRows, OpenOrders, Sym, Terminal
  <1>4. CASE UpdateFromBroker
    BY <1>4 DEF UpdateFromBroker, ControlInv, TypeOK, Order, Used, AllLive, OpenRows, OpenOrders, Sym, Terminal
  <1>5. CASE SaveFill
    BY <1>5 DEF SaveFill, ControlInv, TypeOK, Order, Used, AllLive, OpenRows, OpenOrders, Sym, Terminal
  <1>6. CASE GetSnapshot
    BY <1>6 DEF GetSnapshot, ControlInv, TypeOK, Order, Used, AllLive, OpenRows, OpenOrders, Sym, Terminal
  <1>7. CASE GetAccountState
    BY <1>7 DEF GetAccountState, ControlInv, TypeOK, Order, Used, AllLive, OpenRows, OpenOrders, Sym, Terminal
  <1>8. CASE TickDone
    BY <1>8 DEF TickDone, TickEnds, ControlInv, TypeOK, Order, Used, AllLive, OpenRows, OpenOrders, Sym, Terminal
  <1>9. CASE NoOrderWanted
    BY <1>9 DEF NoOrderWanted, NextSymbol, Processing, ControlInv, TypeOK, Order, Used, AllLive, OpenRows, OpenOrders, Sym, Terminal
  <1>10. CASE ConflictingOrder
    BY <1>10 DEF ConflictingOrder, NextSymbol, Processing, ControlInv, TypeOK, Order, Used, AllLive, OpenRows, OpenOrders, Sym, Terminal
  <1>11. CASE OrderApproved
    BY <1>11 DEF OrderApproved, Processing, ControlInv, TypeOK, Order, Used, AllLive, OpenRows, OpenOrders, Sym, Terminal
  <1>12. CASE SubmitConflict
    BY <1>12 DEF SubmitConflict, NextSymbol, ControlInv, TypeOK, Order, Used, AllLive, OpenRows, OpenOrders, Sym, Terminal
  <1>13. ASSUME NEW o \in Orders, Submit(o) PROVE ControlInv'
    <2>1. /\ broker[o].status = "none" /\ row[o].status = "none"
          /\ broker'[o].status = "open" /\ broker'[o].sym = Sym
          /\ \A p \in Orders : p # o => broker'[p] = broker[p]
      BY <1>13 DEF Submit, Accepted, Fresh, Used, TablesInv, TypeOK
    <2>2. OpenRows' = OpenRows /\ Sym' = Sym
      BY <1>13 DEF Submit, OpenRows, Sym
    <2>3. OpenOrders(Sym)' = OpenOrders(Sym)
      BY <2>1, <2>2 DEF OpenOrders, OpenRows
    <2>4. QED
      BY <1>13, <2>1, <2>2, <2>3 DEF Submit, ControlInv, TypeOK, Used
  <1>14. CASE SaveSubmitted
    BY <1>14 DEF SaveSubmitted, ControlInv, TypeOK, Order, Used, AllLive, OpenRows, OpenOrders, Sym, Terminal
  <1>15. CASE RunLive
    BY <1>15 DEF RunLive, ControlInv, TypeOK, Order, Used, AllLive, OpenRows, OpenOrders, Sym, Terminal
  <1>16. CASE TickAborts
    BY <1>16 DEF TickAborts, TickEnds, ControlInv, TypeOK, Order, Used, AllLive, OpenRows, OpenOrders, Sym, Terminal
  <1>17. CASE SymbolFails
    BY <1>17 DEF SymbolFails, NextSymbol, Processing, ControlInv, TypeOK, Order, Used, AllLive, OpenRows, OpenOrders, Sym, Terminal
  <1>18. CASE CancelFails
    BY <1>18 DEF CancelFails, NextSymbol, Processing, ControlInv, TypeOK, Order, Used, AllLive, OpenRows, OpenOrders, Sym, Terminal
  <1>19. CASE SubmitRefused
    BY <1>19 DEF SubmitRefused, NextSymbol, ControlInv, TypeOK, Order, Used, AllLive, OpenRows, OpenOrders, Sym, Terminal
  <1>20. CASE SaveSubmittedFails
    BY <1>20 DEF SaveSubmittedFails, ControlInv, TypeOK, Order, Used, AllLive, OpenRows, OpenOrders, Sym, Terminal
  <1>21. CASE ProcessEnds
    BY <1>21 DEF ProcessEnds, ControlInv, TypeOK, Order, Used, AllLive, OpenRows, OpenOrders, Sym, Terminal
  <1>22. ASSUME NEW o \in Orders, GetOrderFails(o) PROVE ControlInv'
    BY <1>22 DEF GetOrderFails, ControlInv, TypeOK, Order, Used, AllLive, OpenRows, OpenOrders, Sym, Terminal
  <1>23. ASSUME NEW o \in Orders, SubmitAnswerLost(o) PROVE ControlInv'
    BY <1>23 DEF SubmitAnswerLost, Accepted, Fresh, NextSymbol, ControlInv, TypeOK, Order, Used, AllLive, OpenRows, OpenOrders, Sym, Terminal
  <1>24. ASSUME NEW o \in Orders, BrokerStep(o) PROVE ControlInv'
    <2>1. /\ OpenRows' = OpenRows /\ Sym' = Sym /\ OpenOrders(Sym)' = OpenOrders(Sym)
          /\ AllLive' \subseteq AllLive /\ Used' = Used
      BY <1>24, BrokerStepMoves DEF OpenRows, OpenOrders, Sym, AllLive, Used
    <2>2. UNCHANGED <<row, trades, pc, run, todo, cur, res, next, orphans>>
      BY <1>24, BrokerStepMoves
    <2>3. pc = "update" /\ res.status \in Terminal =>
            res.status = broker'[cur].status /\ res.filled = broker'[cur].filled
      BY <1>24, BrokerStepMoves DEF ControlInv, Terminal
    <2>4. pc = "fill" => broker'[cur].status = "filled" /\ res.filled = broker'[cur].filled
      BY <1>24, BrokerStepMoves DEF ControlInv
    <2>5. pc = "save" => broker'[cur].sym = Sym
      BY <1>24, BrokerStepMoves DEF ControlInv, Used
    <2>6. QED
      BY <2>1, <2>2, <2>3, <2>4, <2>5 DEF ControlInv
  <1>25. ASSUME NEW traded \in SUBSET Symbols, BarCompletes(traded) PROVE ControlInv'
    BY <1>25 DEF BarCompletes, ControlInv, TypeOK, Order, Used, AllLive, OpenRows, OpenOrders, Sym, Terminal
  <1>25a. CASE SessionCloses \/ WaitForOpen
    BY <1>25a DEF SessionCloses, WaitForOpen, vars, ControlInv, Used, AllLive, OpenRows,
       OpenOrders, Sym
  <1>26. QED
    BY <1>1, <1>2, <1>3, <1>4, <1>5, <1>6, <1>7, <1>8, <1>9, <1>10, <1>11, <1>12, <1>13, <1>14, <1>15, <1>16, <1>17, <1>18, <1>19, <1>20, <1>21, <1>22, <1>23, <1>24, <1>25, <1>25a
       DEF Next, Tick, Failure, Broker, BrokerStep

\* A step that leaves the broker and the tables alone keeps their relation, if
\* it does not forget a live order it was about to save.
LEMMA TablesFrame ==
  ASSUME TablesInv, UNCHANGED <<broker, row, trades, run>>, orphans \subseteq orphans',
         pc = "save" /\ cur \in AllLive => cur \in orphans'
  PROVE  TablesInv'
  <1>1. UNCHANGED <<OpenRows, Used>>
    BY DEF OpenRows, Used
  <1>2. LiveOrdersTracked'
    BY <1>1 DEF TablesInv, LiveOrdersTracked, AllLive
  <1>3. QED
    BY <1>1, <1>2 DEF TablesInv, OneOpenOrderPerSymbol, TradesMatchFills, TerminalRowsAgree

\* A fresh order, accepted by the broker, has no row and no trade.
LEMMA TablesAccepted ==
  ASSUME TypeOK, TablesInv, NEW o \in Fresh, Sym \in Symbols, Accepted(o, Sym, req),
         UNCHANGED <<row, trades, run>>, pc = "submit", orphans \subseteq orphans',
         (pc' = "save" /\ cur' = o) \/ o \in orphans'
  PROVE  TablesInv'
  <1>1. /\ o \in Orders /\ o \notin Used
        /\ row[o].status = "none" /\ trades[o] = <<>>
    BY DEF Fresh, Used, TablesInv, TradesMatchFills
  <1>2. /\ broker'[o] \in Order
        /\ broker'[o].status = "open" /\ broker'[o].filled <= broker'[o].qty
        /\ \A p \in Orders : p # o => broker'[p] = broker[p]
    BY <1>1 DEF Accepted, TypeOK, Request, Order, Status
  <1>3. OpenRows' = OpenRows /\ o \notin OpenRows
    BY <1>1 DEF OpenRows
  <1>4. OneOpenOrderPerSymbol'
    BY <1>2, <1>3 DEF TablesInv, OneOpenOrderPerSymbol, OpenRows
  <1>5. TradesMatchFills' /\ TerminalRowsAgree'
    BY <1>1, <1>2 DEF TablesInv, TradesMatchFills, TerminalRowsAgree, Terminal
  <1>6. LiveOrdersTracked'
    BY <1>2, <1>3 DEF TablesInv, LiveOrdersTracked
  <1>7. QED
    BY <1>1, <1>2, <1>4, <1>5, <1>6 DEF TablesInv, Used

\* One update of the orders table: the broker's last word, or a later one.
LEMMA TablesUpdate ==
  ASSUME TypeOK, ControlInv, TablesInv, UpdateFromBroker
  PROVE  TablesInv'
  <1> USE DEF brokerVars, dbVars, tickVars, marketVars
  <1>1. /\ cur \in OpenRows /\ cur \in Orders
        /\ res.status # "none" /\ res.status \in Status
        /\ res.status \in Terminal => broker[cur].status = res.status
    BY DEF UpdateFromBroker, ControlInv, OpenRows, TypeOK
  <1>2. /\ row'[cur] = [run |-> run, status |-> res.status]
        /\ \A p \in Orders : p # cur => row'[p] = row[p]
    BY <1>1 DEF UpdateFromBroker, TypeOK, OpenRows
  <1>3. OpenRows' = IF res.status = "open" THEN OpenRows ELSE OpenRows \ {cur}
    BY <1>1, <1>2 DEF UpdateFromBroker, OpenRows, Status, Terminal
  <1>4. OneOpenOrderPerSymbol'
    BY <1>3 DEF TablesInv, OneOpenOrderPerSymbol, UpdateFromBroker
  <1>5. TradesMatchFills' /\ TerminalRowsAgree'
    BY <1>1, <1>2 DEF TablesInv, TradesMatchFills, TerminalRowsAgree, UpdateFromBroker
  <1>6. LiveOrdersTracked'
    <2> SUFFICES ASSUME NEW o \in Orders, broker[o].status = "open"
                 PROVE  o \in OpenRows' \/ o \in orphans
      BY DEF LiveOrdersTracked, UpdateFromBroker
    <2>1. o \in OpenRows \/ o \in orphans
      BY DEF TablesInv, LiveOrdersTracked, UpdateFromBroker
    <2>2. o = cur => res.status = "open"
      BY <1>1 DEF Status, Terminal
    <2>3. QED
      BY <1>3, <2>1, <2>2
  <1>7. \A o \in Orders : row'[o].status # "none" => o \in Used'
    BY <1>1, <1>2 DEF TablesInv, UpdateFromBroker, Used, OpenRows
  <1>8. \A o \in Orders : row'[o].run <= run'
    BY <1>1, <1>2 DEF TablesInv, UpdateFromBroker, TypeOK
  <1>9. QED
    BY <1>4, <1>5, <1>6, <1>7, <1>8 DEF TablesInv, UpdateFromBroker

\* The broker fills a live order, at most to its quantity, or ends it.
LEMMA TablesBroker ==
  ASSUME TypeOK, TablesInv, NEW o \in Orders, BrokerStep(o)
  PROVE  TablesInv'
  <1>1. /\ OpenRows' = OpenRows /\ AllLive' \subseteq AllLive /\ Used' = Used
        /\ UNCHANGED <<row, trades, run, orphans, pc, cur>>
    BY BrokerStepMoves DEF OpenRows, AllLive, Used
  <1>2. /\ broker'[o].filled <= broker'[o].qty
        /\ broker'[o].status = "filled" => broker'[o].filled = broker'[o].qty
    <2>0. broker[o] \in Order
      BY DEF TypeOK
    <2>1. CASE BrokerRejects(o)
      BY <2>0, <2>1 DEF BrokerRejects, TablesInv, TypeOK, Order
    <2>2. CASE BrokerCancels(o)
      BY <2>0, <2>2 DEF BrokerCancels, TablesInv, TypeOK, Order
    <2>3. ASSUME NEW q \in 1..broker[o].qty, BrokerFills(o, q)
          PROVE  /\ broker'[o].filled <= broker'[o].qty
                 /\ broker'[o].status = "filled" => broker'[o].filled = broker'[o].qty
      BY <2>0, <2>3 DEF BrokerFills, TypeOK, Order
    <2>4. QED
      BY <2>1, <2>2, <2>3 DEF BrokerStep
  <1>3. row[o].status \notin Terminal /\ trades[o] = <<>>
    BY BrokerStepMoves DEF TablesInv, TerminalRowsAgree, TradesMatchFills, Terminal
  <1>4. \A p \in Orders : broker'[p].filled <= broker'[p].qty
                          /\ (broker'[p].status = "filled" => broker'[p].filled = broker'[p].qty)
    BY <1>2, BrokerStepMoves DEF TablesInv
  <1>5. OneOpenOrderPerSymbol'
    BY <1>1, BrokerStepMoves DEF TablesInv, OneOpenOrderPerSymbol, OpenRows
  <1>6. TradesMatchFills' /\ TerminalRowsAgree'
    BY <1>1, <1>3, BrokerStepMoves DEF TablesInv, TradesMatchFills, TerminalRowsAgree
  <1>7. LiveOrdersTracked'
    BY <1>1 DEF TablesInv, LiveOrdersTracked, AllLive
  <1>8. QED
    BY <1>1, <1>4, <1>5, <1>6, <1>7 DEF TablesInv

LEMMA AppendToEmpty == ASSUME NEW x \in Nat PROVE Append(<<>>, x) = <<x>>
  OBVIOUS

LEMMA StepTablesInv == IInv /\ [Next]_vars => TablesInv'
  <1> SUFFICES ASSUME IInv, [Next]_vars PROVE TablesInv'
    OBVIOUS
  <1> USE DEF IInv, brokerVars, dbVars, tickVars, marketVars
  <1>1. CASE UNCHANGED vars
    BY <1>1, TablesFrame DEF vars, TablesInv, LiveOrdersTracked, OneOpenOrderPerSymbol,
       TradesMatchFills, TerminalRowsAgree, OpenRows, Used
  <1>2. CASE UpdateFromBroker
    BY <1>2, TablesUpdate
  <1>3. CASE SaveFill
    <2>1. /\ cur \in Orders /\ broker[cur].status = "filled"
          /\ trades[cur] = <<>> /\ res.filled = broker[cur].filled
      BY <1>3 DEF SaveFill, ControlInv
    <2>0. Append(trades[cur], res.filled) = <<broker[cur].filled>>
      BY <2>1, AppendToEmpty DEF TypeOK
    <2>2. /\ trades'[cur] = <<broker[cur].filled>>
          /\ \A o \in Orders : o # cur => trades'[o] = trades[o]
      BY <1>3, <2>0, <2>1 DEF SaveFill, TypeOK
    <2>3. TradesMatchFills'
      BY <1>3, <2>1, <2>2 DEF SaveFill, TablesInv, TradesMatchFills
    <2>4. LiveOrdersTracked' /\ OneOpenOrderPerSymbol' /\ TerminalRowsAgree'
      BY <1>3 DEF SaveFill, TablesInv, LiveOrdersTracked, OneOpenOrderPerSymbol,
         TerminalRowsAgree, OpenRows
    <2>5. QED
      BY <1>3, <2>3, <2>4 DEF SaveFill, TablesInv, Used
  <1>4. ASSUME NEW o \in Orders, Submit(o) PROVE TablesInv'
    BY <1>4, TablesAccepted, SymType DEF Submit, ControlInv
  <1>5. ASSUME NEW o \in Orders, SubmitAnswerLost(o) PROVE TablesInv'
    BY <1>5, TablesAccepted, SymType DEF SubmitAnswerLost, ControlInv, NextSymbol
  <1>6. CASE SaveSubmitted
    <2>1. /\ cur \in Used /\ cur \in Orders /\ row[cur].status = "none"
          /\ OpenOrders(Sym) = {} /\ broker[cur].sym = Sym
      BY <1>6 DEF SaveSubmitted, ControlInv, Used
    <2>2. /\ row'[cur] = [run |-> run, status |-> "open"]
          /\ \A p \in Orders : p # cur => row'[p] = row[p]
          /\ UNCHANGED <<broker, trades, run, orphans>>
      BY <1>6, <2>1 DEF SaveSubmitted, TypeOK
    <2>3. OpenRows' = OpenRows \cup {cur}
      BY <2>1, <2>2 DEF OpenRows
    <2>4. OneOpenOrderPerSymbol'
      BY <2>1, <2>2, <2>3 DEF TablesInv, OneOpenOrderPerSymbol, OpenOrders
    <2>5. TradesMatchFills' /\ TerminalRowsAgree'
      BY <2>2 DEF TablesInv, TradesMatchFills, TerminalRowsAgree, Terminal
    <2>6. LiveOrdersTracked'
      BY <2>2, <2>3 DEF TablesInv, LiveOrdersTracked
    <2>7. \A o \in Orders : row'[o].run <= run'
      <3>1. run \in Nat /\ row'[cur].run = run /\ run' = run
        BY <2>2 DEF TypeOK
      <3>2. \A o \in Orders \ {cur} : row'[o].run <= run'
        BY <2>2 DEF TablesInv
      <3>3. QED
        BY <3>1, <3>2
    <2>8. QED
      BY <2>1, <2>2, <2>4, <2>5, <2>6, <2>7 DEF TablesInv, Used
  <1>7. CASE RunLive
    <2>1. OpenRows' = {}
      BY <1>7 DEF RunLive, OpenRows, TablesInv, TypeOK
    <2>2. OneOpenOrderPerSymbol' /\ LiveOrdersTracked'
      BY <1>7, <2>1 DEF RunLive, ControlInv, AllLive, OneOpenOrderPerSymbol,
         LiveOrdersTracked
    <2>3. QED
      BY <1>7, <2>2 DEF RunLive, TablesInv, TradesMatchFills, TerminalRowsAgree, Used,
         TypeOK
  <1>8. ASSUME NEW o \in Orders, BrokerStep(o) PROVE TablesInv'
    BY <1>8, TablesBroker
  <1>9. CASE SaveSubmittedFails
    BY <1>9, TablesFrame DEF SaveSubmittedFails
  <1>10. CASE ProcessEnds
    BY <1>10, TablesFrame DEF ProcessEnds
  <1>11. CASE TickBegins \/ GetSnapshot \/ GetAccountState \/ TickDone \/ TickAborts
    BY <1>11, TablesFrame
       DEF TickBegins, GetSnapshot, GetAccountState, TickDone, TickAborts
  <1>12. CASE NoOrderWanted \/ SymbolFails \/ ConflictingOrder \/ CancelFails \/ OrderApproved
    BY <1>12, TablesFrame
       DEF NoOrderWanted, SymbolFails, ConflictingOrder, CancelFails, OrderApproved, Processing
  <1>13. CASE SubmitConflict \/ SubmitRefused
    BY <1>13, TablesFrame DEF SubmitConflict, SubmitRefused
  <1>14. ASSUME NEW o \in Orders, GetOrder(o) \/ GetOrderFails(o) PROVE TablesInv'
    BY <1>14, TablesFrame DEF GetOrder, GetOrderFails
  <1>15. ASSUME NEW traded \in SUBSET Symbols, BarCompletes(traded) PROVE TablesInv'
    <2>1. UNCHANGED <<broker, row, trades, run, orphans, pc, cur>>
      BY <1>15 DEF BarCompletes
    <2>2. QED
      BY <2>1 DEF TablesInv, LiveOrdersTracked, OneOpenOrderPerSymbol,
         TradesMatchFills, TerminalRowsAgree, OpenRows, Used
  <1>15a. CASE SessionCloses \/ WaitForOpen
    <2>1. UNCHANGED <<broker, row, trades, run, orphans, pc, cur>>
      BY <1>15a DEF SessionCloses, WaitForOpen, vars, brokerVars, dbVars, tickVars
    <2>2. QED
      BY <2>1 DEF TablesInv, LiveOrdersTracked, OneOpenOrderPerSymbol,
         TradesMatchFills, TerminalRowsAgree, OpenRows, Used
  <1>16. QED
    BY <1>1, <1>2, <1>3, <1>4, <1>5, <1>6, <1>7, <1>8, <1>9, <1>10, <1>11, <1>12,
       <1>13, <1>14, <1>15, <1>15a
       DEF Next, Tick, Failure, Broker, BrokerStep


-----------------------------------------------------------------------------
(* Positions, as long as no live order was lost track of. *)

LEMMA OrphansGrow == TypeOK /\ [Next]_vars => orphans \subseteq orphans'
  <1> SUFFICES ASSUME TypeOK, [Next]_vars PROVE orphans \subseteq orphans'
    OBVIOUS
  <1> USE DEF marketVars
  <1>1. CASE UNCHANGED vars
    BY <1>1 DEF vars
  <1>2. CASE Tick
    BY <1>2 DEF Tick, TickBegins, UpdateFromBroker, SaveFill, GetSnapshot, GetAccountState,
       TickDone, NoOrderWanted, ConflictingOrder, OrderApproved, SubmitConflict,
       SaveSubmitted, RunLive, GetOrder, Submit
  <1>3. CASE Failure
    BY <1>3 DEF Failure, TickAborts, SymbolFails, CancelFails, SubmitRefused,
       SaveSubmittedFails, ProcessEnds, GetOrderFails, SubmitAnswerLost, BrokerRejects
  <1>4. CASE \E o \in Orders : Broker(o)
    BY <1>4 DEF Broker, BrokerCancels, BrokerFills
  <1>5. CASE \E traded \in SUBSET Symbols : BarCompletes(traded)
    BY <1>5 DEF BarCompletes
  <1>5a. CASE SessionCloses \/ WaitForOpen
    BY <1>5a DEF SessionCloses, WaitForOpen, vars
  <1>6. QED
    BY <1>1, <1>2, <1>3, <1>4, <1>5, <1>5a DEF Next

LEMMA WatchlistSymbols ==
  ASSUME NEW i \in 1..Len(Watchlist) PROVE Watchlist[i] \in Symbols
  BY ConstantsAssumption

\* A tracked live order is in the table, or is the one being saved.
LEMMA LiveIsOpen ==
  ASSUME IInv, orphans = {}, NEW o \in AllLive
  PROVE  /\ broker[o] \in Order
         /\ o \in OpenOrders(broker[o].sym) \/ (pc = "save" /\ cur = o /\ broker[o].sym = Sym)
  BY DEF IInv, TypeOK, TablesInv, ControlInv, LiveOrdersTracked, AllLive, OpenOrders

\* Neither the order the request is for, nor an untouched symbol ahead of the
\* tick, has a live order.
LEMMA NoLiveOrderAhead ==
  ASSUME IInv, orphans = {}, NEW o \in AllLive
  PROVE  /\ pc = "submit" => broker[o].sym # Sym
         /\ \A i \in 1..Len(Watchlist) :
              Ahead(i) /\ OpenOrders(Watchlist[i]) = {} => broker[o].sym # Watchlist[i]
  <1>1. pc = "submit" => broker[o].sym # Sym
    BY LiveIsOpen DEF IInv, ControlInv
  <1>2. ASSUME NEW i \in 1..Len(Watchlist), Ahead(i), OpenOrders(Watchlist[i]) = {}
        PROVE  broker[o].sym # Watchlist[i]
    <2>1. CASE o \in OpenOrders(broker[o].sym)
      BY <1>2, <2>1
    <2>2. CASE pc = "save" /\ broker[o].sym = Sym
      <3>1. i > next /\ next \in 1..Len(Watchlist)
        BY <1>2, <2>2 DEF Ahead, IInv, ControlInv, TypeOK
      <3>2. Watchlist[i] # Watchlist[next]
        BY <3>1, ConstantsAssumption
      <3>3. QED
        BY <2>2, <3>2 DEF Sym
    <2>3. QED
      BY <2>1, <2>2, LiveIsOpen
  <1>3. QED
    BY <1>1, <1>2

\* A step that leaves the broker alone, and is not about to submit, keeps the
\* relation if it reaches no symbol anew.
LEMMA PositionFrame ==
  ASSUME IInv, UNCHANGED <<broker, position>>, orphans \subseteq orphans',
         RequestCurrent',
         orphans = {} => AccountCurrent'
  PROVE  PositionInv'
  BY DEF IInv, PositionInv, OneLiveOrder, LiveOrderExplained, NoPyramiding, AllLive

\* Moving on to the next symbol, with the tables as they are.
LEMMA AccountFrame ==
  ASSUME IInv, orphans = {}, UNCHANGED <<broker, position, acct>>,
         \A s \in Symbols : OpenOrders(s) \subseteq OpenOrders(s)',
         \A i \in 1..Len(Watchlist) : Ahead(i)' => Ahead(i)
  PROVE  AccountCurrent'
  BY WatchlistSymbols DEF IInv, PositionInv, AccountCurrent

LEMMA PositionSubmit ==
  ASSUME IInv, NEW o \in Orders, Submit(o)
  PROVE  PositionInv'
  <1> SUFFICES ASSUME orphans = {}
               PROVE  OneLiveOrder' /\ LiveOrderExplained' /\ NoPyramiding'
                      /\ RequestCurrent' /\ AccountCurrent'
    BY DEF PositionInv, Submit
  <1> USE DEF brokerVars, dbVars, tickVars, marketVars
  <1>0. /\ OneLiveOrder /\ LiveOrderExplained /\ NoPyramiding
        /\ RequestCurrent /\ AccountCurrent
    BY DEF IInv, PositionInv
  <1>1. /\ broker'[o] = [status |-> "open", sym |-> Sym, side |-> req.side,
                         qty |-> req.qty, filled |-> 0, kind |-> req.kind]
        /\ \A p \in Orders : p # o => broker'[p] = broker[p]
        /\ o \notin AllLive /\ o \notin OpenRows
        /\ UNCHANGED <<position, row, run, acct, next, orphans>>
        /\ pc = "submit" /\ pc' = "save"
    BY DEF Submit, Accepted, Fresh, Used, AllLive, OpenRows, IInv, TypeOK, TablesInv
  <1>2. AllLive' = AllLive \cup {o}
    BY <1>1 DEF AllLive
  <1>3. \A p \in AllLive : broker[p].sym # Sym
    BY <1>1, NoLiveOrderAhead
  <1>4. OneLiveOrder'
    BY <1>0, <1>1, <1>2, <1>3 DEF OneLiveOrder, AllLive
  <1>5. LiveOrderExplained'
    <2>1. req \in Request
      BY DEF IInv, TypeOK
    <2>2. /\ req.kind = "entry" => req.qty <= MaxLot /\ position[Sym] = Dir(req.side) * 0
          /\ req.kind = "close" => position[Sym] = Dir(req.side) * (0 - req.qty)
      BY <1>0, <1>1, <2>1 DEF RequestCurrent, Dir, Request
    <2>3. QED
      BY <1>0, <1>1, <1>2, <2>2 DEF LiveOrderExplained, AllLive
  <1>6. NoPyramiding' /\ RequestCurrent'
    BY <1>0, <1>1 DEF NoPyramiding, RequestCurrent
  <1>7. AccountCurrent'
    <2>1. \A s \in Symbols : OpenOrders(s)' = OpenOrders(s)
      BY <1>1 DEF OpenOrders, OpenRows
    <2>2. \A i \in 1..Len(Watchlist) : Ahead(i)' => Ahead(i)
      BY <1>1 DEF Ahead
    <2>3. QED
      BY <1>0, <1>1, <2>1, <2>2, WatchlistSymbols DEF AccountCurrent
  <1>8. QED
    BY <1>4, <1>5, <1>6, <1>7

\* An order the broker gives up is no longer live; nothing else moves.
LEMMA PositionEnds ==
  ASSUME IInv, NEW o \in Orders, BrokerRejects(o) \/ BrokerCancels(o)
  PROVE  PositionInv'
  <1>1. BrokerStep(o) /\ UNCHANGED position
    BY DEF BrokerStep, BrokerRejects, BrokerCancels
  <1>2. broker'[o].status # "open"
    BY DEF BrokerRejects, BrokerCancels, IInv, TypeOK, Order
  <1>3. \A p \in AllLive' : p \in AllLive /\ broker'[p] = broker[p]
    BY <1>1, <1>2, BrokerStepMoves DEF AllLive, IInv
  <1>4. /\ Sym' = Sym
        /\ \A s \in Symbols : OpenOrders(s)' = OpenOrders(s)
        /\ UNCHANGED <<pc, next, acct, req, orphans>>
    BY <1>1, BrokerStepMoves DEF Sym, OpenOrders, OpenRows, IInv
  <1>5. QED
    BY <1>1, <1>3, <1>4, WatchlistSymbols
       DEF IInv, PositionInv, OneLiveOrder, LiveOrderExplained, NoPyramiding,
           RequestCurrent, AccountCurrent, Ahead

\* A fill builds an entry's position, up to its quantity, and reduces the
\* position a close was sized to, down to flat.
LEMMA FillMoves ==
  ASSUME IInv, orphans = {}, NEW o \in Orders, NEW q \in 1..broker[o].qty, BrokerFills(o, q)
  PROVE  LET b == broker[o] IN
         /\ o \in AllLive /\ b \in Order
         /\ broker'[o].filled = b.filled + q
         /\ \A s \in Symbols : s # b.sym => position'[s] = position[s]
         /\ b.kind = "entry" => /\ b.qty <= MaxLot
                                /\ position'[b.sym] = Dir(b.side) * (b.filled + q)
         /\ b.kind = "close" => /\ position'[b.sym] = Dir(b.side) * (b.filled + q - b.qty)
                                /\ Size(position'[b.sym]) < Size(position[b.sym])
         /\ Size(position'[b.sym]) <= MaxLot
  <1> DEFINE b == broker[o]
  <1>1. /\ o \in AllLive /\ b \in Order /\ b.sym \in Symbols
        /\ q \in Nat /\ q >= 1 /\ b.filled + q <= b.qty
    <2>1. b \in Order
      BY DEF IInv, TypeOK
    <2>2. b.sym \in Symbols /\ b.filled \in Nat /\ b.qty \in Nat
      BY <2>1 DEF Order
    <2>3. b.status = "open" /\ q <= b.qty - b.filled
      BY DEF BrokerFills
    <2>4. QED
      BY <2>1, <2>2, <2>3 DEF AllLive
  <1>2. broker'[o].filled = b.filled + q
    BY <1>1 DEF BrokerFills, IInv, TypeOK, Order
  <1>3. /\ position \in [Symbols -> Int]
        /\ position' = [position EXCEPT ![b.sym] = @ + Dir(b.side) * q]
    BY DEF BrokerFills, IInv, TypeOK
  <1>4. /\ b.kind = "entry" => b.qty <= MaxLot /\ position[b.sym] = Dir(b.side) * b.filled
        /\ b.kind = "close" => position[b.sym] = Dir(b.side) * (b.filled - b.qty)
        /\ Size(position[b.sym]) <= MaxLot
    BY <1>1 DEF IInv, PositionInv, LiveOrderExplained, NoPyramiding
  <1>5. /\ b.filled \in Nat /\ b.qty \in Nat /\ b.kind \in {"entry", "close"}
        /\ b.side \in {"buy", "sell"} /\ MaxLot \in Nat
    BY <1>1, ConstantsAssumption DEF Order, Kind, Side
  <1>6. /\ \A s \in Symbols : s # b.sym => position'[s] = position[s]
        /\ position'[b.sym] = position[b.sym] + Dir(b.side) * q
        /\ position[b.sym] \in Int
    BY <1>1, <1>3
  <1> HIDE DEF b
  <1>7. CASE b.kind = "entry"
    <2>1. position'[b.sym] = Dir(b.side) * (b.filled + q)
      BY <1>1, <1>4, <1>5, <1>6, <1>7 DEF Dir
    <2>2. Size(position'[b.sym]) <= MaxLot
      BY <1>1, <1>4, <1>5, <1>7, <2>1 DEF Dir, Size
    <2>3. QED
      BY <1>1, <1>2, <1>4, <1>6, <1>7, <2>1, <2>2 DEF b
  <1>8. CASE b.kind = "close"
    <2>1. position'[b.sym] = Dir(b.side) * (b.filled + q - b.qty)
      BY <1>1, <1>4, <1>5, <1>6, <1>8 DEF Dir
    <2>2. Size(position'[b.sym]) < Size(position[b.sym])
      BY <1>1, <1>4, <1>5, <1>8, <2>1 DEF Dir, Size
    <2>3. Size(position'[b.sym]) <= MaxLot
      BY <1>1, <1>4, <1>5, <1>8, <2>1 DEF Dir, Size
    <2>4. QED
      BY <1>1, <1>2, <1>6, <1>8, <2>1, <2>2, <2>3 DEF b
  <1>9. QED
    BY <1>5, <1>7, <1>8

LEMMA PositionFills ==
  ASSUME IInv, NEW o \in Orders, NEW q \in 1..broker[o].qty, BrokerFills(o, q)
  PROVE  PositionInv'
  <1>1. BrokerStep(o) /\ UNCHANGED <<pc, next, acct, req, orphans>>
    BY BrokerStepMoves DEF BrokerStep, IInv
  <1> SUFFICES ASSUME orphans = {}
               PROVE  OneLiveOrder' /\ LiveOrderExplained' /\ NoPyramiding'
                      /\ RequestCurrent' /\ AccountCurrent'
    BY <1>1 DEF PositionInv
  <1>0. /\ OneLiveOrder /\ LiveOrderExplained /\ NoPyramiding
        /\ RequestCurrent /\ AccountCurrent
    BY DEF IInv, PositionInv
  <1>2. /\ o \in AllLive /\ AllLive' \subseteq AllLive
        /\ \A p \in Orders : p # o => broker'[p] = broker[p]
        /\ \A p \in Orders : /\ broker'[p].sym = broker[p].sym
                             /\ broker'[p].side = broker[p].side
                             /\ broker'[p].qty = broker[p].qty
                             /\ broker'[p].kind = broker[p].kind
    BY <1>1, BrokerStepMoves DEF AllLive, IInv
  <1>3. OneLiveOrder'
    BY <1>0, <1>2 DEF OneLiveOrder, AllLive
  <1>4. LiveOrderExplained'
    <2> SUFFICES ASSUME NEW p \in AllLive'
                 PROVE  LET b == broker'[p] IN
                   /\ b.kind = "entry" => /\ b.qty <= MaxLot
                                          /\ position'[b.sym] = Dir(b.side) * b.filled
                   /\ b.kind = "close" => position'[b.sym] = Dir(b.side) * (b.filled - b.qty)
      BY DEF LiveOrderExplained
    <2>1. CASE p = o
      <3>1. /\ broker'[p].sym = broker[o].sym /\ broker'[p].side = broker[o].side
            /\ broker'[p].qty = broker[o].qty /\ broker'[p].kind = broker[o].kind
        BY <1>2, <2>1
      <3>2. broker'[p].filled = broker[o].filled + q
        BY <2>1, FillMoves
      <3>3. /\ broker[o].kind = "entry" =>
                 /\ broker[o].qty <= MaxLot
                 /\ position'[broker[o].sym]
                      = Dir(broker[o].side) * (broker[o].filled + q)
            /\ broker[o].kind = "close" =>
                 position'[broker[o].sym]
                   = Dir(broker[o].side) * (broker[o].filled + q - broker[o].qty)
        BY FillMoves
      <3>4. /\ broker'[p].kind = "entry" =>
                 /\ broker'[p].qty <= MaxLot
                 /\ position'[broker'[p].sym] = Dir(broker'[p].side) * broker'[p].filled
            /\ broker'[p].kind = "close" =>
                 position'[broker'[p].sym]
                   = Dir(broker'[p].side) * (broker'[p].filled - broker'[p].qty)
        <4> DEFINE n == broker'[p]
                   b == broker[o]
        <4>1. n.kind = b.kind /\ n.side = b.side /\ n.qty = b.qty
          BY <3>1
        <4>2. n.filled = b.filled + q
          BY <3>2
        <4>3. position'[n.sym] = position'[b.sym]
          BY <3>1
        <4>4. b.kind = "entry" => b.qty <= MaxLot
                                  /\ position'[b.sym] = Dir(b.side) * (b.filled + q)
          BY <3>3
        <4>5. b.kind = "close" => position'[b.sym] = Dir(b.side) * (b.filled + q - b.qty)
          BY <3>3
        <4>6. b.filled \in Nat /\ b.qty \in Nat /\ q \in Nat
          BY LiveIsOpen, <1>2 DEF Order
        <4> HIDE DEF n, b
        <4>7. n.kind = "entry" => n.qty <= MaxLot
                                  /\ position'[n.sym] = Dir(n.side) * n.filled
          BY <4>1, <4>2, <4>3, <4>4
        <4>8. n.kind = "close" => position'[n.sym] = Dir(n.side) * (n.filled - n.qty)
          BY <4>1, <4>2, <4>3, <4>5, <4>6
        <4>9. QED
          BY <4>7, <4>8 DEF n
      <3>5. QED
        BY <3>4
    <2>2. CASE p # o
      <3>1. p \in AllLive /\ broker[p].sym # broker[o].sym /\ broker'[p] = broker[p]
        BY <1>0, <1>2, <2>2 DEF OneLiveOrder, AllLive
      <3>2. position'[broker[p].sym] = position[broker[p].sym]
        BY <3>1, FillMoves, LiveIsOpen DEF Order
      <3>3. QED
        BY <1>0, <3>1, <3>2 DEF LiveOrderExplained
    <2>3. QED
      BY <2>1, <2>2
  <1>5. NoPyramiding'
    BY <1>0, FillMoves DEF NoPyramiding
  <1>6. RequestCurrent'
    <2>1. ASSUME pc = "submit" PROVE Sym \in Symbols /\ broker[o].sym # Sym
      BY <1>2, <2>1, NoLiveOrderAhead, SymType DEF IInv, ControlInv
    <2>2. pc = "submit" => position'[Sym] = position[Sym]
      BY <2>1, FillMoves
    <2>3. QED
      BY <1>0, <1>1, <2>2 DEF RequestCurrent, Sym
  <1>7. AccountCurrent'
    <2> SUFFICES ASSUME NEW i \in 1..Len(Watchlist), Ahead(i)', OpenOrders(Watchlist[i])' = {}
                 PROVE  position'[Watchlist[i]] = acct'[Watchlist[i]]
      BY DEF AccountCurrent
    <2>1. Ahead(i) /\ OpenOrders(Watchlist[i]) = {} /\ acct' = acct
      BY <1>1, <1>2, BrokerStepMoves DEF Ahead, OpenOrders, OpenRows, IInv
    <2>2. Watchlist[i] \in Symbols /\ Watchlist[i] # broker[o].sym
      BY <1>2, <2>1, NoLiveOrderAhead, WatchlistSymbols
    <2>3. QED
      BY <1>0, <2>1, <2>2, FillMoves DEF AccountCurrent
  <1>8. QED
    BY <1>3, <1>4, <1>5, <1>6, <1>7

LEMMA StepPositionInv == IInv /\ [Next]_vars => PositionInv'
  <1> SUFFICES ASSUME IInv, [Next]_vars PROVE PositionInv'
    OBVIOUS
  <1> USE DEF brokerVars, dbVars, tickVars, marketVars
  <1>0. orphans \subseteq orphans'
    BY OrphansGrow DEF IInv
  <1>1. CASE UNCHANGED vars
    BY <1>1 DEF vars, IInv, PositionInv, OneLiveOrder, LiveOrderExplained, NoPyramiding,
       RequestCurrent, AccountCurrent, AllLive, Ahead, OpenOrders, OpenRows, Sym
  <1>2. CASE TickBegins \/ UpdateFromBroker \/ SaveFill \/ GetSnapshot \/ TickDone
             \/ TickAborts \/ ProcessEnds \/ RunLive
    <2>1. UNCHANGED <<broker, position>> /\ pc' \notin {"symbols", "submit", "save"}
      BY <1>2 DEF TickBegins, UpdateFromBroker, SaveFill, GetSnapshot, TickDone, TickAborts,
         ProcessEnds, RunLive, TickEnds
    <2>2. QED
      BY <1>0, <2>1, PositionFrame DEF RequestCurrent, AccountCurrent, Ahead
  <1>3. ASSUME NEW o \in Orders, GetOrder(o) \/ GetOrderFails(o) PROVE PositionInv'
    <2>1. UNCHANGED <<broker, position>> /\ pc' \notin {"symbols", "submit", "save"}
      BY <1>3 DEF GetOrder, GetOrderFails
    <2>2. QED
      BY <1>0, <2>1, PositionFrame DEF RequestCurrent, AccountCurrent, Ahead
  <1>4. CASE GetAccountState
    <2>1. UNCHANGED <<broker, position>> /\ acct' = position /\ pc' = "symbols"
      BY <1>4 DEF GetAccountState
    <2>2. QED
      BY <1>0, <2>1, PositionFrame DEF RequestCurrent, AccountCurrent
  <1>5. CASE NoOrderWanted \/ SymbolFails \/ ConflictingOrder \/ CancelFails
             \/ SubmitConflict \/ SubmitRefused
    <2>1. /\ UNCHANGED <<broker, position, acct, row, run>>
          /\ pc \in {"symbols", "submit"} /\ pc' = "symbols" /\ next' = next + 1
          /\ next \in Nat
      BY <1>5 DEF NoOrderWanted, SymbolFails, ConflictingOrder, CancelFails, SubmitConflict,
         SubmitRefused, NextSymbol, Processing, IInv, TypeOK
    <2>2. \A i \in 1..Len(Watchlist) : Ahead(i)' => Ahead(i)
      BY <2>1 DEF Ahead
    <2>3. orphans = {} => AccountCurrent'
      BY <2>1, <2>2, AccountFrame DEF OpenOrders, OpenRows
    <2>4. QED
      BY <1>0, <2>1, <2>3, PositionFrame DEF RequestCurrent
  <1>6. CASE OrderApproved
    <2>1. /\ UNCHANGED <<broker, position, acct, row, run, next, orphans>>
          /\ pc = "symbols" /\ pc' = "submit" /\ next \in 1..Len(Watchlist)
          /\ OpenOrders(Sym) = {} /\ Sym \in Symbols /\ Sym' = Sym
      BY <1>6, SymType DEF OrderApproved, Processing, IInv, TypeOK, Sym
    <2>2. \A i \in 1..Len(Watchlist) : Ahead(i)' => Ahead(i)
      BY <2>1 DEF Ahead
    <2>3. orphans = {} => AccountCurrent'
      BY <2>1, <2>2, AccountFrame DEF OpenOrders, OpenRows
    <2>4. ASSUME orphans = {} PROVE RequestCurrent'
      <3>1. pc = "symbols" /\ next \in Int
        BY <2>1
      <3>6. Ahead(next)
        BY ONLY <3>1 DEF Ahead
      <3>2. position[Sym] = acct[Sym]
        BY <2>1, <2>4, <3>6 DEF IInv, PositionInv, AccountCurrent, Sym
      <3>3. PICK target \in Targets(Sym) : req' \in Approvals(Sym, target)
        BY <1>6 DEF OrderApproved
      <3>4. /\ req'.kind = "entry" => acct[Sym] = 0 /\ req'.qty <= MaxLot
            /\ req'.kind = "close" => acct[Sym] = -(Dir(req'.side) * req'.qty)
        BY <2>1, <3>3, ApprovalsType DEF IInv
      <3>5. QED
        BY <2>1, <3>2, <3>4 DEF RequestCurrent
    <2>5. QED
      BY <2>1, <2>3, <2>4
         DEF IInv, PositionInv, OneLiveOrder, LiveOrderExplained, NoPyramiding, AllLive
  <1>7. CASE SaveSubmitted
    <2>1. /\ UNCHANGED <<broker, position, acct, run>>
          /\ pc = "save" /\ pc' = "symbols" /\ next' = next + 1 /\ next \in Nat
          /\ row' = [row EXCEPT ![cur] = [run |-> run, status |-> "open"]]
      BY <1>7 DEF SaveSubmitted, IInv, TypeOK
    <2>2. \A i \in 1..Len(Watchlist) : Ahead(i)' => Ahead(i)
      BY <2>1 DEF Ahead
    <2>3. \A s \in Symbols : OpenOrders(s) \subseteq OpenOrders(s)'
      BY <2>1 DEF OpenOrders, OpenRows, IInv, TypeOK
    <2>4. QED
      BY <1>0, <2>1, <2>2, <2>3, AccountFrame, PositionFrame DEF RequestCurrent
  <1>8. CASE SaveSubmittedFails
    <2>1. /\ UNCHANGED <<broker, position, acct, row, run>>
          /\ pc = "save" /\ pc' = "symbols" /\ next' = next + 1 /\ next \in Nat
      BY <1>8 DEF SaveSubmittedFails, IInv, TypeOK
    <2>2. \A i \in 1..Len(Watchlist) : Ahead(i)' => Ahead(i)
      BY <2>1 DEF Ahead
    <2>3. orphans = {} => AccountCurrent'
      BY <2>1, <2>2, AccountFrame DEF OpenOrders, OpenRows
    <2>4. QED
      BY <1>0, <2>1, <2>3, PositionFrame DEF RequestCurrent
  <1>9. ASSUME NEW o \in Orders, Submit(o) PROVE PositionInv'
    BY <1>9, PositionSubmit
  <1>10. ASSUME NEW o \in Orders, SubmitAnswerLost(o) PROVE PositionInv'
    BY <1>10 DEF SubmitAnswerLost, PositionInv
  <1>11. ASSUME NEW o \in Orders, BrokerRejects(o) \/ BrokerCancels(o) PROVE PositionInv'
    BY <1>11, PositionEnds
  <1>12. ASSUME NEW o \in Orders, NEW q \in 1..broker[o].qty, BrokerFills(o, q)
         PROVE  PositionInv'
    BY <1>12, PositionFills
  <1>13. ASSUME NEW traded \in SUBSET Symbols, BarCompletes(traded) PROVE PositionInv'
    BY <1>13 DEF BarCompletes, IInv, PositionInv, OneLiveOrder, LiveOrderExplained,
       NoPyramiding, RequestCurrent, AccountCurrent, AllLive, Ahead, OpenOrders, OpenRows, Sym
  <1>13a. CASE SessionCloses \/ WaitForOpen
    BY <1>13a DEF SessionCloses, WaitForOpen, vars, IInv, PositionInv, OneLiveOrder,
       LiveOrderExplained, NoPyramiding, RequestCurrent, AccountCurrent, AllLive, Ahead,
       OpenOrders, OpenRows, Sym
  <1>14. QED
    BY <1>1, <1>2, <1>3, <1>4, <1>5, <1>6, <1>7, <1>8, <1>9, <1>10, <1>11, <1>12, <1>13,
       <1>13a
       DEF Next, Tick, Failure, Broker

-----------------------------------------------------------------------------

LEMMA InitIInv == Init => IInv
  <1> SUFFICES ASSUME Init PROVE IInv
    OBVIOUS
  <1>1. TypeOK
    BY InitTypeOK
  <1>2. AllLive = {} /\ OpenRows = {} /\ \A o \in Orders : broker[o] = Unused
    BY UnusedType DEF Init, AllLive, OpenRows
  <1>3. ControlInv
    BY <1>2 DEF Init, ControlInv
  <1>4. TablesInv
    BY <1>2, UnusedType DEF Init, TablesInv, OneOpenOrderPerSymbol, TradesMatchFills,
       TerminalRowsAgree, LiveOrdersTracked, AllLive, Terminal
  <1>5. PositionInv
    BY <1>2, ConstantsAssumption DEF Init, PositionInv, OneLiveOrder, LiveOrderExplained,
       NoPyramiding, RequestCurrent, AccountCurrent, Ahead, Flat, Size
  <1>6. QED
    BY <1>1, <1>3, <1>4, <1>5 DEF IInv

LEMMA StepIInv == IInv /\ [Next]_vars => IInv'
  BY StepTypeOK, StepControlInv, StepTablesInv, StepPositionInv DEF IInv

\* The inductive invariant: types, what each program counter promises, how the
\* tables relate to the broker, and what explains the positions.
THEOREM Invariance == Spec => []IInv
  BY InitIInv, StepIInv, PTL DEF Spec

\* Every variable keeps its type.
THEOREM Typing == Spec => []TypeOK
  <1>1. IInv => TypeOK
    BY DEF IInv
  <1>2. QED
    BY <1>1, Invariance, PTL

\* _clear_conflicting_orders asks the table before every submission, so a run
\* never has two orders of a symbol open, whatever fails.
THEOREM OpenOrders1 == Spec => []OneOpenOrderPerSymbol
  <1>1. IInv => OneOpenOrderPerSymbol
    BY DEF IInv, TablesInv
  <1>2. QED
    BY <1>1, Invariance, PTL

\* _reconcile_fills records a trade at most once per order, only for a complete
\* fill, and for the quantity filled, whatever fails between its two commits.
THEOREM TradesFaithful == Spec => []TradesMatchFills
  <1>1. IInv => TradesMatchFills
    BY DEF IInv, TablesInv
  <1>2. QED
    BY <1>1, Invariance, PTL

\* update_from_broker never writes an order off that the broker can still fill.
THEOREM TerminalRows == Spec => []TerminalRowsAgree
  <1>1. IInv => TerminalRowsAgree
    BY DEF IInv, TablesInv
  <1>2. QED
    BY <1>1, Invariance, PTL

\* A live order the current run does not know of was lost by a failure.
THEOREM OrdersTracked == Spec => []LiveOrdersTracked
  <1>1. IInv => LiveOrdersTracked
    BY DEF IInv, TablesInv
  <1>2. QED
    BY <1>1, Invariance, PTL

\* While no live order was lost track of, no position grows beyond the lot of
\* the entry that opened it: TradingEngine.tick never pyramids.
THEOREM Sized == Spec => []NoPyramiding
  <1>1. IInv => NoPyramiding
    BY DEF IInv, PositionInv, NoPyramiding
  <1>2. QED
    BY <1>1, Invariance, PTL

\* Only a fill of the broker increases what an order has filled.
LEMMA OnlyFillsFill ==
  ASSUME IInv, [Next]_vars, NEW o \in Orders, broker'[o].filled > broker[o].filled
  PROVE  \E q \in 1..broker[o].qty : BrokerFills(o, q)
  <1> USE DEF brokerVars, IInv, TypeOK
  <1>0. broker[o].filled \in Nat
    BY DEF Order
  <1>1. broker' # broker
    BY <1>0
  <1>2. /\ ~UNCHANGED vars /\ ~SessionCloses /\ ~WaitForOpen
        /\ \A traded \in SUBSET Symbols : ~BarCompletes(traded)
    BY <1>1 DEF vars, BarCompletes, SessionCloses, WaitForOpen
  <1>3. ASSUME NEW p \in Orders, Accepted(p, Sym, req) PROVE FALSE
    BY <1>0, <1>3 DEF Accepted
  <1>4. ~Tick
    BY <1>1, <1>3 DEF Tick, TickBegins, UpdateFromBroker, SaveFill, GetSnapshot,
       GetAccountState, TickDone, NoOrderWanted, ConflictingOrder, OrderApproved,
       SubmitConflict, SaveSubmitted, RunLive, GetOrder, Submit
  <1>5. ASSUME NEW p \in Orders, BrokerRejects(p) \/ BrokerCancels(p) PROVE FALSE
    <2>1. PICK st \in Status : broker' = [broker EXCEPT ![p].status = st]
      BY <1>5 DEF BrokerRejects, BrokerCancels, Status, Terminal
    <2>2. broker'[o].filled = broker[o].filled
      BY <2>1 DEF Order
    <2>3. QED
      BY <1>0, <2>2
  <1>6. ~Failure
    BY <1>1, <1>3, <1>5 DEF Failure, TickAborts, SymbolFails, CancelFails, SubmitRefused,
       SaveSubmittedFails, ProcessEnds, GetOrderFails, SubmitAnswerLost
  <1>7. PICK p \in Orders : \E q \in 1..broker[p].qty : BrokerFills(p, q)
    BY <1>2, <1>4, <1>5, <1>6 DEF Next, Broker
  <1>8. p = o
    BY <1>0, <1>7 DEF BrokerFills
  <1>9. QED
    BY <1>7, <1>8

\* While no live order was lost track of, every fill of a close reduces the
\* position: a close never opens, and never reverses, one.
THEOREM ClosesReduce == Spec => CloseOnlyReduces
  <1> DEFINE Reduces == orphans = {} =>
        \A o \in Orders : broker[o].kind = "close" /\ broker'[o].filled > broker[o].filled =>
          LET s == broker[o].sym IN Size(position'[s]) < Size(position[s])
  <1>1. IInv /\ [Next]_vars => [Reduces]_vars
    BY OnlyFillsFill, FillMoves
  <1>2. QED
    BY <1>1, Invariance, PTL DEF Spec, CloseOnlyReduces

=============================================================================
