----------------------------- MODULE RiskManager -----------------------------
(***************************************************************************)
(* BasicRiskManager.assess: which order a target exposure is turned into.    *)
(* Money and prices are integers, fractions of the configuration integer     *)
(* percentages, so that every comparison of the code is exact here.          *)
(***************************************************************************)
EXTENDS Integers

CONSTANTS
  MaxNotional,        \* risk.max_position_notional
  PctEquity,          \* risk.max_position_pct_equity
  PctExposure,        \* risk.max_total_exposure_pct
  MaxOpenPositions,   \* risk.max_open_positions
  PctPowerBuffer,     \* risk.buying_power_buffer
  PctSlippageBuffer,  \* risk.slippage_buffer
  PctDailyLoss        \* risk.max_daily_loss_pct

ASSUME RiskAssumption ==
  /\ MaxNotional \in Nat \ {0} /\ MaxOpenPositions \in Nat \ {0}
  /\ PctEquity \in 1..100 /\ PctExposure \in Nat \ {0}
  /\ PctPowerBuffer \in 1..100 /\ PctSlippageBuffer \in Nat /\ PctDailyLoss \in 1..100

Size(n)       == IF n < 0 THEN -n ELSE n
Dir(side)     == IF side = "buy" THEN 1 ELSE -1
ExposureOf(n) == IF n > 0 THEN "long" ELSE IF n < 0 THEN "short" ELSE "flat"

Rejected == [approved |-> FALSE, side |-> "buy", qty |-> 0, kind |-> "entry"]

\* An account: equity, last_equity, buying_power, the number of positions and
\* their gross market value.
DailyLossHit(a) ==
  a.lastEquity > 0 /\ 100 * (a.equity - a.lastEquity) < -(PctDailyLoss * a.lastEquity)

\* Budgets are hundredfold, so that no percentage is rounded.
Budget(a) ==
  IF 100 * MaxNotional <= PctEquity * a.equity THEN 100 * MaxNotional ELSE PctEquity * a.equity

\* Mutant: the slippage buffer is only applied once the lot is reduced.
LotUnbuffered(a, price) ==
  LET lot == Budget(a) \div (100 * price) IN
  IF 100 * lot * price > a.power * PctPowerBuffer
  THEN (a.power * PctPowerBuffer) \div (price * (100 + PctSlippageBuffer))
  ELSE lot

\* Whole shares within the position budget, reduced to what the buffered
\* buying power can pay for.
Lot(a, price) ==
  LET lot == Budget(a) \div (100 * price) IN
  IF lot * price * (100 + PctSlippageBuffer) > a.power * PctPowerBuffer
  THEN (a.power * PctPowerBuffer) \div (price * (100 + PctSlippageBuffer))
  ELSE lot

AssessEntry(target, a, quote) ==
  LET side  == IF target = "long" THEN "buy" ELSE "sell"
      price == IF side = "buy" THEN quote.ask ELSE quote.bid
      lot   == Lot(a, price)
  IN  IF \/ DailyLossHit(a)
         \/ a.positions >= MaxOpenPositions
         \/ price <= 0
         \/ lot < 1
         \/ 100 * (a.gross + lot * price) > PctExposure * a.equity
      THEN Rejected
      ELSE [approved |-> TRUE, side |-> side, qty |-> lot, kind |-> "entry"]

\* Mutant: a reversal closes and enters in one order.
AssessReversing(target, held, a, quote) ==
  IF target \in {"unchanged", ExposureOf(held)} THEN Rejected
  ELSE IF held # 0
       THEN [approved |-> TRUE, side |-> IF held > 0 THEN "sell" ELSE "buy",
             qty |-> IF target = "flat" THEN Size(held) ELSE 2 * Size(held), kind |-> "close"]
  ELSE AssessEntry(target, a, quote)

\* Any transition away from a position closes it first, without entry limits.
Assess(target, held, a, quote) ==
  IF target \in {"unchanged", ExposureOf(held)} THEN Rejected
  ELSE IF held # 0
       THEN [approved |-> TRUE, side |-> IF held > 0 THEN "sell" ELSE "buy",
             qty |-> Size(held), kind |-> "close"]
  ELSE AssessEntry(target, a, quote)
=============================================================================
