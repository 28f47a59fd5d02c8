------------------------------ MODULE MCBacktest ------------------------------
(* Instances of Backtest for TLC.                                            *)
EXTENDS Backtest

CONSTANTS s1, s2

OneSymbol  == <<s1>>
TwoSymbols == <<s1, s2>>

\* The instances' prices carry every cost exactly: no floor of the model
\* rounds a price the code keeps as a float.
ASSUME ExactPrices ==
  \A p \in Opens \cup Closes :
    /\ (p * (100 + PctHalfSpread) * (100 + PctSlippage)) % 10000 = 0
    /\ (p * (100 - PctHalfSpread) * (100 - PctSlippage)) % 10000 = 0
    /\ (p * PctHalfSpread) % 100 = 0
=============================================================================
