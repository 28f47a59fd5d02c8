---------------------------- MODULE MCLiveTrading ----------------------------
(* Instances of LiveTrading for TLC.                                         *)
EXTENDS LiveTrading

CONSTANTS s1, s2

OneSymbol  == <<s1>>
TwoSymbols == <<s1, s2>>
=============================================================================
