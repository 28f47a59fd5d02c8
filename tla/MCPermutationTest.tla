-------------------------- MODULE MCPermutationTest --------------------------
(* An instance of PermutationTest for TLC: two symbols over three slots, each *)
(* of which may lack a bar; commands with and without a permutation method.   *)
EXTENDS PermutationTest

CONSTANTS a, b

TwoSymbols == <<a, b>>

Offers(open, close, targets) == {[open |-> open, close |-> close, target |-> x] : x \in targets}

\* Entries on the first bar, exits and reversals on the second.
Offered ==
  (a :> << Offers(4, 6, {"long", "short"}),
           Offers(6, 4, {"flat", "short"}) \cup Offers(4, 6, {"unchanged"}),
           Offers(4, 6, {"flat"}) >>)
  @@ (b :> << Offers(4, 4, {"long"}), Offers(6, 6, {"flat", "unchanged"}), Offers(4, 4, {"short"}) >>)

Command(permute, sampling, workers, policy, defined) ==
  [permute |-> permute, sampling |-> sampling, workers |-> workers, policy |-> policy,
   defined |-> defined]

SomeCommands ==
  {Command("none", "-", 1, "fail", FALSE)}
    \cup {Command("trades", s, 1, "fail", FALSE) : s \in {"shuffle", "resample"}}
    \cup {Command("bars", "-", w, "fail", TRUE) : w \in 1..2}
    \cup {Command("bars", "-", 2, "penalize", TRUE), Command("bars", "-", 3, "zero", TRUE),
          Command("bars", "-", 1, "fail", FALSE)}

LargePenalty == -1000

AllMetrics == {"total_return", "profit_factor"}

ASSUME ExactPrices ==
  \A s \in Syms, t \in 1..Slots : \A bar \in Market[s][t] :
    /\ (bar.open * (100 + PctHalfSpread) * (100 + PctSlippage)) % 10000 = 0
    /\ (bar.open * (100 - PctHalfSpread) * (100 - PctSlippage)) % 10000 = 0
    /\ Stake % bar.close = 0 /\ (Capital * PctSize) % 100 = 0
=============================================================================
