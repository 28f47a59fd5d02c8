--------------------------- MODULE ExposureMachine ---------------------------
(***************************************************************************)
(* What the engine promises of a symbol's exposure, whatever the account and *)
(* the prices: it is entered from flat and left to flat, one symbol at a     *)
(* time; there is no direct reversal.                                        *)
(***************************************************************************)
CONSTANT Symbols

VARIABLE exposure

Init == exposure = [s \in Symbols |-> "flat"]

Enter(s, target) ==
  /\ exposure[s] = "flat"
  /\ exposure' = [exposure EXCEPT ![s] = target]

Leave(s) ==
  /\ exposure[s] # "flat"
  /\ exposure' = [exposure EXCEPT ![s] = "flat"]

Next == \E s \in Symbols : Leave(s) \/ \E target \in {"long", "short"} : Enter(s, target)

Spec == Init /\ [][Next]_exposure
=============================================================================
