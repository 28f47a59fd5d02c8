----------------------------- MODULE MCBarsCache -----------------------------
(* Instances of BarsCache for TLC: months of two days, days of two slots.    *)
EXTENDS BarsCache

CONSTANTS s1, s2, c1, c2

\* One symbol trades always, the other misses a slot of each month.
TradedSlots == [s \in Symbols |-> IF s = s1 THEN Slots ELSE Slots \ {2, 5}]

\* Ranges that start and end inside and at the edge of days and months.
Ranges == {<<0, 3>>, <<1, 6>>, <<3, 5>>, <<2, 2>>}
TwoSymbolRequests ==
  {[syms |-> q, from |-> r[1], to |-> r[2]] : q \in {<<s1>>, <<s2, s1>>}, r \in Ranges}
OneSymbolRequests ==
  {[syms |-> <<s2>>, from |-> r[1], to |-> r[2]] : r \in {<<0, 3>>, <<1, 6>>}}
=============================================================================
