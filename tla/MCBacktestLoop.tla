--------------------------- MODULE MCBacktestLoop ---------------------------
(***************************************************************************)
(* Months of two, three and four days, so that an anchor late in a month   *)
(* is clamped in some months and not in others; up to three iterations;    *)
(* one model given beforehand that some schedules may use and others not.  *)
(***************************************************************************)
EXTENDS BacktestLoop

MCMonthDays == <<4, 2, 4, 3, 4, 3, 4, 4, 3, 4>>
MCPeriods == [quarterly |-> 1, yearly |-> 2]
MCToday == Date(9, 3)
MCDiscoveryEnd == Date(1, 1)
Given == [place |-> <<0, 0>>, trainStart |-> Date(1, 3), validationEnd |-> Date(4, 3),
          cohort |-> {"a", "b"}]
MCGivenModels == {Given}

Anchors == {Date(m, d) : m \in 1..5, d \in {1, 2, 3, 4}}
MCOptions ==
  {o \in [iterations : 0..3, buckets : {1, 2}, train : BOOLEAN, strict : BOOLEAN,
          anchor : Anchors, model : {Given}, trainPeriod : DOMAIN MCPeriods,
          validationPeriod : {"quarterly"}, backtestPeriod : DOMAIN MCPeriods] :
     /\ o.anchor.day <= MCMonthDays[o.anchor.month]
     /\ o.train => o.iterations <= 2
     /\ o.train /\ o.iterations * o.buckets > 1 =>
          /\ o.anchor = Date(1, 3) /\ o.trainPeriod = "quarterly"
          /\ o.iterations * o.buckets <= 2
     /\ o.train /\ o.iterations > 1 => ~o.strict
     /\ ~o.train => o.trainPeriod = "quarterly" /\ ~o.strict}
=============================================================================
