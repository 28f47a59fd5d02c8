------------------------------- MODULE MCTui -------------------------------
(***************************************************************************)
(* Small instances of the terminal front end.  A tour names the screens    *)
(* one user visits, so that the product of all screens' states is not      *)
(* explored: commands and their output; the loop form and its previews;    *)
(* the loop form with one override edited; configuration and promotion.    *)
(***************************************************************************)
EXTENDS TuiApp

MCCommands == <<"backtest", "live">>
MCFilters == [li |-> {"live"}, zz |-> {}]
MCProfiles == {"backtest", "typo"}
MCRootSnapshots == [main |-> {"s1", "s2"}, other |-> {}]
MCSnapshotBuckets == [s1 |-> {"tech"}, s2 |-> {"all"}]
MCProfileArtifacts == [backtest |-> {"m1"}, typo |-> {}]

Risk == <<"risk">>
Model == <<"model">>
\* A mapping that is replaced as a whole: empty for paper, filled by the other.
Space == <<"search_space">>
MCAtomic == {Space}
MCLower == ("backtest" :> ((Risk :> 1) @@ (Model :> 1) @@ (Append(Space, "risk") :> 1))) @@
           ("trading/paper" :> ((Risk :> 0) @@ (Model :> 0) @@ (Space :> Empty)))
MCConflicts == {(Risk :> 1) @@ (Model :> 0)}

Subsets == [main |-> SUBSET {"s1", "s2"}, other |-> {{}}]
Single == [main |-> {{"s1"}}, other |-> {{}}]

Tour(screens, fields, leaves, found, runs, writes) ==
  [screens |-> screens, fields |-> fields, leaves |-> leaves, found |-> found,
   starts |-> runs, writes |-> writes]
MCTours ==
  {Tour({"Commands", "Output"}, {"list", "form"}, {}, Single, 2, 0),
   Tour({}, {"form"}, {}, Single, 1, 2),
   Tour({"Config", "Promote"}, {"profile"}, {Risk, Model}, Single, 0, 0),
   Tour({"BacktestLoop"}, {"start", "snapshot", "bucket", "artifact"}, {}, Subsets, 0, 0),
   Tour({"BacktestLoop"}, {"iterations", "root", "profile", "snapshot", "artifact"}, {}, Subsets, 0, 0),
   Tour({"BacktestLoop"}, {"train", "snapshot", "allBuckets"}, {}, Subsets, 0, 0),
   Tour({"BacktestLoop", "Config"}, {"train", "snapshot", "bucket"}, {Risk}, Single, 0, 0)}
=============================================================================
