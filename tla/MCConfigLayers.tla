--------------------------- MODULE MCConfigLayers ---------------------------
(***************************************************************************)
(* Three layer files above a base layer that has an ordinary value, a null *)
(* slot, an empty slot, an atomic mapping and a universe selection; every  *)
(* way the files may extend one another, with one parent list of up to two *)
(* entries each, and a small choice of bodies and overrides.               *)
(***************************************************************************)
EXTENDS ConfigLayers, TLC, FiniteSets

MCFiles == {"base", "left", "right", "profile"}
MCAtomic == {<<"model", "target">>}
MCMembers == [tech |-> "AAPL,MSFT"]

Slot == <<"backtest", "permutation">>
Params == <<"features", "params">>
Kind == <<"model", "target", "kind">>
Horizon == <<"model", "target", "horizon">>

Base == (<<"risk">> :> 1) @@ (Slot :> Null) @@ (Params :> Empty) @@ (Kind :> 1) @@ (Horizon :> 1)
        @@ (SymbolsPath :> "SPY") @@ (BucketPath :> Null)

\* What a layer may say: each of these, or two of them at once.  The mapping
\* at model.target has a key the base layer has not; risk.limit puts a mapping
\* where the base layer has a value.
Pieces == {<<"risk">> :> 2, <<"risk", "limit">> :> 2, Slot :> 3, Append(Slot, "runs") :> 4,
           Slot :> Null, Append(Params, "fast") :> 5, Params :> Empty, Horizon :> 6, Kind :> 7,
           <<"model", "target", "type">> :> 7, BucketPath :> "tech",
           SymbolsPath :> "AAPL,MSFT", <<"typo">> :> 8}

Pairs == {a @@ b : a, b \in Pieces}
Bodies == {NoLeaves} \cup {x \in Pairs : Nestable(x)}

One(p, v) == [path |-> p, leaves |-> p :> v]
Target == [path |-> <<"model", "target">>, leaves |-> Kind :> 9]
Runs == One(Append(Slot, "runs"), 9)
Few == {<<>>, <<Target>>, <<Target, One(Horizon, 9)>>, <<One(Horizon, 9), Target>>, <<One(Kind, 9)>>,
        <<One(<<"risk">>, 9)>>, <<One(<<"risk", "limit">>, 9)>>,
        <<One(<<"risk">>, 9), One(<<"risk", "limit">>, 9)>>,
        <<One(<<"risk", "limit">>, 9), One(<<"risk">>, 9)>>,
        <<Runs>>, <<One(Slot, Null)>>, <<One(Slot, Null), Runs>>, <<One(Slot, Empty), Runs>>,
        <<Runs, One(Slot, Empty)>>, <<One(Params, Empty)>>,
        <<One(SymbolsPath, "AAPL,MSFT")>>, <<One(SymbolsPath, "SPY")>>,
        <<One(BucketPath, "none")>>, <<One(DerivedPath, 9)>>}

Lists == {<<>>, <<"base">>, <<"base", "left">>, <<"left", "right">>, <<"right">>, <<"gone">>}

\* Every extends graph over fixed bodies, and every pair of bodies over the
\* diamond: the profile extends left and right, which extend the base.
Graphs ==
  {[extends |-> [f \in MCFiles |-> CASE f = "base" -> <<>> [] f = "left" -> l
                                     [] f = "right" -> r [] OTHER -> p],
    body |-> [f \in MCFiles |-> CASE f = "base" -> Base [] f = "profile" -> NoLeaves
                                  [] f = "left" -> <<"risk">> :> 2 [] OTHER -> <<"risk">> :> 3],
    overrides |-> <<>>] : l, r, p \in Lists}
Diamonds ==
  {[extends |-> [f \in MCFiles |-> CASE f = "base" -> <<>> [] f = "profile" -> <<"left", "right">>
                                     [] OTHER -> <<"base">>],
    body |-> [f \in MCFiles |-> CASE f = "base" -> Base [] f = "left" -> l
                                  [] f = "right" -> r [] OTHER -> NoLeaves],
    overrides |-> o] : l, r \in Bodies, o \in Few}
MCProjects == Graphs \cup Diamonds
=============================================================================
