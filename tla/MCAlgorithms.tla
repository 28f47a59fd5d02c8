----------------------------- MODULE MCAlgorithms -----------------------------
(* Instances of Algorithms: inputs around every limit of each algorithm.     *)
EXTENDS Algorithms, TLC

\* Risk: accounts, quotes and positions around every limit.

Accounts == [equity : {-10, 60, 90, 100, 140}, lastEquity : {0, 100}, power : {0, 15, 40, 300},
             positions : 0..2, gross : {0, 30, 50}]
Quotes   == {[bid |-> 9, ask |-> 10], [bid |-> 0, ask |-> 7], [bid |-> 3, ask |-> 3]}
MCRiskInputs ==
  [target : {"unchanged", "flat", "long", "short"}, held : {-3, 0, 4},
   account : Accounts, quote : Quotes]

-----------------------------------------------------------------------------

\* Shuffle: three shapes of bars behind zero to two bars of warm-up.

BarShapes == {[gap |-> 2, high |-> 3, low |-> -1, close |-> 1, volume |-> 1],
              [gap |-> -1, high |-> 0, low |-> -4, close |-> -2, volume |-> 2],
              [gap |-> 0, high |-> 1, low |-> 0, close |-> 1, volume |-> 3]}

\* The bars with these shapes, one after the other from a close of zero.
BarsOf(shapes) ==
  LET close[i \in 0..Len(shapes)] == IF i = 0 THEN 0 ELSE close[i - 1] + shapes[i].gap + shapes[i].close
  IN  [i \in 1..Len(shapes) |->
         LET open == close[i - 1] + shapes[i].gap IN
         [time |-> i, open |-> open, high |-> open + shapes[i].high, low |-> open + shapes[i].low,
          close |-> close[i], volume |-> shapes[i].volume]]

MCShuffleInputs ==
  {[bars |-> BarsOf(shapes), start |-> start] : shapes \in [1..4 -> BarShapes], start \in 1..4}

-----------------------------------------------------------------------------

\* HMM context: histories with gaps, a close that is not positive, and windows
\* the fit fails on.

Histories5 ==
  {[i \in 1..6 |-> [time |-> IF i > pause THEN i + 3 ELSE i, value |-> values[i]]] :
     values \in {<<1, 2>> \o v : v \in [1..4 -> 1..2]} \cup {[i \in 1..6 |-> IF i = k THEN 0 ELSE 1 + (i % 2)] : k \in 1..6},
     pause \in {3, 6}}

ConstantWindows == {<<1, 1, 1>>, <<2, 2, 2>>}

MCStretches == [from : {1, 2}, to : 4..6]

-----------------------------------------------------------------------------

\* Training: a full session, the training window, and one that closes early,
\* the validation window; the bars of the slots are there, unsound or missing,
\* with a bar before the open, one after the early close and a second one of
\* the first day. The next symbol has all its bars, but not at every time all
\* its features.

TwoSessions == {[open |-> 3, close |-> 10], [open |-> 15, close |-> 19]}
MCSplits == <<[start |-> 0, end |-> 11], [start |-> 11, end |-> 23]>>
MCListing == <<2, 1>>

BarAt(t) == [time |-> t, open |-> t, close |-> t + ((t * t) % 5), sound |-> TRUE]
Faulty(b) == [b EXCEPT !.sound = FALSE]
Off == <<BarAt(2), BarAt(20)>>
AtMost(bar) == {<<>>, <<bar>>, <<Faulty(bar)>>}

Provided ==
  {Off \o a \o b \o c \o d \o e \o again :
     a \in AtMost(BarAt(4)), b \in AtMost(BarAt(6)), c \in AtMost(BarAt(8)),
     d \in AtMost(BarAt(16)), e \in AtMost(BarAt(18)),
     again \in {<<>>, <<BarAt(6)>>, <<[BarAt(6) EXCEPT !.close = 0]>>, <<Faulty(BarAt(6))>>}}

MCTrainingInputs ==
  {[values |-> <<first, [k \in 1..5 |-> BarAt(<<4, 6, 8, 16, 18>>[k])]>>,
    unready |-> unready, target |-> target] :
     first \in Provided, unready \in {{}, {<<1, 4>>, <<2, 4>>}, {<<2, 6>>, <<1, 16>>}},
     target \in {[task |-> "regression", horizon |-> h] : h \in 1..2}
                 \cup {[task |-> "classification", horizon |-> 1]}}

-----------------------------------------------------------------------------

\* Universe: five sessions; a good history, one with too few days, one whose
\* returns do not vary, an impossible bar, two bars of one day.

FiveSymbols == 1..5

Days5 == <<1, 2, 3, 4, 5>>

Bar(day, close, dollar, range) ==
  [day |-> day, close |-> close, dollar |-> dollar, range |-> range, sound |-> TRUE]

Good(dollar, range) ==
  LET closes == <<1, 2, 4, 5, 5>> IN [i \in 1..5 |-> Bar(i, closes[i], dollar, range)]
Late(dollar, range) == Append(SubSeq(Good(dollar, range), 2, 5), Bar(6, 7, dollar, range))
Short  == SubSeq(Good(2, 2), 1, 3)
Steady == [i \in 1..5 |-> Bar(i, i, 5, 2)]
Unsound == [Good(2, 2) EXCEPT ![2].sound = FALSE]
Doubled == Append(Good(2, 2), Bar(3, 9, 2, 2))

SomeMarkets ==
  {<<a, b, c, d, Good(2, 2)>> :
     a \in {Good(3, 1), Good(4, 4), Steady}, b \in {Good(2, 1), Short},
     c \in {Good(1, 2), Late(4, 3), Unsound}, d \in {Good(1, 4), Doubled}}

Discovery(n, threshold, minBucket, dollar, range, excluded) ==
  [topN |-> n, threshold |-> threshold, minBucket |-> minBucket, excluded |-> excluded,
   weights |-> [name \in Weights |-> IF name = "dollar" THEN dollar ELSE range]]

SomeConfigs ==
  {Discovery(5, 1, 2, 1, 1, {}), Discovery(4, 1, 2, 0, 1, {2}), Discovery(3, 2, 3, 2, 1, {})}
=============================================================================
