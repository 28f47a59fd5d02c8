------------------------------ MODULE BarShuffle ------------------------------
(***************************************************************************)
(* permute_symbol_bars of permutation/methods/in_sample_bars.py: the bars    *)
(* of a window taken apart into gaps and bar shapes, both shuffled, and      *)
(* rebuilt behind the untouched warm-up. Prices are logarithms, as integers, *)
(* so that the code's products and ratios are sums and differences.          *)
(***************************************************************************)
EXTENDS Integers, Sequences, SequencesExt

\* The number of leading bars before the window: bisect_left over their sorted
\* times.
WarmUpBars(bars, start) == Max({0} \cup {i \in 1..Len(bars) : bars[i].time < start})

\* The close the window continues from.
Anchor(bars, split) == IF split > 0 THEN bars[split].close ELSE bars[1].open

Gap(bars, split, i) ==
  bars[i].open - (IF i = split + 1 THEN Anchor(bars, split) ELSE bars[i - 1].close)

\* A bar relative to its own open; the volume travels with it.
Shape(b) ==
  [high |-> b.high - b.open, low |-> b.low - b.open, close |-> b.close - b.open, volume |-> b.volume]

\* Mutant: a bar opens relative to the close the original window had there.
RebuiltOnOriginal(bars, split, gapOrder, shapeOrder) ==
  [i \in 1..(Len(bars) - split) |->
     LET shape == Shape(bars[split + shapeOrder[i]])
         base  == IF i = 1 THEN Anchor(bars, split) ELSE bars[split + i - 1].close
         open  == base + Gap(bars, split, split + gapOrder[i])
     IN  [time |-> bars[split + i].time, open |-> open, high |-> open + shape.high,
          low |-> open + shape.low, close |-> open + shape.close, volume |-> shape.volume]]

\* The closes rebuilt bar by bar, each from the one before.
RebuiltCloses(bars, split, gapOrder, shapeOrder) ==
  LET close[i \in 0..(Len(bars) - split)] ==
        IF i = 0 THEN Anchor(bars, split)
        ELSE close[i - 1] + Gap(bars, split, split + gapOrder[i])
                          + Shape(bars[split + shapeOrder[i]]).close
  IN  close

\* The window, every bar on the rebuilt close before it.
Rebuilt(bars, split, gapOrder, shapeOrder) ==
  LET close == RebuiltCloses(bars, split, gapOrder, shapeOrder) IN
  [i \in 1..(Len(bars) - split) |->
     LET shape == Shape(bars[split + shapeOrder[i]])
         open  == close[i - 1] + Gap(bars, split, split + gapOrder[i])
     IN  [time |-> bars[split + i].time, open |-> open, high |-> open + shape.high,
          low |-> open + shape.low, close |-> close[i], volume |-> shape.volume]]

Shuffled(bars, start, gapOrder, shapeOrder) ==
  LET split == WarmUpBars(bars, start) IN
  IF Len(bars) - split < 2 THEN bars
  ELSE SubSeq(bars, 1, split) \o Rebuilt(bars, split, gapOrder, shapeOrder)
=============================================================================
