---------------------------- MODULE ResearchProofs ----------------------------
(***************************************************************************)
(* Proofs about what research rests on: the algorithms, for every input      *)
(* their assumptions admit and every value of the limits, windows and        *)
(* intervals; the permutation tests, for every number of permutations        *)
(* and workers, every command and every outcome: a verdict rests on each     *)
(* permutation once, and nothing is finished or summarised before it is      *)
(* complete; and the two ledgers of a quick test, for all symbols and bars.  *)
(***************************************************************************)
EXTENDS Algorithms, PermutationTest, FiniteSetTheorems, SequenceTheorems, WellFoundedInduction, TLAPS

------------------------------------------------------------
\* Induction over the numbers, where the statement is the set of those it holds of.
LEMMA NumberInduction ==
  ASSUME NEW S, 0 \in S, \A n \in Nat : n \in S => n + 1 \in S
  PROVE  Nat \subseteq S
  <1> SUFFICES ASSUME NEW T, T = Nat \ S, T # {}  PROVE FALSE  OBVIOUS
  <1>1. PICK n \in T : \A m \in T : ~(<<m, n>> \in OpToRel(<, Nat))
    <2>1. T \subseteq Nat  OBVIOUS
    <2> QED  BY <2>1, NatLessThanWellFounded, WFMin, Zenon
  <1>2. \A m \in T : ~(m < n)  BY <1>1, Zenon DEF OpToRel
  <1> QED  BY <1>2

\* Sets that are matched element by element have the same size.
LEMMA SameSize ==
  ASSUME NEW S, IsFiniteSet(S), NEW T, NEW f \in [S -> T],
         \A x, y \in S : f[x] = f[y] => x = y, \A t \in T : \E x \in S : f[x] = t
  PROVE  IsFiniteSet(T) /\ Cardinality(T) = Cardinality(S)
  <1>1. f \in Bijection(S, T)  BY DEF Bijection, Injection, Surjection, IsInjective
  <1> QED  BY <1>1, FS_Bijection DEF ExistsBijection

------------------------------------------------------------
(* The largest lot. *)

\* What a floor division keeps: the multiples that fit.
LEMMA FloorFits ==
  ASSUME NEW n \in Int, NEW d \in Nat \ {0}, NEW q \in Int
  PROVE  n \div d \in Int /\ (q <= n \div d <=> q * d <= n)
  <1>1. n \div d \in Int /\ (n \div d) * d <= n /\ n < (n \div d) * d + d  OBVIOUS
  <1>2. PICK p \in Int : p = n \div d  BY <1>1
  <1>3. ASSUME q <= p  PROVE q * d <= n  BY <1>1, <1>2, <1>3
  <1>4. ASSUME ~(q <= p)  PROVE ~(q * d <= n)
    <2>1. p + 1 <= q  BY <1>2, <1>4
    <2>2. (p + 1) * d <= q * d  BY <1>2, <2>1
    <2>3. (p + 1) * d = p * d + d  BY <1>2
    <2> QED  BY <1>1, <1>2, <2>2, <2>3
  <1> QED  BY <1>1, <1>2, <1>3, <1>4

\* A lot of the risk manager is the largest of the affordable ones: what fits
\* under both budgets is what does not exceed it.
LEMMA LotIsLargest ==
  ASSUME NEW a \in AccountRecords, NEW price \in Nat \ {0}, NEW q \in Nat \ {0}
  PROVE  Lot(a, price) \in Int /\ (q \in Affordable(a, price) <=> q <= Lot(a, price))
  <1> DEFINE unit   == 100 * price
             cost   == price * (100 + PctSlippageBuffer)
             power  == a.power * PctPowerBuffer
             first  == Budget(a) \div unit
             second == power \div cost
  <1>1. /\ a.equity \in Int /\ a.power \in Int /\ PctEquity \in Int /\ MaxNotional \in Nat \ {0}
        /\ PctSlippageBuffer \in Nat /\ PctPowerBuffer \in Int
    BY RiskAssumption DEF AccountRecords
  <1>2. unit \in Nat \ {0} /\ cost \in Nat \ {0} /\ power \in Int /\ Budget(a) \in Int
    <2>1. PctEquity * a.equity \in Int /\ a.power * PctPowerBuffer \in Int  BY <1>1
    <2>2. Budget(a) \in Int  BY <1>1, <2>1 DEF Budget
    <2>3. PICK b \in Nat \ {0} : b = 100 + PctSlippageBuffer  BY <1>1
    <2>4. price * b \in Nat \ {0}  BY <2>3
    <2> QED  BY <2>1, <2>2, <2>3, <2>4
  <1>3. first \in Int /\ (q <= first <=> q * unit <= Budget(a))
    <2> HIDE DEF unit
    <2> QED  BY <1>2, FloorFits
  <1>4. second \in Int /\ (q <= second <=> q * cost <= power)
    <2> HIDE DEF cost, power
    <2> QED  BY <1>2, FloorFits
  <1>5. q * unit <= Budget(a) <=> q * price <= MaxNotional /\ 100 * q * price <= PctEquity * a.equity
    <2>1. PICK e \in Int : e = PctEquity * a.equity  BY <1>1
    <2>2. PICK r \in Int : r = q * price  BY <1>1
    <2>3. q * unit = 100 * r /\ 100 * q * price = 100 * r  BY <2>2
    <2>4. Budget(a) = IF 100 * MaxNotional <= e THEN 100 * MaxNotional ELSE e  BY <2>1 DEF Budget
    <2> HIDE DEF unit
    <2> QED  BY <1>1, <2>1, <2>2, <2>3, <2>4
  <1>6. q * price * (100 + PctSlippageBuffer) = q * cost
    <2>1. PICK b \in Int : b = 100 + PctSlippageBuffer  BY <1>1
    <2> QED  BY <2>1
  <1>7. q * price <= MaxNotional => q \in 1..MaxNotional  BY <1>1
  <1>8. q \in Affordable(a, price) <=> q <= first /\ q <= second
    <2>1. q \in Affordable(a, price) <=>
            /\ q \in 1..MaxNotional /\ q * price <= MaxNotional
            /\ 100 * q * price <= PctEquity * a.equity
            /\ q * cost <= power
      BY <1>6 DEF Affordable
    <2> HIDE DEF first, second, cost, power, unit
    <2> QED  BY <2>1, <1>3, <1>4, <1>5, <1>7
  <1>9. Lot(a, price) = IF first * cost > power THEN second ELSE first
    <2>1. first * price * (100 + PctSlippageBuffer) = first * cost
      <3>1. PICK b \in Int : b = 100 + PctSlippageBuffer  BY <1>1
      <3>2. PICK f \in Int : f = first  BY <1>3
      <3> QED  BY <3>1, <3>2
    <2> QED  BY <2>1 DEF Lot
  <1>10. first * cost > power <=> ~(first <= second)
    <2> HIDE DEF cost, power, first
    <2>1. first <= power \div cost <=> first * cost <= power  BY <1>2, <1>3, FloorFits
    <2>2. first * cost \in Int  BY <1>2, <1>3
    <2> QED  BY <1>2, <1>4, <2>1, <2>2
  <1> QED
    <2> HIDE DEF first, second, cost, power, unit
    <2> QED  BY <1>3, <1>4, <1>8, <1>9, <1>10

\* The guard that locks entries out after a loss, as a share of yesterday's equity.
LEMMA LossShare ==
  ASSUME NEW a \in AccountRecords
  PROVE  DailyLossHit(a) <=>
           a.lastEquity > 0 /\ 100 * a.equity < (100 - PctDailyLoss) * a.lastEquity
  <1>1. a.lastEquity \in Int /\ a.equity \in Int /\ PctDailyLoss \in Int
    BY RiskAssumption DEF AccountRecords
  <1>2. PICK l \in Int, e \in Int, p \in Int : l = a.lastEquity /\ e = a.equity /\ p = PctDailyLoss
    BY <1>1
  <1>3. PICK m \in Int : m = p * l  BY <1>2
  <1>4. (100 - p) * l = 100 * l - m  BY <1>2, <1>3
  <1>5. DailyLossHit(a) <=> l > 0 /\ 100 * (e - l) < -m  BY <1>2, <1>3 DEF DailyLossHit
  <1>6. 100 * (e - l) < -m <=> 100 * e < (100 - p) * l  BY <1>4
  <1> QED  BY <1>2, <1>5, <1>6

------------------------------------------------------------
\* What is approved, and what is refused.
Decided(target, a, price, lots, order) ==
  LET fits(q) == 100 * (a.gross + q * price) <= PctExposure * a.equity
      locked  == \/ a.positions >= MaxOpenPositions
                 \/ a.lastEquity > 0
                    /\ 100 * a.equity < (100 - PctDailyLoss) * a.lastEquity
  IN  IF order.approved
      THEN ~locked /\ order.qty \in lots /\ fits(order.qty) /\ \A q \in lots : q <= order.qty
      ELSE \/ locked \/ lots = {}
           \/ \E q \in lots : ~fits(q) /\ \A r \in lots : r <= q

LEMMA EntryDecided ==
  ASSUME NEW target \in {"long", "short"}, NEW a \in AccountRecords,
         NEW quote \in [bid : Int, ask : Int],
         NEW price, price = IF target = "long" THEN quote.ask ELSE quote.bid,
         NEW order, order = AssessEntry(target, a, quote),
         NEW lots, lots = IF price > 0 THEN Affordable(a, price) ELSE {}
  PROVE  Decided(target, a, price, lots, order)
  <1> DEFINE locked == \/ a.positions >= MaxOpenPositions
                       \/ a.lastEquity > 0
                          /\ 100 * a.equity < (100 - PctDailyLoss) * a.lastEquity
             lot  == Lot(a, price)
             fits == 100 * (a.gross + lot * price) <= PctExposure * a.equity
  <1>1. price \in Int  OBVIOUS
  <1>2. locked <=> DailyLossHit(a) \/ a.positions >= MaxOpenPositions  BY LossShare, Zenon
  <1>3. AssessEntry(target, a, quote) =
          IF DailyLossHit(a) \/ a.positions >= MaxOpenPositions \/ price <= 0 \/ lot < 1 \/ ~fits
          THEN Rejected
          ELSE [approved |-> TRUE, side |-> IF target = "long" THEN "buy" ELSE "sell",
                qty |-> lot, kind |-> "entry"]
    <2>1. a.gross \in Int /\ a.equity \in Int /\ PctExposure \in Int
      BY RiskAssumption DEF AccountRecords
    <2>2. price = IF (IF target = "long" THEN "buy" ELSE "sell") = "buy" THEN quote.ask ELSE quote.bid
      OBVIOUS
    <2>3. lot = Lot(a, IF (IF target = "long" THEN "buy" ELSE "sell") = "buy" THEN quote.ask ELSE quote.bid)
      BY <2>2, Zenon
    <2>4. price > 0 => lot \in Int  BY <1>1, LotIsLargest
    <2>5. CASE price > 0
      <3>1. PICK l \in Int : l = lot  BY <2>4, <2>5
      <3>2. PICK m \in Int : m = l * price  BY <1>1, <3>1
      <3>3. PICK e \in Int : e = PctExposure * a.equity  BY <2>1
      <3> HIDE DEF lot
      <3> QED  BY <1>1, <2>1, <2>2, <2>3, <2>5, <3>1, <3>2, <3>3 DEF AssessEntry
    <2>6. CASE ~(price > 0)  BY <1>1, <2>2, <2>6 DEF AssessEntry
    <2> QED  BY <2>5, <2>6
  <1>4. CASE ~(price > 0)  BY <1>1, <1>3, <1>4 DEF Rejected, Decided
  <1>5. CASE price > 0
    <2>1. lot \in Int /\ \A q \in Nat \ {0} : q \in lots <=> q <= lot  BY <1>1, <1>5, LotIsLargest
    <2>2. lots \subseteq Nat \ {0}  BY <1>5, RiskAssumption DEF Affordable
    <2> HIDE DEF lot, fits, locked
    <2>3. CASE lot < 1
      <3>1. lots = {}  BY <2>1, <2>2, <2>3
      <3>2. order = Rejected  BY <1>3, <2>3
      <3> QED  BY <3>1, <3>2 DEF Rejected, Decided
    <2>4. CASE ~(lot < 1)
      <3>1. lot \in lots /\ \A q \in lots : q <= lot  BY <2>1, <2>2, <2>4
      <3>2. CASE locked  BY <1>2, <1>3, <3>2 DEF Rejected, locked, Decided
      <3>3. CASE ~locked /\ fits
        BY <1>1, <1>2, <1>3, <1>5, <2>4, <3>1, <3>3 DEF locked, fits, Decided
      <3>4. CASE ~locked /\ ~fits  BY <1>3, <3>1, <3>4 DEF Rejected, fits, Decided
      <3> QED  BY <3>2, <3>3, <3>4
    <2> QED  BY <2>3, <2>4
  <1> QED  BY <1>4, <1>5

RiskInv ==
  kind = "risk" =>
    /\ given \in RiskInputs
    /\ \/ answer = Pending
       \/ answer = Done(Assess(given.target, given.held, given.account, given.quote))

LEMMA RiskInvHolds == AlgorithmsSpec => []RiskInv
  <1>1. AlgorithmsInit => RiskInv  BY SMTT(30) DEF AlgorithmsInit, RiskInv
  <1>2. RiskInv /\ [AlgorithmsNext]_allVars => RiskInv'
    <2> SUFFICES ASSUME RiskInv, [AlgorithmsNext]_allVars, kind' = "risk"  PROVE RiskInv'
      BY DEF RiskInv
    <2>1. CASE Assesses /\ UNCHANGED <<kind, discoveryVars>>  BY <2>1 DEF RiskInv, Assesses
    <2>2. CASE UNCHANGED allVars  BY <2>2 DEF RiskInv, allVars
    <2> QED  BY <2>1, <2>2 DEF AlgorithmsNext, Shuffles, Builds, Prepares, Evicts, Restates, Rolls
  <1> QED  BY <1>1, <1>2, PTL DEF AlgorithmsSpec

\* What is sized is the largest lot every limit of the configuration admits, and
\* nothing is refused that could have had one (risk/basic.py _assess_entry).
THEOREM LotsAreLargest == AlgorithmsSpec => []LargestAffordableLot
  <1>1. RiskInv => LargestAffordableLot
    <2> SUFFICES ASSUME RiskInv, kind = "risk", answer.done, given.held = 0,
                        given.target \in {"long", "short"}
                 PROVE  LargestAffordableLot
      BY DEF LargestAffordableLot
    <2>1. /\ given \in RiskInputs
          /\ answer = Done(Assess(given.target, given.held, given.account, given.quote))
      BY DEF RiskInv, Pending
    <2>2. given.account \in AccountRecords /\ given.quote \in [bid : Int, ask : Int]
      BY <2>1, InputsAssumption
    <2>3. Assess(given.target, given.held, given.account, given.quote)
            = AssessEntry(given.target, given.account, given.quote)
      BY DEF Assess, ExposureOf
    <2>4. answer.value = AssessEntry(given.target, given.account, given.quote)
      BY <2>1, <2>3 DEF Done
    <2> DEFINE price == IF given.target = "long" THEN given.quote.ask ELSE given.quote.bid
               lots  == IF price > 0 THEN Affordable(given.account, price) ELSE {}
    <2>5. Decided(given.target, given.account, price, lots, answer.value)
      BY <2>2, <2>4, EntryDecided
    <2> QED  BY <2>5 DEF LargestAffordableLot, Decided
  <1> QED  BY <1>1, RiskInvHolds, PTL

------------------------------------------------------------
(* Universe snapshots: what is listed can be reused. *)

\* The files of the directory so far are the first of the order.
Written ==
  /\ Len(pub) \in 0..6 /\ pub \in Seq(ToSet(Order))
  /\ \A i \in 1..Len(pub) : pub[i] = Order[i]

Intact(d) ==
  /\ Benchmark \in DOMAIN d.bars
  /\ d.fate # "removing" /\ "buckets" \in d.files => Inputs \subseteq d.files
  /\ d.fate = "published" => d.files = ToSet(Order) /\ Valid(d.membership)

\* A directory that has its manifest has its inputs, unless its removal began;
\* one that was renamed has every file and passed the validation.
SnapshotInv ==
  /\ Written
  /\ stage # "idle" => Benchmark \in DOMAIN bars
  /\ stage = "publishing" /\ Len(pub) >= 4 => Valid(result)
  /\ \A d \in disk : Intact(d)

LEMMA OrderIs ==
  /\ Len(Order) = 6
  /\ Order[1] = "assets" /\ Order[2] = "calendar" /\ Order[3] = "bars"
  /\ Order[4] = "buckets" /\ Order[5] = "features" /\ Order[6] = "report"
  /\ ToSet(Order) = {"assets", "calendar", "bars", "buckets", "features", "report"}
  BY DEF Order, ToSet

\* The manifest comes after the inputs it has checksums of.
LEMMA PrefixIntact ==
  ASSUME Written
  PROVE  /\ "buckets" \in ToSet(pub) => Inputs \subseteq ToSet(pub)
         /\ Len(pub) = 6 => ToSet(pub) = ToSet(Order)
  <1>1. DOMAIN pub = 1..Len(pub) /\ Len(pub) \in 0..6  BY DEF Written
  <1>2. \A i \in 1..Len(pub) : pub[i] \in ToSet(pub) /\ pub[i] = Order[i]
    BY <1>1 DEF ToSet, Written
  <1>3. ASSUME "buckets" \in ToSet(pub)  PROVE Inputs \subseteq ToSet(pub)
    <2>1. PICK i \in 1..Len(pub) : pub[i] = "buckets"  BY <1>1, <1>3 DEF ToSet
    <2>2. i = 4  BY <1>1, <1>2, <2>1, OrderIs
    <2>3. 1 \in 1..Len(pub) /\ 2 \in 1..Len(pub) /\ 3 \in 1..Len(pub)  BY <1>1, <2>1, <2>2
    <2> QED  BY <1>2, <2>3, OrderIs DEF Inputs
  <1>4. ASSUME Len(pub) = 6  PROVE ToSet(pub) = ToSet(Order)
    <2>1. ToSet(pub) \subseteq ToSet(Order)  BY <1>1 DEF Written, ToSet
    <2>2. /\ 1 \in 1..Len(pub) /\ 2 \in 1..Len(pub) /\ 3 \in 1..Len(pub)
          /\ 4 \in 1..Len(pub) /\ 5 \in 1..Len(pub) /\ 6 \in 1..Len(pub)
      BY <1>4
    <2>3. ToSet(Order) \subseteq ToSet(pub)  BY <1>2, <2>2, OrderIs
    <2> QED  BY <2>1, <2>3
  <1> QED  BY <1>3, <1>4

\* A directory joins the others.
LEMMA DirectoryIntact ==
  ASSUME SnapshotInv, stage = "publishing", NEW fate \in Fates, NEW files,
         fate = "published" => Len(pub) = 6,
         fate # "removing" => files = ToSet(pub)
  PROVE  Intact(Directory(files, fate))
  <1> DEFINE d == Directory(files, fate)
  <1>1. d.files = files /\ d.fate = fate /\ d.membership = result /\ d.bars = bars
    BY DEF Directory
  <1>2. Written /\ Benchmark \in DOMAIN bars /\ (Len(pub) >= 4 => Valid(result))  BY DEF SnapshotInv
  <1>3. "buckets" \in ToSet(pub) => Inputs \subseteq ToSet(pub)  BY <1>2, PrefixIntact
  <1>4. fate = "published" => ToSet(pub) = ToSet(Order) /\ Valid(result)  BY SMTT(30), <1>2, PrefixIntact
  <1> HIDE DEF d
  <1>5. Intact(d)  BY <1>1, <1>2, <1>3, <1>4 DEF Intact
  <1> QED  BY <1>5 DEF d

\* A command that ends leaves what is on the disk.
LEMMA StopKeeps ==
  ASSUME SnapshotInv, Stop
  PROVE  Written' /\ stage' = "idle"
  <1>1. pub' = <<>> /\ stage' = "idle"  BY DEF Stop
  <1> QED  BY <1>1 DEF Written

LEMMA SnapshotStep ==
  ASSUME SnapshotInv, [DiscoveryNext]_discoveryVars
  PROVE  SnapshotInv'
  <1>1. CASE Fetch
    <2>1. Benchmark \in DOMAIN bars'  BY <1>1 DEF Fetch
    <2>2. stage' = "screened" /\ pub' = pub /\ disk' = disk /\ result' = result  BY <1>1 DEF Fetch
    <2>3. Written' /\ \A d \in disk' : Intact(d)  BY <2>2 DEF SnapshotInv, Written, Intact
    <2> QED  BY <2>1, <2>2, <2>3 DEF SnapshotInv
  <1>2. CASE Reuse
    <2>1. pub' = pub /\ disk' = disk /\ result' = result  BY <1>2 DEF Reuse
    <2>2. stage' # "idle" => stage' = "screened" /\ Benchmark \in DOMAIN bars'
      BY <1>2 DEF Reuse, Listed, SnapshotInv, Intact
    <2>3. Written' /\ \A d \in disk' : Intact(d)  BY <2>1 DEF SnapshotInv, Written, Intact
    <2> QED  BY <2>1, <2>2, <2>3 DEF SnapshotInv
  <1>3. CASE Screen
    <2>1. bars' = bars /\ disk' = disk /\ result' = result /\ stage = "screened"  BY <1>3 DEF Screen
    <2>2. Stop \/ (stage' = "clustering" /\ pub' = pub)  BY <1>3, Zenon DEF Screen
    <2>3. Written' /\ stage' \in {"idle", "clustering"}  BY <2>2, StopKeeps DEF SnapshotInv, Written
    <2>4. \A d \in disk' : Intact(d)  BY <2>1 DEF SnapshotInv, Intact
    <2> QED  BY <2>1, <2>3, <2>4 DEF SnapshotInv
  <1>4. CASE Join  BY <1>4 DEF Join, SnapshotInv, Written, Intact
  <1>5. CASE Named
    <2>1. UNCHANGED <<bars, disk>> /\ stage' = "publishing" /\ pub' = <<>> /\ stage = "clustering"
      BY <1>5 DEF Named
    <2>2. Written' /\ ~(Len(pub') >= 4)  BY <2>1 DEF Written
    <2> QED  BY <2>1, <2>2 DEF SnapshotInv, Intact
  <1>6. CASE Write
    <2>1. bars' = bars /\ disk' = disk /\ result' = result /\ stage = "publishing" /\ Len(pub) < 6
      BY <1>6, OrderIs DEF Write
    <2>2. \A d \in disk' : Intact(d)  BY <2>1 DEF SnapshotInv, Intact
    <2>3. /\ pub' = Append(pub, Order[Len(pub) + 1]) /\ stage' = stage
          /\ Order[Len(pub) + 1] = "buckets" => Valid(result)
      BY <1>6 DEF Write
    <2>4. PICK n \in 0..5 : n = Len(pub)
      <3>1. Len(pub) \in 0..6  BY DEF SnapshotInv, Written
      <3>2. PICK m \in 0..6 : m = Len(pub)  BY <3>1, Zenon
      <3>3. m < 6  BY <2>1, <3>2
      <3>4. m \in 0..5  BY <3>3
      <3> QED  BY <3>2, <3>4, Zenon
    <2>5. Order[n + 1] \in ToSet(Order)  BY OrderIs
    <2>6. pub' \in Seq(ToSet(Order)) /\ Len(pub') = n + 1 /\ \A i \in 1..(n + 1) : pub'[i] = Order[i]
      BY <2>3, <2>4, <2>5 DEF SnapshotInv, Written
    <2>7. n + 1 >= 4 => Valid(result)
      <3>1. CASE n = 3  BY <2>3, <2>4, <3>1, OrderIs
      <3>2. CASE n # 3  BY <2>1, <2>4, <3>2 DEF SnapshotInv
      <3> QED  BY <3>1, <3>2
    <2>8. Written'
      <3>1. ToSet(Order)' = ToSet(Order) /\ Order' = Order  BY DEF Order, ToSet
      <3>2. n + 1 \in 0..6  OBVIOUS
      <3>3. Len(pub') \in 0..6 /\ \A i \in 1..Len(pub') : pub'[i] = Order[i]  BY <2>6, <3>2, Zenon
      <3> QED  BY <2>6, <3>1, <3>3 DEF Written
    <2> QED  BY <2>1, <2>2, <2>3, <2>6, <2>7, <2>8 DEF SnapshotInv, Valid
  <1>7. CASE Replace \/ Killed \/ WriteFails
    <2>1. bars' = bars /\ result' = result /\ stage = "publishing" /\ Stop
      BY <1>7 DEF Replace, Killed, WriteFails
    <2>2. \A d \in disk' : d \in disk \/ \E fate \in Fates, files \in SUBSET ToSet(pub) :
            /\ fate = "published" => Len(pub) = 6
            /\ fate # "removing" => files = ToSet(pub)
            /\ d = Directory(files, fate)
      <3>1. CASE Replace  BY <3>1, OrderIs DEF Replace, Fates
      <3>2. CASE Killed  BY <3>2 DEF Killed, Fates
      <3>3. CASE WriteFails  BY <3>3 DEF WriteFails, Fates
      <3> QED  BY <1>7, <3>1, <3>2, <3>3
    <2>3. \A d \in disk' : Intact(d)  BY <2>1, <2>2, DirectoryIntact DEF SnapshotInv
    <2> QED  BY <2>1, <2>3, StopKeeps DEF SnapshotInv, Intact
  <1>8. CASE UNCHANGED discoveryVars  BY <1>8 DEF discoveryVars, SnapshotInv, Written, Intact
  <1> QED  BY <1>1, <1>2, <1>3, <1>4, <1>5, <1>6, <1>7, <1>8 DEF DiscoveryNext

LEMMA DiscoveryFrame ==
  ASSUME [AlgorithmsNext]_allVars
  PROVE  [DiscoveryNext]_discoveryVars
  BY DEF AlgorithmsNext, allVars

\* What `universe list` offers has the inputs a later `discover --reuse` loads,
\* whatever a killed command left behind, unless it was removing the directory
\* (universe.py publish_snapshot, list_snapshots, load_reuse_inputs).
THEOREM ListedIsReusable == AlgorithmsSpec => []ListedReusable
  <1>1. AlgorithmsInit => SnapshotInv  BY DEF AlgorithmsInit, DiscoveryInit, SnapshotInv, Written
  <1>2. SnapshotInv /\ [AlgorithmsNext]_allVars => SnapshotInv'  BY SnapshotStep, DiscoveryFrame
  <1>3. SnapshotInv => ListedReusable  BY OrderIs DEF SnapshotInv, Intact, ListedReusable, Listed
  <1> QED  BY <1>1, <1>2, <1>3, PTL DEF AlgorithmsSpec

------------------------------------------------------------
(* Sorted sequences. *)

\* R orders S, and every two members of S.
Linear(R, S) ==
  /\ \A a \in S : <<a, a>> \notin R
  /\ \A a, b, c \in S : <<a, b>> \in R /\ <<b, c>> \in R => <<a, c>> \in R
  /\ \A a, b \in S : a # b => <<a, b>> \in R \/ <<b, a>> \in R

Ahead(R, S, a) == {r \in S : <<r, a>> \in R}

\* Every place is taken, and the places are in the order.
LEMMA Places ==
  ASSUME NEW S, IsFiniteSet(S), NEW R, Linear(R, S)
  PROVE  /\ Cardinality(S) \in Nat
         /\ \A i \in 1..Cardinality(S) : \E s \in S : Cardinality(Ahead(R, S, s)) = i - 1
         /\ \A s \in S : Cardinality(Ahead(R, S, s)) \in 0..(Cardinality(S) - 1)
         /\ \A a, b \in S : <<a, b>> \in R => Cardinality(Ahead(R, S, a)) < Cardinality(Ahead(R, S, b))
  <1> DEFINE n == Cardinality(S)
             size(s) == Cardinality(Ahead(R, S, s))
  <1>1. n \in Nat  BY FS_CardinalityType
  <1>2. ASSUME NEW s \in S  PROVE size(s) \in 0..(n - 1) /\ IsFiniteSet(Ahead(R, S, s))
    <2>1. s \notin Ahead(R, S, s) /\ Ahead(R, S, s) \in SUBSET S  BY DEF Ahead, Linear
    <2>2. IsFiniteSet(Ahead(R, S, s)) /\ size(s) <= n /\ (n = size(s) => S = Ahead(R, S, s))
      BY <2>1, FS_Subset
    <2>3. size(s) \in Nat  BY <2>2, FS_CardinalityType
    <2>4. size(s) # n  BY <2>1, <2>2
    <2> QED  BY <1>1, <2>2, <2>3, <2>4
  <1>3. ASSUME NEW a \in S, NEW b \in S, <<a, b>> \in R  PROVE size(a) < size(b)
    <2>1. Ahead(R, S, a) \in SUBSET Ahead(R, S, b)  BY <1>3 DEF Ahead, Linear
    <2>2. a \in Ahead(R, S, b) /\ a \notin Ahead(R, S, a)  BY <1>3 DEF Ahead, Linear
    <2>3. size(a) <= size(b) /\ (size(b) = size(a) => Ahead(R, S, b) = Ahead(R, S, a))
      BY <1>2, <2>1, FS_Subset
    <2>4. size(a) \in Nat /\ size(b) \in Nat  BY <1>2
    <2> QED  BY <2>2, <2>3, <2>4
  <1>4. ASSUME NEW i \in 1..n  PROVE \E s \in S : size(s) = i - 1
    <2> DEFINE f == [s \in S |-> size(s) + 1]
    <2>1. f \in [S -> 1..n]  BY <1>1, <1>2
    <2>2. \A a, b \in S : f[a] = f[b] => a = b
      <3> SUFFICES ASSUME NEW a \in S, NEW b \in S, f[a] = f[b], a # b  PROVE FALSE  OBVIOUS
      <3>1. size(a) = size(b) /\ size(a) \in Nat  BY <1>2
      <3>2. <<a, b>> \in R \/ <<b, a>> \in R  BY DEF Linear
      <3> QED  BY <1>3, <3>1, <3>2
    <2>3. f \in Injection(S, 1..n)  BY <2>1, <2>2 DEF Injection, IsInjective
    <2>4. IsFiniteSet(1..n) /\ Cardinality(1..n) = n  BY <1>1, FS_Interval
    <2>5. f \in Surjection(S, 1..n)
      <3> HIDE DEF f
      <3> QED  BY <2>3, <2>4, FS_Injection
    <2>6. PICK s \in S : f[s] = i  BY <2>5 DEF Surjection
    <2>7. size(s) \in Nat /\ size(s) + 1 = i  BY <1>2, <2>6
    <2> QED  BY <2>7
  <1> QED  BY <1>1, <1>2, <1>3, <1>4

\* What is at those places is all of the set, in the order.
LEMMA Placed ==
  ASSUME NEW S, IsFiniteSet(S), NEW R, Linear(R, S), NEW seq \in [1..Cardinality(S) -> S],
         \A i \in 1..Cardinality(S) : Cardinality(Ahead(R, S, seq[i])) = i - 1
  PROVE  /\ seq \in Seq(S) /\ Len(seq) = Cardinality(S) /\ ToSet(seq) = S
         /\ \A i, j \in 1..Cardinality(S) : i < j => <<seq[i], seq[j]>> \in R
  <1> DEFINE n == Cardinality(S)
             size(s) == Cardinality(Ahead(R, S, s))
  <1>1. /\ n \in Nat /\ \A s \in S : size(s) \in 0..(n - 1)
        /\ \A a, b \in S : <<a, b>> \in R => size(a) < size(b)
    BY Places
  <1>2. seq \in [1..n -> S]  OBVIOUS
  <1>3. seq \in Seq(S) /\ Len(seq) = n /\ DOMAIN seq = 1..n  BY <1>1, <1>2
  <1>4. \A i, j \in 1..n : i < j => <<seq[i], seq[j]>> \in R
    <2> SUFFICES ASSUME NEW i \in 1..n, NEW j \in 1..n, i < j  PROVE <<seq[i], seq[j]>> \in R
      OBVIOUS
    <2>1. size(seq[i]) = i - 1 /\ size(seq[j]) = j - 1  OBVIOUS
    <2>2. seq[i] # seq[j]  BY <2>1
    <2>3. ~(<<seq[j], seq[i]>> \in R)
      <3> SUFFICES ASSUME <<seq[j], seq[i]>> \in R  PROVE FALSE  OBVIOUS
      <3>1. size(seq[j]) < size(seq[i])  BY <1>1, <1>2
      <3> QED  BY <2>1, <3>1
    <2> QED  BY <1>2, <2>2, <2>3 DEF Linear
  <1>5. ASSUME NEW a \in S  PROVE \E i \in 1..n : seq[i] = a
    <2> DEFINE i == size(a) + 1
    <2>1. size(a) \in 0..(n - 1)  BY <1>1
    <2>2. i \in 1..n /\ i - 1 = size(a)  BY <1>1, <2>1
    <2>3. size(seq[i]) = size(a) /\ seq[i] \in S  BY <2>2
    <2>4. seq[i] = a
      <3> SUFFICES ASSUME seq[i] # a  PROVE FALSE  OBVIOUS
      <3>1. size(seq[i]) < size(a) \/ size(a) < size(seq[i])  BY <1>1, <2>3 DEF Linear
      <3> QED  BY <2>1, <2>3, <3>1
    <2> QED  BY <2>2, <2>4
  <1>6. ToSet(seq) = S  BY <1>2, <1>3, <1>5 DEF ToSet
  <1> QED  BY <1>3, <1>4, <1>6

\* Numbers in their order.
LEMMA InNameOrderIs ==
  ASSUME NEW S, IsFiniteSet(S), S \subseteq Int
  PROVE  /\ InNameOrder(S) \in Seq(S) /\ ToSet(InNameOrder(S)) = S
         /\ S # {} => InNameOrder(S) # <<>>
         /\ Len(InNameOrder(S)) = Cardinality(S)
  <1> DEFINE R == {p \in S \X S : p[1] < p[2]}
             seq == InNameOrder(S)
  <1>1. Linear(R, S)  BY DEF Linear
  <1>2. \A s \in S : {r \in S : r < s} = Ahead(R, S, s)  BY DEF Ahead
  <1> HIDE DEF R
  <1>3. seq = [i \in 1..Cardinality(S) |-> CHOOSE s \in S : Cardinality({r \in S : r < s}) = i - 1]
    BY DEF InNameOrder, Ascending
  <1>4. ASSUME NEW i \in 1..Cardinality(S)
        PROVE  seq[i] \in S /\ Cardinality(Ahead(R, S, seq[i])) = i - 1
    <2>0. PICK s \in S : Cardinality(Ahead(R, S, s)) = i - 1  BY <1>1, Places
    <2>1. \E t \in S : Cardinality({r \in S : r < t}) = i - 1  BY <1>2, <2>0
    <2>2. seq[i] \in S /\ Cardinality({r \in S : r < seq[i]}) = i - 1  BY <1>3, <2>1
    <2> QED  BY <1>2, <2>2
  <1>5. seq = [i \in 1..Cardinality(S) |-> seq[i]]  BY <1>3
  <1> HIDE DEF seq
  <1>6. seq \in [1..Cardinality(S) -> S] /\ \A i \in 1..Cardinality(S) : Cardinality(Ahead(R, S, seq[i])) = i - 1
    BY <1>4, <1>5
  <1>7. seq \in Seq(S) /\ ToSet(seq) = S  BY <1>1, <1>6, Placed
  <1>8. S # {} => seq # <<>>  BY <1>7 DEF ToSet
  <1>9. Len(seq) = Cardinality(S)
    <2>1. Cardinality(S) \in Nat  BY FS_CardinalityType
    <2> QED  BY <1>6, <2>1
  <1> QED  BY <1>7, <1>8, <1>9 DEF seq

\* The places of a function's values.
LEMMA PositionsAre ==
  ASSUME NEW D, IsFiniteSet(D), D \subseteq Int, NEW f \in [D -> Int]
  PROVE  Positions(f) \in [1..Cardinality(D) -> D]
  <1> DEFINE before(i, j) == f[i] < f[j] \/ (f[i] = f[j] /\ i < j)
             R == {p \in D \X D : before(p[1], p[2])}
             seq == Positions(f)
  <1>1. Linear(R, D)  BY DEF Linear
  <1>2. \A s \in D : {r \in D : before(r, s)} = Ahead(R, D, s)  BY DEF Ahead
  <1>3. seq = [i \in 1..Cardinality(D) |-> CHOOSE s \in D : Cardinality({r \in D : before(r, s)}) = i - 1]
    BY DEF Positions, Ascending
  <1> HIDE DEF R, seq
  <1>4. ASSUME NEW i \in 1..Cardinality(D)  PROVE seq[i] \in D
    <2>0. PICK s \in D : Cardinality(Ahead(R, D, s)) = i - 1  BY <1>1, Places
    <2>1. \E t \in D : Cardinality({r \in D : before(r, t)}) = i - 1
      <3>1. {r \in D : before(r, s)} = Ahead(R, D, s)  BY <1>2
      <3> HIDE DEF before
      <3> QED  BY <2>0, <3>1
    <2> HIDE DEF before
    <2> QED  BY <1>3, <2>1
  <1> QED  BY <1>3, <1>4 DEF seq

------------------------------------------------------------
(* Sums and products over a finite set, element after element. *)

\* A statement that passes from all strict subsets to the set holds of every
\* finite set; the statement is the set of those it holds of.
LEMMA SubsetInduction ==
  ASSUME NEW S, IsFiniteSet(S), NEW P,
         \A T \in SUBSET S : (\A U \in SUBSET T : U # T => U \in P) => T \in P
  PROVE  SUBSET S \subseteq P
  <1> DEFINE Others == (SUBSET S) \ P
  <1> SUFFICES ASSUME Others # {}  PROVE FALSE  OBVIOUS
  <1>1. Others \subseteq FiniteSubsetsOf(S)  BY FS_Subset DEF FiniteSubsetsOf
  <1>2. PICK T \in Others : \A U \in Others : <<U, T>> \notin StrictSubsetOrdering(S)
    <2> HIDE DEF Others
    <2> QED  BY <1>1, FS_StrictSubsetOrderingWellFounded, WFMin
  <1>3. ASSUME NEW U \in SUBSET T, U # T  PROVE U \in P  BY <1>2, <1>3 DEF StrictSubsetOrdering
  <1> QED  BY <1>2, <1>3

Combined(times, a, b) == IF times THEN a * b ELSE a + b
Neutral(times) == IF times THEN 1 ELSE 0

\* acc is the sum (or the product) of f over each subset of S.
Folded(acc, f, S, times) ==
  acc = [s \in SUBSET S |->
          IF s = {} THEN Neutral(times)
          ELSE LET x == CHOOSE x \in s : TRUE IN Combined(times, f[x], acc[s \ {x}])]

LEMMA FoldedStep ==
  ASSUME NEW acc, NEW f, NEW S, NEW times, Folded(acc, f, S, times)
  PROVE  \A T \in SUBSET S :
           /\ T = {} => acc[T] = Neutral(times)
           /\ T # {} => \E x \in T : /\ x = CHOOSE y \in T : TRUE
                                     /\ acc[T] = Combined(times, f[x], acc[T \ {x}])
  BY DEF Folded

LEMMA FoldedOnce ==
  ASSUME NEW f, NEW times, NEW a, NEW A, Folded(a, f, A, times), NEW b, NEW B, Folded(b, f, B, times),
         NEW T, T \subseteq A, T \subseteq B, IsFiniteSet(T)
  PROVE  a[T] = b[T]
  <1> DEFINE P == {U \in SUBSET T : a[U] = b[U]}
  <1>1. ASSUME NEW U \in SUBSET T, \A V \in SUBSET U : V # U => V \in P
        PROVE  U \in P
    <2>1. CASE U = {}  BY <2>1, FoldedStep
    <2>2. CASE U # {}
      <3>1. PICK x \in U : x = (CHOOSE y \in U : TRUE) /\ a[U] = Combined(times, f[x], a[U \ {x}])
        BY <2>2, FoldedStep
      <3>2. PICK y \in U : y = (CHOOSE z \in U : TRUE) /\ b[U] = Combined(times, f[y], b[U \ {y}])
        BY <2>2, FoldedStep
      <3>3. x = y /\ U \ {x} \in P  BY <1>1, <3>1, <3>2
      <3> QED  BY <3>1, <3>2, <3>3
    <2> QED  BY <2>1, <2>2
  <1>2. SUBSET T \subseteq P
    <2> HIDE DEF P
    <2> QED  BY <1>1, SubsetInduction
  <1> QED  BY <1>2

\* The recursion has a solution.
LEMMA FoldedExists ==
  ASSUME NEW f, NEW times, NEW S, IsFiniteSet(S)
  PROVE  \E acc : Folded(acc, f, S, times)
  <1> DEFINE P == {T \in SUBSET S : \E acc : Folded(acc, f, T, times)}
  <1>1. ASSUME NEW T \in SUBSET S, \A U \in SUBSET T : U # T => U \in P
        PROVE  T \in P
    <2> DEFINE Of(U) == CHOOSE acc : Folded(acc, f, U, times)
               c(U)  == CHOOSE x \in U : TRUE
               part  == [U \in SUBSET T |-> IF U = T THEN 0 ELSE Of(U)[U]]
               acc   == [U \in SUBSET T |-> IF U = {} THEN Neutral(times)
                                            ELSE Combined(times, f[c(U)], part[U \ {c(U)}])]
    <2>1. \A U \in SUBSET T : U # T => Folded(Of(U), f, U, times)  BY <1>1
    <2>2. \A U \in SUBSET T : U # {} => c(U) \in U  OBVIOUS
    <2>3. ASSUME NEW U \in SUBSET T, U # T  PROVE acc[U] = part[U]
      <3>1. Folded(Of(U), f, U, times)  BY <2>1, <2>3
      <3>2. CASE U = {}
        <4>1. Of(U)[U] = Neutral(times)
          <5> HIDE DEF Of
          <5> QED  BY <3>1, <3>2, FoldedStep
        <4> QED  BY <4>1, <3>2, <2>3
      <3>3. CASE U # {}
        <4>1. PICK x \in U : x = c(U) /\ Of(U)[U] = Combined(times, f[x], Of(U)[U \ {x}])
          <5> HIDE DEF Of
          <5> QED  BY <3>1, <3>3, FoldedStep
        <4>2. Folded(Of(U \ {x}), f, U \ {x}, times)  BY <2>1
        <4>3. IsFiniteSet(U \ {x})  BY FS_Subset
        <4>4. Of(U)[U \ {x}] = Of(U \ {x})[U \ {x}]
          <5> HIDE DEF Of
          <5> QED  BY <3>1, <4>2, <4>3, FoldedOnce
        <4>5. part[U \ {x}] = Of(U \ {x})[U \ {x}]  OBVIOUS
        <4>6. acc[U] = Combined(times, f[x], part[U \ {x}])  BY <4>1, <3>3
        <4>7. part[U] = Of(U)[U]  BY <2>3
        <4> QED  BY <4>1, <4>4, <4>5, <4>6, <4>7
      <3> QED  BY <3>2, <3>3
    <2>4. Folded(acc, f, T, times)
      <3>1. ASSUME NEW U \in SUBSET T, U # {}
            PROVE  acc[U] = Combined(times, f[c(U)], acc[U \ {c(U)}])
        <4>1. U \ {c(U)} \in SUBSET T /\ U \ {c(U)} # T  BY <2>2, <3>1
        <4>2. acc[U \ {c(U)}] = part[U \ {c(U)}]  BY <4>1, <2>3
        <4>3. acc[U] = Combined(times, f[c(U)], part[U \ {c(U)}])  BY <3>1
        <4> QED  BY <4>2, <4>3
      <3>2. acc[{}] = Neutral(times)  OBVIOUS
      <3>3. \A U \in SUBSET T :
              acc[U] = IF U = {} THEN Neutral(times) ELSE Combined(times, f[c(U)], acc[U \ {c(U)}])
        BY <3>1, <3>2
      <3>4. acc = [U \in SUBSET T |-> acc[U]]  OBVIOUS
      <3>5. acc = [U \in SUBSET T |->
                    IF U = {} THEN Neutral(times) ELSE Combined(times, f[c(U)], acc[U \ {c(U)}])]
        <4> HIDE DEF acc
        <4> QED  BY <3>3, <3>4
      <3> QED  BY <3>5 DEF Folded
    <2> QED  BY <2>4
  <1>2. SUBSET S \subseteq P
    <2> HIDE DEF P
    <2> QED  BY <1>1, SubsetInduction
  <1> QED  BY <1>2

\* A fold stays in every set that is closed under its operation.
LEMMA FoldedIn ==
  ASSUME NEW acc, NEW f, NEW S, IsFiniteSet(S), NEW times, Folded(acc, f, S, times),
         NEW T, Neutral(times) \in T, \A a, b \in T : Combined(times, a, b) \in T,
         \A x \in S : f[x] \in T
  PROVE  acc[S] \in T
  <1> DEFINE P == {U \in SUBSET S : acc[U] \in T}
  <1>1. ASSUME NEW U \in SUBSET S, \A V \in SUBSET U : V # U => V \in P
        PROVE  U \in P
    <2>1. CASE U = {}  BY <2>1, FoldedStep
    <2>2. CASE U # {}
      <3>1. PICK x \in U : acc[U] = Combined(times, f[x], acc[U \ {x}])  BY <2>2, FoldedStep
      <3>2. U \ {x} \in P  BY <1>1
      <3> QED  BY <3>1, <3>2
    <2> QED  BY <2>1, <2>2
  <1>2. SUBSET S \subseteq P
    <2> HIDE DEF P
    <2> QED  BY <1>1, SubsetInduction
  <1> QED  BY <1>2

LEMMA SumIn ==
  ASSUME NEW f, IsFiniteSet(DOMAIN f), NEW T, 0 \in T, \A a, b \in T : a + b \in T,
         \A x \in DOMAIN f : f[x] \in T
  PROVE  Sum(f) \in T
  <1> DEFINE S == DOMAIN f
             acc == CHOOSE g : Folded(g, f, S, FALSE)
  <1>1. Folded(acc, f, S, FALSE)  BY FoldedExists
  <1>2. Sum(f) = acc[S]
    BY DEF Sum, FoldFunction, FoldFunctionOnSet, MapThenFoldSet, Folded, Neutral, Combined
  <1>3. acc[S] \in T
    <2> HIDE DEF acc
    <2>1. Neutral(FALSE) \in T /\ \A a, b \in T : Combined(FALSE, a, b) \in T
      BY DEF Neutral, Combined
    <2> QED  BY <1>1, <2>1, FoldedIn
  <1> QED  BY <1>2, <1>3

LEMMA ProductIn ==
  ASSUME NEW f, IsFiniteSet(DOMAIN f), NEW T, 1 \in T, \A a, b \in T : a * b \in T,
         \A x \in DOMAIN f : f[x] \in T
  PROVE  Product(f) \in T
  <1> DEFINE S == DOMAIN f
             acc == CHOOSE g : Folded(g, f, S, TRUE)
  <1>1. Folded(acc, f, S, TRUE)  BY FoldedExists
  <1>2. Product(f) = acc[S]
    BY DEF Product, FoldFunction, FoldFunctionOnSet, MapThenFoldSet, Folded, Neutral, Combined
  <1>3. acc[S] \in T
    <2> HIDE DEF acc
    <2>1. Neutral(TRUE) \in T /\ \A a, b \in T : Combined(TRUE, a, b) \in T
      BY DEF Neutral, Combined
    <2> QED  BY <1>1, <2>1, FoldedIn
  <1> QED  BY <1>2, <1>3

------------------------------------------------------------
(* Finite sets of numbers. *)

LEMMA Extremes ==
  ASSUME NEW S, IsFiniteSet(S), S \subseteq Int, S # {}
  PROVE  /\ Max(S) \in S /\ \A y \in S : y <= Max(S)
         /\ Min(S) \in S /\ \A y \in S : Min(S) <= y
  <1> DEFINE R == {p \in S \X S : p[1] < p[2]}
             n == Cardinality(S)
             size(s) == Cardinality(Ahead(R, S, s))
  <1>1. Linear(R, S)  BY DEF Linear
  <1>2. \A a, b \in S : a < b => <<a, b>> \in R  OBVIOUS
  <1> HIDE DEF R
  <1>3. /\ n \in Nat /\ \A i \in 1..n : \E s \in S : size(s) = i - 1
        /\ \A s \in S : size(s) \in 0..(n - 1)
        /\ \A a, b \in S : <<a, b>> \in R => size(a) < size(b)
    BY <1>1, Places
  <1>4. n >= 1  BY <1>3, FS_EmptySet
  <1>5. PICK x \in S : size(x) = n - 1  BY <1>3, <1>4
  <1>6. \A y \in S : y <= x
    <2> SUFFICES ASSUME NEW y \in S, x < y  PROVE FALSE  OBVIOUS
    <2>1. size(x) < size(y) /\ size(y) \in 0..(n - 1)  BY <1>2, <1>3
    <2> QED  BY <1>3, <1>5, <2>1
  <1>7. PICK z \in S : size(z) = 0  BY <1>3, <1>4
  <1>8. \A y \in S : z <= y
    <2> SUFFICES ASSUME NEW y \in S, y < z  PROVE FALSE  OBVIOUS
    <2>1. size(y) < size(z) /\ size(y) \in 0..(n - 1)  BY <1>2, <1>3
    <2> QED  BY <1>3, <1>7, <2>1
  <1>9. Max(S) \in S /\ \A y \in S : Max(S) >= y  BY <1>6 DEF Max
  <1>10. Min(S) \in S /\ \A y \in S : Min(S) =< y  BY <1>8 DEF Min
  <1> QED  BY <1>9, <1>10

\* The values of a function on a finite set.
LEMMA ImageFinite ==
  ASSUME NEW S, IsFiniteSet(S), NEW f, DOMAIN f = S
  PROVE  IsFiniteSet({f[x] : x \in S})
  <1> DEFINE T == {f[x] : x \in S}
             g == [x \in S |-> f[x]]
  <1>1. g \in Surjection(S, T)  BY DEF Surjection
  <1> QED  BY <1>1, FS_Surjection

LEMMA ToSetFinite ==
  ASSUME NEW S, NEW s \in Seq(S)
  PROVE  IsFiniteSet(ToSet(s)) /\ ToSet(s) \subseteq S
  <1>1. Len(s) \in Nat /\ DOMAIN s = 1..Len(s) /\ \A i \in 1..Len(s) : s[i] \in S  OBVIOUS
  <1>2. IsFiniteSet(1..Len(s))  BY <1>1, FS_Interval
  <1>3. IsFiniteSet({s[i] : i \in 1..Len(s)})  BY <1>1, <1>2, ImageFinite
  <1> QED  BY <1>1, <1>3 DEF ToSet

------------------------------------------------------------
(* The clusters of universe discovery. *)

Frozen(b) ==
  /\ DOMAIN b \subseteq Candidates \cup {Benchmark}
  /\ \A s \in DOMAIN b : b[s] \in Seq(DayBars)

\* Distances are symmetric, and nothing is further from itself than the threshold.
Measured ==
  /\ IsFiniteSet(ToSet(selected)) /\ ToSet(selected) \subseteq Int /\ ToSet(selected) # {}
  /\ distances.limit \in Int
  /\ \A s, r \in ToSet(selected) : Apart(s, r) \in Int /\ Apart(s, r) = Apart(r, s)
  /\ \A s \in ToSet(selected) : Apart(s, s) <= distances.limit

Partition ==
  /\ UNION clusters = ToSet(selected) /\ {} \notin clusters
  /\ \A c, d \in clusters : c # d => c \cap d = {}

Tight == \A c \in clusters : \A s, r \in c : Apart(s, r) <= distances.limit

Separate == \A c, d \in clusters : c # d => \E s \in c, r \in d : Apart(s, r) > distances.limit

\* A membership is the partition, the small clusters of it apart.
Mirrors(m) ==
  /\ ToSet(m.all) = ToSet(selected)
  /\ {ToSet(c) : c \in m.buckets \cup m.undersized} = clusters
  /\ \A c \in m.buckets : Len(c) >= config.minBucket
  /\ \A c \in m.undersized : Len(c) < config.minBucket

\* What is compared is well measured, the clusters are a partition at every
\* step of the linkage, and no step puts symbols together that are too far apart.
ClusterInv ==
  /\ config \in Configs /\ Frozen(bars) /\ \A d \in disk : Frozen(d.bars)
  /\ stage \in {"clustering", "publishing"} => Measured /\ Partition /\ Tight
  /\ stage = "publishing" => Separate /\ Valid(result) /\ Mirrors(result)

\* The membership of a partition is all of it and loads again.
LEMMA MembershipValid ==
  ASSUME Measured, Partition, config \in Configs
  PROVE  Valid(Membership) /\ Mirrors(Membership)
  <1> DEFINE m  == Membership
             cs == m.buckets \cup m.undersized
             A  == ToSet(selected)
  <1>1. IsFiniteSet(A) /\ A \subseteq Int /\ A # {}  BY DEF Measured
  <1>2. \A c \in clusters : c \subseteq A /\ c # {} /\ IsFiniteSet(c)
    BY <1>1, FS_Subset DEF Partition
  <1>3. \A c \in clusters : ToSet(InNameOrder(c)) = c /\ InNameOrder(c) # <<>>
    BY <1>1, <1>2, InNameOrderIs
  <1>4. ToSet(InNameOrder(A)) = A /\ InNameOrder(A) # <<>>  BY <1>1, InNameOrderIs
  <1>5. m.all = InNameOrder(A)  BY DEF Membership
  <1>6. \A x : x \in cs <=> \E c \in clusters : x = InNameOrder(c)  BY DEF Membership, Large
  <1> HIDE DEF m
  <1>7. m.all # <<>> /\ m.all = InNameOrder(ToSet(m.all)) /\ ToSet(m.all) = A  BY <1>4, <1>5
  <1>8. \A x \in cs : x # <<>> /\ x = InNameOrder(ToSet(x)) /\ ToSet(x) \in clusters  BY <1>3, <1>6
  <1>9. \A c \in clusters : \E x \in cs : ToSet(x) = c  BY <1>3, <1>6
  <1> HIDE DEF cs
  <1>10. \A x \in cs : ToSet(x) \subseteq A  BY <1>2, <1>8
  <1>11. \A x, y \in cs : x # y => ToSet(x) \cap ToSet(y) = {}
    <2> SUFFICES ASSUME NEW x \in cs, NEW y \in cs, x # y  PROVE ToSet(x) \cap ToSet(y) = {}
      OBVIOUS
    <2>1. ToSet(x) \in clusters /\ ToSet(y) \in clusters /\ ToSet(x) # ToSet(y)  BY <1>8
    <2> QED  BY <2>1 DEF Partition
  <1>12. UNION {ToSet(x) : x \in cs} = A  BY <1>8, <1>9 DEF Partition
  <1>13. Valid(m)  BY <1>7, <1>8, <1>10, <1>11, <1>12 DEF Valid, cs
  <1>14. {ToSet(x) : x \in cs} = clusters  BY <1>8, <1>9
  <1>15. \A c \in clusters : Cardinality(c) \in Nat /\ Len(InNameOrder(c)) = Cardinality(c)
    BY <1>1, <1>2, InNameOrderIs, FS_CardinalityType
  <1>16. config.minBucket \in Nat  BY DiscoveryAssumption
  <1>17. ASSUME NEW x \in m.buckets  PROVE Len(x) >= config.minBucket
    <2>1. PICK c \in Large : x = InNameOrder(c)  BY DEF m, Membership
    <2> QED  BY <1>15, <1>16, <2>1 DEF Large
  <1>18. ASSUME NEW x \in m.undersized  PROVE Len(x) < config.minBucket
    <2>1. PICK c \in clusters \ Large : x = InNameOrder(c)  BY DEF m, Membership
    <2> QED  BY <1>15, <1>16, <2>1 DEF Large
  <1>19. Mirrors(m)  BY <1>7, <1>14, <1>17, <1>18 DEF Mirrors, cs
  <1> QED  BY <1>13, <1>19 DEF m

\* Complete linkage is the distance of the furthest members.
LEMMA LinkageIs ==
  ASSUME Measured, Partition, NEW c \in clusters, NEW d \in clusters
  PROVE  /\ Linkage(c, d) \in Int
         /\ \E s \in c, r \in d : Linkage(c, d) = Apart(s, r)
         /\ \A s \in c, r \in d : Apart(s, r) <= Linkage(c, d)
  <1> DEFINE S == {Apart(s, r) : s \in c, r \in d}
             f == [p \in c \X d |-> Apart(p[1], p[2])]
  <1>1. c \subseteq ToSet(selected) /\ d \subseteq ToSet(selected) /\ c # {} /\ d # {}
    BY DEF Partition
  <1>2. IsFiniteSet(c) /\ IsFiniteSet(d)  BY <1>1, FS_Subset DEF Measured
  <1>3. IsFiniteSet(c \X d)  BY <1>2, FS_Product
  <1>4. S = {f[p] : p \in c \X d}
    <2>1. \A s \in c, r \in d : <<s, r>> \in c \X d /\ f[<<s, r>>] = Apart(s, r)  OBVIOUS
    <2>2. \A p \in c \X d : p[1] \in c /\ p[2] \in d /\ f[p] = Apart(p[1], p[2])  OBVIOUS
    <2>3. DOMAIN f = c \X d  OBVIOUS
    <2> HIDE DEF f
    <2>4. ASSUME NEW x \in S  PROVE x \in {f[p] : p \in c \X d}
      <3>1. PICK s \in c, r \in d : x = Apart(s, r)  OBVIOUS
      <3> HIDE DEF S
      <3>2. PICK p : p = <<s, r>>  OBVIOUS
      <3>3. p \in c \X d /\ f[p] = x  BY <2>1, <3>1, <3>2
      <3> QED  BY <3>3
    <2>5. ASSUME NEW p \in c \X d  PROVE f[p] \in S  BY <2>2
    <2> QED  BY <2>4, <2>5
  <1>5. IsFiniteSet(S)
    <2>1. DOMAIN f = c \X d  OBVIOUS
    <2> HIDE DEF f, S
    <2> QED  BY <1>3, <1>4, <2>1, ImageFinite
  <1>6. S \subseteq Int /\ S # {}  BY <1>1 DEF Measured
  <1>7. /\ \A x \in S : \E s \in c, r \in d : x = Apart(s, r)
        /\ \A s \in c, r \in d : Apart(s, r) \in S
    OBVIOUS
  <1>8. Linkage(c, d) = Max(S)  BY DEF Linkage
  <1> HIDE DEF S, f
  <1>9. Max(S) \in S /\ \A y \in S : y <= Max(S)  BY <1>5, <1>6, Extremes
  <1> QED  BY <1>6, <1>7, <1>8, <1>9

\* Where no two clusters can be joined, any two are apart.
LEMMA FinishedSeparate ==
  ASSUME Measured, Partition, Joinable = {}
  PROVE  Separate
  <1> SUFFICES ASSUME NEW c \in clusters, NEW d \in clusters, c # d,
                      \A s \in c, r \in d : ~(Apart(s, r) > distances.limit)
               PROVE  FALSE
    BY DEF Separate
  <1> DEFINE pairs == {p \in clusters \X clusters : p[1] # p[2]}
             f == [p \in pairs |-> Linkage(p[1], p[2])]
             S == {f[p] : p \in pairs}
  <1>1. \A e, g \in clusters :
          /\ Linkage(e, g) \in Int
          /\ \E s \in e, r \in g : Linkage(e, g) = Apart(s, r)
          /\ \A s \in e, r \in g : Apart(s, r) <= Linkage(e, g)
    BY LinkageIs
  <1>2. distances.limit \in Int /\ \A s, r \in ToSet(selected) : Apart(s, r) \in Int /\ Apart(s, r) = Apart(r, s)
    BY DEF Measured
  <1>3. \A e \in clusters : e \subseteq ToSet(selected)  BY DEF Partition
  <1>4. \A e, g \in clusters : Linkage(e, g) = Linkage(g, e)
    <2> SUFFICES ASSUME NEW e \in clusters, NEW g \in clusters  PROVE Linkage(e, g) = Linkage(g, e)
      OBVIOUS
    <2>1. PICK s \in e, r \in g : Linkage(e, g) = Apart(s, r)  BY <1>1
    <2>2. PICK t \in g, u \in e : Linkage(g, e) = Apart(t, u)  BY <1>1
    <2>3. Apart(r, s) <= Linkage(g, e) /\ Apart(u, t) <= Linkage(e, g)  BY <1>1
    <2>4. Apart(s, r) = Apart(r, s) /\ Apart(t, u) = Apart(u, t)  BY <1>2, <1>3
    <2> QED  BY <1>1, <2>1, <2>2, <2>3, <2>4
  <1>5. IsFiniteSet(pairs)
    <2>1. IsFiniteSet(SUBSET ToSet(selected))  BY FS_SUBSET DEF Measured
    <2>2. IsFiniteSet(clusters)  BY <1>3, <2>1, FS_Subset
    <2>3. IsFiniteSet(clusters \X clusters)  BY <2>2, FS_Product
    <2> QED  BY <2>3, FS_Subset
  <1>6. IsFiniteSet(S)
    <2>1. DOMAIN f = pairs  OBVIOUS
    <2> HIDE DEF f, pairs
    <2> QED  BY <1>5, <2>1, ImageFinite
  <1>7. \A e, g \in clusters : e # g => Linkage(e, g) \in S
    <2> SUFFICES ASSUME NEW e \in clusters, NEW g \in clusters, e # g  PROVE Linkage(e, g) \in S
      OBVIOUS
    <2>1. <<e, g>> \in pairs /\ f[<<e, g>>] = Linkage(e, g)  OBVIOUS
    <2>2. PICK p : p = <<e, g>>  OBVIOUS
    <2>3. p \in pairs /\ f[p] = Linkage(e, g)  BY <2>1, <2>2
    <2> HIDE DEF pairs, f
    <2> QED  BY <2>3
  <1>8. \A x \in S : \E e, g \in clusters : e # g /\ x = Linkage(e, g)  OBVIOUS
  <1> HIDE DEF S
  <1>9. S \subseteq Int /\ S # {}  BY SMTT(30), <1>1, <1>7, <1>8
  <1>10. Min(S) \in S /\ \A y \in S : Min(S) <= y  BY <1>6, <1>9, Extremes
  <1>11. PICK e \in clusters, g \in clusters : e # g /\ Min(S) = Linkage(e, g)  BY <1>8, <1>10
  <1>12. \A h, k \in clusters : h # k => Linkage(e, g) <= Linkage(h, k)  BY <1>7, <1>10, <1>11
  <1>13. Linkage(e, g) <= distances.limit
    <2>1. PICK s \in c, r \in d : Linkage(c, d) = Apart(s, r)  BY <1>1
    <2>2. Linkage(c, d) <= distances.limit  BY <1>1, <1>2, <2>1
    <2>3. Linkage(e, g) <= Linkage(c, d)  BY <1>12
    <2> QED  BY <1>1, <1>2, <2>2, <2>3
  <1>14. {e, g} \in Joinable
    <2>1. {e, g} \in SUBSET clusters /\ Cardinality({e, g}) = 2
      <3>1. IsFiniteSet({e}) /\ Cardinality({e}) = 1  BY FS_Singleton
      <3>2. Cardinality({e} \cup {g}) = 2  BY <1>11, <3>1, FS_AddElement
      <3>3. {e, g} = {e} \cup {g}  OBVIOUS
      <3> QED  BY <3>2, <3>3
    <2>2. Linkage(g, e) = Linkage(e, g)  BY <1>4
    <2>3. \A x, y \in {e, g} : x # y =>
            /\ Linkage(x, y) <= distances.limit
            /\ \A h, k \in clusters : h # k => Linkage(x, y) <= Linkage(h, k)
      BY <1>12, <1>13, <2>2
    <2> QED  BY <2>1, <2>3 DEF Joinable
  <1> QED  BY <1>14

\* A join keeps the partition, and puts no two symbols too far apart together.
LEMMA JoinStep ==
  ASSUME Measured, Partition, Tight, Join
  PROVE  Partition' /\ Tight'
  <1>1. PICK p \in Joinable : clusters' = (clusters \ p) \cup {UNION p}  BY DEF Join
  <1>2. p \in SUBSET clusters /\ Cardinality(p) = 2  BY <1>1 DEF Joinable
  <1>3. selected' = selected /\ distances' = distances  BY DEF Join
  <1>4. \A c, d \in p : c # d => Linkage(c, d) <= distances.limit  BY <1>1 DEF Joinable
  <1>5. p # {}  BY <1>2, FS_EmptySet
  <1>6. Partition'
    <2>1. UNION clusters' = UNION clusters  BY <1>1, <1>2
    <2>2. {} \notin clusters'
      <3>1. {} \notin clusters  BY DEF Partition
      <3>2. PICK c : c \in p  BY <1>5
      <3>3. c \in clusters  BY <1>2, <3>2
      <3>4. c # {}  BY <3>1, <3>3
      <3>5. UNION p # {}  BY <3>2, <3>4
      <3> QED  BY <1>1, <3>1, <3>5
    <2>3. \A c, d \in clusters' : c # d => c \cap d = {}
      <3>1. \A c \in clusters \ p : c \cap UNION p = {}  BY <1>2 DEF Partition
      <3>2. \A c, d \in clusters \ p : c # d => c \cap d = {}  BY DEF Partition
      <3> QED  BY <1>1, <3>1, <3>2
    <2>4. UNION clusters = ToSet(selected)  BY DEF Partition
    <2> QED  BY <1>3, <2>1, <2>2, <2>3, <2>4 DEF Partition
  <1>7. \A s, r \in UNION p : Apart(s, r) <= distances.limit
    <2> SUFFICES ASSUME NEW c \in p, NEW d \in p, NEW s \in c, NEW r \in d
                 PROVE  Apart(s, r) <= distances.limit
      OBVIOUS
    <2>1. CASE c = d  BY <1>2, <2>1 DEF Tight
    <2>2. CASE c # d
      <3>1. c \in clusters /\ d \in clusters /\ c \subseteq ToSet(selected) /\ d \subseteq ToSet(selected)
        BY <1>2 DEF Partition
      <3>2. Linkage(c, d) \in Int /\ Apart(s, r) <= Linkage(c, d)  BY <3>1, LinkageIs
      <3>3. Linkage(c, d) <= distances.limit  BY <1>4, <2>2
      <3>4. distances.limit \in Int /\ Apart(s, r) \in Int  BY <3>1 DEF Measured
      <3> QED  BY <3>2, <3>3, <3>4
    <2> QED  BY <2>1, <2>2
  <1>8. Tight'  BY <1>1, <1>3, <1>7 DEF Tight, Apart
  <1> QED  BY <1>6, <1>8

------------------------------------------------------------
(* What the clusters are measured with. *)

\* The cleaned bars of a symbol, by day.
LEMMA CleanIs ==
  ASSUME Frozen(bars), NEW s \in DOMAIN bars
  PROVE  /\ IsFiniteSet(DOMAIN Clean(s)) /\ DOMAIN Clean(s) \subseteq Int
         /\ \A d \in DOMAIN Clean(s) : Clean(s)[d] \in DayBars
  <1> DEFINE inside == {b \in ToSet(bars[s]) : b.day \in ToSet(Sessions)}
             days   == {b.day : b \in inside}
             clean  == [d \in days |-> CHOOSE b \in inside : b.day = d]
             day    == [b \in inside |-> b.day]
  <1>1. bars[s] \in Seq(DayBars)  BY DEF Frozen
  <1>2. IsFiniteSet(inside) /\ inside \subseteq DayBars  BY <1>1, ToSetFinite, FS_Subset
  <1>3. IsFiniteSet(days)
    <2>1. days = {day[b] : b \in inside} /\ DOMAIN day = inside  OBVIOUS
    <2> HIDE DEF day, inside, days
    <2> QED  BY <1>2, <2>1, ImageFinite
  <1>4. days \subseteq Int  BY <1>2 DEF DayBars
  <1>5. \A d \in days : clean[d] \in DayBars  BY <1>2
  <1>6. Clean(s) = clean \/ Clean(s) = <<>>  BY DEF Clean
  <1>7. CASE Clean(s) = clean
    <2>1. DOMAIN clean = days  OBVIOUS
    <2> HIDE DEF clean, days
    <2> QED  BY <1>3, <1>4, <1>5, <1>7, <2>1
  <1>8. CASE Clean(s) = <<>>  BY <1>8, FS_EmptySet
  <1> QED  BY <1>6, <1>7, <1>8

\* The descriptors of a symbol that has any bars.
LEMMA DescriptorsAre ==
  ASSUME NEW clean, IsFiniteSet(DOMAIN clean), DOMAIN clean \subseteq Int, DOMAIN clean # {},
         \A d \in DOMAIN clean : clean[d] \in DayBars
  PROVE  Descriptors(clean) \in [Weights -> Int]
  <1> DEFINE D == DOMAIN clean
             range  == [d \in D |-> clean[d].range]
             dollar == [d \in D |-> clean[d].dollar]
             days   == Cardinality(D)
             middle == (days + 1) \div 2
  <1>1. days \in Nat /\ days # 0  BY FS_CardinalityType, FS_EmptySet
  <1>2. range \in [D -> Int] /\ dollar \in [D -> Int]  BY DEF DayBars
  <1>3. Positions(range) \in [1..days -> D]
    <2> HIDE DEF range
    <2> QED  BY <1>2, PositionsAre
  <1>4. middle \in 1..days  BY <1>1
  <1>5. range[Positions(range)[middle]] \in Int
    <2> HIDE DEF range, middle
    <2> QED  BY <1>2, <1>3, <1>4
  <1>6. Sum(dollar) \in Int
    <2>1. DOMAIN dollar = D  OBVIOUS
    <2> HIDE DEF dollar
    <2>2. \A x \in DOMAIN dollar : dollar[x] \in Int  BY <1>2, <2>1
    <2> QED  BY <2>1, <2>2, SumIn
  <1>7. Sum(dollar) \div days \in Int
    <2> HIDE DEF dollar, days
    <2> QED  BY <1>1, <1>6
  <1>8. Descriptors(clean) = [dollar |-> Sum(dollar) \div days, range |-> range[Positions(range)[middle]]]
    BY DEF Descriptors
  <1> HIDE DEF dollar, days, range, middle
  <1>9. Descriptors(clean) \in [dollar : Int, range : Int]  BY <1>5, <1>7, <1>8
  <1> QED  BY <1>9 DEF Weights

LEMMA DescribedAre ==
  ASSUME Frozen(bars)
  PROVE  /\ DOMAIN Described \subseteq DOMAIN bars
         /\ \A s \in DOMAIN Described : Described[s] \in [Weights -> Int]
  <1> DEFINE clean   == [s \in DOMAIN bars |-> Clean(s)]
             passing == {s \in DOMAIN bars : Enough(clean[s])}
             market  == Returns(clean[Benchmark])
             D == {r \in passing : Benchmark \in passing /\ Describable(Returns(clean[r]), market)}
  <1>1. Described = [s \in D |-> Descriptors(clean[s])]  BY DEF Described
  <1>2. D \subseteq DOMAIN bars  OBVIOUS
  <1>3. ASSUME NEW s \in D  PROVE Descriptors(clean[s]) \in [Weights -> Int]
    <2>1. clean[s] = Clean(s) /\ Describable(Returns(clean[s]), market)  BY <1>2
    <2>2. Cardinality(DOMAIN Returns(clean[s])) >= 3  BY <2>1 DEF Describable
    <2> HIDE DEF market, clean
    <2>3. DOMAIN clean[s] # {}
      <3> SUFFICES ASSUME DOMAIN clean[s] = {}  PROVE FALSE  OBVIOUS
      <3>1. DOMAIN Returns(clean[s]) = {}  BY DEF Returns
      <3>2. Cardinality({}) = 0  BY FS_EmptySet
      <3> QED  BY <2>2, <3>1, <3>2
    <2>4. s \in DOMAIN bars  BY <1>2
    <2>5. /\ IsFiniteSet(DOMAIN clean[s]) /\ DOMAIN clean[s] \subseteq Int
          /\ \A d \in DOMAIN clean[s] : clean[s][d] \in DayBars
      BY <2>1, <2>4, CleanIs
    <2> QED  BY <2>3, <2>5, DescriptorsAre
  <1> HIDE DEF D, clean
  <1> QED  BY <1>1, <1>2, <1>3

\* The ranked symbols are symbols that have been described.
LEMMA RankedIs ==
  ASSUME NEW D, IsFiniteSet(D), D \subseteq Int, NEW described \in [D -> [Weights -> Int]], config \in Configs
  PROVE  Ranked(described) \in Seq(D)
  <1> DEFINE before(s, r) == \/ described[s].dollar > described[r].dollar
                             \/ described[s].dollar = described[r].dollar /\ s < r
             R == {p \in D \X D : before(p[1], p[2])}
             seq == Ascending(D, before)
  <1>1. \A s \in D : described[s].dollar \in Int  BY DEF Weights
  <1>2. Linear(R, D)
    <2> SUFFICES ASSUME NEW key, \A s \in D : key[s] = described[s].dollar
                 PROVE  Linear(R, D)
      <3> DEFINE key == [s \in D |-> described[s].dollar]
      <3>1. \A s \in D : key[s] = described[s].dollar  OBVIOUS
      <3> QED  BY <3>1
    <2>1. \A s, r \in D : <<s, r>> \in R <=> key[s] > key[r] \/ (key[s] = key[r] /\ s < r)  OBVIOUS
    <2>2. \A s \in D : key[s] \in Int  BY <1>1
    <2> HIDE DEF R
    <2>3. \A a \in D : <<a, a>> \notin R  BY <2>1, <2>2
    <2>4. \A a, b, c \in D : <<a, b>> \in R /\ <<b, c>> \in R => <<a, c>> \in R  BY <2>1, <2>2
    <2>5. ASSUME NEW a \in D, NEW b \in D, a # b  PROVE <<a, b>> \in R \/ <<b, a>> \in R
      <3>1. a \in Int /\ b \in Int /\ key[a] \in Int /\ key[b] \in Int  BY <2>2
      <3>2. a < b \/ b < a  BY <2>5, <3>1
      <3>3. key[a] > key[b] \/ key[b] > key[a] \/ key[a] = key[b]  BY <3>1
      <3> QED  BY <2>1, <3>2, <3>3
    <2> QED  BY <2>3, <2>4, <2>5 DEF Linear
  <1>3. \A s \in D : {r \in D : before(r, s)} = Ahead(R, D, s)  BY DEF Ahead
  <1>4. seq = [i \in 1..Cardinality(D) |-> CHOOSE s \in D : Cardinality({r \in D : before(r, s)}) = i - 1]
    BY DEF Ascending
  <1>5. Ranked(described) = SubSeq(seq, 1, Min({Len(seq), config.topN}))  BY DEF Ranked
  <1> HIDE DEF R, seq
  <1>6. ASSUME NEW i \in 1..Cardinality(D)  PROVE seq[i] \in D
    <2>1. PICK s \in D : Cardinality(Ahead(R, D, s)) = i - 1  BY <1>2, Places
    <2>2. \E t \in D : Cardinality({r \in D : before(r, t)}) = i - 1
      <3>1. {r \in D : before(r, s)} = Ahead(R, D, s)  BY <1>3
      <3> HIDE DEF before
      <3> QED  BY <2>1, <3>1
    <2> HIDE DEF before
    <2> QED  BY <1>4, <2>2
  <1>7. seq \in Seq(D)
    <2>1. Cardinality(D) \in Nat  BY FS_CardinalityType
    <2>2. seq \in [1..Cardinality(D) -> D]  BY <1>4, <1>6
    <2> QED  BY <2>1, <2>2
  <1>8. config.topN \in Nat  BY DiscoveryAssumption
  <1>9. Min({Len(seq), config.topN}) \in 0..Len(seq)
    <2>1. Len(seq) \in Nat  BY <1>7
    <2> DEFINE S == {Len(seq), config.topN}
    <2>2. \E x \in S : \A y \in S : x =< y  BY <1>8, <2>1
    <2>3. Min(S) \in S /\ Min(S) =< Len(seq)  BY <2>2 DEF Min
    <2> QED  BY <1>8, <2>1, <2>3
  <1>10. \A k \in 0..Len(seq) : SubSeq(seq, 1, k) \in Seq(D)  BY <1>7
  <1> QED  BY <1>5, <1>9, <1>10

LEMMA QuartileIs ==
  ASSUME NEW n \in Nat \ {0}, NEW values \in [1..n -> Int], NEW q \in {1, 3}
  PROVE  Quartile(values, q) \in Int
  <1> DEFINE at  == ((n - 1) * q) \div 4
             rem == ((n - 1) * q) % 4
             raw(k) == values[Positions(values)[k]]
  <1>1. Len(values) = n  OBVIOUS
  <1>2. Quartile(values, q) = (4 - rem) * raw(at + 1) + (IF rem = 0 THEN 0 ELSE rem * raw(at + 2))
    BY <1>1 DEF Quartile
  <1>3. Positions(values) \in [1..n -> 1..n]
    <2>1. IsFiniteSet(1..n) /\ Cardinality(1..n) = n /\ 1..n \subseteq Int  BY FS_Interval
    <2> QED  BY <2>1, PositionsAre
  <1>4. \A k \in 1..n : raw(k) \in Int  BY <1>3
  <1>5. at + 1 \in 1..n /\ rem \in 0..3 /\ (rem # 0 => at + 2 \in 1..n)  OBVIOUS
  <1>6. raw(at + 1) \in Int /\ (rem # 0 => raw(at + 2) \in Int)  BY <1>4, <1>5
  <1> HIDE DEF raw, at, rem
  <1>7. (4 - rem) * raw(at + 1) \in Int  BY <1>5, <1>6
  <1>8. (IF rem = 0 THEN 0 ELSE rem * raw(at + 2)) \in Int  BY <1>5, <1>6
  <1> QED  BY <1>2, <1>7, <1>8

\* The scaled distances of described symbols.
LEMMA ScaledIs ==
  ASSUME NEW D, NEW described \in [D -> [Weights -> Int]], NEW ranked \in Seq(D), Len(ranked) # 0,
         config \in Configs,
         NEW m, m = Scaled(ranked, described)
  PROVE  /\ m.limit \in Int
         /\ \A s, r \in ToSet(ranked) : m.apart[<<s, r>>] \in Int /\ m.apart[<<s, r>>] = m.apart[<<r, s>>]
         /\ \A s \in ToSet(ranked) : m.apart[<<s, s>>] <= m.limit
  <1> DEFINE n == Len(ranked)
             spread == Spreads(ranked, described)
             active == Active(spread)
             square(x) == x * x
             others(name) == Product([k \in active \ {name} |-> square(spread[k])])
             scale  == [k \in active |-> 16 * config.weights[k] * others(k)]
             moved(s, r) == [k \in active |-> scale[k] * square(described[s][k] - described[r][k])]
             S == ToSet(ranked)
  <1>1. n \in Nat \ {0} /\ DOMAIN ranked = 1..n /\ \A i \in 1..n : ranked[i] \in D  OBVIOUS
  <1>2. S \subseteq D  BY <1>1 DEF ToSet
  <1>3. \A s \in S : \A k \in Weights : described[s][k] \in Int  BY <1>2
  <1>4. \A k \in Weights : spread[k] \in Int
    <2> SUFFICES ASSUME NEW k \in Weights  PROVE spread[k] \in Int  OBVIOUS
    <2> DEFINE values == [i \in 1..n |-> described[ranked[i]][k]]
    <2>1. values \in [1..n -> Int]  BY <1>1
    <2>2. spread[k] = Quartile(values, 3) - Quartile(values, 1)  BY DEF Spreads
    <2> HIDE DEF values
    <2>3. Quartile(values, 3) \in Int /\ Quartile(values, 1) \in Int  BY <1>1, <2>1, QuartileIs
    <2> HIDE DEF spread
    <2> QED  BY <2>2, <2>3
  <1>5. active \subseteq Weights /\ IsFiniteSet(active)
    <2>1. active \subseteq Weights  BY DEF Active
    <2>2. IsFiniteSet({"dollar"})  BY FS_Singleton
    <2>3. IsFiniteSet({"dollar"} \cup {"range"})  BY <2>2, FS_AddElement
    <2>4. Weights = {"dollar"} \cup {"range"}  BY DEF Weights
    <2> QED  BY <2>1, <2>3, <2>4, FS_Subset
  <1>6. \A k \in Weights : config.weights[k] \in Nat  BY DiscoveryAssumption DEF Weights
  <1>7. config.threshold \in Nat  BY DiscoveryAssumption
  <1>8. \A x \in Int : square(x) \in Nat  OBVIOUS
  <1>9. m.apart = [p \in S \X S |-> Sum(moved(p[1], p[2]))]  BY DEF Scaled
  <1>10. m.limit = square(config.threshold) * others("none") * Sum([k \in active |-> config.weights[k]])
    BY DEF Scaled
  <1> HIDE DEF spread, active, square
  <1>11. ASSUME NEW name  PROVE others(name) \in Nat
    <2> DEFINE f == [k \in active \ {name} |-> square(spread[k])]
    <2>1. DOMAIN f = active \ {name} /\ IsFiniteSet(active \ {name})  BY <1>5, FS_Subset
    <2>2. \A k \in active \ {name} : f[k] \in Nat  BY <1>4, <1>5, <1>8
    <2> HIDE DEF f
    <2>3. Product(f) \in Nat
      <3>1. 1 \in Nat /\ \A a, b \in Nat : a * b \in Nat  OBVIOUS
      <3> QED  BY <2>1, <2>2, <3>1, ProductIn
    <2> QED  BY <2>3 DEF f
  <1> HIDE DEF others
  <1>12. \A k \in active : scale[k] \in Int
    <2> SUFFICES ASSUME NEW k \in active  PROVE 16 * config.weights[k] * others(k) \in Int  OBVIOUS
    <2>1. config.weights[k] \in Nat /\ others(k) \in Nat  BY <1>5, <1>6, <1>11
    <2> QED  BY <2>1
  <1>13. m.limit \in Nat
    <2> DEFINE f == [k \in active |-> config.weights[k]]
    <2>1. DOMAIN f = active /\ \A k \in active : f[k] \in Nat  BY <1>5, <1>6
    <2> HIDE DEF f
    <2>2. Sum(f) \in Nat
      <3>1. 0 \in Nat /\ \A a, b \in Nat : a + b \in Nat  OBVIOUS
      <3> QED  BY <1>5, <2>1, <3>1, SumIn
    <2>3. square(config.threshold) \in Nat /\ others("none") \in Nat
      <3>1. config.threshold \in Int  BY <1>7
      <3>2. square(config.threshold) \in Nat  BY <1>8, <3>1
      <3>3. others("none") \in Nat  BY <1>11
      <3> QED  BY <3>2, <3>3
    <2>4. \A a, b, c \in Nat : a * b * c \in Nat  OBVIOUS
    <2> QED  BY <1>10, <2>2, <2>3, <2>4 DEF f
  <1> HIDE DEF scale
  <1>14. ASSUME NEW s \in S, NEW r \in S
         PROVE  /\ DOMAIN moved(s, r) = active /\ \A k \in active : moved(s, r)[k] \in Int
                /\ moved(s, r) = moved(r, s)
                /\ s = r => \A k \in active : moved(s, r)[k] = 0
    <2>1. \A k \in active : /\ described[s][k] \in Int /\ described[r][k] \in Int /\ scale[k] \in Int
      BY <1>3, <1>5, <1>12
    <2>2. \A a, b \in Int : square(a - b) \in Int /\ square(a - b) = square(b - a) /\ square(a - a) = 0
      BY DEF square
    <2>3. \A a, b \in Int : a * b \in Int /\ a * 0 = 0  OBVIOUS
    <2> QED  BY <2>1, <2>2, <2>3
  <1> HIDE DEF moved
  <1>15. ASSUME NEW s \in S, NEW r \in S  PROVE Sum(moved(s, r)) \in Int /\ (s = r => Sum(moved(s, r)) = 0)
    <2>1. Sum(moved(s, r)) \in Int  BY <1>5, <1>14, SumIn
    <2>2. ASSUME s = r  PROVE Sum(moved(s, r)) = 0
      <3>1. 0 \in {0} /\ \A a, b \in {0} : a + b \in {0}  OBVIOUS
      <3>2. \A k \in DOMAIN moved(s, r) : moved(s, r)[k] \in {0}  BY <1>14, <2>2
      <3>3. IsFiniteSet(DOMAIN moved(s, r))  BY <1>5, <1>14
      <3>4. Sum(moved(s, r)) \in {0}  BY <3>1, <3>2, <3>3, SumIn
      <3> QED  BY <3>4
    <2> QED  BY <2>1, <2>2
  <1>16. \A s, r \in S : m.apart[<<s, r>>] = Sum(moved(s, r))  BY <1>9
  <1> QED  BY <1>13, <1>14, <1>15, <1>16

------------------------------------------------------------
(* The steps of a discovery. *)

\* Screening starts the linkage with a cluster for each symbol, or ends the command.
LEMMA ScreenStep ==
  ASSUME ClusterInv, Screen
  PROVE  stage' = "idle" \/ (stage' = "clustering" /\ Measured' /\ Partition' /\ Tight')
  <1> DEFINE described == Described
             ranked    == Ranked(described)
             m         == Scaled(ranked, described)
             D         == DOMAIN described
  <1>1. CASE Stop  BY <1>1 DEF Stop
  <1>2. CASE ~Stop
    <2>1. /\ ~(Len(ranked) < 2)
          /\ selected' = ranked /\ distances' = m
          /\ clusters' = {{s} : s \in ToSet(ranked)} /\ stage' = "clustering"
      BY <1>2 DEF Screen
    <2>2. config \in Configs /\ Frozen(bars)  BY DEF ClusterInv
    <2>3. D \subseteq DOMAIN bars /\ \A s \in D : described[s] \in [Weights -> Int]
      BY <2>2, DescribedAre
    <2>4. IsFiniteSet(D) /\ D \subseteq Int
      <3>1. IsFiniteSet(Candidates \cup {Benchmark}) /\ Candidates \cup {Benchmark} \subseteq Int
        BY DiscoveryAssumption, FS_AddElement
      <3>2. D \subseteq Candidates \cup {Benchmark}  BY <2>2, <2>3 DEF Frozen
      <3> QED  BY <3>1, <3>2, FS_Subset
    <2>5. described \in [D -> [Weights -> Int]]
      <3>1. described = [s \in D |-> described[s]]  BY DEF Described
      <3> HIDE DEF described
      <3> QED  BY <2>3, <3>1
    <2> HIDE DEF described
    <2>6. ranked \in Seq(D)  BY <2>2, <2>4, <2>5, RankedIs
    <2> HIDE DEF ranked, m
    <2>7. Len(ranked) # 0 /\ Len(ranked) \in Nat /\ DOMAIN ranked = 1..Len(ranked)  BY <2>1, <2>6
    <2>8. /\ m.limit \in Int
          /\ \A s, r \in ToSet(ranked) : m.apart[<<s, r>>] \in Int /\ m.apart[<<s, r>>] = m.apart[<<r, s>>]
          /\ \A s \in ToSet(ranked) : m.apart[<<s, s>>] <= m.limit
      BY <2>2, <2>5, <2>6, <2>7, ScaledIs DEF m
    <2>9. IsFiniteSet(ToSet(ranked)) /\ ToSet(ranked) \subseteq Int /\ ToSet(ranked) # {}
      <3>1. IsFiniteSet(ToSet(ranked)) /\ ToSet(ranked) \subseteq D  BY <2>6, ToSetFinite
      <3>2. 1 \in DOMAIN ranked  BY <2>7
      <3> QED  BY <2>4, <3>1, <3>2 DEF ToSet
    <2>10. Measured'  BY <2>1, <2>8, <2>9 DEF Measured, Apart
    <2>11. Partition'  BY <2>1 DEF Partition
    <2>12. Tight'
      <3>1. \A s \in ToSet(ranked) : distances'.apart[<<s, s>>] <= distances'.limit  BY <2>1, <2>8
      <3>2. \A c \in clusters' : \E s \in ToSet(ranked) : c = {s}  BY <2>1
      <3>3. \A c \in clusters' : \A s, r \in c : distances'.apart[<<s, r>>] <= distances'.limit
        BY <3>1, <3>2
      <3> QED  BY <3>3 DEF Tight, Apart
    <2> QED  BY <2>1, <2>10, <2>11, <2>12
  <1> QED  BY <1>1, <1>2

\* The provider's bars are those of a command.
LEMMA FetchedFrozen ==
  ASSUME NEW c \in Configs, NEW market \in Markets, NEW b,
         b = [s \in (Candidates \ c.excluded) \cup {Benchmark} |-> market[s]]
  PROVE  Frozen(b)
  BY DiscoveryAssumption DEF Frozen

LEMMA ClusterStep ==
  ASSUME ClusterInv, [DiscoveryNext]_discoveryVars
  PROVE  ClusterInv'
  <1>1. /\ config \in Configs /\ Frozen(bars) /\ \A d \in disk : Frozen(d.bars)
        /\ stage \in {"clustering", "publishing"} => Measured /\ Partition /\ Tight
        /\ stage = "publishing" => Separate /\ Valid(result) /\ Mirrors(result)
    BY DEF ClusterInv
  <1>2. ASSUME config' \in Configs, Frozen(bars'), disk' = disk, stage' \in {"idle", "screened"}
        PROVE  ClusterInv'
    BY <1>1, <1>2 DEF ClusterInv, Frozen
  <1>3. ASSUME UNCHANGED <<config, bars, stage, selected, distances, clusters, result, disk>>
         PROVE  ClusterInv'
    <2>1. config' \in Configs /\ Frozen(bars)' /\ \A d \in disk' : Frozen(d.bars)
      BY <1>1, <1>3 DEF Frozen
    <2>2. stage \in {"clustering", "publishing"} => Measured' /\ Partition' /\ Tight'
      BY <1>1, <1>3 DEF Measured, Partition, Tight, Apart
    <2>3. stage = "publishing" => Separate'  BY <1>1, <1>3 DEF Separate, Apart
    <2>4. stage = "publishing" => Valid(result)'  BY <1>1, <1>3 DEF Valid
    <2>5. stage = "publishing" => Mirrors(result)'  BY <1>1, <1>3 DEF Mirrors
    <2> QED  BY <1>3, <2>1, <2>2, <2>3, <2>4, <2>5 DEF ClusterInv, Frozen
  <1>4. CASE Fetch
    <2>1. PICK c \in Configs, market \in Markets :
            config' = c /\ bars' = [s \in (Candidates \ c.excluded) \cup {Benchmark} |-> market[s]]
      BY <1>4 DEF Fetch
    <2>2. Frozen(bars')  BY <2>1, FetchedFrozen
    <2>3. stage' = "screened" /\ disk' = disk  BY <1>4 DEF Fetch
    <2> QED  BY <1>2, <2>1, <2>2, <2>3
  <1>5. CASE Reuse
    <2>1. stage = "idle" /\ disk' = disk  BY <1>5 DEF Reuse
    <2>2. PICK d \in Listed, c \in Configs :
            config' = c /\ ((bars' = d.bars /\ stage' = "screened") \/ (bars' = bars /\ stage' = stage))
      BY <1>5 DEF Reuse
    <2>3. Frozen(bars')  BY <1>1, <2>2 DEF Listed
    <2> QED  BY <1>2, <2>1, <2>2, <2>3
  <1>6. CASE Screen
    <2>1. config' = config /\ bars' = bars /\ disk' = disk  BY <1>6 DEF Screen
    <2>2. stage' = "idle" \/ (stage' = "clustering" /\ Measured' /\ Partition' /\ Tight')
      BY <1>6, ScreenStep
    <2>3. CASE stage' = "idle"  BY <1>1, <1>2, <2>1, <2>3
    <2>4. CASE stage' = "clustering" /\ Measured' /\ Partition' /\ Tight'
      BY <1>1, <2>1, <2>4 DEF ClusterInv, Frozen
    <2> QED  BY <2>2, <2>3, <2>4
  <1>7. CASE Join
    <2>1. UNCHANGED <<config, bars, stage, selected, distances, disk>> /\ stage = "clustering"
      BY <1>7 DEF Join
    <2>2. Measured /\ Partition /\ Tight  BY <1>1, <2>1
    <2>3. Partition' /\ Tight'  BY <1>7, <2>2, JoinStep
    <2>4. Measured'  BY <2>1, <2>2 DEF Measured, Apart
    <2> QED  BY <1>1, <2>1, <2>3, <2>4 DEF ClusterInv, Frozen
  <1>8. CASE Named
    <2>1. /\ UNCHANGED <<config, bars, selected, distances, clusters, disk>> /\ stage = "clustering"
          /\ result' = Membership /\ Joinable = {}
      BY <1>8 DEF Named
    <2>2. Measured /\ Partition /\ Tight  BY <1>1, <2>1
    <2>3. Separate  BY <2>1, <2>2, FinishedSeparate
    <2>4. Valid(result') /\ Mirrors(result')  BY <1>1, <2>1, <2>2, MembershipValid
    <2>5. Measured' /\ Partition' /\ Tight' /\ Separate'
      BY SMTT(30), <2>1, <2>2, <2>3 DEF Measured, Partition, Tight, Separate, Apart
    <2>6. Valid(result)' /\ Mirrors(result)'
      <3>1. Valid(result)'  BY <2>4 DEF Valid, InNameOrder, Ascending
      <3>2. Mirrors(result)'  BY <2>1, <2>4 DEF Mirrors
      <3> QED  BY <3>1, <3>2
    <2> QED  BY <1>1, <2>1, <2>5, <2>6 DEF ClusterInv, Frozen
  <1>9. CASE Write  BY <1>3, <1>9 DEF Write
  <1>10. CASE Replace \/ Killed \/ WriteFails
    <2>1. /\ UNCHANGED <<config, bars>> /\ Stop
          /\ \A d \in disk' : d \in disk \/ \E files, fate : d = Directory(files, fate)
      BY <1>10 DEF Replace, Killed, WriteFails
    <2>2. stage' = "idle"  BY <2>1 DEF Stop
    <2>3. \A files, fate : Directory(files, fate).bars = bars  BY DEF Directory
    <2>4. \A d \in disk' : Frozen(d.bars)  BY <1>1, <2>1, <2>3
    <2> QED  BY <1>1, <2>1, <2>2, <2>4 DEF ClusterInv, Frozen
  <1>11. CASE UNCHANGED discoveryVars  BY <1>3, <1>11 DEF discoveryVars
  <1> QED  BY <1>4, <1>5, <1>6, <1>7, <1>8, <1>9, <1>10, <1>11 DEF DiscoveryNext

\* A published universe is a partition of the ranked symbols by complete
\* linkage at the threshold, whichever of the closest clusters are joined
\* first: all of it, the clusters below min_bucket_size apart, and its snapshot
\* loads (universe.py discover, publish_snapshot; config/universe_config.py
\* _membership).
THEOREM ClustersAreTight == AlgorithmsSpec => []ClustersTight
  <1>1. AlgorithmsInit => ClusterInv
    BY DiscoveryAssumption DEF AlgorithmsInit, DiscoveryInit, ClusterInv, Frozen
  <1>2. ClusterInv /\ [AlgorithmsNext]_allVars => ClusterInv'  BY ClusterStep, DiscoveryFrame
  <1>3. ClusterInv => ClustersTight
    BY DEF ClusterInv, Partition, Tight, Separate, Mirrors, ClustersTight
  <1> QED  BY <1>1, <1>2, <1>3, PTL DEF AlgorithmsSpec

------------------------------------------------------------
(* The rows of a training. *)

\* What lies between two times of a day is of that day.
LEMMA SameDay ==
  ASSUME NEW d \in Nat \ {0}, NEW a \in Int, NEW t \in Int, NEW b \in Int, a <= t, t <= b,
         a \div d = b \div d
  PROVE  t \div d = a \div d /\ a % d <= t % d /\ t % d <= b % d /\ (t % d) - (a % d) = t - a
  <1>1. PICK p, q, r \in Int : p = a \div d /\ q = t \div d /\ r = b \div d  OBVIOUS
  <1>2. /\ a = (d * p) + (a % d) /\ 0 <= a % d /\ a % d < d
        /\ t = (d * q) + (t % d) /\ 0 <= t % d /\ t % d < d
        /\ b = (d * r) + (b % d) /\ 0 <= b % d /\ b % d < d
    BY <1>1
  <1>3. a % d \in Int /\ t % d \in Int /\ b % d \in Int  OBVIOUS
  <1>4. q = p
    <2>1. CASE q < p  BY <1>1, <1>2, <1>3, <2>1
    <2>2. CASE q > p  BY <1>1, <1>2, <1>3, <2>2
    <2> QED  BY <1>1, <2>1, <2>2
  <1>5. PICK dp \in Int : dp = d * p  BY <1>1
  <1>6. a = dp + (a % d) /\ t = dp + (t % d) /\ b = dp + (b % d)  BY <1>1, <1>2, <1>4, <1>5
  <1> QED  BY <1>1, <1>3, <1>4, <1>5, <1>6

\* A calendar's grid: the aligned times in a session.
LEMMA GridIs ==
  /\ IsFiniteSet(DOMAIN Grid) /\ DOMAIN Grid \subseteq Int
  /\ \A t \in Int : t \in DOMAIN Grid <=> InSession(t) /\ (t % DayLength) % BarStep = 0
  /\ \A t \in DOMAIN Grid : Grid[t] = DayOf(t) /\ IsRegular(t)
  <1> DEFINE slots(s) == {u \in s.open..(s.close - 1) : (u % DayLength) % BarStep = 0}
             all == {slots(s) : s \in TradingSessions}
  <1>1. DOMAIN Grid = UNION all /\ \A t \in UNION all : Grid[t] = DayOf(t)
    BY DEF Grid, ScheduledBars
  <1>2. TradingSessions \subseteq [open : Int, close : Int] /\ IsFiniteSet(TradingSessions)
    BY TrainingAssumption
  <1>3. \A s \in TradingSessions : slots(s) \in SUBSET Int /\ IsFiniteSet(slots(s))
    <2> SUFFICES ASSUME NEW s \in TradingSessions  PROVE slots(s) \in SUBSET Int /\ IsFiniteSet(slots(s))
      OBVIOUS
    <2>1. s.open \in Int /\ s.close - 1 \in Int  BY <1>2
    <2>2. IsFiniteSet(s.open..(s.close - 1)) /\ slots(s) \in SUBSET (s.open..(s.close - 1))
      BY <2>1, FS_Interval
    <2> QED  BY <2>1, <2>2, FS_Subset
  <1>4. IsFiniteSet(UNION all)
    <2> DEFINE f == [s \in TradingSessions |-> slots(s)]
    <2>1. all = {f[s] : s \in TradingSessions} /\ DOMAIN f = TradingSessions  OBVIOUS
    <2>2. \A x \in all : IsFiniteSet(x)  BY <1>3
    <2> HIDE DEF f, all
    <2>3. IsFiniteSet(all)  BY <1>2, <2>1, ImageFinite
    <2> QED  BY <2>2, <2>3, FS_UNION
  <1>5. ASSUME NEW t \in Int
        PROVE  t \in UNION all <=> InSession(t) /\ (t % DayLength) % BarStep = 0
    BY <1>2 DEF InSession
  <1>6. ASSUME NEW t \in UNION all  PROVE t \in Int /\ IsRegular(t)
    <2>1. PICK s \in TradingSessions : t \in s.open..(s.close - 1)  OBVIOUS
    <2>2. s.open \in Int /\ s.close \in Int /\ t \in Int /\ s.open <= t /\ t <= s.close - 1
      BY <1>2, <2>1
    <2>3. /\ s.open \div DayLength = (s.close - 1) \div DayLength
          /\ IsRegular(s.open) /\ IsRegular(s.close - 1)
      BY TrainingAssumption DEF DayOf
    <2>4. s.open % DayLength <= t % DayLength /\ t % DayLength <= (s.close - 1) % DayLength
      BY SMTT(30), <2>2, <2>3, SameDay, TrainingDataAssumption
    <2>5. DayLength \in Nat \ {0} /\ SessionOpen \in Int /\ SessionClose \in Int
      BY TrainingDataAssumption
    <2>6. s.open % DayLength \in Int /\ t % DayLength \in Int /\ (s.close - 1) % DayLength \in Int
      BY <2>2, <2>5
    <2> QED  BY <2>2, <2>3, <2>4, <2>5, <2>6 DEF IsRegular
  <1> QED  BY <1>1, <1>4, <1>5, <1>6

\* The loop of _clean: what it has after each bar.
Cleaned(c, values, grid, n) ==
  /\ DOMAIN c = 0..n
  /\ c[0] = [rows |-> <<>>, errors |-> {}]
  /\ \A k \in 1..n : c[k] = Taken(c[k - 1], values[k], grid)

LEMMA CleanedExists ==
  ASSUME NEW n \in Nat, NEW values, NEW grid
  PROVE  \E c : Cleaned(c, values, grid, n)
  <1> DEFINE P == {m \in Nat : \E c : Cleaned(c, values, grid, m)}
  <1>1. 0 \in P
    <2> DEFINE c == [k \in 0..0 |-> [rows |-> <<>>, errors |-> {}]]
    <2>1. Cleaned(c, values, grid, 0)  BY DEF Cleaned
    <2> QED  BY <2>1
  <1>2. ASSUME NEW m \in Nat, m \in P  PROVE m + 1 \in P
    <2>1. PICK c : Cleaned(c, values, grid, m)  BY <1>2
    <2> DEFINE next == Taken(c[m], values[m + 1], grid)
               d == [k \in 0..(m + 1) |-> IF k = m + 1 THEN next ELSE c[k]]
    <2> HIDE DEF next
    <2>2. ASSUME NEW k \in 1..(m + 1)  PROVE d[k] = Taken(d[k - 1], values[k], grid)
      <3>1. CASE k = m + 1  BY <3>1 DEF next
      <3>2. CASE k # m + 1  BY <2>1, <3>2 DEF Cleaned
      <3> QED  BY <3>1, <3>2
    <2>3. d[0] = c[0] /\ c[0] = [rows |-> <<>>, errors |-> {}]
      <3>1. 0 \in 0..(m + 1) /\ 0 # m + 1  OBVIOUS
      <3> QED  BY <2>1, <3>1 DEF Cleaned
    <2>4. DOMAIN d = 0..(m + 1)  OBVIOUS
    <2> HIDE DEF d
    <2>5. Cleaned(d, values, grid, m + 1)  BY <2>2, <2>3, <2>4 DEF Cleaned
    <2> QED  BY <2>5
  <1> QED
    <2> HIDE DEF P
    <2>1. n \in P  BY <1>1, <1>2, NumberInduction
    <2> QED  BY <2>1 DEF P

Times(rows) == Ascending(DOMAIN rows, <)

LEMMA CleanBarsAre ==
  ASSUME NEW values, Len(values) \in Nat, NEW grid
  PROVE  \E c : /\ Cleaned(c, values, grid, Len(values))
                /\ CleanBars(values, grid) =
                     [bars |-> [i \in DOMAIN Times(c[Len(values)].rows) |->
                                  c[Len(values)].rows[Times(c[Len(values)].rows)[i]]],
                      errors |-> c[Len(values)].errors]
  <1> DEFINE n == Len(values)
             Is(f) == f = [k \in 0..n |-> IF k = 0 THEN [rows |-> <<>>, errors |-> {}]
                                          ELSE Taken(f[k - 1], values[k], grid)]
             c == CHOOSE f : Is(f)
  <1>1. PICK d : Cleaned(d, values, grid, n)  BY CleanedExists
  <1>2. Is(d)
    <2>1. \A k \in 0..n : d[k] = IF k = 0 THEN [rows |-> <<>>, errors |-> {}]
                                 ELSE Taken(d[k - 1], values[k], grid)
      BY <1>1 DEF Cleaned
    <2>2. d = [k \in 0..n |-> d[k]]  BY <1>1 DEF Cleaned
    <2> QED  BY <2>1, <2>2
  <1>3. Is(c)
    <2> HIDE DEF Is
    <2> QED  BY <1>2
  <1>4. CleanBars(values, grid) =
          [bars |-> [i \in DOMAIN Times(c[n].rows) |-> c[n].rows[Times(c[n].rows)[i]]],
           errors |-> c[n].errors]
    BY DEF CleanBars, Times
  <1> HIDE DEF c
  <1>5. Cleaned(c, values, grid, n)
    <2>1. /\ DOMAIN c = 0..n
          /\ \A k \in 0..n : c[k] = IF k = 0 THEN [rows |-> <<>>, errors |-> {}]
                                    ELSE Taken(c[k - 1], values[k], grid)
      BY <1>3
    <2> QED  BY <2>1 DEF Cleaned
  <1> QED  BY <1>4, <1>5

\* The first sound bar of a time.
First(values, i, t) ==
  /\ i \in 1..Len(values) /\ values[i].time = t /\ values[i].sound
  /\ \A j \in 1..(i - 1) : ~(values[j].time = t /\ values[j].sound)

\* What _clean has after k bars: the first sound bars of the times on the grid;
\* every error is a bar's that is unsound or not the first.
CleanInv(clean, values, grid, k) ==
  /\ clean = [rows |-> clean.rows, errors |-> clean.errors]
  /\ \A t : t \in DOMAIN clean.rows
              <=> t \in DOMAIN grid /\ IsRegular(t) /\ \E i \in 1..k : values[i].time = t /\ values[i].sound
  /\ \A t \in DOMAIN clean.rows : \E i \in 1..k : First(values, i, t) /\ clean.rows[t] = values[i]
  /\ \A e \in clean.errors :
       /\ e.time \in DOMAIN grid
       /\ \E i \in 1..k : /\ values[i].time = e.time
                          /\ values[i].sound => \E j \in 1..k : First(values, j, e.time) /\ values[j] # values[i]

LEMMA TakenIs ==
  ASSUME NEW values \in Seq(FeedBar), NEW grid, NEW clean, NEW k \in 1..Len(values),
         CleanInv(clean, values, grid, k - 1)
  PROVE  CleanInv(Taken(clean, values[k], grid), values, grid, k)
  <1> DEFINE bar == values[k]
             next == Taken(clean, bar, grid)
  <1>0. Len(values) \in Nat /\ bar \in FeedBar  OBVIOUS
  <1>1. \A i : i \in 1..k <=> i \in 1..(k - 1) \/ i = k  BY <1>0
  <1>2. PICK rows, errors : clean = [rows |-> rows, errors |-> errors]  BY DEF CleanInv
  <1>3. /\ \A t : t \in DOMAIN rows
              <=> t \in DOMAIN grid /\ IsRegular(t) /\ \E i \in 1..(k - 1) : values[i].time = t /\ values[i].sound
        /\ \A t \in DOMAIN rows : \E i \in 1..(k - 1) : First(values, i, t) /\ rows[t] = values[i]
        /\ \A e \in errors :
             /\ e.time \in DOMAIN grid
             /\ \E i \in 1..(k - 1) :
                  /\ values[i].time = e.time
                  /\ values[i].sound => \E j \in 1..(k - 1) : First(values, j, e.time) /\ values[j] # values[i]
    BY <1>2 DEF CleanInv
  <1>4. ASSUME NEW more, \A e \in more : e \in errors \/ 
                 /\ e.time = bar.time /\ bar.time \in DOMAIN grid
                 /\ bar.sound => \E j \in 1..k : First(values, j, bar.time) /\ values[j] # bar
        PROVE  \A e \in more :
                 /\ e.time \in DOMAIN grid
                 /\ \E i \in 1..k :
                      /\ values[i].time = e.time
                      /\ values[i].sound => \E j \in 1..k : First(values, j, e.time) /\ values[j] # values[i]
    <2> SUFFICES ASSUME NEW e \in more
                 PROVE  /\ e.time \in DOMAIN grid
                        /\ \E i \in 1..k :
                             /\ values[i].time = e.time
                             /\ values[i].sound => \E j \in 1..k : First(values, j, e.time) /\ values[j] # values[i]
      OBVIOUS
    <2>1. CASE e \in errors  BY <1>1, <1>3, <2>1
    <2>2. CASE e \notin errors  BY <1>1, <1>4, <2>2
    <2> QED  BY <2>1, <2>2
  <1>5. ASSUME NEW more, next = [rows |-> rows, errors |-> more],
               bar.sound => bar.time \in DOMAIN rows \/ bar.time \notin DOMAIN grid \/ ~IsRegular(bar.time),
               \A e \in more : e \in errors \/ 
                 /\ e.time = bar.time /\ bar.time \in DOMAIN grid
                 /\ bar.sound => \E j \in 1..k : First(values, j, bar.time) /\ values[j] # bar
        PROVE  CleanInv(next, values, grid, k)
    <2>1. \A t : t \in DOMAIN rows
              <=> t \in DOMAIN grid /\ IsRegular(t) /\ \E i \in 1..k : values[i].time = t /\ values[i].sound
      BY <1>1, <1>3, <1>5
    <2>2. \A t \in DOMAIN rows : \E i \in 1..k : First(values, i, t) /\ rows[t] = values[i]
      BY <1>1, <1>3
    <2>3. next.rows = rows /\ next.errors = more  BY <1>5
    <2> HIDE DEF next
    <2> QED  BY <1>4, <1>5, <2>1, <2>2, <2>3 DEF CleanInv
  <1>6. CASE bar.time \notin DOMAIN grid \/ ~IsRegular(bar.time)  BY <1>2, <1>5, <1>6 DEF Taken
  <1> SUFFICES ASSUME bar.time \in DOMAIN grid, IsRegular(bar.time)  PROVE CleanInv(next, values, grid, k)
    BY <1>6
  <1>7. CASE ~bar.sound
    <2> DEFINE more == errors \cup {[time |-> bar.time, code |-> "invalid_ohlcv"]}
    <2>1. next = [rows |-> rows, errors |-> more]  BY <1>2, <1>7 DEF Taken
    <2>2. \A e \in more : e \in errors \/ e.time = bar.time  OBVIOUS
    <2> HIDE DEF next, more
    <2> QED  BY <1>5, <1>7, <2>1, <2>2
  <1>8. CASE bar.sound /\ bar.time \in DOMAIN rows /\ rows[bar.time] # bar
    <2> DEFINE more == errors \cup {[time |-> bar.time, code |-> "conflicting_duplicate"]}
    <2>1. next = [rows |-> rows, errors |-> more]  BY <1>2, <1>8 DEF Taken
    <2>2. \A e \in more : e \in errors \/ e.time = bar.time  OBVIOUS
    <2>3. \E j \in 1..k : First(values, j, bar.time) /\ values[j] # bar  BY <1>1, <1>3, <1>8
    <2> HIDE DEF next, more
    <2> QED  BY <1>5, <1>8, <2>1, <2>2, <2>3
  <1>9. CASE bar.sound /\ (bar.time \in DOMAIN rows => rows[bar.time] = bar)
    <2> DEFINE with == [t \in DOMAIN rows \cup {bar.time} |-> IF t = bar.time THEN bar ELSE rows[t]]
    <2>1. next = [rows |-> with, errors |-> errors]  BY <1>2, <1>9 DEF Taken
    <2>2. \A t : t \in DOMAIN with
              <=> t \in DOMAIN grid /\ IsRegular(t) /\ \E i \in 1..k : values[i].time = t /\ values[i].sound
      BY <1>1, <1>3, <1>9
    <2>3. ASSUME NEW t \in DOMAIN with
          PROVE  \E i \in 1..k : First(values, i, t) /\ with[t] = values[i]
      <3>1. CASE t \in DOMAIN rows  BY <1>1, <1>3, <1>9, <3>1
      <3>2. CASE t \notin DOMAIN rows
        <4>1. t = bar.time /\ with[t] = bar  BY <3>2
        <4>2. \A j \in 1..(k - 1) : ~(values[j].time = t /\ values[j].sound)  BY <1>3, <3>2, <4>1
        <4>3. First(values, k, t)  BY <1>0, <1>9, <4>1, <4>2 DEF First
        <4> QED  BY <1>1, <4>1, <4>3
      <3> QED  BY <3>1, <3>2
    <2>4. \A e \in errors :
             /\ e.time \in DOMAIN grid
             /\ \E i \in 1..k :
                  /\ values[i].time = e.time
                  /\ values[i].sound => \E j \in 1..k : First(values, j, e.time) /\ values[j] # values[i]
      BY <1>4
    <2>5. next.rows = with /\ next.errors = errors  BY <2>1
    <2> HIDE DEF next, with
    <2> QED  BY <2>1, <2>2, <2>3, <2>4, <2>5 DEF CleanInv
  <1> QED  BY <1>7, <1>8, <1>9

\* The bars of a symbol in a training: those that count, by time.
IsItem(item, s) ==
  /\ \E n \in Nat : item.bars \in [1..n -> FeedBar]
  /\ \A i \in DOMAIN item.bars : Counts(s, item.bars[i].time) /\ item.bars[i] = BarOf(s, item.bars[i].time)
  /\ \A t \in Int : Counts(s, t) => \E i \in DOMAIN item.bars : item.bars[i].time = t
  /\ \A i, j \in DOMAIN item.bars : i < j => item.bars[i].time < item.bars[j].time
  /\ DOMAIN item.ready = DOMAIN item.bars
  /\ \A i \in DOMAIN item.bars : item.ready[i] <=> <<s, item.bars[i].time>> \notin given.unready
  /\ \A e \in item.errors :
       /\ InSession(e.time)
       /\ \E i \in DOMAIN given.values[s] :
            /\ given.values[s][i].time = e.time
            /\ ~given.values[s][i].sound \/ given.values[s][i] # BarOf(s, e.time)

LEMMA BarOfIs ==
  ASSUME NEW s, given.values[s] \in Seq(FeedBar), NEW t, NEW i, First(given.values[s], i, t)
  PROVE  BarOf(s, t) = given.values[s][i]
  <1> DEFINE sound == {j \in DOMAIN given.values[s] : given.values[s][j].time = t /\ given.values[s][j].sound}
  <1>1. /\ i \in sound /\ sound \subseteq Nat
        /\ \A j \in sound : j \notin 1..(i - 1)
    BY DEF First
  <1>2. Min(sound) = i
    <2>1. \A j \in sound : j >= 1  OBVIOUS
    <2>2. \A j \in sound : i <= j  BY <1>1, <2>1
    <2> HIDE DEF sound
    <2>3. Min(sound) \in sound /\ \A j \in sound : Min(sound) <= j  BY <1>1, <2>2 DEF Min
    <2>4. Min(sound) \in Nat /\ i \in Nat /\ i <= Min(sound) /\ Min(sound) <= i  BY <1>1, <2>2, <2>3
    <2> QED  BY <2>4
  <1> QED  BY <1>2 DEF BarOf

LEMMA CleanIsItem ==
  ASSUME given \in TrainingInputs, NEW s \in Stocks
  PROVE  /\ s \in DOMAIN Prepared(given.values, Listing, given.unready, Grid)
         /\ IsItem(Prepared(given.values, Listing, given.unready, Grid)[s], s)
  <1> DEFINE values == given.values[s]
             clean == CleanBars(values, Grid)
             item == Prepared(given.values, Listing, given.unready, Grid)[s]
  <1>1. values \in Seq(FeedBar) /\ \A i \in DOMAIN values : (values[i].time % DayLength) % BarStep = 0
    BY TrainingAssumption
  <1>2. /\ Len(values) \in Nat /\ DOMAIN values = 1..Len(values)
        /\ \A i \in 1..Len(values) : values[i] \in FeedBar /\ values[i].time \in Int
    <2>1. /\ Len(values) \in Nat /\ DOMAIN values = 1..Len(values)
          /\ \A i \in 1..Len(values) : values[i] \in FeedBar
      BY <1>1
    <2> QED  BY <2>1 DEF FeedBar
  <1>3. PICK c : /\ Cleaned(c, values, Grid, Len(values))
                 /\ clean = [bars |-> [i \in DOMAIN Times(c[Len(values)].rows) |->
                                         c[Len(values)].rows[Times(c[Len(values)].rows)[i]]],
                             errors |-> c[Len(values)].errors]
    BY <1>2, CleanBarsAre
  <1>4. CleanInv(c[Len(values)], values, Grid, Len(values))
    <2> DEFINE P == {k \in Nat : k <= Len(values) => CleanInv(c[k], values, Grid, k)}
    <2>1. 0 \in P  BY SMTT(30), <1>3 DEF Cleaned, CleanInv
    <2>2. ASSUME NEW k \in Nat, k \in P  PROVE k + 1 \in P
      <3> SUFFICES ASSUME k + 1 <= Len(values)  PROVE CleanInv(c[k + 1], values, Grid, k + 1)
        OBVIOUS
      <3>1. k + 1 \in 1..Len(values) /\ (k + 1) - 1 = k  BY <1>2
      <3>2. c[k + 1] = Taken(c[k], values[k + 1], Grid)  BY <1>3, <3>1 DEF Cleaned
      <3>3. CleanInv(c[k], values, Grid, (k + 1) - 1)  BY <1>2, <2>2, <3>1
      <3> HIDE DEF values
      <3> QED  BY <1>1, <3>1, <3>2, <3>3, TakenIs
    <2> HIDE DEF P
    <2>3. Len(values) \in P  BY <1>2, <2>1, <2>2, NumberInduction
    <2> QED  BY <1>2, <2>3 DEF P
  <1>5. PICK rows, errors : c[Len(values)] = [rows |-> rows, errors |-> errors]
    BY <1>4 DEF CleanInv
  <1>6. /\ \A t : t \in DOMAIN rows
              <=> t \in DOMAIN Grid /\ IsRegular(t) /\ \E i \in 1..Len(values) : values[i].time = t /\ values[i].sound
        /\ \A t \in DOMAIN rows : \E i \in 1..Len(values) : First(values, i, t) /\ rows[t] = values[i]
        /\ \A e \in errors :
             /\ e.time \in DOMAIN Grid
             /\ \E i \in 1..Len(values) :
                  /\ values[i].time = e.time
                  /\ values[i].sound => \E j \in 1..Len(values) : First(values, j, e.time) /\ values[j] # values[i]
    BY <1>4, <1>5 DEF CleanInv
  <1>7. \A t \in Int : t \in DOMAIN rows <=> Counts(s, t)  BY <1>1, <1>2, <1>6, GridIs DEF Counts
  <1>8. DOMAIN rows \subseteq DOMAIN Grid /\ DOMAIN rows \subseteq Int /\ IsFiniteSet(DOMAIN rows)
    BY <1>6, GridIs, FS_Subset
  <1> DEFINE n == Cardinality(DOMAIN rows)
             times == Times(rows)
  <1>9. /\ n \in Nat /\ times \in [1..n -> DOMAIN rows] /\ ToSet(times) = DOMAIN rows
        /\ \A i, j \in 1..n : i < j => times[i] < times[j]
    <2> DEFINE S == DOMAIN rows
               R == {p \in S \X S : p[1] < p[2]}
    <2>1. Linear(R, S) /\ \A t \in S : {r \in S : r < t} = Ahead(R, S, t)  BY <1>8 DEF Linear, Ahead
    <2>2. \A i, j \in S : <<i, j>> \in R => i < j  OBVIOUS
    <2>3. times = [i \in 1..Cardinality(S) |-> CHOOSE t \in S : Cardinality({r \in S : r < t}) = i - 1]
      BY DEF Times, Ascending
    <2> HIDE DEF R, times
    <2>4. ASSUME NEW i \in 1..Cardinality(S)
          PROVE  times[i] \in S /\ Cardinality(Ahead(R, S, times[i])) = i - 1
      <3>1. PICK t \in S : Cardinality(Ahead(R, S, t)) = i - 1  BY <1>8, <2>1, Places
      <3>2. \E u \in S : Cardinality({r \in S : r < u}) = i - 1  BY <2>1, <3>1
      <3>3. times[i] \in S /\ Cardinality({r \in S : r < times[i]}) = i - 1  BY <2>3, <3>2
      <3> QED  BY <2>1, <3>3
    <2>5. times \in [1..Cardinality(S) -> S]  BY <2>3, <2>4
    <2>6. ToSet(times) = S /\ \A i, j \in 1..Cardinality(S) : i < j => <<times[i], times[j]>> \in R
      BY <1>8, <2>1, <2>4, <2>5, Placed
    <2> QED  BY <1>8, <2>2, <2>5, <2>6, FS_CardinalityType
  <1>10. /\ s \in DOMAIN Prepared(given.values, Listing, given.unready, Grid)
         /\ item = [bars |-> clean.bars, errors |-> clean.errors,
                    ready |-> [i \in DOMAIN clean.bars |-> <<s, clean.bars[i].time>> \notin given.unready]]
    BY DEF Prepared, Stocks
  <1>11. /\ item.bars = [i \in 1..n |-> rows[times[i]]] /\ item.errors = errors
         /\ item.ready = [i \in 1..n |-> <<s, item.bars[i].time>> \notin given.unready]
    BY SMTT(30), <1>3, <1>5, <1>9, <1>10
  <1> HIDE DEF n, times, item, clean
  <1>12. ASSUME NEW t \in DOMAIN rows
         PROVE  rows[t] \in FeedBar /\ rows[t].time = t /\ rows[t] = BarOf(s, t)
    <2>1. PICK i \in 1..Len(values) : First(values, i, t) /\ rows[t] = values[i]  BY <1>6
    <2>2. BarOf(s, t) = values[i]  BY <1>1, <2>1, BarOfIs
    <2> QED  BY <1>2, <2>1, <2>2 DEF First
  <1>13. ASSUME NEW i \in 1..n
         PROVE  /\ item.bars[i] \in FeedBar /\ item.bars[i].time = times[i] /\ times[i] \in DOMAIN rows
                /\ item.bars[i] = BarOf(s, times[i])
    BY <1>9, <1>11, <1>12
  <1>14. DOMAIN item.bars = 1..n /\ item.bars \in [1..n -> FeedBar]  BY <1>11, <1>13
  <1>15. \A i \in 1..n : Counts(s, item.bars[i].time) /\ item.bars[i] = BarOf(s, item.bars[i].time)
    BY <1>7, <1>8, <1>13
  <1>16. \A t \in Int : Counts(s, t) => \E i \in 1..n : item.bars[i].time = t
    <2> SUFFICES ASSUME NEW t \in Int, Counts(s, t)  PROVE \E i \in 1..n : item.bars[i].time = t
      OBVIOUS
    <2>1. t \in ToSet(times) /\ DOMAIN times = 1..n  BY <1>7, <1>9
    <2>2. PICK i \in 1..n : times[i] = t  BY <2>1 DEF ToSet
    <2> QED  BY <1>13, <2>2
  <1>17. ASSUME NEW e \in errors
         PROVE  /\ InSession(e.time)
                /\ \E i \in DOMAIN values : /\ values[i].time = e.time
                                            /\ ~values[i].sound \/ values[i] # BarOf(s, e.time)
    <2>1. PICK i \in 1..Len(values) :
            /\ values[i].time = e.time
            /\ values[i].sound => \E j \in 1..Len(values) : First(values, j, e.time) /\ values[j] # values[i]
      BY <1>6
    <2>2. InSession(e.time)  BY <1>6, GridIs
    <2>3. values[i].sound => values[i] # BarOf(s, e.time)  BY <1>1, <2>1, BarOfIs
    <2> QED  BY <1>2, <2>1, <2>2, <2>3
  <1>18. \A i, j \in 1..n : i < j => item.bars[i].time < item.bars[j].time  BY <1>9, <1>13
  <1>19. DOMAIN item.ready = 1..n /\ \A i \in 1..n : item.ready[i] <=> <<s, item.bars[i].time>> \notin given.unready
    BY <1>11
  <1>20. IsItem(item, s)  BY <1>9, <1>11, <1>14, <1>15, <1>16, <1>17, <1>18, <1>19 DEF IsItem
  <1> QED  BY <1>10, <1>20 DEF item

\* A bar that counts is on the grid.
LEMMA CountsOnGrid ==
  ASSUME given \in TrainingInputs, NEW s \in Stocks, NEW t \in Int, Counts(s, t)
  PROVE  t \in DOMAIN Grid
  <1>1. PICK i \in DOMAIN given.values[s] : given.values[s][i].time = t  BY DEF Counts
  <1>2. (t % DayLength) % BarStep = 0  BY <1>1, TrainingAssumption
  <1> QED  BY <1>2, GridIs DEF Counts

\* No aligned time lies between two neighbours of a day.
LEMMA NoneBetween ==
  ASSUME NEW d \in Nat \ {0}, NEW b \in Nat \ {0}, NEW c \in Int, NEW u \in Int,
         c \div d = (c + b) \div d, (c % d) % b = 0, (u % d) % b = 0, c < u
  PROVE  c + b <= u
  <1> SUFFICES ASSUME u < c + b  PROVE FALSE  OBVIOUS
  <1>1. (u % d) - (c % d) = u - c
    <2>1. PICK e \in Int : e = c + b /\ c <= u /\ u <= e  OBVIOUS
    <2>2. c \div d = e \div d  BY <2>1
    <2> QED  BY <2>1, <2>2, SameDay
  <1>2. PICK x, y \in Int : x = c % d /\ y = u % d
    <2>1. c % d \in Int /\ u % d \in Int  OBVIOUS
    <2> QED  BY <2>1
  <1>3. PICK p, q \in Int : p = x \div b /\ q = y \div b  BY <1>2
  <1>4. x = b * p /\ y = b * q
    <2>1. x % b = 0 /\ y % b = 0  BY <1>2
    <2>2. x = (b * (x \div b)) + (x % b) /\ y = (b * (y \div b)) + (y % b)  BY <1>2
    <2> QED  BY <1>2, <1>3, <2>1, <2>2
  <1>5. y - x = u - c  BY <1>1, <1>2
  <1>6. b * (q - p) = u - c  BY <1>3, <1>4, <1>5
  <1>7. CASE q - p <= 0  BY <1>3, <1>6, <1>7
  <1>8. CASE q - p >= 1  BY <1>3, <1>6, <1>8
  <1> QED  BY <1>3, <1>7, <1>8

LEMMA Steps ==
  ASSUME NEW b \in Nat, NEW h \in Nat, NEW k \in 0..h
  PROVE  /\ b * k \in Nat /\ b * k <= b * h /\ b * (k + 1) = b * k + b
         /\ b * h = h * b /\ b * 0 = 0 /\ b * 1 = b
  <1>1. PICK m \in Nat : h = k + m  OBVIOUS
  <1>2. b * h = b * k + b * m /\ b * m >= 0 /\ b * k >= 0 /\ b * k \in Int /\ b * m \in Int  BY <1>1
  <1> QED  BY <1>2

\* A bar becomes a row exactly when its path is complete: counting bars and
\* reading the clock agree.
LEMMA PathIs ==
  ASSUME given \in TrainingInputs, NEW s \in Stocks, NEW item, IsItem(item, s),
         NEW window \in [start : Int, end : Int], NEW i \in DOMAIN item.bars,
         NEW h, h = given.target.horizon
  PROVE  LET t == item.bars[i].time IN
         /\ i \in Kept(item, given.target, window, Grid) <=> t \in Owed(window, s)
         /\ i \in Kept(item, given.target, window, Grid) =>
              \A k \in 0..h : i + k \in DOMAIN item.bars /\ item.bars[i + k].time = t + BarStep * k
  <1> DEFINE t == item.bars[i].time
             time(j) == item.bars[j].time
             kept == i \in Kept(item, given.target, window, Grid)
             owed == t \in Owed(window, s)
  <1>1. PICK n \in Nat : item.bars \in [1..n -> FeedBar]  BY DEF IsItem
  <1>2. DOMAIN item.bars = 1..n /\ i \in 1..n /\ \A j \in 1..n : time(j) \in Int
    BY <1>1 DEF FeedBar
  <1>3. h \in Nat /\ h >= 1 /\ BarStep \in Nat \ {0} /\ DayLength \in Nat \ {0}
    BY TrainingAssumption, TrainingDataAssumption
  <1>4. /\ \A j \in 1..n : Counts(s, time(j))
        /\ \A u \in Int : Counts(s, u) => \E j \in 1..n : time(j) = u
        /\ \A j, k \in 1..n : j < k => time(j) < time(k)
        /\ item.ready[i] <=> <<s, t>> \notin given.unready
    BY <1>2 DEF IsItem
  <1>5. t \in Int /\ window.start \in Int /\ window.end \in Int  BY <1>2
  <1>6. \A k \in 0..h : /\ BarStep * k \in Nat /\ BarStep * k <= BarStep * h /\ BarStep * (k + 1) = BarStep * k + BarStep
                        /\ BarStep * h = h * BarStep /\ BarStep * 0 = 0
    BY <1>3, Steps
  <1>7. BarStep * h \in Nat /\ h * BarStep = BarStep * h /\ BarStep * 0 = 0 /\ h \in 0..h /\ 0 \in 0..h
    BY <1>3, <1>6
  <1>10. PICK target : target = t + h * BarStep  OBVIOUS
  <1>11. ~Unusable(item, i, window, h, Grid) <=>
           /\ ~(target >= window.end)
           /\ DayOf(target) = DayOf(t) /\ IsRegular(target) /\ target \in DOMAIN Grid
           /\ ~(i + h > n)
           /\ \A j \in i..(i + h - 1) : time(j + 1) - time(j) = BarStep
           /\ item.ready[i]
    <2> DEFINE unusable == Unusable(item, i, window, h, Grid)
    <2>0. Len(item.bars) = n  BY <1>1
    <2>1. \/ target >= window.end
          \/ DayOf(target) # DayOf(t) \/ ~IsRegular(target) \/ target \notin DOMAIN Grid
          \/ i + h > n \/ ~item.ready[i]
          => unusable
      BY <1>10, <2>0 DEF Unusable
    <2>6. (\E j \in i..(i + h - 1) : time(j + 1) - time(j) # BarStep) => unusable
      BY SMTT(30), <1>2, <1>3, <1>10 DEF Unusable
    <2>8. unusable =>
            \/ target >= window.end
            \/ DayOf(target) # DayOf(t) \/ ~IsRegular(target) \/ target \notin DOMAIN Grid
            \/ i + h > n
            \/ \E j \in i..(i + h - 1) : time(j + 1) - time(j) # BarStep
            \/ ~item.ready[i]
      BY <1>2, <1>3, <1>10, <2>0 DEF Unusable
    <2> HIDE DEF unusable, t, time
    <2>9. ~unusable <=>
           /\ ~(target >= window.end)
           /\ DayOf(target) = DayOf(t) /\ IsRegular(target) /\ target \in DOMAIN Grid
           /\ ~(i + h > n)
           /\ \A j \in i..(i + h - 1) : time(j + 1) - time(j) = BarStep
           /\ item.ready[i]
      BY <2>1, <2>6, <2>8
    <2> QED  BY <2>9 DEF unusable, t, time
  <1> DEFINE path(k) == i + k \in 1..n /\ time(i + k) = t + BarStep * k
             P == {k \in Nat : k <= h => path(k)}
  <1>8. ASSUME kept  PROVE owed /\ \A k \in 0..h : path(k)
    <2>1. /\ window.start <= t /\ t < window.end /\ ~(t + h * BarStep >= window.end)
          /\ DayOf(t + h * BarStep) = DayOf(t) /\ ~(i + h > n)
          /\ \A j \in i..(i + h - 1) : time(j + 1) - time(j) = BarStep
          /\ <<s, t>> \notin given.unready
      <3>2. Within(t, window) /\ ~Unusable(item, i, window, h, Grid)  BY <1>8 DEF Kept
      <3>3. /\ ~(target >= window.end) /\ DayOf(target) = DayOf(t)
            /\ ~(i + h > n) /\ item.ready[i]
            /\ \A j \in i..(i + h - 1) : time(j + 1) - time(j) = BarStep
        BY <1>11, <3>2
      <3>4. window.start <= t /\ t < window.end  BY <3>2 DEF Within
      <3>5. <<s, t>> \notin given.unready  BY <1>4, <3>3
      <3> HIDE DEF t, time
      <3> QED  BY <1>10, <3>3, <3>4, <3>5
    <2>2. 0 \in P  BY <1>2, <1>5, <1>7
    <2>3. ASSUME NEW k \in Nat, k \in P  PROVE k + 1 \in P
      <3> SUFFICES ASSUME k + 1 <= h  PROVE path(k + 1)  OBVIOUS
      <3>1. path(k) /\ k \in 0..h  BY <1>3, <2>3
      <3>2. /\ i + k \in i..(i + h - 1) /\ (i + k) + 1 = i + (k + 1)
            /\ i + (k + 1) \in 1..n
        <4>1. i \in Nat /\ i >= 1 /\ ~(i + h > n)  BY <1>2, <2>1
        <4> HIDE DEF P, path, time, t
        <4> QED  BY <1>3, <4>1
      <3>3. time(i + (k + 1)) - time(i + k) = BarStep  BY <2>1, <3>2
      <3>4. BarStep * (k + 1) = BarStep * k + BarStep /\ BarStep * k \in Nat  BY <1>6, <3>1
      <3>5. time(i + (k + 1)) \in Int /\ time(i + k) \in Int  BY <1>2, <3>1, <3>2
      <3>6. time(i + k) = t + BarStep * k  BY <3>1
      <3>7. time(i + (k + 1)) = t + BarStep * (k + 1)
        <4> HIDE DEF time, t
        <4> QED  BY <1>3, <1>5, <3>3, <3>4, <3>5, <3>6
      <3> QED  BY <3>2, <3>7
    <2>4. \A k \in 0..h : path(k)
      <3> HIDE DEF P
      <3>1. \A k \in Nat : k \in P  BY <2>2, <2>3, NumberInduction
      <3> QED  BY <1>3, <3>1 DEF P
    <2>5. ASSUME NEW k \in 0..h  PROVE Counts(s, t + BarStep * k) /\ DayOf(t + BarStep * k) = DayOf(t)
      <3>1. Counts(s, t + BarStep * k)  BY <1>4, <2>4
      <3>2. /\ t + BarStep * k \in Int /\ t + BarStep * h \in Int
            /\ t <= t + BarStep * k /\ t + BarStep * k <= t + BarStep * h
        BY <1>5, <1>6, <1>7
      <3>3. t \div DayLength = (t + BarStep * h) \div DayLength  BY <1>7, <2>1 DEF DayOf
      <3>4. (t + BarStep * k) \div DayLength = t \div DayLength  BY <1>3, <1>5, <3>2, <3>3, SameDay
      <3> QED  BY <3>1, <3>4 DEF DayOf
    <2>6. t \in window.start..(window.end - 1 - BarStep * h)  BY <1>5, <1>7, <2>1
    <2> QED  BY <2>1, <2>4, <2>5, <2>6 DEF Owed
  <1>9. ASSUME owed  PROVE kept
    <2>1. /\ t \in window.start..(window.end - 1 - BarStep * h) /\ <<s, t>> \notin given.unready
          /\ \A k \in 0..h : Counts(s, t + BarStep * k) /\ DayOf(t + BarStep * k) = DayOf(t)
      BY <1>9 DEF Owed
    <2>2. 0 \in P  BY <1>2, <1>5, <1>7
    <2>3. ASSUME NEW k \in Nat, k \in P  PROVE k + 1 \in P
      <3> SUFFICES ASSUME k + 1 <= h  PROVE path(k + 1)  OBVIOUS
      <3>1. path(k) /\ k \in 0..h /\ k + 1 \in 0..h  BY <1>3, <2>3
      <3>2. BarStep * (k + 1) = BarStep * k + BarStep /\ BarStep * k \in Nat  BY <1>6, <3>1
      <3>3. PICK c \in Int : c = t + BarStep * k  BY <1>5, <3>2
      <3>4. c + BarStep = t + BarStep * (k + 1)  BY <1>3, <1>5, <3>2, <3>3
      <3>5. PICK m \in Int : m = i + k /\ m \in 1..n /\ time(m) = c  BY <3>1, <3>3
      <3>6. PICK j \in 1..n : time(j) = c + BarStep  BY <1>3, <1>4, <2>1, <3>1, <3>4
      <3>7. j > m
        <4> SUFFICES ASSUME j <= m  PROVE FALSE  BY <3>5
        <4>1. j = m \/ time(j) < time(m)  BY <1>4, <3>5
        <4> QED  BY <1>3, <3>3, <3>5, <3>6, <4>1
      <3>8. j = m + 1
        <4> SUFFICES ASSUME j > m + 1  PROVE FALSE  BY <3>5, <3>7
        <4>1. m + 1 \in 1..n  BY <3>5
        <4>2. PICK u \in Int : u = time(m + 1)  BY <1>2, <4>1
        <4>3. c < u /\ u < c + BarStep  BY <1>4, <3>5, <3>6, <4>1, <4>2
        <4>4. (u % DayLength) % BarStep = 0  BY <1>4, <4>1, <4>2, CountsOnGrid, GridIs
        <4>5. (c % DayLength) % BarStep = 0  BY <2>1, <3>1, <3>3, CountsOnGrid, GridIs
        <4>6. c \div DayLength = (c + BarStep) \div DayLength  BY <2>1, <3>1, <3>3, <3>4 DEF DayOf
        <4>7. c + BarStep <= u  BY <1>3, <4>3, <4>4, <4>5, <4>6, NoneBetween
        <4> QED  BY <1>3, <4>3, <4>7
      <3>9. i + (k + 1) = m + 1  BY <1>2, <3>5
      <3> QED  BY <3>4, <3>6, <3>8, <3>9
    <2>4. \A k \in 0..h : path(k)
      <3> HIDE DEF P
      <3>1. \A k \in Nat : k \in P  BY <2>2, <2>3, NumberInduction
      <3> QED  BY <1>3, <3>1 DEF P
    <2>5. /\ t + h * BarStep < window.end /\ window.start <= t /\ t < window.end
      BY <1>5, <1>7, <2>1
    <2>6. t + h * BarStep \in DOMAIN Grid /\ DayOf(t + h * BarStep) = DayOf(t)
      <3>1. Counts(s, t + BarStep * h) /\ t + BarStep * h \in Int /\ DayOf(t + BarStep * h) = DayOf(t)
        BY <1>5, <1>7, <2>1
      <3>2. t + BarStep * h \in DOMAIN Grid  BY <3>1, CountsOnGrid
      <3> QED  BY <1>7, <3>1, <3>2
    <2>7. IsRegular(t + h * BarStep)  BY <2>6, GridIs
    <2>8. i + h <= n  BY <1>7, <2>4
    <2>9. ASSUME NEW j \in i..(i + h - 1)  PROVE ~(time(j + 1) - time(j) # BarStep)
      <3>0. i \in Int /\ j \in Int /\ h \in Nat  BY <1>2, <1>3
      <3>1. PICK k \in 0..h : k = j - i /\ k + 1 \in 0..h
        <4>1. j - i \in 0..h /\ (j - i) + 1 \in 0..h  BY <3>0
        <4> QED  BY <4>1
      <3>2. i + k = j /\ i + (k + 1) = j + 1  BY <3>0, <3>1
      <3>3. time(j) = t + BarStep * k /\ time(j + 1) = t + BarStep * (k + 1)  BY <2>4, <3>1, <3>2
      <3>4. BarStep * (k + 1) = BarStep * k + BarStep /\ BarStep * k \in Nat  BY <1>6
      <3> QED  BY <1>3, <1>5, <3>3, <3>4
    <2>10. ~Unusable(item, i, window, h, Grid)
      <3>2. item.ready[i]  BY <1>4, <2>1
      <3>3. ~(i + h > n)  BY <1>2, <1>3, <2>8
      <3>4. ~(t + h * BarStep >= window.end)
        <4> HIDE DEF t
        <4> QED  BY <1>5, <1>7, <2>5
      <3>5. ~(t + h * BarStep \notin DOMAIN Grid) /\ ~(DayOf(t + h * BarStep) # DayOf(t))  BY <2>6
      <3>6. \A j \in i..(i + h - 1) : time(j + 1) - time(j) = BarStep  BY <1>10, <2>9
      <3>7. ~(target >= window.end) /\ ~(i + h > n) /\ DayOf(target) = DayOf(t)
            /\ target \in DOMAIN Grid /\ IsRegular(target)
        BY <1>10, <2>7, <3>3, <3>4, <3>5
      <3> QED  BY <1>11, <3>2, <3>6, <3>7
    <2> QED  BY <1>2, <2>5, <2>10 DEF Kept, Within
  <1> HIDE DEF time
  <1> QED  BY <1>2, <1>8, <1>9 DEF time

\* The rows of a symbol are those it is owed.
LEMMA RowsAre ==
  ASSUME given \in TrainingInputs, NEW s \in Stocks, NEW item, IsItem(item, s),
         NEW window \in [start : Int, end : Int]
  PROVE  LET kept == Kept(item, given.target, window, Grid) IN
         /\ SymbolRows(s, item, given.target, window, Grid) = {OwedRow(s, t) : t \in Owed(window, s)}
         /\ IsFiniteSet(kept) /\ IsFiniteSet(Owed(window, s))
         /\ Cardinality(Owed(window, s)) = Cardinality(kept)
  <1> DEFINE kept == Kept(item, given.target, window, Grid)
             owed == Owed(window, s)
             h == given.target.horizon
             time(j) == item.bars[j].time
             row(i) == [symbol |-> s, time |-> time(i),
                        label |-> Label(given.target.task, item.bars[i + h].close - item.bars[i + 1].open)]
  <1>1. PICK n \in Nat : item.bars \in [1..n -> FeedBar]  BY DEF IsItem
  <1>2. /\ DOMAIN item.bars = 1..n /\ \A j \in 1..n : time(j) \in Int
        /\ \A j \in 1..n : item.bars[j] = BarOf(s, time(j))
        /\ \A t \in Int : Counts(s, t) => \E j \in 1..n : time(j) = t
        /\ \A j, k \in 1..n : j < k => time(j) < time(k)
    <2>1. DOMAIN item.bars = 1..n /\ \A j \in 1..n : item.bars[j] \in FeedBar  BY <1>1
    <2>2. \A j \in 1..n : time(j) \in Int  BY <2>1 DEF FeedBar
    <2> QED  BY <2>1, <2>2 DEF IsItem
  <1>3. h \in Nat /\ h >= 1 /\ BarStep \in Nat \ {0}  BY TrainingAssumption, TrainingDataAssumption
  <1>4. kept \subseteq 1..n  BY <1>2 DEF Kept
  <1>5. \A i \in 1..n : /\ i \in kept <=> time(i) \in owed
                        /\ i \in kept => \A k \in 0..h : i + k \in 1..n /\ time(i + k) = time(i) + BarStep * k
    BY SMTT(30), <1>2, PathIs
  <1>6. \A t \in owed : \E i \in kept : time(i) = t
    <2> SUFFICES ASSUME NEW t \in owed  PROVE \E i \in kept : time(i) = t  OBVIOUS
    <2>1. t \in Int  BY DEF Owed
    <2>2. 0 \in 0..h /\ BarStep * 0 = 0 /\ t + 0 = t  BY <1>3, <2>1
    <2>3. Counts(s, t + BarStep * 0)  BY <2>2 DEF Owed
    <2>4. Counts(s, t)  BY <2>2, <2>3
    <2>5. PICK i \in 1..n : time(i) = t  BY <1>2, <2>1, <2>4
    <2> QED  BY <1>5, <2>5
  <1>7. ASSUME NEW i \in kept  PROVE row(i) = OwedRow(s, time(i))
    <2>1. i \in 1..n /\ h \in 0..h /\ 1 \in 0..h  BY <1>3, <1>4
    <2>2. /\ i + h \in 1..n /\ time(i + h) = time(i) + BarStep * h
          /\ i + 1 \in 1..n /\ time(i + 1) = time(i) + BarStep * 1
      BY <1>5, <2>1
    <2>3. BarStep * 1 = BarStep  BY <1>3
    <2>4. item.bars[i + h] = BarOf(s, time(i) + BarStep * h) /\ item.bars[i + 1] = BarOf(s, time(i) + BarStep)
      BY <1>2, <2>2, <2>3
    <2> QED  BY <2>4 DEF OwedRow
  <1>8. SymbolRows(s, item, given.target, window, Grid) = {row(i) : i \in kept}  BY DEF SymbolRows
  <1>9. {row(i) : i \in kept} = {OwedRow(s, t) : t \in owed}
    <2>1. \A i \in kept : time(i) \in owed  BY <1>4, <1>5
    <2> HIDE DEF row, kept, owed, time
    <2> QED  BY <1>6, <1>7, <2>1
  <1>10. IsFiniteSet(kept) /\ IsFiniteSet(owed) /\ Cardinality(owed) = Cardinality(kept)
    <2> DEFINE f == [i \in kept |-> time(i)]
    <2>1. IsFiniteSet(kept)
      <3>1. IsFiniteSet(1..n) /\ kept \in SUBSET (1..n)  BY <1>4, FS_Interval
      <3> HIDE DEF kept
      <3> QED  BY <3>1, FS_Subset
    <2>2. f \in [kept -> owed]  BY <1>4, <1>5
    <2>3. \A i, j \in kept : f[i] = f[j] => i = j
      <3> SUFFICES ASSUME NEW i \in kept, NEW j \in kept, f[i] = f[j], i # j  PROVE FALSE  OBVIOUS
      <3>1. i \in 1..n /\ j \in 1..n /\ time(i) = time(j)  BY <1>4
      <3>2. i < j \/ j < i  BY <3>1
      <3>3. time(i) \in Int  BY <1>2, <3>1
      <3> HIDE DEF time
      <3> QED  BY <1>2, <3>1, <3>2, <3>3
    <2>4. \A t \in owed : \E i \in kept : f[i] = t  BY <1>6
    <2> HIDE DEF f, kept, owed
    <2> QED  BY <2>1, <2>2, <2>3, <2>4, SameSize
  <1> QED  BY <1>8, <1>9, <1>10

\* The rows a calendar lets one expect.
Expected(window, h) ==
  {t \in DOMAIN Grid :
     /\ Within(t, window) /\ t + h * BarStep < window.end
     /\ t + h * BarStep \in DOMAIN Grid /\ Grid[t + h * BarStep] = Grid[t]}

\* What has no remainder is a multiple.
LEMMA Multiples ==
  ASSUME NEW b \in Nat \ {0}, NEW y \in Int
  PROVE  y % b = 0 <=> \E m \in Int : y = b * m
  <1>1. PICK z, r \in Int : z = y \div b /\ r = y % b  OBVIOUS
  <1>2. y = (b * z) + r /\ 0 <= r /\ r < b  BY <1>1
  <1>3. ASSUME r = 0  PROVE \E m \in Int : y = b * m
    <2>1. y = b * z  BY <1>1, <1>2, <1>3
    <2> QED  BY <1>1, <2>1
  <1>4. ASSUME NEW m \in Int, y = b * m  PROVE r = 0
    <2>1. b * (m - z) = r  BY <1>1, <1>2, <1>4
    <2>2. CASE m - z >= 1  BY <1>1, <1>2, <2>1, <2>2
    <2>3. CASE m - z <= -1  BY <1>1, <1>2, <2>1, <2>3
    <2>4. CASE m - z = 0  BY <2>1, <2>4
    <2> QED  BY <1>1, <2>2, <2>3, <2>4
  <1> QED  BY <1>1, <1>3, <1>4

\* A time between two of a day's that are on the grid, at a whole number of
\* intervals, is on the grid: a day has one session.
LEMMA OnPath ==
  ASSUME NEW t \in DOMAIN Grid, NEW h \in Nat, t + BarStep * h \in DOMAIN Grid,
         DayOf(t + BarStep * h) = DayOf(t), NEW k \in 0..h
  PROVE  t + BarStep * k \in DOMAIN Grid /\ DayOf(t + BarStep * k) = DayOf(t)
  <1>1. BarStep \in Nat \ {0} /\ DayLength \in Nat \ {0} /\ t \in Int
    BY TrainingDataAssumption, GridIs
  <1>2. BarStep * k \in Nat /\ BarStep * k <= BarStep * h  BY <1>1, Steps
  <1>3. BarStep * h \in Nat  BY <1>1, Steps
  <1>4. PICK u, e \in Int : u = t + BarStep * k /\ e = t + BarStep * h /\ t <= u /\ u <= e /\ u - t = BarStep * k
    <2>1. t + BarStep * k \in Int /\ t + BarStep * h \in Int  BY <1>1, <1>2, <1>3
    <2>2. t <= t + BarStep * k /\ t + BarStep * k <= t + BarStep * h /\ (t + BarStep * k) - t = BarStep * k
      BY <1>1, <1>2, <1>3
    <2> QED  BY <2>1, <2>2
  <1>5. t \div DayLength = e \div DayLength  BY <1>4 DEF DayOf
  <1>6. u \div DayLength = t \div DayLength /\ (u % DayLength) - (t % DayLength) = u - t
    BY <1>1, <1>4, <1>5, SameDay
  <1>7. InSession(t) /\ (t % DayLength) % BarStep = 0 /\ InSession(e)  BY <1>1, <1>4, GridIs
  <1>8. InSession(u)
    <2>1. PICK p \in TradingSessions : p.open <= t /\ t < p.close  BY <1>7 DEF InSession
    <2>2. PICK q \in TradingSessions : q.open <= e /\ e < q.close  BY <1>7 DEF InSession
    <2>3. /\ p.open \in Int /\ p.close \in Int /\ q.open \in Int /\ q.close \in Int
          /\ p.open \div DayLength = (p.close - 1) \div DayLength
          /\ q.open \div DayLength = (q.close - 1) \div DayLength
      BY TrainingAssumption DEF DayOf
    <2>4. t \div DayLength = p.open \div DayLength  BY <1>1, <2>1, <2>3, SameDay
    <2>5. e \div DayLength = q.open \div DayLength
      <3>1. PICK a, c \in Int : a = q.open /\ c = q.close - 1 /\ a <= e /\ e <= c
        BY <1>4, <2>2, <2>3
      <3>2. a \div DayLength = c \div DayLength  BY <2>3, <3>1
      <3>3. e \div DayLength = a \div DayLength  BY <1>1, <3>1, <3>2, SameDay
      <3> QED  BY <3>1, <3>3
    <2>6. p = q  BY <1>5, <2>4, <2>5, TrainingAssumption DEF DayOf
    <2>7. p.open <= u /\ u < p.close  BY <1>1, <1>4, <2>1, <2>2, <2>3, <2>6
    <2> QED  BY <2>7 DEF InSession
  <1>9. (u % DayLength) % BarStep = 0
    <2>1. PICK x, y \in Int : x = t % DayLength /\ y = u % DayLength  BY <1>1, <1>4
    <2>2. PICK p \in Int : x = BarStep * p  BY <1>1, <1>7, <2>1, Multiples
    <2>3. x = BarStep * p  BY <2>2
    <2>4. y = BarStep * p + BarStep * k  BY <1>2, <1>4, <1>6, <2>1, <2>3
    <2>5. y = BarStep * (p + k)  BY <1>1, <2>2, <2>4
    <2>6. PICK m \in Int : m = p + k  BY <2>2
    <2>7. y % BarStep = 0  BY <1>1, <2>1, <2>5, <2>6, Multiples
    <2> QED  BY <2>1, <2>7
  <1> QED  BY <1>4, <1>6, <1>8, <1>9, GridIs DEF DayOf

\* No more is owed than is expected, and as much where nothing is missing.
LEMMA ExpectedAre ==
  ASSUME given \in TrainingInputs, NEW s \in Stocks, NEW window \in [start : Int, end : Int],
         NEW h, h = given.target.horizon
  PROVE  /\ IsFiniteSet(Expected(window, h)) /\ Owed(window, s) \subseteq Expected(window, h)
         /\ Sound(window, s) => Expected(window, h) \subseteq Owed(window, s)
  <1>1. h \in Nat /\ BarStep \in Nat \ {0} /\ window.start \in Int /\ window.end \in Int
    BY TrainingAssumption, TrainingDataAssumption
  <1>2. h \in 0..h /\ 0 \in 0..h /\ BarStep * h \in Nat /\ h * BarStep = BarStep * h /\ BarStep * 0 = 0
    BY <1>1, Steps
  <1>3. IsFiniteSet(Expected(window, h))  BY GridIs, FS_Subset DEF Expected
  <1>4. ASSUME NEW t \in Owed(window, s)  PROVE t \in Expected(window, h)
    <2>1. /\ t \in Int /\ window.start <= t /\ t <= window.end - 1 - BarStep * h
          /\ \A k \in 0..h : Counts(s, t + BarStep * k) /\ DayOf(t + BarStep * k) = DayOf(t)
      BY <1>1, <1>2 DEF Owed
    <2>2. t + BarStep * 0 = t /\ t + BarStep * h \in Int  BY <1>1, <1>2, <2>1
    <2>3. Counts(s, t) /\ Counts(s, t + BarStep * h) /\ DayOf(t + BarStep * h) = DayOf(t)
      BY <1>2, <2>1, <2>2
    <2>4. t \in DOMAIN Grid /\ t + BarStep * h \in DOMAIN Grid  BY <2>1, <2>2, <2>3, CountsOnGrid
    <2>5. Grid[t + BarStep * h] = Grid[t]  BY <2>3, <2>4, GridIs
    <2>6. Within(t, window) /\ t + BarStep * h < window.end  BY <1>1, <1>2, <2>1 DEF Within
    <2> QED  BY <1>2, <2>4, <2>5, <2>6 DEF Expected
  <1>5. ASSUME Sound(window, s), NEW t \in Expected(window, h)  PROVE t \in Owed(window, s)
    <2>1. /\ t \in DOMAIN Grid /\ t + BarStep * h \in DOMAIN Grid /\ DayOf(t + BarStep * h) = DayOf(t)
          /\ window.start <= t /\ t + BarStep * h < window.end /\ t \in Int
      BY <1>2, GridIs DEF Expected, Within
    <2>2. ASSUME NEW k \in 0..h
          PROVE  /\ Counts(s, t + BarStep * k) /\ <<s, t + BarStep * k>> \notin given.unready
                 /\ DayOf(t + BarStep * k) = DayOf(t)
      <3>1. t + BarStep * k \in DOMAIN Grid /\ DayOf(t + BarStep * k) = DayOf(t)
        BY <1>1, <2>1, OnPath
      <3>2. BarStep * k \in Nat /\ BarStep * k <= BarStep * h  BY <1>1, Steps
      <3>3. Within(t + BarStep * k, window)  BY <1>1, <1>2, <2>1, <3>2 DEF Within
      <3>4. \A u \in DOMAIN Grid : Within(u, window) => Counts(s, u) /\ <<s, u>> \notin given.unready
        BY <1>5 DEF Sound
      <3> QED  BY <3>1, <3>3, <3>4
    <2>3. <<s, t>> \notin given.unready  BY <1>2, <2>1, <2>2
    <2>4. t \in window.start..(window.end - 1 - BarStep * h)  BY <1>1, <1>2, <2>1
    <2> QED  BY <2>2, <2>3, <2>4 DEF Owed
  <1> QED  BY <1>3, <1>4, <1>5

\* What the evidence of a split says, and when nothing speaks against a symbol.
LEMMA EvidenceIs ==
  ASSUME given \in TrainingInputs, NEW s \in Stocks, NEW item, IsItem(item, s),
         NEW window \in [start : Int, end : Int], NEW h, h = given.target.horizon,
         NEW e, e = WindowEvidence(item, window, h, Grid)
  PROVE  /\ e.expected = Cardinality(Expected(window, h))
         /\ Sound(window, s) => e.errors = {}
         /\ Sound(window, s) /\ Expected(window, h) # {} => e.attempted # 0
  <1>1. e.expected = Cardinality(Expected(window, h))  BY DEF WindowEvidence, Expected
  <1>2. ASSUME Sound(window, s)  PROVE e.errors = {}
    <2>1. e.errors = {x.code : x \in {y \in item.errors : y.time < window.end}}
      BY DEF WindowEvidence
    <2>2. ASSUME NEW x \in item.errors, x.time < window.end  PROVE FALSE
      <3>1. /\ InSession(x.time)
            /\ \E i \in DOMAIN given.values[s] :
                 /\ given.values[s][i].time = x.time
                 /\ ~given.values[s][i].sound \/ given.values[s][i] # BarOf(s, x.time)
        BY DEF IsItem
      <3>2. PICK i \in DOMAIN given.values[s] :
              /\ given.values[s][i].time = x.time
              /\ ~given.values[s][i].sound \/ given.values[s][i] # BarOf(s, x.time)
        BY <3>1
      <3>3. given.values[s][i].sound /\ given.values[s][i] = BarOf(s, given.values[s][i].time)
        BY <1>2, <2>2, <3>1, <3>2 DEF Sound
      <3> QED  BY <3>2, <3>3
    <2> QED  BY <2>1, <2>2
  <1>3. ASSUME Sound(window, s), Expected(window, h) # {}  PROVE e.attempted # 0
    <2> DEFINE inside == {i \in DOMAIN item.bars : Within(item.bars[i].time, window)}
    <2>1. PICK t \in Expected(window, h) : TRUE  BY <1>3
    <2>2. t \in DOMAIN Grid /\ Within(t, window) /\ t \in Int  BY GridIs DEF Expected
    <2>3. Counts(s, t)  BY <1>3, <2>2 DEF Sound
    <2>4. PICK i \in DOMAIN item.bars : item.bars[i].time = t  BY <2>2, <2>3 DEF IsItem
    <2>5. IsFiniteSet(inside)
      <3>1. PICK n \in Nat : item.bars \in [1..n -> FeedBar]  BY DEF IsItem
      <3>2. IsFiniteSet(1..n) /\ inside \in SUBSET (1..n)  BY <3>1, FS_Interval
      <3> HIDE DEF inside
      <3> QED  BY <3>2, FS_Subset
    <2>6. i \in inside  BY <2>2, <2>4
    <2>7. e.attempted = Cardinality(inside)  BY DEF WindowEvidence
    <2> HIDE DEF inside
    <2> QED  BY <2>5, <2>6, <2>7, FS_EmptySet
  <1> QED  BY <1>1, <1>2, <1>3

\* The rows of a dataset, by time and symbol.
RowBefore(a, b) == a.time < b.time \/ (a.time = b.time /\ a.symbol < b.symbol)

LEMMA RowsSorted ==
  ASSUME NEW S, IsFiniteSet(S),
         \A a \in S : a.time \in Int /\ a.symbol \in Int,
         \A a, b \in S : a.time = b.time /\ a.symbol = b.symbol => a = b
  PROVE  LET seq == Ascending(S, RowBefore) IN
         /\ seq \in Seq(S) /\ ToSet(seq) = S
         /\ \A i, j \in DOMAIN seq : i < j => RowBefore(seq[i], seq[j])
  <1> DEFINE R == {p \in S \X S : RowBefore(p[1], p[2])}
             seq == Ascending(S, RowBefore)
  <1>0. \A a, b \in S : <<a, b>> \in R <=> RowBefore(a, b)  OBVIOUS
  <1> HIDE DEF R
  <1>1. Linear(R, S)
    <2>1. \A a \in S : <<a, a>> \notin R  BY <1>0 DEF RowBefore
    <2>2. \A a, b, c \in S : <<a, b>> \in R /\ <<b, c>> \in R => <<a, c>> \in R
      BY <1>0 DEF RowBefore
    <2>3. \A a, b \in S : a # b => <<a, b>> \in R \/ <<b, a>> \in R  BY <1>0 DEF RowBefore
    <2> QED  BY <2>1, <2>2, <2>3 DEF Linear
  <1>2. \A a \in S : {r \in S : RowBefore(r, a)} = Ahead(R, S, a)  BY <1>0 DEF Ahead
  <1>3. seq = [i \in 1..Cardinality(S) |-> CHOOSE a \in S : Cardinality({r \in S : RowBefore(r, a)}) = i - 1]
    BY DEF Ascending
  <1> HIDE DEF seq
  <1>4. ASSUME NEW i \in 1..Cardinality(S)
        PROVE  seq[i] \in S /\ Cardinality(Ahead(R, S, seq[i])) = i - 1
    <2>1. PICK a \in S : Cardinality(Ahead(R, S, a)) = i - 1  BY <1>1, Places
    <2>2. \E b \in S : Cardinality({r \in S : RowBefore(r, b)}) = i - 1  BY <1>2, <2>1
    <2>3. seq[i] \in S /\ Cardinality({r \in S : RowBefore(r, seq[i])}) = i - 1  BY <1>3, <2>2
    <2> QED  BY <1>2, <2>3
  <1>5. seq \in [1..Cardinality(S) -> S]  BY <1>3, <1>4
  <1>6. /\ seq \in Seq(S) /\ ToSet(seq) = S
        /\ \A i, j \in 1..Cardinality(S) : i < j => <<seq[i], seq[j]>> \in R
    BY <1>1, <1>4, <1>5, Placed
  <1> QED  BY <1>0, <1>5, <1>6 DEF seq

\* What is picked is in the set.
LEMMA PickedFrom ==
  ASSUME NEW T, NEW seq \in Seq(T), NEW S, S \subseteq DOMAIN seq
  PROVE  \A k \in DOMAIN Picked(seq, S) : \E i \in S : Picked(seq, S)[k] = seq[i]
  <1> DEFINE R == {p \in S \X S : p[1] < p[2]}
             at == [k \in 1..Cardinality(S) |-> CHOOSE i \in S : Cardinality({r \in S : r < i}) = k - 1]
  <1>1. IsFiniteSet(S) /\ S \subseteq Int
    <2>1. DOMAIN seq = 1..Len(seq) /\ Len(seq) \in Nat  OBVIOUS
    <2>2. IsFiniteSet(1..Len(seq)) /\ S \in SUBSET (1..Len(seq))  BY <2>1, FS_Interval
    <2> QED  BY <2>2, FS_Subset
  <1>2. Linear(R, S) /\ \A i \in S : {r \in S : r < i} = Ahead(R, S, i)  BY <1>1 DEF Linear, Ahead
  <1>3. Picked(seq, S) = [k \in DOMAIN at |-> seq[at[k]]]  BY DEF Picked, Ascending
  <1>4. ASSUME NEW k \in 1..Cardinality(S)  PROVE at[k] \in S
    <2> HIDE DEF R
    <2>1. PICK a \in S : Cardinality(Ahead(R, S, a)) = k - 1  BY <1>1, <1>2, Places
    <2>2. \E b \in S : Cardinality({r \in S : r < b}) = k - 1  BY <1>2, <2>1
    <2> QED  BY <2>2
  <1>5. DOMAIN at = 1..Cardinality(S)  OBVIOUS
  <1> HIDE DEF at
  <1> QED  BY <1>3, <1>4, <1>5

\* One split of a training.
SplitHonest(split, d, rows) ==
  /\ ToSet(d.rows) = rows
  /\ \A i, j \in DOMAIN d.rows : i < j => RowBefore(d.rows[i], d.rows[j])
  /\ \A s \in Stocks :
       /\ d.evidence[s].usable = Cardinality(Owed(split, s))
       /\ d.evidence[s].usable <= d.evidence[s].expected
       /\ Sound(split, s) =>
            /\ d.evidence[s].usable = d.evidence[s].expected
            /\ (d.evidence[s].expected > 0 => WindowReasons(d.evidence[s], 0) = {})

LEMMA DatasetHonest ==
  ASSUME given \in TrainingInputs, NEW window \in [start : Int, end : Int],
         NEW prepared, \A s \in Stocks : IsItem(prepared[s], s),
         NEW d, d = DatasetFromPrepared(prepared, Listing, given.target, window, Grid)
  PROVE  /\ SplitHonest(window, d, UNION {{OwedRow(s, t) : t \in Owed(window, s)} : s \in Stocks})
         /\ \E T : d.rows \in Seq(T)
  <1> DEFINE h == given.target.horizon
             rows == UNION {{OwedRow(s, t) : t \in Owed(window, s)} : s \in Stocks}
             kept(s) == Kept(prepared[s], given.target, window, Grid)
             ev(s) == WindowEvidence(prepared[s], window, h, Grid)
  <1>1. /\ IsFiniteSet(Stocks) /\ Stocks \subseteq Int
    BY TrainingAssumption, ToSetFinite DEF Stocks
  <1>2. \A s \in Stocks :
          /\ SymbolRows(s, prepared[s], given.target, window, Grid) = {OwedRow(s, t) : t \in Owed(window, s)}
          /\ IsFiniteSet(Owed(window, s)) /\ Cardinality(Owed(window, s)) = Cardinality(kept(s))
    BY RowsAre
  <1> DEFINE of == [s \in Stocks |-> {OwedRow(s, t) : t \in Owed(window, s)}]
             all == UNION {of[s] : s \in Stocks}
  <1>3. IsFiniteSet(all)
    <2>1. ASSUME NEW s \in Stocks  PROVE IsFiniteSet(of[s])
      <3> DEFINE g == [t \in Owed(window, s) |-> OwedRow(s, t)]
      <3>1. of[s] = {g[t] : t \in Owed(window, s)} /\ DOMAIN g = Owed(window, s)  OBVIOUS
      <3> HIDE DEF g, of
      <3> QED  BY <1>2, <3>1, ImageFinite
    <2>2. DOMAIN of = Stocks  OBVIOUS
    <2> HIDE DEF of
    <2>3. IsFiniteSet({of[s] : s \in Stocks})  BY <1>1, <2>2, ImageFinite
    <2> QED  BY <2>1, <2>3, FS_UNION
  <1>4. d.rows = Ascending(all, RowBefore)
    <2> DEFINE union == UNION {SymbolRows(s, prepared[s], given.target, window, Grid) : s \in ToSet(Listing)}
    <2>1. union = all  BY <1>2 DEF Stocks
    <2>2. d.rows = [i \in 1..Cardinality(union) |->
                      CHOOSE a \in union : Cardinality({r \in union : RowBefore(r, a)}) = i - 1]
      BY Zenon DEF DatasetFromPrepared, Ascending, RowBefore
    <2>3. Ascending(union, RowBefore)
            = [i \in 1..Cardinality(union) |->
                 CHOOSE a \in union : Cardinality({r \in union : RowBefore(r, a)}) = i - 1]
      BY DEF Ascending
    <2> HIDE DEF union, all
    <2> QED  BY <2>1, <2>2, <2>3
  <1>5. /\ d.rows \in Seq(rows) /\ ToSet(d.rows) = rows
        /\ \A i, j \in DOMAIN d.rows : i < j => RowBefore(d.rows[i], d.rows[j])
    <2>0. all = rows  OBVIOUS
    <2>1. \A a \in all : \E s \in Stocks, t \in Int : a = OwedRow(s, t)
      <3>1. \A s \in Stocks : Owed(window, s) \subseteq Int  BY DEF Owed
      <3>2. \A s \in Stocks : \A a \in of[s] : \E t \in Owed(window, s) : a = OwedRow(s, t)  OBVIOUS
      <3> HIDE DEF of
      <3> QED  BY <3>1, <3>2
    <2>2. \A s, t : OwedRow(s, t).symbol = s /\ OwedRow(s, t).time = t  BY DEF OwedRow
    <2> HIDE DEF all, rows
    <2>3. \A a \in all : a.time \in Int /\ a.symbol \in Int  BY <1>1, <2>1, <2>2
    <2>4. \A a, b \in all : a.time = b.time /\ a.symbol = b.symbol => a = b  BY <2>1, <2>2
    <2>5. /\ Ascending(all, RowBefore) \in Seq(all) /\ ToSet(Ascending(all, RowBefore)) = all
          /\ \A i, j \in DOMAIN Ascending(all, RowBefore) :
               i < j => RowBefore(Ascending(all, RowBefore)[i], Ascending(all, RowBefore)[j])
      BY <1>3, <2>3, <2>4, RowsSorted
    <2> QED  BY <1>4, <2>0, <2>5
  <1>6. ASSUME NEW s \in Stocks
        PROVE  /\ d.evidence[s].usable = Cardinality(Owed(window, s))
               /\ d.evidence[s].usable <= d.evidence[s].expected
               /\ Sound(window, s) =>
                    /\ d.evidence[s].usable = d.evidence[s].expected
                    /\ (d.evidence[s].expected > 0 => WindowReasons(d.evidence[s], 0) = {})
    <2>1. d.evidence[s] = [expected |-> ev(s).expected, attempted |-> ev(s).attempted,
                           errors |-> ev(s).errors, usable |-> Cardinality(kept(s))]
      BY DEF DatasetFromPrepared, Stocks
    <2>2. PICK e : e = ev(s)  OBVIOUS
    <2>3. /\ e.expected = Cardinality(Expected(window, h))
          /\ Sound(window, s) => e.errors = {}
          /\ Sound(window, s) /\ Expected(window, h) # {} => e.attempted # 0
      BY <2>2, EvidenceIs
    <2>4. /\ IsFiniteSet(Expected(window, h)) /\ Owed(window, s) \subseteq Expected(window, h)
          /\ Sound(window, s) => Expected(window, h) \subseteq Owed(window, s)
      BY ExpectedAre
    <2>5. /\ Cardinality(Owed(window, s)) \in Nat /\ Cardinality(Expected(window, h)) \in Nat
          /\ Cardinality(Owed(window, s)) <= Cardinality(Expected(window, h))
      BY <2>4, FS_Subset, FS_CardinalityType
    <2>6. PICK u \in Nat : u = Cardinality(Owed(window, s)) /\ u <= Cardinality(Expected(window, h))
      BY <2>5
    <2>7. d.evidence[s] = [expected |-> Cardinality(Expected(window, h)), attempted |-> e.attempted,
                           errors |-> e.errors, usable |-> u]
      BY <1>2, <2>1, <2>2, <2>3, <2>6
    <2>8. ASSUME Sound(window, s)
          PROVE  /\ d.evidence[s].usable = d.evidence[s].expected
                 /\ (d.evidence[s].expected > 0 => WindowReasons(d.evidence[s], 0) = {})
      <3>1. u = Cardinality(Expected(window, h))  BY <2>4, <2>6, <2>8
      <3>2. ASSUME u > 0  PROVE WindowReasons(d.evidence[s], 0) = {}
        <4>1. Expected(window, h) # {}  BY <3>1, <3>2, FS_EmptySet
        <4>2. PICK x : /\ x = d.evidence[s] /\ x.errors = {} /\ x.attempted # 0
                       /\ x.usable = u /\ x.expected = u
          BY <2>3, <2>7, <2>8, <3>1, <4>1
        <4>3. ~(100 * u < PctUsable * u)
          <5>1. PctUsable \in Nat /\ PctUsable <= 100  BY TrainingDataAssumption
          <5>2. PICK m \in Nat : 100 = PctUsable + m  BY <5>1
          <5>3. 100 * u = PctUsable * u + m * u /\ m * u >= 0  BY <5>1, <5>2
          <5> QED  BY <5>1, <5>3
        <4> QED  BY <3>2, <4>2, <4>3 DEF WindowReasons
      <3> QED  BY <2>7, <3>1, <3>2
    <2> QED  BY <2>6, <2>7, <2>8
  <1> HIDE DEF rows
  <1>7. SplitHonest(window, d, rows)  BY <1>5, <1>6 DEF SplitHonest
  <1> QED  BY <1>5, <1>7 DEF rows

\* A replay has features for no more bars than there may be.
LEMMA ReplayHonest ==
  ASSUME given \in TrainingInputs, NEW window \in [start : Int, end : Int], NEW s \in Stocks,
         NEW item, IsItem(item, s)
  PROVE  ReplayEvidence(item, window, Grid).usable <= ReplayEvidence(item, window, Grid).expected
  <1> DEFINE inside == {i \in DOMAIN item.bars : Within(item.bars[i].time, window)}
             ready == {i \in inside : item.ready[i]}
             times == Expected(window, 0)
             e == WindowEvidence(item, window, 0, Grid)
  <1>1. PICK n \in Nat : item.bars \in [1..n -> FeedBar]  BY DEF IsItem
  <1>2. /\ DOMAIN item.bars = 1..n
        /\ \A i \in 1..n : item.bars[i].time \in Int /\ Counts(s, item.bars[i].time)
        /\ \A i, j \in 1..n : i < j => item.bars[i].time < item.bars[j].time
    <2>1. DOMAIN item.bars = 1..n /\ \A j \in 1..n : item.bars[j] \in FeedBar  BY <1>1
    <2>2. \A j \in 1..n : item.bars[j].time \in Int  BY <2>1 DEF FeedBar
    <2> QED  BY <2>1, <2>2 DEF IsItem
  <1>3. \A t \in Int : t + 0 * BarStep = t  BY TrainingDataAssumption
  <1>4. IsFiniteSet(times)
    <2>1. times \in SUBSET DOMAIN Grid  BY DEF Expected
    <2> HIDE DEF times
    <2> QED  BY <2>1, GridIs, FS_Subset
  <1>5. IsFiniteSet(ready)
    <2>1. IsFiniteSet(1..n) /\ ready \in SUBSET (1..n)  BY <1>2, FS_Interval
    <2> HIDE DEF ready
    <2> QED  BY <2>1, FS_Subset
  <1>6. ASSUME NEW i \in ready  PROVE item.bars[i].time \in times
    <2>1. i \in 1..n /\ Within(item.bars[i].time, window)  BY <1>2
    <2>2. item.bars[i].time \in DOMAIN Grid /\ item.bars[i].time \in Int
      BY <1>2, <2>1, CountsOnGrid
    <2> QED  BY <1>3, <2>1, <2>2 DEF Expected, Within
  <1>7. Cardinality(ready) <= Cardinality(times)
    <2> DEFINE f == [i \in ready |-> item.bars[i].time]
    <2>1. f \in [ready -> times]  BY <1>6
    <2>2. \A i, j \in ready : f[i] = f[j] => i = j
      <3> SUFFICES ASSUME NEW i \in ready, NEW j \in ready, f[i] = f[j], i # j  PROVE FALSE  OBVIOUS
      <3>1. i \in 1..n /\ j \in 1..n /\ item.bars[i].time = item.bars[j].time  BY <1>2
      <3>2. i < j \/ j < i  BY <3>1
      <3> QED  BY <1>2, <3>1, <3>2
    <2> HIDE DEF f, ready, times
    <2>3. f \in Injection(ready, times)  BY <2>1, <2>2 DEF Injection, IsInjective
    <2> QED  BY <1>4, <2>3, FS_Injection
  <1>8. e.expected = Cardinality(times) /\ e.ready = Cardinality(ready)
    BY DEF WindowEvidence, Expected
  <1> QED  BY <1>7, <1>8 DEF ReplayEvidence

TrainingInv ==
  kind = "training" => given \in TrainingInputs /\ (answer = Pending \/ answer = Done(Built))

LEMMA TrainingInvHolds == AlgorithmsSpec => []TrainingInv
  <1>1. AlgorithmsInit => TrainingInv  BY SMTT(30) DEF AlgorithmsInit, TrainingInv
  <1>2. TrainingInv /\ [AlgorithmsNext]_allVars => TrainingInv'
    <2> SUFFICES ASSUME TrainingInv, [AlgorithmsNext]_allVars, kind' = "training"  PROVE TrainingInv'
      BY DEF TrainingInv
    <2>1. CASE Builds /\ UNCHANGED <<kind, discoveryVars>>
      <3>1. kind = "training" /\ given' = given /\ answer' = Done(Built)  BY <2>1 DEF Builds
      <3>2. Built' = Built  BY <3>1 DEF Built
      <3> QED  BY <3>1, <3>2 DEF TrainingInv, Done
    <2>2. CASE UNCHANGED <<kind, given, answer>>  BY <2>2 DEF Built, TrainingInv, Done, Pending
    <2> QED
      BY <2>1, <2>2 DEF AlgorithmsNext, Assesses, Shuffles, Prepares, Evicts, Restates, Rolls, allVars
  <1> QED  BY <1>1, <1>2, PTL DEF AlgorithmsSpec

\* What is built of a valid input is honest.
LEMMA BuiltHonest ==
  ASSUME given \in TrainingInputs, NEW k \in 1..2
  PROVE  LET d == Built.datasets[k] IN
         /\ SplitHonest(Splits[k], d, UNION {{OwedRow(s, t) : t \in Owed(Splits[k], s)} : s \in Stocks})
         /\ \A s \in Stocks :
              /\ s \in Built.cohort => Cardinality(Owed(Splits[k], s)) >= LeastRows
              /\ Built.replay[s].usable <= Built.replay[s].expected
         /\ \A i \in DOMAIN Built.chosen[k].rows : Built.chosen[k].rows[i].symbol \in Built.cohort
  <1> DEFINE prepared == Prepared(given.values, Listing, given.unready, Grid)
             made(j) == DatasetFromPrepared(prepared, Listing, given.target, Splits[j], Grid)
             d == Built.datasets[k]
  <1>1. \A s \in Stocks : IsItem(prepared[s], s)  BY CleanIsItem
  <1>2. \A j \in 1..2 : Splits[j] \in [start : Int, end : Int]  BY TrainingAssumption
  <1>3. k = 1 \/ k = 2  OBVIOUS
  <1>4. d = made(k)  BY <1>3 DEF Built
  <1>5. /\ SplitHonest(Splits[k], d, UNION {{OwedRow(s, t) : t \in Owed(Splits[k], s)} : s \in Stocks})
        /\ \E T : d.rows \in Seq(T)
    <2> HIDE DEF prepared, d
    <2> QED  BY <1>1, <1>2, <1>4, DatasetHonest
  <1>6. Built.cohort = Cohort(<<made(1), made(2)>>, Listing, LeastRows)  BY DEF Built
  <1>7. ASSUME NEW s \in Stocks, s \in Built.cohort  PROVE Cardinality(Owed(Splits[k], s)) >= LeastRows
    <2>1. d \in ToSet(<<made(1), made(2)>>)  BY <1>3, <1>4 DEF ToSet
    <2>2. WindowReasons(d.evidence[s], LeastRows) = {}  BY <1>6, <1>7, <2>1 DEF Cohort
    <2>3. ~(d.evidence[s].usable < LeastRows)  BY <2>2 DEF WindowReasons
    <2>4. d.evidence[s].usable = Cardinality(Owed(Splits[k], s))  BY <1>5 DEF SplitHonest
    <2>5. Cardinality(Owed(Splits[k], s)) \in Nat /\ LeastRows \in Nat
      BY <1>1, <1>2, RowsAre, FS_CardinalityType, TrainingAssumption
    <2> QED  BY <2>3, <2>4, <2>5
  <1>8. ASSUME NEW s \in Stocks  PROVE Built.replay[s].usable <= Built.replay[s].expected
    <2>1. Built.replay[s] = ReplayEvidence(prepared[s], Splits[2], Grid)  BY DEF Built
    <2> HIDE DEF prepared
    <2> QED  BY <1>1, <1>2, <2>1, ReplayHonest
  <1>9. ASSUME NEW i \in DOMAIN Built.chosen[k].rows
        PROVE  Built.chosen[k].rows[i].symbol \in Built.cohort
    <2> DEFINE cohort == Built.cohort
               at == {j \in DOMAIN d.rows : d.rows[j].symbol \in cohort}
    <2>1. Built.chosen[k].rows = Picked(d.rows, at)
      <3>1. /\ Built.chosen = <<SelectSymbols(made(1), cohort), SelectSymbols(made(2), cohort)>>
            /\ Built.datasets = <<made(1), made(2)>>
        BY <1>6 DEF Built
      <3> HIDE DEF made, cohort
      <3>2. Built.chosen[k] = SelectSymbols(d, cohort)
        <4>1. CASE k = 1  BY <3>1, <4>1
        <4>2. CASE k = 2  BY <3>1, <4>2
        <4> QED  BY <1>3, <4>1, <4>2
      <3> HIDE DEF d
      <3> QED  BY <3>2 DEF SelectSymbols
    <2>2. \E j \in at : Picked(d.rows, at)[i] = d.rows[j]
      <3>1. at \subseteq DOMAIN d.rows /\ i \in DOMAIN Picked(d.rows, at)  BY <2>1
      <3> HIDE DEF at, d
      <3> QED  BY <1>5, <3>1, PickedFrom
    <2> QED  BY <2>1, <2>2
  <1> QED  BY <1>5, <1>7, <1>8, <1>9

\* Training and validation data are honest for any feed, calendar, splits and
\* target (modeling/dataset.py): exactly the rows whose path was traded without a
\* gap in one session of the split, in order, counted as evidence.
THEOREM TrainingRowsAreHonest == AlgorithmsSpec => []RowsHonest
  <1>1. TrainingInv => RowsHonest
    <2> SUFFICES ASSUME TrainingInv, kind = "training", answer.done, NEW k \in 1..2
                 PROVE  LET split  == Splits[k]
                            rows   == answer.value.datasets[k].rows
                            chosen == answer.value.chosen[k].rows
                            seen(s) == answer.value.datasets[k].evidence[s]
                        IN  /\ ToSet(rows) = UNION {{OwedRow(s, t) : t \in Owed(split, s)} : s \in Stocks}
                            /\ \A i, j \in DOMAIN rows : i < j =>
                                 \/ rows[i].time < rows[j].time
                                 \/ rows[i].time = rows[j].time /\ rows[i].symbol < rows[j].symbol
                            /\ \A s \in Stocks :
                                 /\ seen(s).usable = Cardinality(Owed(split, s))
                                 /\ seen(s).usable <= seen(s).expected
                                 /\ Sound(split, s) =>
                                      /\ seen(s).usable = seen(s).expected
                                      /\ (seen(s).expected > 0 => WindowReasons(seen(s), 0) = {})
                                 /\ IF s \in answer.value.cohort THEN Cardinality(Owed(split, s)) >= LeastRows
                                    ELSE \A i \in DOMAIN chosen : chosen[i].symbol # s
                            /\ k = 2 => \A s \in Stocks :
                                 answer.value.replay[s].usable <= answer.value.replay[s].expected
      BY Zenon DEF RowsHonest
    <2>1. given \in TrainingInputs /\ answer.value = Built  BY DEF TrainingInv, Pending, Done
    <2> DEFINE built == answer.value
    <2>2. built = Built  BY <2>1
    <2> HIDE DEF built
    <2>3. /\ SplitHonest(Splits[k], built.datasets[k],
                         UNION {{OwedRow(s, t) : t \in Owed(Splits[k], s)} : s \in Stocks})
          /\ \A s \in Stocks :
              /\ s \in built.cohort => Cardinality(Owed(Splits[k], s)) >= LeastRows
              /\ built.replay[s].usable <= built.replay[s].expected
          /\ \A i \in DOMAIN built.chosen[k].rows : built.chosen[k].rows[i].symbol \in built.cohort
      BY <2>1, <2>2, BuiltHonest
    <2> DEFINE split == Splits[k]
               rows == built.datasets[k].rows
               chosen == built.chosen[k].rows
               seen(s) == built.datasets[k].evidence[s]
    <2>4. ToSet(rows) = UNION {{OwedRow(s, t) : t \in Owed(split, s)} : s \in Stocks}
      BY <2>3 DEF SplitHonest
    <2>5. \A i, j \in DOMAIN rows : i < j =>
            \/ rows[i].time < rows[j].time
            \/ rows[i].time = rows[j].time /\ rows[i].symbol < rows[j].symbol
      BY <2>3 DEF SplitHonest, RowBefore
    <2>6. \A s \in Stocks :
            /\ seen(s).usable = Cardinality(Owed(split, s))
            /\ seen(s).usable <= seen(s).expected
            /\ Sound(split, s) =>
                 /\ seen(s).usable = seen(s).expected
                 /\ (seen(s).expected > 0 => WindowReasons(seen(s), 0) = {})
      BY <2>3 DEF SplitHonest
    <2>7. \A s \in Stocks :
            IF s \in built.cohort THEN Cardinality(Owed(split, s)) >= LeastRows
            ELSE \A i \in DOMAIN chosen : chosen[i].symbol # s
      BY Zenon, <2>3
    <2>8. \A s \in Stocks : built.replay[s].usable <= built.replay[s].expected  BY <2>3
    <2> QED  BY Zenon, <2>4, <2>5, <2>6, <2>7, <2>8 DEF built
  <1> QED  BY <1>1, TrainingInvHolds, PTL

------------------------------------------------------------
(* The rows of a history. *)

\* The last of some positions.
LEMMA MaxOf ==
  ASSUME NEW n \in Nat, NEW T \in SUBSET (1..n), T # {}
  PROVE  Max(T) \in T /\ \A i \in T : i <= Max(T)
  <1>1. IsFiniteSet(1..n)  BY FS_Interval
  <1>2. IsFiniteSet(T)  BY <1>1, FS_Subset
  <1>3. T \subseteq Int  OBVIOUS
  <1> QED  BY <1>2, <1>3, Extremes

\* The positions up to one.
LEMMA UptoMax ==
  ASSUME NEW n \in Nat, NEW k \in 1..n
  PROVE  /\ 1..k \in SUBSET (1..n) /\ 1..k # {}
         /\ Max(1..k) = k /\ (1..k) \ {Max(1..k)} = 1..(k - 1)
  <1>1. 1..k \in SUBSET (1..n) /\ k \in 1..k  OBVIOUS
  <1>2. Max(1..k) \in 1..k /\ \A i \in 1..k : i <= Max(1..k)  BY <1>1, MaxOf
  <1>3. Max(1..k) = k  BY <1>1, <1>2
  <1> QED  BY <1>1, <1>3

FeedBars == [time : Nat, value : Int]

\* f is where a schedule is after the first n bars, and after any part of them.
Carries(f, store, bs, n) ==
  f = [T \in SUBSET (1..n) |->
        IF T = {} THEN Unscheduled(store)
        ELSE LET i == Max(T) IN ScheduleBar(bs, f[T \ {i}], i)]

\* What Carries says of one set.
LEMMA CarriesStep ==
  ASSUME NEW store, NEW bs, NEW n \in Nat, NEW f, Carries(f, store, bs, n)
  PROVE  \A T \in SUBSET (1..n) :
           /\ T = {} => f[T] = Unscheduled(store)
           /\ T # {} => f[T] = ScheduleBar(bs, f[T \ {Max(T)}], Max(T))
  BY DEF Carries

\* One bar more.
LEMMA CarriesMore ==
  ASSUME NEW store, NEW bs, NEW n \in Nat, NEW f, Carries(f, store, bs, n)
  PROVE  \E g : Carries(g, store, bs, n + 1)
  <1> DEFINE g == [T \in SUBSET (1..(n + 1)) |->
                    IF n + 1 \in T THEN ScheduleBar(bs, f[T \ {n + 1}], n + 1) ELSE f[T]]
  <1>1. ASSUME NEW T \in SUBSET (1..(n + 1)), T # {}
        PROVE  g[T] = ScheduleBar(bs, g[T \ {Max(T)}], Max(T))
    <2>1. PICK x \in T : x = Max(T) /\ \A i \in T : i <= x
      <3>1. n + 1 \in Nat  OBVIOUS
      <3> QED  BY <1>1, <3>1, MaxOf
    <2>2. CASE n + 1 \in T
      <3>1. x = n + 1  BY <2>1, <2>2
      <3>2. g[T \ {x}] = f[T \ {x}]  BY <3>1
      <3>3. g[T] = ScheduleBar(bs, f[T \ {x}], x)  BY <2>2, <3>1
      <3> QED  BY <2>1, <3>2, <3>3
    <2>3. CASE n + 1 \notin T
      <3>1. T \in SUBSET (1..n)  BY <2>3
      <3>2. f[T] = ScheduleBar(bs, f[T \ {x}], x)  BY <1>1, <2>1, <3>1 DEF Carries
      <3>3. g[T] = f[T] /\ g[T \ {x}] = f[T \ {x}]  BY <2>3
      <3> QED  BY <2>1, <3>2, <3>3
    <2> QED  BY <2>2, <2>3
  <1>2. g[{}] = Unscheduled(store)  BY CarriesStep
  <1>3. g = [T \in SUBSET (1..(n + 1)) |-> g[T]]  OBVIOUS
  <1> HIDE DEF g
  <1>4. Carries(g, store, bs, n + 1)  BY <1>1, <1>2, <1>3 DEF Carries
  <1> QED  BY <1>4

LEMMA CarriesExists ==
  ASSUME NEW store, NEW bs, NEW n \in Nat
  PROVE  \E f : Carries(f, store, bs, n)
  <1> DEFINE P == {k \in Nat : \E f : Carries(f, store, bs, k)}
  <1>1. 0 \in P
    <2> DEFINE f == [T \in SUBSET (1..0) |-> Unscheduled(store)]
    <2>1. \A T \in SUBSET (1..0) : T = {}  OBVIOUS
    <2>2. Carries(f, store, bs, 0)  BY <2>1 DEF Carries
    <2> QED  BY <2>2
  <1>2. ASSUME NEW k \in Nat, k \in P  PROVE k + 1 \in P  BY <1>2, CarriesMore
  <1> QED
    <2> HIDE DEF P
    <2>1. n \in P  BY <1>1, <1>2, NumberInduction
    <2> QED  BY <2>1 DEF P

\* g is where a schedule is after each bar.
Passes(g, store, bs, n) ==
  /\ DOMAIN g = 0..n
  /\ g[0] = Unscheduled(store)
  /\ \A i \in 1..n : g[i] = ScheduleBar(bs, g[i - 1], i)

\* All that a proof needs to know of a schedule.
LEMMA ScheduleIs ==
  ASSUME NEW store, NEW bs, NEW n \in Nat, Len(bs) = n
  PROVE  \E g : Passes(g, store, bs, n) /\ Schedule(store, bs) = g[n]
  <1> DEFINE seq == [i \in 1..Len(bs) |-> i]
             Is(f) == f = [T \in SUBSET DOMAIN seq |->
                            IF T = {} THEN Unscheduled(store)
                            ELSE LET i == Max(T)
                                 IN ScheduleBar(bs, f[T \ {i}], seq[i])]
             f == CHOOSE f : Is(f)
             g == [k \in 0..n |-> f[1..k]]
  <1>1. DOMAIN seq = 1..n /\ \A i \in 1..n : seq[i] = i  OBVIOUS
  <1>2. Schedule(store, bs) = f[DOMAIN seq]  BY Zenon DEF Schedule, FoldLeft, MapThenFoldSet
  <1>3. \A T \in SUBSET (1..n) : T # {} => Max(T) \in 1..n  BY MaxOf
  <1> HIDE DEF seq
  <1>4. ASSUME NEW h, Carries(h, store, bs, n)  PROVE Is(h)
    <2>1. ASSUME NEW T \in SUBSET (1..n)
          PROVE  IF T = {} THEN h[T] = Unscheduled(store)
                 ELSE h[T] = ScheduleBar(bs, h[T \ {Max(T)}], seq[Max(T)])
      <3>1. /\ T = {} => h[T] = Unscheduled(store)
            /\ T # {} => h[T] = ScheduleBar(bs, h[T \ {Max(T)}], Max(T))
        BY <1>4, CarriesStep
      <3>2. T # {} => seq[Max(T)] = Max(T)  BY <1>1, <1>3
      <3> QED  BY <3>1, <3>2
    <2>2. h = [T \in SUBSET (1..n) |-> h[T]]  BY <1>4 DEF Carries
    <2>3. h = [T \in SUBSET (1..n) |->
                 IF T = {} THEN Unscheduled(store)
                 ELSE ScheduleBar(bs, h[T \ {Max(T)}], seq[Max(T)])]
      BY <2>1, <2>2
    <2> QED  BY <1>1, <2>3
  <1>5. Is(f)
    <2>1. \E h : Is(h)  BY <1>4, CarriesExists
    <2> HIDE DEF Is
    <2> QED  BY <2>1
  <1>6. \A T \in SUBSET (1..n) :
            IF T = {} THEN f[T] = Unscheduled(store)
            ELSE f[T] = ScheduleBar(bs, f[T \ {Max(T)}], seq[Max(T)])
    <2> HIDE DEF f
    <2> QED  BY <1>1, <1>5
  <1> HIDE DEF f, Is
  <1>7. g[0] = Unscheduled(store)
    <2>1. 1..0 = {} /\ {} \in SUBSET (1..n) /\ 0 \in 0..n  OBVIOUS
    <2>2. f[{}] = Unscheduled(store)  BY <1>6, <2>1
    <2> QED  BY <2>1, <2>2
  <1>8. ASSUME NEW i \in 1..n  PROVE g[i] = ScheduleBar(bs, g[i - 1], i)
    <2>1. f[1..i] = ScheduleBar(bs, f[1..(i - 1)], seq[i])  BY <1>6, UptoMax
    <2>2. i - 1 \in 0..n /\ i \in 0..n  OBVIOUS
    <2> QED  BY <1>1, <2>1, <2>2
  <1>9. n \in 0..n /\ Schedule(store, bs) = g[n]  BY <1>1, <1>2
  <1>10. Passes(g, store, bs, n)  BY <1>7, <1>8 DEF Passes
  <1> QED  BY <1>9, <1>10

-----------------------------------------------------------------------------
(* A schedule over a store of fits. *)

\* Every fit in the store is the one the fit on these observations gives.
FitsTrue(fits) == \A k \in DOMAIN fits : fits[k] = k /\ k \notin Unfittable

IsStore(store) == \E fits : FitsTrue(fits) /\ store = [used |-> TRUE, fits |-> fits]

\* Two schedules are at the same place, one with a store and one without.
Alike(acc, bare) ==
  /\ IsStore(acc.store) /\ bare.store = NoStore
  /\ acc.model = bare.model /\ acc.last = bare.last
  /\ acc.current = bare.current /\ acc.rows = bare.rows
  /\ acc = [model |-> acc.model, store |-> acc.store, last |-> acc.last,
            current |-> acc.current, rows |-> acc.rows]
  /\ bare = [model |-> bare.model, store |-> bare.store, last |-> bare.last,
             current |-> bare.current, rows |-> bare.rows]

\* A fit joins the store.
LEMMA StoredTrue ==
  ASSUME NEW store, IsStore(store), NEW obs, obs \notin Unfittable,
         NEW fresh, fresh.on = obs
  PROVE  IsStore(StoreFit(store, obs, fresh))
  <1>1. PICK fits : FitsTrue(fits) /\ store = [used |-> TRUE, fits |-> fits]  BY DEF IsStore
  <1> DEFINE more == [k \in DOMAIN fits \cup {obs} |-> IF k = obs THEN fresh.on ELSE fits[k]]
  <1>2. StoreFit(store, obs, fresh) = [used |-> TRUE, fits |-> more]  BY <1>1 DEF StoreFit, Key
  <1>3. FitsTrue(more)  BY <1>1 DEF FitsTrue
  <1> QED  BY <1>2, <1>3 DEF IsStore

\* One assessment: a fit that is loaded is the fit that would have been made.
LEMMA AssessAlike ==
  ASSUME NEW store, IsStore(store), NEW model, NEW bs
  PROVE  /\ AssessRegime(model, store, bs).model = AssessRegime(model, NoStore, bs).model
         /\ AssessRegime(model, store, bs).row = AssessRegime(model, NoStore, bs).row
         /\ IsStore(AssessRegime(model, store, bs).store)
         /\ AssessRegime(model, NoStore, bs).store = NoStore
  <1>1. PICK fits : FitsTrue(fits) /\ store = [used |-> TRUE, fits |-> fits]  BY DEF IsStore
  <1> DEFINE obs     == Observations(bs)
             through == Last(bs).time
             due     == model = NoModel \/ BarsSinceFit(bs, model) >= Refit
             fresh   == [on |-> obs, through |-> through]
             loaded  == LoadFit(store, obs, through)
             fits1   == due /\ loaded = NoModel /\ obs \notin Unfittable
             fits2   == due /\ obs \notin Unfittable
             after1  == IF fits1 THEN fresh ELSE IF due /\ loaded # NoModel THEN loaded ELSE model
             after2  == IF fits2 THEN fresh ELSE model
  <1>2. LoadFit(NoStore, obs, through) = NoModel /\ StoreFit(NoStore, obs, fresh) = NoStore
    BY DEF LoadFit, StoreFit, NoStore
  <1>3. AssessRegime(model, store, bs) =
          IF obs = <<>> THEN [model |-> model, store |-> store, row |-> NoRow]
          ELSE [model |-> after1, store |-> IF fits1 THEN StoreFit(store, obs, fresh) ELSE store,
                row |-> IF after1 = NoModel THEN NoRow ELSE <<after1.on, obs>>]
    BY DEF AssessRegime
  <1>4. AssessRegime(model, NoStore, bs) =
          IF obs = <<>> THEN [model |-> model, store |-> NoStore, row |-> NoRow]
          ELSE [model |-> after2, store |-> NoStore,
                row |-> IF after2 = NoModel THEN NoRow ELSE <<after2.on, obs>>]
    BY <1>2, Zenon DEF AssessRegime
  <1>5. IsStore(IF fits1 THEN StoreFit(store, obs, fresh) ELSE store)  BY StoredTrue
  <1>6. obs # <<>> => after1 = after2
    <2>1. loaded = IF obs \in DOMAIN fits THEN [on |-> fits[obs], through |-> through] ELSE NoModel
      BY <1>1 DEF LoadFit, Key
    <2>2. CASE obs \in DOMAIN fits
      <3>1. loaded = fresh /\ obs \notin Unfittable  BY <1>1, <2>1, <2>2 DEF FitsTrue
      <3>2. obs # <<>> => loaded # NoModel  BY <3>1 DEF NoModel
      <3> HIDE DEF fresh, loaded, due, obs
      <3> QED  BY <3>1, <3>2
    <2>3. CASE obs \notin DOMAIN fits
      <3>1. loaded = NoModel  BY <2>1, <2>3
      <3> HIDE DEF fresh, loaded, due, obs
      <3> QED  BY <3>1
    <2> QED  BY <2>2, <2>3
  <1> HIDE DEF obs, after1, after2, fits1
  <1> QED  BY <1>3, <1>4, <1>5, <1>6

LEMMA BarAlike ==
  ASSUME NEW acc, NEW bare, Alike(acc, bare), NEW bs, NEW i
  PROVE  Alike(ScheduleBar(bs, acc, i), ScheduleBar(bs, bare, i))
  <1> DEFINE seen == SubSeq(bs, 1, i)
             one  == AssessRegime(acc.model, acc.store, seen)
             two  == AssessRegime(bare.model, bare.store, seen)
  <1>1. /\ one.model = two.model /\ one.row = two.row /\ IsStore(one.store)
        /\ two.store = NoStore
    BY AssessAlike DEF Alike
  <1> DEFINE next(x, asked) ==
               [model |-> asked.model, store |-> asked.store,
                last |-> IF asked.row # NoRow THEN bs[i].time ELSE x.last,
                current |-> IF asked.row # NoRow THEN asked.row ELSE x.current,
                rows |-> Append(x.rows, IF asked.row # NoRow THEN asked.row ELSE x.current)]
  <1>2. /\ ScheduleBar(bs, acc, i) = IF ~Due(acc.last, bs[i].time)
                                     THEN [acc EXCEPT !.rows = Append(acc.rows, acc.current)]
                                     ELSE next(acc, one)
        /\ ScheduleBar(bs, bare, i) = IF ~Due(bare.last, bs[i].time)
                                      THEN [bare EXCEPT !.rows = Append(bare.rows, bare.current)]
                                      ELSE next(bare, two)
    BY DEF ScheduleBar
  <1>3. CASE ~Due(acc.last, bs[i].time)
    <2>1. /\ ScheduleBar(bs, acc, i) =
               [model |-> acc.model, store |-> acc.store, last |-> acc.last,
                current |-> acc.current, rows |-> Append(acc.rows, acc.current)]
          /\ ScheduleBar(bs, bare, i) =
               [model |-> bare.model, store |-> bare.store, last |-> bare.last,
                current |-> bare.current, rows |-> Append(bare.rows, bare.current)]
      BY <1>2, <1>3 DEF Alike
    <2> QED  BY <2>1 DEF Alike
  <1>4. CASE Due(acc.last, bs[i].time)
    <2>1. ScheduleBar(bs, acc, i) = next(acc, one) /\ ScheduleBar(bs, bare, i) = next(bare, two)
      BY <1>2, <1>4 DEF Alike
    <2> HIDE DEF one, two
    <2> QED  BY <1>1, <2>1 DEF Alike
  <1> QED  BY <1>3, <1>4

\* Whatever true fits are stored, the schedule has the rows it has without them.
LEMMA ScheduleAlike ==
  ASSUME NEW fits, FitsTrue(fits), NEW bs, NEW n \in Nat, Len(bs) = n
  PROVE  Alike(Schedule([used |-> TRUE, fits |-> fits], bs), Schedule(NoStore, bs))
  <1> DEFINE store == [used |-> TRUE, fits |-> fits]
  <1>1. PICK g : Passes(g, store, bs, n) /\ Schedule(store, bs) = g[n]  BY ScheduleIs
  <1>2. PICK h : Passes(h, NoStore, bs, n) /\ Schedule(NoStore, bs) = h[n]  BY ScheduleIs
  <1> DEFINE P == {k \in Nat : k <= n => Alike(g[k], h[k])}
  <1>3. 0 \in P
    <2>1. g[0] = Unscheduled(store) /\ h[0] = Unscheduled(NoStore)  BY <1>1, <1>2 DEF Passes
    <2>2. IsStore(store)  BY DEF IsStore
    <2> HIDE DEF store
    <2>3. Alike(Unscheduled(store), Unscheduled(NoStore))  BY <2>2 DEF Unscheduled, Alike
    <2> QED  BY <2>1, <2>3
  <1>4. ASSUME NEW k \in Nat, k \in P  PROVE k + 1 \in P
    <2> SUFFICES ASSUME k + 1 <= n  PROVE Alike(g[k + 1], h[k + 1])  OBVIOUS
    <2>1. k + 1 \in 1..n /\ (k + 1) - 1 = k /\ k <= n  OBVIOUS
    <2>2. g[k + 1] = ScheduleBar(bs, g[k], k + 1) /\ h[k + 1] = ScheduleBar(bs, h[k], k + 1)
      BY <1>1, <1>2, <2>1 DEF Passes
    <2> QED  BY <1>4, <2>1, <2>2, BarAlike
  <1>5. n \in P
    <2> HIDE DEF P
    <2> QED  BY <1>3, <1>4, NumberInduction
  <1> QED  BY <1>1, <1>2, <1>5

-----------------------------------------------------------------------------
(* The series cache. *)

\* An answer of the series cache: what is stored is what a schedule gives.
SeriesTyped ==
  /\ given = [market |-> given.market] /\ given.market \in Seq(FeedBars)
  /\ RestatedBar \in 1..Len(given.market)
  /\ answer = [cache |-> [fits |-> answer.cache.fits, tables |-> answer.cache.tables],
               window |-> answer.window, rows |-> answer.rows, calls |-> answer.calls]

TablesTrue(tables) == \A k \in DOMAIN tables : tables[k].rows = Schedule(NoStore, k).rows

SeriesInv ==
  kind = "series" =>
    /\ SeriesTyped
    /\ FitsTrue(answer.cache.fits) /\ TablesTrue(answer.cache.tables)
    /\ \A w \in Stretches : w.to <= Len(given.market)
    /\ answer.rows = Schedule(NoStore, Series(answer.window)).rows

\* A history stretch is bars.
LEMMA StretchIsBars ==
  ASSUME NEW market \in Seq(FeedBars), NEW a \in Nat \ {0}, NEW b \in Nat, b <= Len(market)
  PROVE  SubSeq(market, a, b) \in Seq(FeedBars) /\ Len(SubSeq(market, a, b)) \in Nat
  <1>1. \A i \in a..b : market[i] \in FeedBars
    <2> SUFFICES ASSUME NEW i \in a..b  PROVE market[i] \in FeedBars  OBVIOUS
    <2>1. i \in 1..Len(market)  OBVIOUS
    <2> QED  BY <2>1
  <1>2. SubSeq(market, a, b) \in Seq(FeedBars)  BY <1>1, SubSeqProperties
  <1> QED  BY <1>2

LEMMA NothingScheduled ==
  ASSUME NEW market \in Seq(FeedBars)
  PROVE  Schedule(NoStore, SubSeq(market, NoWindow.from, NoWindow.to)).rows = <<>>
  <1>1. SubSeq(market, 1, 0) = <<>>  BY SubSeqEmpty
  <1>2. Len(SubSeq(market, 1, 0)) = 0  BY <1>1
  <1>3. PICK g : Passes(g, NoStore, SubSeq(market, 1, 0), 0) /\ Schedule(NoStore, SubSeq(market, 1, 0)) = g[0]
    BY <1>2, ScheduleIs
  <1> QED  BY <1>3 DEF Passes, Unscheduled, NoWindow

\* What one call answers and stores.
LEMMA ComputedTrue ==
  ASSUME NEW cache, FitsTrue(cache.fits), TablesTrue(cache.tables),
         cache = [fits |-> cache.fits, tables |-> cache.tables],
         NEW bs, Len(bs) \in Nat
  PROVE  LET made == ComputeSeries(cache, bs) IN
         /\ made.rows = Schedule(NoStore, bs).rows
         /\ made.cache = [fits |-> made.cache.fits, tables |-> made.cache.tables]
         /\ FitsTrue(made.cache.fits) /\ TablesTrue(made.cache.tables)
  <1> DEFINE made   == ComputeSeries(cache, bs)
             loaded == LoadTable(cache, bs)
             fresh  == Schedule([used |-> TRUE, fits |-> cache.fits], bs)
             bare   == Schedule(NoStore, bs)
             table  == [times |-> [i \in 1..Len(bs) |-> bs[i].time], rows |-> fresh.rows]
  <1>1. PICK n \in Nat : n = Len(bs)  OBVIOUS
  <1>2. Alike(fresh, bare)  BY <1>1, ScheduleAlike
  <1>3. fresh.rows = bare.rows /\ FitsTrue(fresh.store.fits)  BY <1>2 DEF Alike, IsStore
  <1>4. made = IF loaded # NoTable THEN [rows |-> loaded.rows, cache |-> cache]
               ELSE [rows |-> fresh.rows,
                     cache |-> [fits |-> fresh.store.fits,
                                tables |-> StoreTable(cache.tables, bs, table)]]
    BY Zenon DEF ComputeSeries
  <1>5. CASE loaded # NoTable
    <2>1. bs \in DOMAIN cache.tables /\ loaded = cache.tables[bs]  BY <1>5 DEF LoadTable, TableKey
    <2>2. loaded.rows = bare.rows  BY <2>1 DEF TablesTrue
    <2> HIDE DEF loaded, fresh, bare, table
    <2>3. made.rows = loaded.rows /\ made.cache = cache  BY <1>4, <1>5
    <2> HIDE DEF made
    <2>4. QED  BY <2>2, <2>3 DEF made, bare
  <1>6. CASE loaded = NoTable
    <2>1. StoreTable(cache.tables, bs, table) =
            [k \in DOMAIN cache.tables \cup {bs} |-> IF k = bs THEN table ELSE cache.tables[k]]
      BY DEF StoreTable, TableKey
    <2>2. table.rows = bare.rows  BY <1>3
    <2> HIDE DEF table, fresh
    <2>3. TablesTrue(StoreTable(cache.tables, bs, table))  BY <2>1, <2>2 DEF TablesTrue
    <2> HIDE DEF loaded, bare
    <2>4. /\ made.rows = fresh.rows /\ made.cache.fits = fresh.store.fits
          /\ made.cache.tables = StoreTable(cache.tables, bs, table)
          /\ made.cache = [fits |-> made.cache.fits, tables |-> made.cache.tables]
      BY <1>4, <1>6
    <2> HIDE DEF made
    <2> QED  BY <1>3, <2>3, <2>4 DEF made, bare
  <1> QED  BY <1>5, <1>6

\* Forgetting an entry keeps what is said of the others.
LEMMA ForgottenTrue ==
  ASSUME NEW f, NEW k
  PROVE  /\ FitsTrue(f) => FitsTrue([j \in DOMAIN f \ {k} |-> f[j]])
         /\ TablesTrue(f) => TablesTrue([j \in DOMAIN f \ {k} |-> f[j]])
  BY DEF FitsTrue, TablesTrue

LEMMA SeriesStep ==
  ASSUME SeriesInv, [AlgorithmsNext]_allVars, kind' = "series"
  PROVE  SeriesInv'
  <1>1. CASE Prepares /\ UNCHANGED <<kind, discoveryVars>>
    <2>1. kind = "series" /\ given' = given /\ SeriesInv  BY <1>1 DEF Prepares
    <2>2. PICK window \in Stretches :
            answer' = [cache |-> ComputeSeries(answer.cache, Series(window)).cache, window |-> window,
                       rows |-> ComputeSeries(answer.cache, Series(window)).rows,
                       calls |-> answer.calls + 1]
      BY <1>1, Zenon DEF Prepares
    <2>3. SeriesTyped /\ FitsTrue(answer.cache.fits) /\ TablesTrue(answer.cache.tables)
      BY <2>1 DEF SeriesInv
    <2>4. Len(Series(window)) \in Nat
      BY <2>1, <2>3, HistoriesAssumption, StretchIsBars DEF SeriesInv, Series, SeriesTyped
    <2>5. answer.cache = [fits |-> answer.cache.fits, tables |-> answer.cache.tables]
      BY <2>3 DEF SeriesTyped
    <2> DEFINE made == ComputeSeries(answer.cache, Series(window))
    <2>6. /\ made.rows = Schedule(NoStore, Series(window)).rows
          /\ made.cache = [fits |-> made.cache.fits, tables |-> made.cache.tables]
          /\ FitsTrue(made.cache.fits) /\ TablesTrue(made.cache.tables)
      BY <2>3, <2>4, <2>5, ComputedTrue
    <2> HIDE DEF made
    <2>7. /\ answer'.cache = made.cache /\ answer'.rows = made.rows /\ answer'.window = window
          /\ answer' = [cache |-> answer'.cache, window |-> answer'.window, rows |-> answer'.rows,
                        calls |-> answer'.calls]
      BY <2>2 DEF made
    <2>8. Series(answer.window)' = Series(window)  BY <2>1, <2>7 DEF Series
    <2>9. SeriesTyped'  BY <2>1, <2>3, <2>6, <2>7 DEF SeriesTyped
    <2>10. answer'.rows = Schedule(NoStore, Series(answer.window)').rows  BY <2>6, <2>7, <2>8
    <2> QED  BY <2>1, <2>6, <2>7, <2>9, <2>10 DEF SeriesInv
  <1>2. CASE Evicts /\ UNCHANGED <<kind, discoveryVars>>
    <2>1. kind = "series" /\ given' = given /\ SeriesInv  BY <1>2 DEF Evicts
    <2>2. SeriesTyped /\ FitsTrue(answer.cache.fits) /\ TablesTrue(answer.cache.tables)
      BY <2>1 DEF SeriesInv
    <2>3. /\ answer'.rows = <<>> /\ answer'.window = NoWindow
          /\ FitsTrue(answer'.cache.fits) /\ TablesTrue(answer'.cache.tables)
          /\ answer' = [cache |-> [fits |-> answer'.cache.fits, tables |-> answer'.cache.tables],
                        window |-> answer'.window, rows |-> answer'.rows, calls |-> answer'.calls]
      <3> DEFINE less(f, k) == [j \in DOMAIN f \ {k} |-> f[j]]
      <3>1. PICK k : answer' = [answer EXCEPT !.window = NoWindow, !.rows = <<>>,
                                             !.cache.fits = less(answer.cache.fits, k)]
                  \/ answer' = [answer EXCEPT !.window = NoWindow, !.rows = <<>>,
                                             !.cache.tables = less(answer.cache.tables, k)]
        BY <1>2 DEF Evicts
      <3>2. /\ FitsTrue(less(answer.cache.fits, k)) /\ TablesTrue(less(answer.cache.tables, k))
        BY <2>2, ForgottenTrue
      <3> HIDE DEF less
      <3>3. \/ answer' = [cache |-> [fits |-> less(answer.cache.fits, k), tables |-> answer.cache.tables],
                          window |-> NoWindow, rows |-> <<>>, calls |-> answer.calls]
            \/ answer' = [cache |-> [fits |-> answer.cache.fits, tables |-> less(answer.cache.tables, k)],
                          window |-> NoWindow, rows |-> <<>>, calls |-> answer.calls]
        <4>1. PICK fits, tables, window, rows, calls :
                answer = [cache |-> [fits |-> fits, tables |-> tables],
                          window |-> window, rows |-> rows, calls |-> calls]
          BY <2>2, Zenon DEF SeriesTyped
        <4>2. answer.cache.fits = fits /\ answer.cache.tables = tables /\ answer.calls = calls
          BY <4>1
        <4>3. PICK f, t : f = less(answer.cache.fits, k) /\ t = less(answer.cache.tables, k)
          OBVIOUS
        <4>4. CASE answer' = [answer EXCEPT !.window = NoWindow, !.rows = <<>>, !.cache.fits = f]
          BY <4>1, <4>2, <4>3, <4>4
        <4>5. CASE answer' = [answer EXCEPT !.window = NoWindow, !.rows = <<>>, !.cache.tables = t]
          BY <4>1, <4>2, <4>3, <4>5
        <4> QED  BY <3>1, <4>3, <4>4, <4>5, Zenon
      <3> QED  BY SMTT(30), <2>2, <3>2, <3>3
    <2>4. SeriesTyped'  BY <2>1, <2>2, <2>3 DEF SeriesTyped
    <2>5. answer'.rows = Schedule(NoStore, Series(answer.window)').rows
      BY <2>1, <2>2, <2>3, NothingScheduled DEF Series, SeriesTyped
    <2> QED  BY <2>1, <2>3, <2>4, <2>5 DEF SeriesInv
  <1>3. CASE Restates /\ UNCHANGED <<kind, discoveryVars>>
    <2>1. kind = "series" /\ SeriesInv  BY <1>3 DEF Restates
    <2>2. SeriesTyped /\ FitsTrue(answer.cache.fits) /\ TablesTrue(answer.cache.tables)
      BY <2>1 DEF SeriesInv
    <2>3. PICK v \in RestatedValues : given' = [given EXCEPT !.market[RestatedBar].value = v]
      BY <1>3 DEF Restates
    <2>4. /\ given' = [market |-> given'.market] /\ given'.market \in Seq(FeedBars)
          /\ Len(given'.market) = Len(given.market)
      <3> DEFINE market == given.market
                 bar    == [time |-> market[RestatedBar].time, value |-> v]
      <3>1. market \in Seq(FeedBars) /\ RestatedBar \in 1..Len(market)  BY <2>2 DEF SeriesTyped
      <3>2. bar \in FeedBars
        <4>0. v \in Int  BY <2>3, HistoriesAssumption
        <4>2. market[RestatedBar] \in FeedBars  BY <3>1
        <4> QED  BY <4>0, <4>2 DEF FeedBars
      <3>3. market[RestatedBar] \in FeedBars  BY <3>1
      <3>4. [market[RestatedBar] EXCEPT !.value = v] = bar  BY <3>3 DEF FeedBars
      <3>5. given' = [market |-> [market EXCEPT ![RestatedBar] = bar]]
        BY <2>2, <2>3, <3>4 DEF SeriesTyped
      <3> HIDE DEF bar, market
      <3>6. [market EXCEPT ![RestatedBar] = bar] \in Seq(FeedBars)
            /\ Len([market EXCEPT ![RestatedBar] = bar]) = Len(market)
        BY <3>1, <3>2
      <3> QED  BY <3>5, <3>6 DEF market
    <2>5. answer' = [answer EXCEPT !.window = NoWindow, !.rows = <<>>]  BY <1>3 DEF Restates
    <2>6. answer' = [cache |-> [fits |-> answer.cache.fits, tables |-> answer.cache.tables],
                     window |-> NoWindow, rows |-> <<>>, calls |-> answer.calls]
      <3>1. PICK fits, tables, window, rows, calls :
              answer = [cache |-> [fits |-> fits, tables |-> tables],
                        window |-> window, rows |-> rows, calls |-> calls]
        BY <2>2, Zenon DEF SeriesTyped
      <3> QED  BY <2>5, <3>1
    <2>7. SeriesTyped'  BY <2>2, <2>4, <2>6 DEF SeriesTyped
    <2>8. answer'.rows = Schedule(NoStore, Series(answer.window)').rows
      BY <2>4, <2>6, NothingScheduled DEF Series
    <2> QED  BY <2>1, <2>2, <2>4, <2>6, <2>7, <2>8 DEF SeriesInv
  <1>4. CASE UNCHANGED allVars  BY <1>4 DEF allVars, SeriesInv, SeriesTyped, Series
  <1>5. CASE kind = "universe" /\ UNCHANGED <<kind, given, answer>>  BY <1>5
  <1> QED  BY <1>1, <1>2, <1>3, <1>4, <1>5 DEF AlgorithmsNext, Shuffles, Builds, Assesses, Rolls

\* A run over a stretch of history reads what a run without any cache would
\* compute (regime/hmm/context.py compute_series with its two caches).
THEOREM CacheIsTransparent == AlgorithmsSpec => []CacheTransparent
  <1>1. AlgorithmsInit => SeriesInv
    <2> SUFFICES ASSUME AlgorithmsInit, kind = "series"  PROVE SeriesInv  BY DEF SeriesInv
    <2>1. PICK h \in Histories : given = [market |-> h]  BY DEF AlgorithmsInit
    <2>2. answer = [cache |-> EmptyCache, window |-> NoWindow, rows |-> <<>>, calls |-> 0]
      BY DEF AlgorithmsInit
    <2>3. h \in Seq(FeedBars) /\ RestatedBar \in 1..Len(h) /\ \A w \in Stretches : w.to <= Len(h)
      BY HistoriesAssumption DEF FeedBars
    <2>4. FitsTrue(EmptyCache.fits) /\ TablesTrue(EmptyCache.tables)
      BY DEF FitsTrue, TablesTrue, EmptyCache
    <2>5. SeriesTyped  BY <2>1, <2>2, <2>3 DEF SeriesTyped, EmptyCache
    <2>6. answer.rows = Schedule(NoStore, Series(answer.window)).rows
      BY <2>1, <2>2, <2>3, NothingScheduled DEF Series
    <2> QED  BY <2>1, <2>2, <2>3, <2>4, <2>5, <2>6 DEF SeriesInv
  <1>2. SeriesInv /\ [AlgorithmsNext]_allVars => SeriesInv'  BY SeriesStep DEF SeriesInv
  <1>3. SeriesInv => CacheTransparent  BY DEF SeriesInv, CacheTransparent
  <1> QED  BY <1>1, <1>2, <1>3, PTL DEF AlgorithmsSpec

-----------------------------------------------------------------------------
(* The rolling context. *)

\* Without a store an assessment has the parts it has here.
LEMMA BareAssess ==
  ASSUME NEW model, NEW bs
  PROVE  AssessRegime(model, NoStore, bs) =
           LET obs   == Observations(bs)
               fits  == /\ model = NoModel \/ BarsSinceFit(bs, model) >= Refit
                        /\ obs \notin Unfittable
               after == IF fits THEN [on |-> obs, through |-> Last(bs).time] ELSE model
           IN  IF obs = <<>> THEN [model |-> model, store |-> NoStore, row |-> NoRow]
               ELSE [model |-> after, store |-> NoStore,
                     row |-> IF after = NoModel THEN NoRow ELSE <<after.on, obs>>]
  <1> DEFINE obs    == Observations(bs)
             fresh  == [on |-> obs, through |-> Last(bs).time]
             loaded == LoadFit(NoStore, obs, Last(bs).time)
             due    == model = NoModel \/ BarsSinceFit(bs, model) >= Refit
             fits1  == due /\ loaded = NoModel /\ obs \notin Unfittable
             fits2  == due /\ obs \notin Unfittable
             after1 == IF fits1 THEN fresh ELSE IF due /\ loaded # NoModel THEN loaded ELSE model
             after2 == IF fits2 THEN fresh ELSE model
  <1>1. loaded = NoModel /\ StoreFit(NoStore, obs, fresh) = NoStore
    BY DEF LoadFit, StoreFit, NoStore
  <1>2. AssessRegime(model, NoStore, bs) =
          IF obs = <<>> THEN [model |-> model, store |-> NoStore, row |-> NoRow]
          ELSE [model |-> after1,
                store |-> IF fits1 THEN StoreFit(NoStore, obs, fresh) ELSE NoStore,
                row |-> IF after1 = NoModel THEN NoRow ELSE <<after1.on, obs>>]
    BY DEF AssessRegime
  <1>3. after1 = after2
    <2> HIDE DEF due, loaded, fresh, obs
    <2> QED  BY <1>1
  <1> HIDE DEF after1, loaded, fits1, fresh, obs
  <1>4. AssessRegime(model, NoStore, bs) =
          IF obs = <<>> THEN [model |-> model, store |-> NoStore, row |-> NoRow]
          ELSE [model |-> after2, store |-> NoStore,
                row |-> IF after2 = NoModel THEN NoRow ELSE <<after2.on, obs>>]
    BY <1>1, <1>2, <1>3
  <1> QED  BY <1>4 DEF fresh, obs

\* The bars at hand say as much of the newest one as the whole history does.
FirstAt(k) == IF k > RollingBars THEN k - RollingBars + 1 ELSE 1
Window(market, k) == SubSeq(market, FirstAt(k), k)

LEMMA WindowIs ==
  ASSUME NEW market \in Seq(FeedBars), NEW k \in 1..Len(market)
  PROVE  /\ FirstAt(k) \in 1..k
         /\ Window(market, k) \in Seq(FeedBars) /\ Len(Window(market, k)) = k - FirstAt(k) + 1
         /\ \A i \in 1..(k - FirstAt(k) + 1) : Window(market, k)[i] = market[FirstAt(k) + i - 1]
         /\ SubSeq(market, 1, k) \in Seq(FeedBars) /\ Len(SubSeq(market, 1, k)) = k
         /\ \A i \in 1..k : SubSeq(market, 1, k)[i] = market[i]
  <1> DEFINE from == FirstAt(k)
  <1>1. RollingBars \in Nat /\ RollingBars >= 1
    BY HistoriesAssumption, RollingAssumption, HmmAssumption DEF Lookback
  <1>2. from \in 1..k  BY <1>1 DEF FirstAt
  <1>3. \A i \in 1..k : market[i] \in FeedBars  OBVIOUS
  <1>4. /\ SubSeq(market, from, k) \in Seq(FeedBars) /\ Len(SubSeq(market, from, k)) = k - from + 1
        /\ \A i \in 1..(k - from + 1) : SubSeq(market, from, k)[i] = market[from + i - 1]
    BY <1>2, <1>3, SubSeqProperties
  <1>5. /\ SubSeq(market, 1, k) \in Seq(FeedBars) /\ Len(SubSeq(market, 1, k)) = k
        /\ \A i \in 1..k : SubSeq(market, 1, k)[i] = market[1 + i - 1]
    BY <1>3, SubSeqProperties
  <1>6. \A i \in 1..k : market[1 + i - 1] = market[i]  OBVIOUS
  <1> QED  BY <1>2, <1>4, <1>5, <1>6 DEF Window

LEMMA SameObservations ==
  ASSUME NEW market \in Seq(FeedBars), NEW k \in 1..Len(market)
  PROVE  Observations(Window(market, k)) = Observations(SubSeq(market, 1, k))
  <1> DEFINE from == FirstAt(k)
             w == Window(market, k)
             v == SubSeq(market, 1, k)
  <1>1. Lookback \in Nat \ {0} /\ Lookback <= RollingBars /\ RollingBars \in Nat
    BY HmmAssumption, HistoriesAssumption, RollingAssumption DEF Lookback
  <1>2. /\ from \in 1..k /\ Len(w) = k - from + 1 /\ Len(v) = k
        /\ \A i \in 1..(k - from + 1) : w[i] = market[from + i - 1]
        /\ \A i \in 1..k : v[i] = market[i]
    BY WindowIs
  <1>3. Len(w) < Lookback <=> Len(v) < Lookback  BY <1>1, <1>2 DEF FirstAt
  <1> DEFINE recent(bs) == [i \in 1..Lookback |-> bs[Len(bs) - Lookback + i].value]
  <1>4. ~(Len(v) < Lookback) => recent(w) = recent(v)
    <2> SUFFICES ASSUME ~(Len(v) < Lookback), NEW i \in 1..Lookback
                 PROVE  w[Len(w) - Lookback + i] = v[Len(v) - Lookback + i]
      OBVIOUS
    <2> DEFINE a == Len(w) - Lookback + i
               b == Len(v) - Lookback + i
    <2>1. a \in 1..(k - from + 1) /\ b \in 1..k /\ from + a - 1 = b  BY <1>1, <1>2, <1>3
    <2> HIDE DEF a, b, w, v
    <2> QED  BY <1>2, <2>1 DEF a, b
  <1> HIDE DEF w, v
  <1>5. /\ Observations(w) = IF Len(w) < Lookback \/ \E i \in 1..Lookback : recent(w)[i] <= 0
                             THEN <<>> ELSE recent(w)
        /\ Observations(v) = IF Len(v) < Lookback \/ \E i \in 1..Lookback : recent(v)[i] <= 0
                             THEN <<>> ELSE recent(v)
    BY Zenon DEF Observations
  <1> HIDE DEF recent
  <1>6. Observations(w) = Observations(v)  BY <1>3, <1>4, <1>5
  <1> QED  BY <1>6 DEF w, v

LEMMA SameRefits ==
  ASSUME NEW market \in Seq(FeedBars), InOrder(market), NEW k \in 1..Len(market),
         NEW model, model.through \in Nat, Refit <= RollingBars
  PROVE  BarsSinceFit(Window(market, k), model) >= Refit
           <=> BarsSinceFit(SubSeq(market, 1, k), model) >= Refit
  <1> DEFINE w == Window(market, k)
             v == SubSeq(market, 1, k)
             from == FirstAt(k)
             size == k - from + 1
             A == {i \in 1..k : market[i].time > model.through}
             B == {i \in 1..size : market[from + i - 1].time > model.through}
             C == A \cap (from..k)
  <1>1. RollingBars \in Nat /\ RollingBars >= 1 /\ Refit \in Nat /\ Refit <= RollingBars
    BY HistoriesAssumption, RollingAssumption, HmmAssumption DEF Lookback
  <1>2. /\ from \in 1..k /\ Len(w) = size /\ Len(v) = k
        /\ \A i \in 1..size : w[i] = market[from + i - 1]
        /\ \A i \in 1..k : v[i] = market[i]
    BY WindowIs
  <1>3. size \in Nat /\ (from = 1 \/ size = RollingBars)  BY <1>1, <1>2 DEF FirstAt
  <1> HIDE DEF w, v
  <1>4. BarsSinceFit(w, model) = Cardinality(B) /\ BarsSinceFit(v, model) = Cardinality(A)
    <2>1. {i \in 1..Len(w) : w[i].time > model.through} = B  BY <1>2
    <2>2. {i \in 1..Len(v) : v[i].time > model.through} = A  BY <1>2
    <2> QED  BY <2>1, <2>2 DEF BarsSinceFit
  <1>5. IsFiniteSet(A) /\ IsFiniteSet(B) /\ IsFiniteSet(C)
    <2>1. IsFiniteSet(1..k) /\ IsFiniteSet(1..size)  BY <1>3, FS_Interval
    <2> QED  BY <2>1, FS_Subset
  <1> HIDE DEF size, from
  <1>6. Cardinality(B) = Cardinality(C)
    <2> DEFINE f == [i \in B |-> from + i - 1]
    <2>1. f \in [B -> C]  BY <1>2 DEF size
    <2>2. \A i, j \in B : f[i] = f[j] => i = j  BY <1>2
    <2>3. ASSUME NEW c \in C  PROVE \E i \in B : f[i] = c
      <3>1. c - from + 1 \in 1..size /\ from + (c - from + 1) - 1 = c  BY <1>2 DEF size
      <3>2. c - from + 1 \in B  BY <3>1
      <3> QED  BY <3>1, <3>2
    <2> HIDE DEF f, B, C
    <2> QED  BY <1>5, <2>1, <2>2, <2>3, SameSize
  <1>7. Cardinality(C) \in Nat /\ Cardinality(A) \in Nat /\ Cardinality(C) <= Cardinality(A)
    <2> HIDE DEF A
    <2> QED  BY <1>5, FS_Subset, FS_CardinalityType
  <1>8. ASSUME Cardinality(A) >= Refit  PROVE Cardinality(C) >= Refit
    <2>1. CASE A = C  BY <1>8, <2>1
    <2>2. CASE A # C
      <3>1. PICK a \in A : a < from  BY <1>2, <2>2
      <3>2. from..k \subseteq A
        <4> SUFFICES ASSUME NEW i \in from..k  PROVE market[i].time > model.through  BY <1>2
        <4>1. a \in 1..Len(market) /\ i \in 1..Len(market) /\ a < i /\ market[a].time > model.through
          BY <1>2, <3>1
        <4>2. market[a].time < market[i].time  BY <4>1 DEF InOrder
        <4>3. market[a] \in FeedBars /\ market[i] \in FeedBars  BY <4>1
        <4> QED  BY SMTT(30), <4>1, <4>2, <4>3 DEF FeedBars
      <3>3. C = from..k  BY <3>2
      <3>4. from # 1  BY <3>1
      <3>5. Cardinality(C) = size
        <4>1. Cardinality(from..k) = k - from + 1  BY <1>2, FS_Interval
        <4> QED  BY <3>3, <4>1 DEF size
      <3> QED  BY <1>1, <1>3, <3>4, <3>5
    <2> QED  BY <2>1, <2>2
  <1> HIDE DEF A, B, C
  <1>9. Cardinality(B) >= Refit <=> Cardinality(A) >= Refit  BY <1>1, <1>6, <1>7, <1>8
  <1> QED  BY <1>4, <1>9 DEF w, v

LEMMA NewestAtHand ==
  ASSUME NEW market \in Seq(FeedBars), NEW k \in 1..Len(market)
  PROVE  Last(Window(market, k)) = market[k] /\ Window(market, k) # <<>>
  <1> DEFINE w    == Window(market, k)
             from == FirstAt(k)
  <1>1. /\ from \in 1..k /\ Len(w) = k - from + 1
        /\ \A i \in 1..(k - from + 1) : w[i] = market[from + i - 1]
    BY WindowIs
  <1> HIDE DEF w, from
  <1>2. Len(w) \in 1..(k - from + 1) /\ from + Len(w) - 1 = k  BY <1>1
  <1>3. Last(w) = market[k] /\ w # <<>>  BY <1>1, <1>2 DEF Last
  <1> QED  BY <1>3 DEF w

\* The bars since a fit, counted on the whole history.
LEMMA AgeIs ==
  ASSUME NEW market \in Seq(FeedBars), InOrder(market), NEW k \in 1..Len(market), NEW f \in 1..k,
         NEW model, model.through = market[f].time
  PROVE  BarsSinceFit(SubSeq(market, 1, k), model) = k - f
  <1> DEFINE v == SubSeq(market, 1, k)
  <1>1. Len(v) = k /\ \A i \in 1..k : v[i] = market[i]  BY WindowIs
  <1>2. \A i \in 1..k : market[i].time > market[f].time <=> i > f
    <2> SUFFICES ASSUME NEW i \in 1..k  PROVE market[i].time > market[f].time <=> i > f  OBVIOUS
    <2>1. i \in 1..Len(market) /\ f \in 1..Len(market)  OBVIOUS
    <2>2. market[i] \in FeedBars /\ market[f] \in FeedBars  BY <2>1
    <2>3. market[i].time \in Nat /\ market[f].time \in Nat  BY <2>2 DEF FeedBars
    <2>4. /\ i < f => market[i].time < market[f].time
          /\ f < i => market[f].time < market[i].time
      BY <2>1 DEF InOrder
    <2> QED  BY <2>3, <2>4
  <1> HIDE DEF v
  <1>3. {i \in 1..Len(v) : v[i].time > model.through} = (f + 1)..k  BY <1>1, <1>2
  <1>4. Cardinality((f + 1)..k) = k - f
    <2>1. PICK a \in Int : a = f + 1  OBVIOUS
    <2>2. Cardinality(a..k) = IF a > k THEN 0 ELSE k - a + 1  BY FS_Interval
    <2> QED  BY <2>1, <2>2
  <1> QED  BY <1>3, <1>4 DEF BarsSinceFit, v

-----------------------------------------------------------------------------
\* What the history up to a bar is to the detector.
SeenAt(market, k) == Observations(SubSeq(market, 1, k))

\* No bar asked at has had an answer.
Unheard(market, asked, context) ==
  /\ context = [model |-> NoModel, last |-> 0, row |-> NoRow]
  /\ \A k \in asked : SeenAt(market, k) = <<>> \/ SeenAt(market, k) \in Unfittable

\* The context has the answer of bar k, by the model fitted at bar f.
Told(market, asked, context, f, k) ==
  /\ f \in asked /\ k \in asked /\ f <= k
  /\ context = [model |-> [on |-> SeenAt(market, f), through |-> market[f].time],
                last |-> market[k].time, row |-> <<SeenAt(market, f), SeenAt(market, k)>>]
  /\ SeenAt(market, f) \notin Unfittable /\ SeenAt(market, f) # <<>>
  /\ \A j \in asked : j > k =>
       SeenAt(market, j) = <<>> \/ market[j].time - market[k].time < Interval
  /\ Refit <= RollingBars => k - f < Refit \/ SeenAt(market, k) \in Unfittable

RollingInv ==
  kind = "rolling" =>
    /\ given.market \in Seq(FeedBars) /\ InOrder(given.market)
    /\ answer.asked \subseteq 1..Len(given.market)
    /\ \/ Unheard(given.market, answer.asked, answer.context)
       \/ \E f, k \in answer.asked : Told(given.market, answer.asked, answer.context, f, k)

\* One call with the bars at hand.
LEMMA LatestIs ==
  ASSUME NEW market \in Seq(FeedBars), NEW k \in 1..Len(market), NEW context
  PROVE  LET obs   == SeenAt(market, k)
             now   == market[k].time
             fits  == /\ context.model = NoModel
                           \/ BarsSinceFit(Window(market, k), context.model) >= Refit
                      /\ obs \notin Unfittable
             after == IF fits THEN [on |-> obs, through |-> now] ELSE context.model
         IN  Latest(context, Window(market, k)) =
               IF ~Due(context.last, now) THEN context
               ELSE IF obs = <<>> \/ after = NoModel
                    THEN [model |-> IF obs = <<>> THEN context.model ELSE after,
                          last |-> context.last, row |-> context.row]
                    ELSE [model |-> after, last |-> now, row |-> <<after.on, obs>>]
  <1> DEFINE w     == Window(market, k)
             obs   == SeenAt(market, k)
             now   == market[k].time
             fits  == /\ context.model = NoModel \/ BarsSinceFit(w, context.model) >= Refit
                      /\ obs \notin Unfittable
             after == IF fits THEN [on |-> obs, through |-> now] ELSE context.model
             asked == AssessRegime(context.model, NoStore, w)
  <1>1. Last(w) = market[k] /\ w # <<>>  BY NewestAtHand
  <1>2. Observations(w) = obs  BY SameObservations DEF SeenAt
  <1> HIDE DEF w, obs
  <1>3. asked = IF obs = <<>> THEN [model |-> context.model, store |-> NoStore, row |-> NoRow]
                ELSE [model |-> after, store |-> NoStore,
                      row |-> IF after = NoModel THEN NoRow ELSE <<after.on, obs>>]
    BY <1>1, <1>2, BareAssess
  <1>4. Latest(context, w) =
          IF w = <<>> \/ ~Due(context.last, Last(w).time) THEN context
          ELSE [model |-> asked.model, last |-> IF asked.row = NoRow THEN context.last ELSE Last(w).time,
                row |-> IF asked.row = NoRow THEN context.row ELSE asked.row]
    BY Zenon DEF Latest
  <1> HIDE DEF asked, after, fits
  <1>5. <<after.on, obs>> # NoRow  BY DEF NoRow
  <1>6. /\ asked.model = IF obs = <<>> THEN context.model ELSE after
        /\ asked.row = IF obs = <<>> \/ after = NoModel THEN NoRow ELSE <<after.on, obs>>
    BY <1>3
  <1>7. Latest(context, w) =
          IF ~Due(context.last, now) THEN context
          ELSE IF obs = <<>> \/ after = NoModel
               THEN [model |-> IF obs = <<>> THEN context.model ELSE after,
                     last |-> context.last, row |-> context.row]
               ELSE [model |-> after, last |-> now, row |-> <<after.on, obs>>]
    BY <1>1, <1>4, <1>5, <1>6
  <1> QED  BY <1>7 DEF w, obs, after, fits

LEMMA UnheardStep ==
  ASSUME NEW market \in Seq(FeedBars), NEW k \in 1..Len(market),
         NEW asked \in SUBSET (1..Len(market)), \A j \in asked : j < k,
         NEW context, Unheard(market, asked, context),
         NEW after, after = Latest(context, Window(market, k))
  PROVE  \/ Unheard(market, asked \cup {k}, after)
         \/ Told(market, asked \cup {k}, after, k, k)
  <1> DEFINE obs == SeenAt(market, k)
             now == market[k].time
             fresh == [on |-> obs, through |-> now]
  <1>1. /\ context.model = NoModel /\ context.last = 0 /\ context.row = NoRow
        /\ context = [model |-> NoModel, last |-> 0, row |-> NoRow]
        /\ \A j \in asked : SeenAt(market, j) = <<>> \/ SeenAt(market, j) \in Unfittable
    BY DEF Unheard
  <1>2. Due(context.last, now)  BY <1>1 DEF Due
  <1> HIDE DEF obs, now
  <1>3. CASE obs = <<>> \/ obs \in Unfittable
    <2>1. after = [model |-> NoModel, last |-> 0, row |-> NoRow]
      BY <1>1, <1>2, <1>3, LatestIs DEF obs, now
    <2> QED  BY <1>1, <1>3, <2>1 DEF Unheard, obs
  <1>4. CASE obs # <<>> /\ obs \notin Unfittable
    <2>1. fresh # NoModel /\ fresh.on = obs  BY <1>4 DEF NoModel
    <2>2. after = [model |-> fresh, last |-> now, row |-> <<obs, obs>>]
      BY <1>1, <1>2, <1>4, <2>1, LatestIs DEF obs, now
    <2>3. k <= k /\ k - k < Refit  BY HmmAssumption
    <2>4. \A j \in asked \cup {k} : ~(j > k)  OBVIOUS
    <2> QED  BY <1>4, <2>2, <2>3, <2>4 DEF Told, obs, now
  <1> QED  BY <1>3, <1>4

LEMMA ToldStep ==
  ASSUME NEW market \in Seq(FeedBars), InOrder(market), NEW k \in 1..Len(market),
         NEW asked \in SUBSET (1..Len(market)), \A j \in asked : j < k,
         NEW context, NEW f, NEW e, Told(market, asked, context, f, e),
         NEW after, after = Latest(context, Window(market, k))
  PROVE  \E g, h \in asked \cup {k} : Told(market, asked \cup {k}, after, g, h)
  <1> DEFINE obs   == SeenAt(market, k)
             now   == market[k].time
             old   == [on |-> SeenAt(market, f), through |-> market[f].time]
             fresh == [on |-> obs, through |-> now]
             fits  == /\ BarsSinceFit(Window(market, k), old) >= Refit
                      /\ obs \notin Unfittable
  <1>1. /\ f \in asked /\ e \in asked /\ f <= e /\ e < k /\ f \in 1..k
        /\ context.model = old /\ context.last = market[e].time
        /\ context.row = <<SeenAt(market, f), SeenAt(market, e)>>
        /\ context = [model |-> context.model, last |-> context.last, row |-> context.row]
        /\ SeenAt(market, f) \notin Unfittable /\ SeenAt(market, f) # <<>>
    BY DEF Told
  <1>2. old # NoModel  BY <1>1 DEF NoModel
  <1>3. now \in Nat /\ market[f].time \in Nat
    <2>1. market[k] \in FeedBars /\ market[f] \in FeedBars  BY <1>1
    <2> QED  BY <2>1 DEF FeedBars
  <1>4. \A j \in asked \cup {k} : ~(j > k)  OBVIOUS
  <1> HIDE DEF obs, now, old
  <1>5. CASE ~Due(context.last, now)
    <2>1. after = context  BY <1>5, LatestIs DEF now
    <2>2. now - market[e].time < Interval
      <3>1. market[e] \in FeedBars  BY <1>1
      <3>2. market[e].time \in Nat  BY <3>1 DEF FeedBars
      <3> QED  BY <1>1, <1>3, <1>5, <3>2, HmmAssumption DEF Due
    <2>3. Told(market, asked \cup {k}, after, f, e)  BY <2>1, <2>2 DEF Told, now
    <2> QED  BY <1>1, <2>3
  <1>6. CASE Due(context.last, now) /\ obs = <<>>
    <2>1. after = context  BY <1>1, <1>6, LatestIs DEF obs, now
    <2>2. \A j \in asked \cup {k} : j > e =>
             SeenAt(market, j) = <<>> \/ market[j].time - market[e].time < Interval
      <3>1. SeenAt(market, k) = <<>>  BY <1>6 DEF obs
      <3> QED  BY <3>1 DEF Told
    <2>3. Told(market, asked \cup {k}, after, f, e)  BY <2>1, <2>2 DEF Told
    <2> QED  BY <1>1, <2>3
  <1>7. CASE Due(context.last, now) /\ obs # <<>> /\ fits
    <2>1. fresh # NoModel /\ fresh.on = obs  BY <1>7 DEF NoModel
    <2>2. after = [model |-> fresh, last |-> now, row |-> <<obs, obs>>]
      <3> HIDE DEF fresh
      <3> QED  BY <1>1, <1>7, <2>1, LatestIs DEF obs, now, fresh
    <2>3. k <= k /\ k - k < Refit  BY HmmAssumption
    <2>4. Told(market, asked \cup {k}, after, k, k)  BY <1>4, <1>7, <2>2, <2>3 DEF Told, obs, now
    <2> QED  BY <2>4
  <1>8. CASE Due(context.last, now) /\ obs # <<>> /\ ~fits
    <2>1. after = [model |-> old, last |-> now, row |-> <<SeenAt(market, f), obs>>]
      <3>1. old.on = SeenAt(market, f)  BY DEF old
      <3> QED  BY <1>1, <1>2, <1>8, <3>1, LatestIs DEF obs, now
    <2>2. Refit <= RollingBars => k - f < Refit \/ obs \in Unfittable
      <3> SUFFICES ASSUME Refit <= RollingBars, obs \notin Unfittable  PROVE k - f < Refit  OBVIOUS
      <3>1. old.through = market[f].time  BY DEF old
      <3>2. ~(BarsSinceFit(Window(market, k), old) >= Refit)  BY <1>8
      <3>3. ~(BarsSinceFit(SubSeq(market, 1, k), old) >= Refit)  BY <1>3, <3>1, <3>2, SameRefits
      <3>4. BarsSinceFit(SubSeq(market, 1, k), old) = k - f  BY <1>1, <3>1, AgeIs
      <3> QED  BY <1>1, <3>3, <3>4, HmmAssumption
    <2>3. f <= k  BY <1>1
    <2>4. Told(market, asked \cup {k}, after, f, k)  BY <1>1, <1>4, <2>1, <2>2, <2>3 DEF Told, old, obs, now
    <2> QED  BY <1>1, <2>4
  <1> QED  BY <1>5, <1>6, <1>7, <1>8

LEMMA RollingStep ==
  ASSUME RollingInv, [AlgorithmsNext]_allVars, kind' = "rolling"
  PROVE  RollingInv'
  <1>1. CASE Rolls /\ UNCHANGED <<kind, discoveryVars>>
    <2> DEFINE market == given.market
               asked  == answer.asked
    <2>1. kind = "rolling" /\ given' = given  BY <1>1 DEF Rolls
    <2>2. PICK k \in 1..Len(market) :
            /\ \A j \in asked : j < k
            /\ answer' = [asked |-> asked \cup {k}, context |-> Latest(answer.context, Window(market, k))]
      BY <1>1 DEF Rolls, AtHand, Window, FirstAt
    <2>3. /\ market \in Seq(FeedBars) /\ InOrder(market) /\ asked \in SUBSET (1..Len(market))
          /\ \/ Unheard(market, asked, answer.context)
             \/ \E f, e \in asked : Told(market, asked, answer.context, f, e)
      BY <2>1 DEF RollingInv
    <2>4. answer'.asked = asked \cup {k} /\ answer'.context = Latest(answer.context, Window(market, k))
      BY <2>2
    <2> DEFINE more  == asked \cup {k}
               after == Latest(answer.context, Window(market, k))
    <2> HIDE DEF market, asked
    <2>5. Unheard(market, more, after) \/ \E g, h \in more : Told(market, more, after, g, h)
      <3>1. CASE Unheard(market, asked, answer.context)  BY <2>2, <2>3, <3>1, UnheardStep
      <3>2. CASE \E f, e \in asked : Told(market, asked, answer.context, f, e)
        BY <2>2, <2>3, <3>2, ToldStep
      <3> QED  BY <2>3, <3>1, <3>2
    <2>6. more \subseteq 1..Len(market)  BY <2>2, <2>3
    <2>7. given'.market = market /\ answer'.asked = more /\ answer'.context = after
      BY <2>1, <2>4 DEF market
    <2> HIDE DEF more, after
    <2>8. \/ Unheard(given'.market, answer'.asked, answer'.context)
          \/ \E g, h \in answer'.asked : Told(given'.market, answer'.asked, answer'.context, g, h)
      BY <2>5, <2>7
    <2> QED  BY <2>3, <2>6, <2>7, <2>8 DEF RollingInv, Unheard, Told, SeenAt
  <1>2. CASE UNCHANGED allVars  BY <1>2 DEF allVars, RollingInv, Unheard, Told, SeenAt
  <1>3. CASE kind = "universe" /\ UNCHANGED <<kind, given, answer>>  BY <1>3
  <1> QED  BY <1>1, <1>2, <1>3 DEF AlgorithmsNext, Shuffles, Builds, Assesses, Prepares, Evicts, Restates

\* The feature the live engine trades on is of the newest bar it asked at, or
\* less than an interval old, by a model that is not older than a refit allows,
\* wherever the process started and whichever bars it skipped, and it looks at
\* no later bar (regime/hmm/context.py latest, regime/hmm/detector.py assess).
THEOREM RollingIsCurrent == AlgorithmsSpec => []RollingCurrent
  <1>1. AlgorithmsInit => RollingInv
    <2> SUFFICES ASSUME AlgorithmsInit, kind = "rolling"  PROVE RollingInv  BY DEF RollingInv
    <2>1. PICK h \in Histories : given = [market |-> h]  BY DEF AlgorithmsInit
    <2>2. answer = [asked |-> {}, context |-> Unstarted]  BY DEF AlgorithmsInit
    <2>3. h \in Seq(FeedBars) /\ InOrder(h)  BY HistoriesAssumption DEF FeedBars
    <2>4. Unheard(h, {}, Unstarted)  BY DEF Unheard, Unstarted
    <2> QED  BY <2>1, <2>2, <2>3, <2>4 DEF RollingInv
  <1>2. RollingInv /\ [AlgorithmsNext]_allVars => RollingInv'  BY RollingStep DEF RollingInv
  <1>3. RollingInv => RollingCurrent
    <2> SUFFICES ASSUME RollingInv, kind = "rolling"  PROVE RollingCurrent  BY DEF RollingCurrent
    <2>1. CASE Unheard(given.market, answer.asked, answer.context)
      <3>1. answer.context.row = NoRow  BY <2>1 DEF Unheard
      <3> QED  BY <2>1, <3>1 DEF RollingCurrent, Unheard, SeenAt, ObservedAt
    <2>2. CASE \E f, k \in answer.asked : Told(given.market, answer.asked, answer.context, f, k)
      <3>1. PICK f, k \in answer.asked : Told(given.market, answer.asked, answer.context, f, k)
        BY <2>2
      <3>2. answer.context.row = <<ObservedAt(f), ObservedAt(k)>>  BY <3>1 DEF Told, SeenAt, ObservedAt
      <3>3. answer.context.row # NoRow  BY <3>2 DEF NoRow
      <3> QED  BY <3>1, <3>2, <3>3 DEF RollingCurrent, Told, SeenAt, ObservedAt
    <2> QED  BY <2>1, <2>2 DEF RollingInv
  <1> QED  BY <1>1, <1>2, <1>3, PTL DEF AlgorithmsSpec

-----------------------------------------------------------------------------
(* Sums over finite sets, in any order. *)

\* c sums up f over each subset of S, taking out any element.
Adds(c, f, S) ==
  /\ c \in [SUBSET S -> Int] /\ c[{}] = 0
  /\ \A T \in SUBSET S : \A x \in T : c[T] = c[T \ {x}] + f[x]

\* One function sums up every subset.
LEMMA SumsAre ==
  ASSUME NEW S, IsFiniteSet(S), NEW f, \A x \in S : f[x] \in Int
  PROVE  \E c : Adds(c, f, S) /\ \A T \in SUBSET S : SumFunction([x \in T |-> f[x]]) = c[T]
  <1>0. PICK times : times = FALSE  OBVIOUS
  <1>1. PICK acc : Folded(acc, f, S, times)  BY FoldedExists
  <1>2. \A T \in SUBSET S : IsFiniteSet(T)  BY FS_Subset
  <1> DEFINE P == {T \in SUBSET S : acc[T] \in Int /\ \A x \in T : acc[T] = acc[T \ {x}] + f[x]}
  <1>3. ASSUME NEW T \in SUBSET S, \A U \in SUBSET T : U # T => U \in P
        PROVE  T \in P
    <2>1. CASE T = {}  BY <1>0, <1>1, <2>1, FoldedStep DEF Neutral
    <2>2. CASE T # {}
      <3>1. PICK y \in T : acc[T] = f[y] + acc[T \ {y}]
        <4>1. \E y \in T : acc[T] = Combined(times, f[y], acc[T \ {y}])
          <5> HIDE DEF P
          <5> QED  BY <1>1, <2>2, FoldedStep
        <4> QED  BY <1>0, <4>1 DEF Combined
      <3>2. T \ {y} \in P /\ f[y] \in Int  BY <1>3, <3>1
      <3>3. acc[T] \in Int  BY <3>1, <3>2
      <3>4. ASSUME NEW x \in T, x # y  PROVE acc[T] = acc[T \ {x}] + f[x]
        <4> DEFINE U == (T \ {y}) \ {x}
        <4>1. acc[T \ {y}] = acc[U] + f[x]  BY <3>2, <3>4
        <4>2. T \ {x} \in P /\ y \in T \ {x}  BY <1>3, <3>4
        <4>3. (T \ {x}) \ {y} = U  OBVIOUS
        <4>4. acc[T \ {x}] = acc[U] + f[y]  BY <4>2, <4>3
        <4>5. U \in P /\ f[x] \in Int  BY <1>3, <3>1
        <4> HIDE DEF U
        <4>6. acc[U] \in Int  BY <4>5
        <4> QED  BY <3>1, <3>2, <4>1, <4>4, <4>5, <4>6
      <3>5. ASSUME NEW x \in T  PROVE acc[T] = acc[T \ {x}] + f[x]
        <4>1. acc[T \ {y}] \in Int  BY <3>2
        <4> HIDE DEF P
        <4>2. CASE x = y  BY <3>1, <3>2, <4>1, <4>2
        <4>3. CASE x # y  BY <3>4, <4>3
        <4> QED  BY <4>2, <4>3
      <3> QED  BY <3>3, <3>5
    <2> QED  BY <2>1, <2>2
  <1>4. SUBSET S \subseteq P
    <2> HIDE DEF P
    <2> QED  BY <1>3, SubsetInduction
  <1>5. acc[{}] = 0  BY <1>0, <1>1, FoldedStep DEF Neutral
  <1>6. acc = [T \in SUBSET S |-> acc[T]]  BY <1>1 DEF Folded
  <1>7. Adds(acc, f, S)  BY <1>4, <1>5, <1>6 DEF Adds
  <1>8. ASSUME NEW T \in SUBSET S  PROVE SumFunction([x \in T |-> f[x]]) = acc[T]
    <2> DEFINE g == [x \in T |-> f[x]]
               h == CHOOSE b : Folded(b, g, T, times)
    <2>1. SumFunction(g) = h[T]
      BY <1>0 DEF SumFunction, SumFunctionOnSet, FoldFunctionOnSet, MapThenFoldSet, Folded, Neutral, Combined
    <2>2. Folded(h, g, T, times)  BY <1>2, FoldedExists
    <2>3. Folded(h, f, T, times)
      <3> HIDE DEF h
      <3>1. \A U \in SUBSET T : U # {} => g[CHOOSE x \in U : TRUE] = f[CHOOSE x \in U : TRUE]
        OBVIOUS
      <3> HIDE DEF g
      <3> QED  BY <2>2, <3>1 DEF Folded
    <2> HIDE DEF h
    <2>4. h[T] = acc[T]
      <3>1. T \subseteq S /\ T \subseteq T /\ IsFiniteSet(T)  BY <1>2
      <3> HIDE DEF P, g
      <3> QED  BY <1>1, <2>3, <3>1, FoldedOnce
    <2> QED  BY <2>1, <2>4
  <1> QED  BY <1>7, <1>8

\* The sums of functions of integers: an integer; of nothing, nothing; and any
\* element taken out.
LEMMA SumIs ==
  ASSUME NEW S, IsFiniteSet(S), NEW f \in [S -> Int]
  PROVE  /\ SumFunction(f) \in Int
         /\ S = {} => SumFunction(f) = 0
         /\ \A x \in S : SumFunction(f) = SumFunction([y \in S \ {x} |-> f[y]]) + f[x]
  <1>1. PICK c : Adds(c, f, S) /\ \A T \in SUBSET S : SumFunction([x \in T |-> f[x]]) = c[T]
    BY SumsAre
  <1>2. f = [x \in S |-> f[x]]  OBVIOUS
  <1>3. SumFunction(f) = c[S]  BY <1>1, <1>2
  <1>4. S \in SUBSET S /\ SumFunction(f) \in Int /\ (S = {} => SumFunction(f) = 0)
    BY <1>1, <1>3 DEF Adds
  <1>5. ASSUME NEW x \in S  PROVE SumFunction(f) = SumFunction([y \in S \ {x} |-> f[y]]) + f[x]
    <2>1. c[S] = c[S \ {x}] + f[x]  BY <1>1, <1>4 DEF Adds
    <2>2. SumFunction([y \in S \ {x} |-> f[y]]) = c[S \ {x}]  BY <1>1
    <2> QED  BY <1>3, <2>1, <2>2
  <1> QED  BY <1>4, <1>5

\* Two that differ in one place.
LEMMA SumChanged ==
  ASSUME NEW S, IsFiniteSet(S), NEW f \in [S -> Int], NEW g \in [S -> Int], NEW x \in S,
         \A y \in S : y # x => f[y] = g[y]
  PROVE  SumFunction(f) = SumFunction(g) + (f[x] - g[x])
  <1>1. [y \in S \ {x} |-> f[y]] = [y \in S \ {x} |-> g[y]]  OBVIOUS
  <1>2. /\ SumFunction(f) = SumFunction([y \in S \ {x} |-> f[y]]) + f[x]
        /\ SumFunction(g) = SumFunction([y \in S \ {x} |-> g[y]]) + g[x]
    BY SumIs
  <1>3. SumFunction([y \in S \ {x} |-> g[y]]) \in Int  BY FS_Subset, SumIs
  <1>4. f[x] \in Int /\ g[x] \in Int  OBVIOUS
  <1> QED  BY <1>1, <1>2, <1>3, <1>4

\* h is f and g together.
Together(h, f, g, S) ==
  /\ f \in [S -> Int] /\ g \in [S -> Int] /\ h \in [S -> Int]
  /\ \A x \in S : h[x] = f[x] + g[x]

\* A sum of two functions.
LEMMA SumAdd ==
  ASSUME NEW S, IsFiniteSet(S), NEW f, NEW g, NEW h, Together(h, f, g, S)
  PROVE  SumFunction(h) = SumFunction(f) + SumFunction(g)
  <1>0. /\ f \in [S -> Int] /\ g \in [S -> Int] /\ h \in [S -> Int]
        /\ \A x \in S : h[x] = f[x] + g[x]
    BY DEF Together
  <1>1. PICK a : Adds(a, f, S) /\ \A T \in SUBSET S : SumFunction([x \in T |-> f[x]]) = a[T]
    BY <1>0, SumsAre
  <1>2. PICK b : Adds(b, g, S) /\ \A T \in SUBSET S : SumFunction([x \in T |-> g[x]]) = b[T]
    BY <1>0, SumsAre
  <1>3. PICK c : Adds(c, h, S) /\ \A T \in SUBSET S : SumFunction([x \in T |-> h[x]]) = c[T]
    BY <1>0, SumsAre
  <1> DEFINE P == {T \in SUBSET S : c[T] = a[T] + b[T]}
  <1>4. ASSUME NEW T \in SUBSET S, \A U \in SUBSET T : U # T => U \in P
        PROVE  T \in P
    <2>1. CASE T = {}  BY <1>1, <1>2, <1>3, <2>1 DEF Adds
    <2>2. CASE T # {}
      <3>1. PICK x \in T : TRUE  BY <2>2
      <3>2. PICK U : U = T \ {x}  OBVIOUS
      <3>3. c[U] = a[U] + b[U] /\ U \in SUBSET S  BY <1>4, <3>1, <3>2
      <3>4. a[T] = a[U] + f[x] /\ b[T] = b[U] + g[x] /\ c[T] = c[U] + h[x]
        BY <1>1, <1>2, <1>3, <3>1, <3>2 DEF Adds
      <3>5. a[U] \in Int /\ b[U] \in Int /\ f[x] \in Int /\ g[x] \in Int /\ h[x] = f[x] + g[x]
        BY <1>0, <1>1, <1>2, <3>1, <3>3 DEF Adds
      <3> QED  BY <3>3, <3>4, <3>5
    <2> QED  BY <2>1, <2>2
  <1>5. SUBSET S \subseteq P
    <2> HIDE DEF P
    <2> QED  BY <1>4, SubsetInduction
  <1>6. /\ f = [x \in S |-> f[x]] /\ g = [x \in S |-> g[x]] /\ h = [x \in S |-> h[x]]  BY <1>0
  <1>7. SumFunction(f) = a[S] /\ SumFunction(g) = b[S] /\ SumFunction(h) = c[S]
    BY <1>1, <1>2, <1>3, <1>6
  <1> QED  BY <1>5, <1>7

\* m matches the sets one to one; g is f read through m.
Pairs(m, S, T) ==
  /\ m \in [S -> T] /\ \A x, y \in S : m[x] = m[y] => x = y
  /\ \A t \in T : \E x \in S : m[x] = t

Reads(g, S, f, m) == g \in [S -> Int] /\ \A x \in S : g[x] = f[m[x]]

\* A sum over matched sets.
LEMMA SumMatched ==
  ASSUME NEW S, IsFiniteSet(S), NEW T, NEW m, Pairs(m, S, T),
         NEW f \in [T -> Int], NEW g, Reads(g, S, f, m)
  PROVE  SumFunction(g) = SumFunction(f)
  <1> DEFINE image(U) == {m[x] : x \in U}
  <1>0. IsFiniteSet(T) /\ g \in [S -> Int] /\ \A x \in S : g[x] = f[m[x]]
    BY SameSize DEF Pairs, Reads
  <1>a. m \in [S -> T] /\ \A t \in T : \E x \in S : m[x] = t  BY DEF Pairs
  <1>1. PICK a : Adds(a, f, T) /\ \A U \in SUBSET T : SumFunction([x \in U |-> f[x]]) = a[U]
    BY <1>0, SumsAre
  <1>2. PICK b : Adds(b, g, S) /\ \A U \in SUBSET S : SumFunction([x \in U |-> g[x]]) = b[U]
    BY <1>0, SumsAre
  <1> DEFINE P == {U \in SUBSET S : b[U] = a[image(U)]}
  <1>3. ASSUME NEW U \in SUBSET S, \A V \in SUBSET U : V # U => V \in P
        PROVE  U \in P
    <2>1. CASE U = {}  BY <1>1, <1>2, <2>1 DEF Adds
    <2>2. CASE U # {}
      <3>1. PICK x \in U : TRUE  BY <2>2
      <3>2. PICK V : V = U \ {x}  OBVIOUS
      <3>3. b[V] = a[image(V)] /\ V \in SUBSET S  BY <1>3, <3>1, <3>2
      <3>4. b[U] = b[V] + g[x]  BY <1>2, <3>1, <3>2 DEF Adds
      <3>5. m[x] \in image(U) /\ image(U) \in SUBSET T /\ image(U) \ {m[x]} = image(V)
        BY <3>1, <3>2 DEF Pairs
      <3>6. a[image(U)] = a[image(V)] + f[m[x]]
        <4> HIDE DEF image
        <4> QED  BY <1>1, <3>5 DEF Adds
      <3> HIDE DEF image
      <3> QED  BY <1>0, <3>1, <3>3, <3>4, <3>6
    <2> QED  BY <2>1, <2>2
  <1>4. SUBSET S \subseteq P
    <2> HIDE DEF P
    <2> QED  BY <1>3, SubsetInduction
  <1>5. image(S) = T  BY <1>a
  <1>6. f = [t \in T |-> f[t]] /\ g = [x \in S |-> g[x]]  BY <1>0
  <1>7. SumFunction(g) = b[S] /\ SumFunction(f) = a[T]  BY <1>1, <1>2, <1>6
  <1>8. b[S] = a[T]  BY <1>4, <1>5
  <1> QED  BY <1>7, <1>8

\* What is zero outside a part is the sum over the part.
LEMMA SumWhere ==
  ASSUME NEW S, IsFiniteSet(S), NEW f \in [S -> Int], NEW W \in SUBSET S,
         \A x \in S : x \notin W => f[x] = 0
  PROVE  SumFunction(f) = SumFunction([x \in W |-> f[x]])
  <1>1. PICK a : Adds(a, f, S) /\ \A U \in SUBSET S : SumFunction([x \in U |-> f[x]]) = a[U]
    BY SumsAre
  <1> DEFINE P == {U \in SUBSET S : a[U] = a[U \cap W]}
  <1>2. ASSUME NEW U \in SUBSET S, \A V \in SUBSET U : V # U => V \in P
        PROVE  U \in P
    <2>1. CASE U \subseteq W  BY <2>1
    <2>2. CASE \E x \in U : x \notin W
      <3>1. PICK x \in U : x \notin W  BY <2>2
      <3>2. PICK V : V = U \ {x}  OBVIOUS
      <3>3. a[V] = a[V \cap W] /\ V \cap W = U \cap W /\ V \in SUBSET S  BY <1>2, <3>1, <3>2
      <3>4. a[U] = a[V] + 0 /\ a[V] \in Int  BY <1>1, <3>1, <3>2, <3>3 DEF Adds
      <3>5. a[U] = a[U \cap W]
        <4> PICK X : X = U \cap W  OBVIOUS
        <4>1. a[V] = a[X]  BY <3>3
        <4> QED  BY <3>4, <4>1
      <3> QED  BY <3>5
    <2> QED  BY <2>1, <2>2
  <1>3. SUBSET S \subseteq P
    <2> HIDE DEF P
    <2> QED  BY <1>2, SubsetInduction
  <1>4. S \cap W = W /\ f = [x \in S |-> f[x]]  OBVIOUS
  <1>5. a[S] = a[W]  BY <1>3, <1>4
  <1>6. SumFunction(f) = a[S]  BY <1>1, <1>4
  <1> QED  BY <1>1, <1>5, <1>6

\* The same number at each place.
LEMMA SumSame ==
  ASSUME NEW S, IsFiniteSet(S), NEW v \in Int
  PROVE  SumFunction([x \in S |-> v]) = v * Cardinality(S)
  <1> DEFINE f == [x \in S |-> v]
  <1>0. f \in [S -> Int] /\ \A x \in S : f[x] = v  OBVIOUS
  <1> HIDE DEF f
  <1>1. PICK a : Adds(a, f, S) /\ \A U \in SUBSET S : SumFunction([x \in U |-> f[x]]) = a[U]
    BY <1>0, SumsAre
  <1> DEFINE P == {U \in SUBSET S : a[U] = v * Cardinality(U)}
  <1>2. ASSUME NEW U \in SUBSET S, \A V \in SUBSET U : V # U => V \in P
        PROVE  U \in P
    <2>1. CASE U = {}  BY <1>1, <2>1, FS_EmptySet DEF Adds
    <2>2. CASE U # {}
      <3>1. PICK x \in U : TRUE  BY <2>2
      <3>2. PICK V : V = U \ {x}  OBVIOUS
      <3>3. a[V] = v * Cardinality(V) /\ V \in SUBSET S  BY <1>2, <3>1, <3>2
      <3>4. a[U] = a[V] + v  BY <1>0, <1>1, <3>1, <3>2 DEF Adds
      <3>5. IsFiniteSet(U) /\ IsFiniteSet(V)  BY <3>3, FS_Subset
      <3>6. Cardinality(V) = Cardinality(U) - 1 /\ Cardinality(U) \in Nat
        BY <3>1, <3>2, <3>5, FS_RemoveElement, FS_CardinalityType
      <3>7. PICK n \in Int : n = Cardinality(V) /\ Cardinality(U) = n + 1  BY <3>6
      <3>8. v * (n + 1) = v * n + v  BY <3>7
      <3> QED  BY <3>3, <3>4, <3>7, <3>8
    <2> QED  BY <2>1, <2>2
  <1>3. SUBSET S \subseteq P
    <2> HIDE DEF P
    <2> QED  BY <1>2, SubsetInduction
  <1>4. f = [x \in S |-> f[x]]  BY <1>0
  <1>5. SumFunction(f) = a[S]  BY <1>1, <1>4
  <1> QED  BY <1>3, <1>5 DEF f

-----------------------------------------------------------------------------
(* Sums over sequences. *)

\* One more.
LEMMA SumOneMore ==
  ASSUME NEW n \in Nat, NEW f \in [1..(n + 1) -> Int], NEW g \in [1..n -> Int],
         \A k \in 1..n : f[k] = g[k]
  PROVE  SumFunction(f) = SumFunction(g) + f[n + 1]
  <1> DEFINE S == 1..(n + 1)
  <1>1. n + 1 \in S /\ S \ {n + 1} = 1..n  OBVIOUS
  <1>2. IsFiniteSet(S)  BY FS_Interval
  <1>3. [k \in S \ {n + 1} |-> f[k]] = g  BY <1>1
  <1>4. f \in [S -> Int]  OBVIOUS
  <1> HIDE DEF S
  <1>5. SumFunction(f) = SumFunction([k \in S \ {n + 1} |-> f[k]]) + f[n + 1]
    BY ZenonT(60), <1>1, <1>2, <1>4, SumIs
  <1> QED  BY <1>3, <1>5

\* One behind the other.
LEMMA SumJoined ==
  ASSUME NEW m \in Nat, NEW n \in Nat, NEW f \in [1..(m + n) -> Int],
         NEW g \in [1..m -> Int], NEW h \in [1..n -> Int],
         \A k \in 1..m : f[k] = g[k], \A k \in 1..n : f[m + k] = h[k]
  PROVE  SumFunction(f) = SumFunction(g) + SumFunction(h)
  <1> DEFINE F(j) == [k \in 1..(m + j) |-> f[k]]
             H(j) == [k \in 1..j |-> h[k]]
             P == {j \in Nat : j <= n => SumFunction(F(j)) = SumFunction(g) + SumFunction(H(j))}
  <1>0. SumFunction(g) \in Int  BY FS_Interval, SumIs
  <1>1. 0 \in P
    <2>1. F(0) = g  OBVIOUS
    <2>2. SumFunction(H(0)) = 0
      <3>1. 1..0 = {} /\ H(0) \in [{} -> Int]  OBVIOUS
      <3> QED  BY <3>1, FS_EmptySet, SumIs
    <2> HIDE DEF F, H
    <2> QED  BY <1>0, <2>1, <2>2
  <1>2. ASSUME NEW j \in Nat, j \in P  PROVE j + 1 \in P
    <2> SUFFICES ASSUME j + 1 <= n
                 PROVE  SumFunction(F(j + 1)) = SumFunction(g) + SumFunction(H(j + 1))
      OBVIOUS
    <2>1. SumFunction(F(j)) = SumFunction(g) + SumFunction(H(j))  BY <1>2
    <2>2. SumFunction(H(j + 1)) = SumFunction(H(j)) + h[j + 1]
      <3> DEFINE a == H(j + 1)
                 b == H(j)
      <3>1. a \in [1..(j + 1) -> Int] /\ b \in [1..j -> Int] /\ (\A k \in 1..j : a[k] = b[k]) /\ a[j + 1] = h[j + 1]
        OBVIOUS
      <3> HIDE DEF a, b
      <3>2. SumFunction(a) = SumFunction(b) + a[j + 1]  BY <3>1, SumOneMore
      <3> QED  BY <3>1, <3>2 DEF a, b
    <2>3. SumFunction(F(j + 1)) = SumFunction(F(j)) + h[j + 1]
      <3> DEFINE a == F(j + 1)
                 b == F(j)
      <3>1. m + (j + 1) = (m + j) + 1 /\ m + j \in Nat /\ (m + j) + 1 \in 1..((m + j) + 1) /\ j + 1 \in 1..n
        OBVIOUS
      <3>2. /\ a \in [1..((m + j) + 1) -> Int] /\ b \in [1..(m + j) -> Int]
            /\ (\A k \in 1..(m + j) : a[k] = b[k])
        OBVIOUS
      <3>3. a[(m + j) + 1] = h[j + 1]  BY <3>1
      <3> HIDE DEF a, b
      <3>4. SumFunction(a) = SumFunction(b) + a[(m + j) + 1]  BY <3>1, <3>2, SumOneMore
      <3> QED  BY <3>3, <3>4 DEF a, b
    <2>4. SumFunction(H(j)) \in Int /\ h[j + 1] \in Int
      <3>1. H(j) \in [1..j -> Int]  OBVIOUS
      <3> HIDE DEF H
      <3>2. IsFiniteSet(1..j)  BY FS_Interval
      <3> QED  BY <3>1, <3>2, SumIs
    <2> HIDE DEF F, H
    <2> QED  BY <1>0, <2>1, <2>2, <2>3, <2>4
  <1>3. n \in P
    <2> HIDE DEF P
    <2> QED  BY <1>1, <1>2, NumberInduction
  <1>4. F(n) = f /\ H(n) = h  OBVIOUS
  <1> HIDE DEF F, H
  <1> QED  BY <1>3, <1>4

\* What running sums end at.
LEMMA SumRunning ==
  ASSUME NEW n \in Nat, NEW f \in [1..n -> Int], NEW g, g[0] = 0, \A k \in 1..n : g[k] = g[k - 1] + f[k]
  PROVE  g[n] = SumFunction(f)
  <1> DEFINE F(j) == [k \in 1..j |-> f[k]]
             P == {j \in Nat : j <= n => g[j] = SumFunction(F(j))}
  <1>1. 0 \in P
    <2>1. 1..0 = {} /\ F(0) \in [{} -> Int]  OBVIOUS
    <2>2. SumFunction(F(0)) = 0  BY <2>1, FS_EmptySet, SumIs
    <2> QED  BY <2>2
  <1>2. ASSUME NEW j \in Nat, j \in P  PROVE j + 1 \in P
    <2> SUFFICES ASSUME j + 1 <= n  PROVE g[j + 1] = SumFunction(F(j + 1))  OBVIOUS
    <2>1. g[j] = SumFunction(F(j)) /\ g[j + 1] = g[j] + f[j + 1]
      <3>1. j + 1 \in 1..n /\ (j + 1) - 1 = j  OBVIOUS
      <3>2. g[j + 1] = g[(j + 1) - 1] + f[j + 1]  BY <3>1
      <3> QED  BY <1>2, <3>1, <3>2
    <2> DEFINE a == F(j + 1)
               b == F(j)
    <2>2. a \in [1..(j + 1) -> Int] /\ b \in [1..j -> Int] /\ (\A k \in 1..j : a[k] = b[k]) /\ a[j + 1] = f[j + 1]
      OBVIOUS
    <2> HIDE DEF a, b
    <2>3. SumFunction(a) = SumFunction(b) + a[j + 1]  BY <2>2, SumOneMore
    <2> QED  BY <2>1, <2>2, <2>3 DEF a, b
  <1>3. n \in P
    <2> HIDE DEF P
    <2> QED  BY <1>1, <1>2, NumberInduction
  <1>4. F(n) = f  OBVIOUS
  <1> HIDE DEF F
  <1> QED  BY <1>3, <1>4

-----------------------------------------------------------------------------
(* The shuffle of a window. *)

\* p sums up h.
Prefix(p, h, n) ==
  /\ p \in [0..n -> Int] /\ p[0] = 0
  /\ \A k \in 1..n : p[k] = p[k - 1] + h[k]

LEMMA PrefixExists ==
  ASSUME NEW n \in Nat, NEW h \in [1..n -> Int]
  PROVE  \E p : Prefix(p, h, n)
  <1> DEFINE F(k) == [j \in 1..k |-> h[j]]
             p == [k \in 0..n |-> SumFunction(F(k))]
  <1>1. ASSUME NEW k \in 0..n  PROVE F(k) \in [1..k -> Int] /\ IsFiniteSet(1..k)  BY FS_Interval
  <1>2. ASSUME NEW k \in 0..n  PROVE SumFunction(F(k)) \in Int /\ (1..k = {} => SumFunction(F(k)) = 0)
    <2> HIDE DEF F
    <2> QED  BY <1>1, SumIs
  <1>3. ASSUME NEW k \in 1..n  PROVE SumFunction(F(k)) = SumFunction(F(k - 1)) + h[k]
    <2> DEFINE a == F(k)
               b == F(k - 1)
    <2>1. /\ a \in [1..((k - 1) + 1) -> Int] /\ b \in [1..(k - 1) -> Int]
          /\ (\A j \in 1..(k - 1) : a[j] = b[j]) /\ a[(k - 1) + 1] = h[k] /\ k - 1 \in Nat
      OBVIOUS
    <2> HIDE DEF a, b
    <2>2. SumFunction(a) = SumFunction(b) + a[(k - 1) + 1]  BY <2>1, SumOneMore
    <2> QED  BY <2>1, <2>2 DEF a, b
  <1>4. 1..0 = {} /\ 0 \in 0..n /\ \A k \in 1..n : k \in 0..n /\ k - 1 \in 0..n  OBVIOUS
  <1>5. p \in [0..n -> Int] /\ p[0] = 0 /\ \A k \in 1..n : p[k] = p[k - 1] + h[k]
    <2> HIDE DEF F
    <2> QED  BY <1>2, <1>3, <1>4
  <1> HIDE DEF p
  <1> QED  BY <1>5 DEF Prefix

\* An order has every position.
LEMMA OrderCovers ==
  ASSUME NEW n \in Nat, NEW order \in Reorderings(n)
  PROVE  /\ order \in [1..n -> 1..n]
         /\ \A i, j \in 1..n : order[i] = order[j] => i = j
         /\ \A t \in 1..n : \E i \in 1..n : order[i] = t
  <1>1. /\ order \in [1..n -> 1..n]
        /\ \A i, j \in 1..n : order[i] = order[j] => i = j
    BY DEF Reorderings
  <1>2. order \in Injection(1..n, 1..n)  BY <1>1 DEF Injection, IsInjective
  <1>3. IsFiniteSet(1..n)  BY FS_Interval
  <1>4. order \in Surjection(1..n, 1..n)  BY <1>2, <1>3, FS_Injection
  <1> QED  BY <1>1, <1>4 DEF Surjection

Reordered(g, order, n) == [k \in 1..n |-> g[order[k]]]

\* A sum does not depend on the order.
LEMMA SumPermuted ==
  ASSUME NEW n \in Nat, NEW g \in [1..n -> Int], NEW order \in Reorderings(n),
         NEW p, Prefix(p, Reordered(g, order, n), n), NEW q, Prefix(q, g, n)
  PROVE  p[n] = q[n]
  <1>1. PICK r : r = Reordered(g, order, n)  OBVIOUS
  <1>2. /\ order \in [1..n -> 1..n] /\ \A x, y \in 1..n : order[x] = order[y] => x = y
        /\ \A t \in 1..n : \E x \in 1..n : order[x] = t
    BY OrderCovers
  <1>3. Pairs(order, 1..n, 1..n) /\ Reads(r, 1..n, g, order) /\ r \in [1..n -> Int]
    BY <1>1, <1>2 DEF Reordered, Pairs, Reads
  <1>4. SumFunction(r) = SumFunction(g)
    <2>1. IsFiniteSet(1..n)  BY FS_Interval
    <2> QED  BY <1>3, <2>1, SumMatched
  <1>5. p[n] = SumFunction(r)  BY <1>1, <1>3, SumRunning DEF Prefix
  <1>6. q[n] = SumFunction(g)  BY SumRunning DEF Prefix
  <1> QED  BY <1>4, <1>5, <1>6

-----------------------------------------------------------------------------
\* How often h has each of its values.
Counted(h, n) == [x \in {h[i] : i \in 1..n} |-> Cardinality({i \in 1..n : h[i] = x})]

\* How often does not depend on the order either.
LEMMA CountsPermuted ==
  ASSUME NEW n \in Nat, NEW h, NEW order \in Reorderings(n)
  PROVE  Counted(Reordered(h, order, n), n) = Counted(h, n)
  <1> DEFINE r == Reordered(h, order, n)
             S(x) == {i \in 1..n : r[i] = x}
             T(x) == {i \in 1..n : h[i] = x}
  <1>0. /\ order \in [1..n -> 1..n]
        /\ \A i, j \in 1..n : order[i] = order[j] => i = j
        /\ \A t \in 1..n : \E i \in 1..n : order[i] = t
    BY OrderCovers
  <1>1. \A i \in 1..n : r[i] = h[order[i]]  BY DEF Reordered
  <1> HIDE DEF r
  <1>2. {r[i] : i \in 1..n} = {h[i] : i \in 1..n}
    <2>1. ASSUME NEW i \in 1..n  PROVE \E j \in 1..n : r[i] = h[j]  BY <1>0, <1>1
    <2>2. ASSUME NEW j \in 1..n  PROVE \E i \in 1..n : h[j] = r[i]
      <3>1. PICK i \in 1..n : order[i] = j  BY <1>0
      <3> QED  BY <1>1, <3>1
    <2> QED  BY <2>1, <2>2
  <1>3. ASSUME NEW x  PROVE Cardinality(S(x)) = Cardinality(T(x))
    <2> DEFINE f == [i \in S(x) |-> order[i]]
    <2>1. IsFiniteSet(S(x))  BY FS_Interval, FS_Subset
    <2>2. f \in [S(x) -> T(x)]  BY <1>0, <1>1
    <2>3. \A i, j \in S(x) : f[i] = f[j] => i = j  BY <1>0
    <2>4. ASSUME NEW t \in T(x)  PROVE \E i \in S(x) : f[i] = t
      <3>1. PICK i \in 1..n : order[i] = t  BY <1>0
      <3>2. r[i] = h[t]  BY <1>1, <3>1
      <3>3. i \in S(x)  BY <3>2
      <3> QED  BY <3>1, <3>3
    <2> HIDE DEF f, S, T
    <2> QED  BY <2>1, <2>2, <2>3, <2>4, SameSize
  <1>4. Counted(r, n) = [x \in {r[i] : i \in 1..n} |-> Cardinality(S(x))]  BY DEF Counted
  <1>5. Counted(h, n) = [x \in {h[i] : i \in 1..n} |-> Cardinality(T(x))]  BY DEF Counted
  <1> HIDE DEF S, T
  <1> QED  BY <1>2, <1>3, <1>4, <1>5 DEF r

\* How often v has each of its values over the positions of S.
Parted(v, S) == [x \in {v[i] : i \in S} |-> Cardinality({i \in S : v[i] = x})]

\* The parts of a window, counted by their positions from its start.
LEMMA PartsCounted ==
  ASSUME NEW m \in Nat, NEW n \in Nat, NEW v, NEW h, \A i \in 1..n : v[m + i] = h[i]
  PROVE  Parted(v, (m + 1)..(m + n)) = Counted(h, n)
  <1> DEFINE S(x) == {i \in 1..n : h[i] = x}
             T(x) == {i \in (m + 1)..(m + n) : v[i] = x}
  <1>1. \A i \in (m + 1)..(m + n) : i - m \in 1..n /\ v[i] = h[i - m]
    <2> TAKE i \in (m + 1)..(m + n)
    <2>1. i - m \in 1..n /\ m + (i - m) = i  OBVIOUS
    <2> QED  BY <2>1
  <1>2. {v[i] : i \in (m + 1)..(m + n)} = {h[i] : i \in 1..n}  BY <1>1
  <1>3. ASSUME NEW x  PROVE Cardinality(T(x)) = Cardinality(S(x))
    <2> DEFINE f == [i \in S(x) |-> m + i]
    <2>1. IsFiniteSet(S(x))
      <3>1. IsFiniteSet(1..n)  BY FS_Interval
      <3> QED  BY <3>1, FS_Subset
    <2>2. f \in [S(x) -> T(x)]  OBVIOUS
    <2>3. \A i, j \in S(x) : f[i] = f[j] => i = j  OBVIOUS
    <2>4. ASSUME NEW t \in T(x)  PROVE \E i \in S(x) : f[i] = t  BY <1>1
    <2> HIDE DEF f, S, T
    <2> QED  BY <2>1, <2>2, <2>3, <2>4, SameSize
  <1> HIDE DEF S
  <1>4. Counted(h, n) = [x \in {h[i] : i \in 1..n} |-> Cardinality(S(x))]  BY DEF Counted, S
  <1>5. \A x : Cardinality({i \in (m + 1)..(m + n) : v[i] = x}) = Cardinality(S(x))  BY <1>3
  <1> QED  BY <1>2, <1>4, <1>5 DEF Parted

\* Where the window starts.
LEMMA WarmUpIs ==
  ASSUME NEW bs \in Seq(ShuffleBars), InOrder(bs), NEW start \in Int
  PROVE  /\ WarmUpBars(bs, start) \in 0..Len(bs)
         /\ WarmUpBars(bs, start) = Cardinality({i \in 1..Len(bs) : bs[i].time < start})
  <1> DEFINE S == {i \in 1..Len(bs) : bs[i].time < start}
             T == {0} \cup S
             m == WarmUpBars(bs, start)
  <1>1. PICK n \in Nat : n = Len(bs)  OBVIOUS
  <1>2. m \in T /\ \A x \in T : m >= x
    <2>1. m = Max(T)  BY DEF WarmUpBars
    <2>2. \E x \in T : \A y \in T : x >= y
      <3>1. CASE S = {}  BY <3>1
      <3>2. CASE S # {}
        <4>1. S \in SUBSET (1..n)  BY <1>1
        <4> HIDE DEF S
        <4>2. Max(S) \in S /\ \A i \in S : i <= Max(S)  BY <3>2, <4>1, MaxOf
        <4>3. PICK x \in S : \A i \in S : i <= x  BY <4>2
        <4>4. x \in 1..n /\ \A i \in S : i \in 1..n  BY <4>1
        <4>5. \A y \in T : x >= y  BY <4>3, <4>4
        <4> QED  BY <4>5
      <3> QED  BY <3>1, <3>2
    <2> HIDE DEF T, m
    <2> QED  BY <2>1, <2>2 DEF Max
  <1> HIDE DEF m
  <1>3. m \in 0..n  BY <1>1, <1>2
  <1>4. S = 1..m
    <2>1. ASSUME NEW i \in S  PROVE i \in 1..m  BY <1>1, <1>2, <1>3, <2>1
    <2>2. ASSUME NEW i \in 1..m  PROVE i \in S
      <3>1. m \in S  BY <1>2, <1>3
      <3>2. m \in 1..Len(bs) /\ i \in 1..Len(bs) /\ bs[m].time < start  BY <1>1, <1>3, <3>1
      <3>3. i = m \/ bs[i].time < bs[m].time  BY <3>2, <1>3 DEF InOrder
      <3>4. bs[i] \in ShuffleBars /\ bs[m] \in ShuffleBars  BY <3>2
      <3>5. bs[i].time \in Int /\ bs[m].time \in Int  BY <3>4 DEF ShuffleBars
      <3> QED  BY <3>2, <3>3, <3>5
    <2> HIDE DEF S
    <2> QED  BY <2>1, <2>2
  <1>5. Cardinality(1..m) = m  BY <1>3, FS_Interval
  <1> QED  BY <1>1, <1>3, <1>4, <1>5 DEF m

-----------------------------------------------------------------------------
\* What the window is taken apart into, by position from its start.
WindowGaps(bs, m, n) == [i \in 1..n |-> Gap(bs, m, m + i)]
WindowShapes(bs, m, n) == [i \in 1..n |-> Shape(bs[m + i])]
ShapeCloses(bs, m, n) == [i \in 1..n |-> Shape(bs[m + i]).close]

\* close are closes rebuilt from gaps and shapes in the orders given.
Closes(close, bs, m, n, gapOrder, shapeOrder) ==
  /\ close \in [0..n -> Int] /\ close[0] = Anchor(bs, m)
  /\ \A i \in 1..n : close[i] = close[i - 1] + Gap(bs, m, m + gapOrder[i])
                                             + Shape(bs[m + shapeOrder[i]]).close

\* A window of at least two bars, behind m bars.
IsWindow(bs, m, n) ==
  /\ bs \in Seq(ShuffleBars) /\ m \in Nat /\ n \in Nat /\ n >= 2 /\ Len(bs) = m + n

LEMMA WindowTyped ==
  ASSUME NEW bs, NEW m, NEW n, IsWindow(bs, m, n)
  PROVE  /\ WindowGaps(bs, m, n) \in [1..n -> Int]
         /\ ShapeCloses(bs, m, n) \in [1..n -> Int]
         /\ Anchor(bs, m) \in Int
         /\ \A i \in 1..n : m + i \in 1..Len(bs) /\ bs[m + i] \in ShuffleBars
  <1>1. \A i \in 1..Len(bs) :
          /\ bs[i] \in ShuffleBars /\ bs[i].open \in Int /\ bs[i].close \in Int
    <2> TAKE i \in 1..Len(bs)
    <2>1. bs[i] \in ShuffleBars  BY DEF IsWindow
    <2> QED  BY <2>1 DEF ShuffleBars
  <1>2. \A i \in 1..n : m + i \in 1..Len(bs)  BY DEF IsWindow
  <1>3. Anchor(bs, m) \in Int  BY <1>1 DEF IsWindow, Anchor
  <1>4. \A i \in 1..n : Gap(bs, m, m + i) \in Int
    <2> TAKE i \in 1..n
    <2>1. i # 1 => m + i - 1 \in 1..Len(bs)  BY DEF IsWindow
    <2>2. (m + i = m + 1) <=> i = 1  BY DEF IsWindow
    <2>3. bs[m + i].open \in Int /\ (i # 1 => bs[m + i - 1].close \in Int)  BY <1>1, <1>2, <2>1
    <2>4. CASE i = 1  BY <1>3, <2>2, <2>3, <2>4 DEF Gap
    <2>5. CASE i # 1
      <3>1. Gap(bs, m, m + i) = bs[m + i].open - bs[m + i - 1].close
        <4>1. PICK k : k = m + i /\ k # m + 1  BY <2>2, <2>5
        <4>2. Gap(bs, m, k) = bs[k].open - bs[k - 1].close  BY <4>1 DEF Gap
        <4>3. k - 1 = m + i - 1  BY <4>1 DEF IsWindow
        <4> QED  BY <4>1, <4>2, <4>3
      <3> QED  BY <2>3, <2>5, <3>1
    <2> QED  BY <2>4, <2>5
  <1>5. \A i \in 1..n : Shape(bs[m + i]).close \in Int  BY <1>1, <1>2 DEF Shape
  <1> QED  BY <1>1, <1>2, <1>3, <1>4, <1>5 DEF WindowGaps, ShapeCloses

LEMMA RebuiltIs ==
  ASSUME NEW bs, NEW m, NEW n, IsWindow(bs, m, n),
         NEW gapOrder \in Reorderings(n), NEW shapeOrder \in Reorderings(n)
  PROVE  Closes(RebuiltCloses(bs, m, gapOrder, shapeOrder), bs, m, n, gapOrder, shapeOrder)
  <1> DEFINE g(i) == Gap(bs, m, m + gapOrder[i])
             s(i) == Shape(bs[m + shapeOrder[i]]).close
             h == [i \in 1..n |-> g(i) + s(i)]
             a == Anchor(bs, m)
             IsClose(c) == c = [i \in 0..(Len(bs) - m) |-> IF i = 0 THEN a ELSE c[i - 1] + g(i) + s(i)]
             close == RebuiltCloses(bs, m, gapOrder, shapeOrder)
  <1>0. n \in Nat /\ m \in Nat /\ Len(bs) - m = n  BY DEF IsWindow
  <1>1. gapOrder \in [1..n -> 1..n] /\ shapeOrder \in [1..n -> 1..n]  BY DEF Reorderings
  <1>2. a \in Int /\ \A i \in 1..n : g(i) \in Int /\ s(i) \in Int
    <2>1. \A i \in 1..n : WindowGaps(bs, m, n)[i] \in Int /\ ShapeCloses(bs, m, n)[i] \in Int
      <3>1. WindowGaps(bs, m, n) \in [1..n -> Int] /\ ShapeCloses(bs, m, n) \in [1..n -> Int]
        BY WindowTyped
      <3> QED  BY <3>1
    <2>2. \A i \in 1..n : Gap(bs, m, m + i) \in Int /\ Shape(bs[m + i]).close \in Int
      BY <2>1 DEF WindowGaps, ShapeCloses
    <2> QED  BY <1>1, <2>2, WindowTyped
  <1>3. close = CHOOSE c : IsClose(c)  BY DEF RebuiltCloses
  <1> HIDE DEF g, s, a, close
  <1>4. \E c : IsClose(c)
    <2>1. h \in [1..n -> Int]  BY <1>2
    <2> HIDE DEF h
    <2>2. PICK p : Prefix(p, h, n)  BY <1>0, <2>1, PrefixExists
    <2> DEFINE d == [i \in 0..n |-> a + p[i]]
    <2>3. ASSUME NEW i \in 0..n, i # 0  PROVE d[i] = d[i - 1] + g(i) + s(i)
      <3>1. i \in 1..n /\ i - 1 \in 0..n  BY <1>0, <2>3
      <3>2. p[i] = p[i - 1] + h[i] /\ p[i - 1] \in Int  BY <2>2, <3>1 DEF Prefix
      <3>3. h[i] = g(i) + s(i)  BY <3>1 DEF h
      <3>4. g(i) \in Int /\ s(i) \in Int  BY <1>2, <3>1
      <3>5. d[i] = a + p[i] /\ d[i - 1] = a + p[i - 1]  BY <3>1
      <3> HIDE DEF d
      <3> QED  BY <1>2, <3>2, <3>3, <3>4, <3>5
    <2>4. d[0] = a  BY <1>0, <1>2, <2>2 DEF Prefix
    <2>5. d = [i \in 0..n |-> IF i = 0 THEN a ELSE d[i - 1] + g(i) + s(i)]
      <3>1. \A i \in 0..n : d[i] = IF i = 0 THEN a ELSE d[i - 1] + g(i) + s(i)  BY <2>3, <2>4
      <3>2. d = [i \in 0..n |-> d[i]]  OBVIOUS
      <3> HIDE DEF d
      <3> QED  BY <3>1, <3>2
    <2> HIDE DEF d
    <2> QED  BY <1>0, <2>5
  <1>5. IsClose(close)  BY <1>3, <1>4, Zenon
  <1>6. /\ close[0] = a /\ DOMAIN close = 0..n
        /\ \A i \in 1..n : close[i] = close[i - 1] + g(i) + s(i)
    <2> DEFINE f == [i \in 0..n |-> IF i = 0 THEN a ELSE close[i - 1] + g(i) + s(i)]
    <2>1. close = f  BY <1>0, <1>5
    <2>2. f[0] = a /\ DOMAIN f = 0..n /\ \A i \in 1..n : f[i] = close[i - 1] + g(i) + s(i)  BY <1>0
    <2> HIDE DEF f
    <2> QED  BY <2>1, <2>2
  <1>7. close \in [0..n -> Int]
    <2> DEFINE P == {k \in Nat : k <= n => close[k] \in Int}
    <2>1. 0 \in P  BY <1>2, <1>6
    <2>2. ASSUME NEW k \in Nat, k \in P  PROVE k + 1 \in P
      <3> SUFFICES ASSUME k + 1 <= n  PROVE close[k + 1] \in Int  OBVIOUS
      <3>1. k + 1 \in 1..n /\ k + 1 - 1 = k /\ close[k] \in Int  BY <1>0, <2>2
      <3> QED  BY <1>2, <1>6, <3>1
    <2>3. P = Nat
      <3> HIDE DEF P
      <3>1. \A k \in Nat : k \in P
        <4> TAKE k \in Nat
        <4> QED  BY <2>1, <2>2, NumberInduction
      <3>2. P \subseteq Nat  BY DEF P
      <3> QED  BY <3>1, <3>2
    <2>4. close = [i \in 0..n |-> close[i]]  BY <1>5, <1>0
    <2>5. \A i \in 0..n : close[i] \in Int  BY <1>0, <2>3
    <2> QED  BY <2>4, <2>5
  <1> QED  BY <1>6, <1>7 DEF Closes, g, s, a, close

\* A bar of the rebuilt window: on the close before it, with another's gap and
\* another's shape.
RebuiltBar(bs, m, close, gapOrder, shapeOrder, i) ==
  LET shape == Shape(bs[m + shapeOrder[i]])
      open  == close[i - 1] + Gap(bs, m, m + gapOrder[i])
  IN  [time |-> bs[m + i].time, open |-> open, high |-> open + shape.high,
       low |-> open + shape.low, close |-> close[i], volume |-> shape.volume]

\* new is the window of bs rebuilt behind its warm-up.
IsRebuilt(new, bs, m, n, close, gapOrder, shapeOrder) ==
  /\ Closes(close, bs, m, n, gapOrder, shapeOrder)
  /\ Len(new) = m + n
  /\ \A i \in 1..m : new[i] = bs[i]
  /\ \A i \in 1..n : new[m + i] = RebuiltBar(bs, m, close, gapOrder, shapeOrder, i)

LEMMA ShuffledIs ==
  ASSUME NEW bs, NEW m, NEW n, IsWindow(bs, m, n),
         NEW gapOrder \in Reorderings(n), NEW shapeOrder \in Reorderings(n),
         NEW start, WarmUpBars(bs, start) = m
  PROVE  \E close : IsRebuilt(Shuffled(bs, start, gapOrder, shapeOrder), bs, m, n,
                              close, gapOrder, shapeOrder)
  <1>0. n \in Nat /\ m \in Nat /\ Len(bs) = m + n /\ Len(bs) - m = n /\ n >= 2  BY DEF IsWindow
  <1>1. PICK close : close = RebuiltCloses(bs, m, gapOrder, shapeOrder)  OBVIOUS
  <1>2. Closes(close, bs, m, n, gapOrder, shapeOrder)  BY <1>1, RebuiltIs
  <1>3. PICK tail : tail = [i \in 1..n |-> RebuiltBar(bs, m, close, gapOrder, shapeOrder, i)]
    OBVIOUS
  <1>4. Rebuilt(bs, m, gapOrder, shapeOrder) = tail  BY <1>0, <1>1, <1>3 DEF Rebuilt, RebuiltBar
  <1>5. PICK head : head = SubSeq(bs, 1, m)  OBVIOUS
  <1>6. Shuffled(bs, start, gapOrder, shapeOrder) = head \o tail  BY <1>0, <1>4, <1>5 DEF Shuffled
  <1>7. head \in Seq(ShuffleBars) /\ Len(head) = m /\ \A i \in 1..m : head[i] = bs[i]
    BY <1>0, <1>5 DEF IsWindow
  <1>8. Len(tail) = n /\ DOMAIN tail = 1..n  BY <1>0, <1>3
  <1>9. /\ Len(head \o tail) = m + n
        /\ \A i \in 1..m : (head \o tail)[i] = head[i]
        /\ \A i \in 1..n : (head \o tail)[m + i] = tail[i]
    <2>1. PICK T : tail \in Seq(T)
      <3> DEFINE T == {tail[i] : i \in 1..n}
      <3>1. tail \in [1..n -> T]  BY <1>3
      <3> HIDE DEF T
      <3>2. tail \in Seq(T)  BY <1>0, <3>1
      <3> QED  BY <3>2
    <2> QED  BY <1>0, <1>7, <1>8, <2>1
  <1>10. \A i \in 1..n : tail[i] = RebuiltBar(bs, m, close, gapOrder, shapeOrder, i)  BY <1>3
  <1> QED  BY <1>2, <1>6, <1>7, <1>9, <1>10 DEF IsRebuilt

\* The gaps and the shapes of the rebuilt window are the old ones in another
\* order.
LEMMA RebuiltParts ==
  ASSUME NEW bs, NEW m, NEW n, IsWindow(bs, m, n),
         NEW gapOrder \in Reorderings(n), NEW shapeOrder \in Reorderings(n),
         NEW new, NEW close, IsRebuilt(new, bs, m, n, close, gapOrder, shapeOrder),
         NEW i \in 1..n
  PROVE  /\ Shape(new[m + i]) = Reordered(WindowShapes(bs, m, n), shapeOrder, n)[i]
         /\ new[m + i].open - (IF m + i = m + 1 THEN Anchor(bs, m) ELSE new[m + i - 1].close)
              = Reordered(WindowGaps(bs, m, n), gapOrder, n)[i]
         /\ new[m + i].time = bs[m + i].time
         /\ \E b \in ShuffleBars : /\ b = bs[m + shapeOrder[i]]
                                   /\ new[m + i].low = new[m + i].open + b.low - b.open
                                   /\ new[m + i].high = new[m + i].open + b.high - b.open
                                   /\ new[m + i].close = new[m + i].open + b.close - b.open
         /\ new[m + i].open \in Int
  <1>0. n \in Nat /\ m \in Nat  BY DEF IsWindow
  <1>1. gapOrder[i] \in 1..n /\ shapeOrder[i] \in 1..n  BY DEF Reorderings
  <1>2. PICK b \in ShuffleBars : b = bs[m + shapeOrder[i]]  BY <1>1, WindowTyped
  <1>3. PICK g \in Int : g = Gap(bs, m, m + gapOrder[i]) /\ g = WindowGaps(bs, m, n)[gapOrder[i]]
    <2>1. WindowGaps(bs, m, n) \in [1..n -> Int]  BY WindowTyped
    <2>2. WindowGaps(bs, m, n)[gapOrder[i]] \in Int  BY <1>1, <2>1
    <2> QED  BY <1>1, <2>2 DEF WindowGaps
  <1>4. close \in [0..n -> Int] /\ close[0] = Anchor(bs, m)  BY DEF IsRebuilt, Closes
  <1>5. PICK before \in Int : before = close[i - 1]  BY <1>0, <1>4
  <1>6. b.open \in Int /\ b.high \in Int /\ b.low \in Int /\ b.close \in Int  BY DEF ShuffleBars
  <1>7. close[i] = before + g + (b.close - b.open)
    <2>1. close[i] = close[i - 1] + Gap(bs, m, m + gapOrder[i]) + Shape(bs[m + shapeOrder[i]]).close
      BY DEF IsRebuilt, Closes
    <2>2. Shape(b).close = b.close - b.open  BY DEF Shape
    <2> QED  BY <1>2, <1>3, <1>5, <2>1, <2>2
  <1>8. new[m + i] = [time |-> bs[m + i].time, open |-> before + g,
                      high |-> before + g + (b.high - b.open), low |-> before + g + (b.low - b.open),
                      close |-> close[i], volume |-> b.volume]
    <2>1. new[m + i] = RebuiltBar(bs, m, close, gapOrder, shapeOrder, i)  BY DEF IsRebuilt
    <2>2. /\ Shape(b).high = b.high - b.open /\ Shape(b).low = b.low - b.open
          /\ Shape(b).volume = b.volume
      BY DEF Shape
    <2> QED  BY <1>2, <1>3, <1>5, <2>1, <2>2 DEF RebuiltBar
  <1>9. PICK r : r = new[m + i]  OBVIOUS
  <1>10. /\ r.time = bs[m + i].time /\ r.open = before + g
         /\ r.high = before + g + (b.high - b.open) /\ r.low = before + g + (b.low - b.open)
         /\ r.close = before + g + (b.close - b.open) /\ r.volume = b.volume
    BY <1>7, <1>8, <1>9
  <1>11. Shape(r) = Shape(b)  BY <1>6, <1>10 DEF Shape
  <1>12. Reordered(WindowShapes(bs, m, n), shapeOrder, n)[i] = Shape(b)
    BY <1>1, <1>2 DEF Reordered, WindowShapes
  <1>13. Reordered(WindowGaps(bs, m, n), gapOrder, n)[i] = g  BY <1>3 DEF Reordered
  <1>14. (IF m + i = m + 1 THEN Anchor(bs, m) ELSE new[m + i - 1].close) = before
    <2>1. (m + i = m + 1) <=> i = 1  BY <1>0
    <2>2. CASE i = 1  BY <1>4, <1>5, <2>1, <2>2
    <2>3. CASE i # 1
      <3>1. PICK j : j \in 1..n /\ j = i - 1 /\ m + i - 1 = m + j  BY <1>0, <2>3
      <3>2. new[m + j] = RebuiltBar(bs, m, close, gapOrder, shapeOrder, j)  BY <3>1 DEF IsRebuilt
      <3>3. RebuiltBar(bs, m, close, gapOrder, shapeOrder, j).close = close[j]  BY DEF RebuiltBar
      <3> QED  BY <1>5, <2>1, <2>3, <3>1, <3>2, <3>3
    <2> QED  BY <2>2, <2>3
  <1>15. r.open - before = g  BY <1>10
  <1>16. PICK x : x = (IF m + i = m + 1 THEN Anchor(bs, m) ELSE new[m + i - 1].close)  OBVIOUS
  <1>17. r.open - x = Reordered(WindowGaps(bs, m, n), gapOrder, n)[i]  BY <1>13, <1>14, <1>15, <1>16
  <1>18. /\ r.low = r.open + b.low - b.open /\ r.high = r.open + b.high - b.open
         /\ r.close = r.open + b.close - b.open
    BY <1>6, <1>10
  <1> QED  BY <1>2, <1>9, <1>10, <1>11, <1>12, <1>16, <1>17, <1>18

\* Gaps and shapes add up to the same drift in every order.
LEMMA DriftKept ==
  ASSUME NEW bs, NEW m, NEW n, IsWindow(bs, m, n),
         NEW gapOrder \in Reorderings(n), NEW shapeOrder \in Reorderings(n),
         NEW close, Closes(close, bs, m, n, gapOrder, shapeOrder)
  PROVE  close[n] = bs[m + n].close
  <1>0. n \in Nat /\ m \in Nat /\ n >= 2  BY DEF IsWindow
  <1>1. PICK g, s, a : /\ g = WindowGaps(bs, m, n) /\ g \in [1..n -> Int]
                       /\ s = ShapeCloses(bs, m, n) /\ s \in [1..n -> Int]
                       /\ a = Anchor(bs, m) /\ a \in Int
    BY WindowTyped
  <1>2. gapOrder \in [1..n -> 1..n] /\ shapeOrder \in [1..n -> 1..n]  BY DEF Reorderings
  <1>3. Reordered(g, gapOrder, n) \in [1..n -> Int] /\ Reordered(s, shapeOrder, n) \in [1..n -> Int]
    BY <1>1, <1>2 DEF Reordered
  <1>4. PICK pg : Prefix(pg, Reordered(g, gapOrder, n), n)  BY <1>0, <1>3, PrefixExists
  <1>5. PICK ps : Prefix(ps, Reordered(s, shapeOrder, n), n)  BY <1>0, <1>3, PrefixExists
  <1>6. PICK qg : Prefix(qg, g, n)  BY <1>0, <1>1, PrefixExists
  <1>7. PICK qs : Prefix(qs, s, n)  BY <1>0, <1>1, PrefixExists
  <1>8. pg[n] = qg[n]  BY <1>0, <1>1, <1>4, <1>6, SumPermuted
  <1>9. ps[n] = qs[n]  BY <1>0, <1>1, <1>5, <1>7, SumPermuted
  <1>10. close[n] = a + pg[n] + ps[n]
    <2> DEFINE P == {k \in Nat : k <= n => close[k] = a + pg[k] + ps[k]}
    <2>1. 0 \in P  BY <1>1, <1>4, <1>5 DEF Closes, Prefix
    <2>2. ASSUME NEW k \in Nat, k \in P  PROVE k + 1 \in P
      <3> SUFFICES ASSUME k + 1 <= n  PROVE close[k + 1] = a + pg[k + 1] + ps[k + 1]  OBVIOUS
      <3>1. k + 1 \in 1..n /\ k + 1 - 1 = k /\ close[k] = a + pg[k] + ps[k] /\ k \in 0..n
        BY <1>0, <2>2
      <3>2. PICK j : j = k + 1 /\ j \in 1..n /\ j - 1 = k  BY <3>1
      <3>3. gapOrder[j] \in 1..n /\ shapeOrder[j] \in 1..n  BY <1>2, <3>2
      <3>4. pg[j] = pg[k] + g[gapOrder[j]] /\ pg[k] \in Int
        BY <1>4, <3>1, <3>2 DEF Prefix, Reordered
      <3>5. ps[j] = ps[k] + s[shapeOrder[j]] /\ ps[k] \in Int
        BY <1>5, <3>1, <3>2 DEF Prefix, Reordered
      <3>6. close[j] = close[k] + g[gapOrder[j]] + s[shapeOrder[j]]
        <4>1. close[j] = close[j - 1] + Gap(bs, m, m + gapOrder[j]) + Shape(bs[m + shapeOrder[j]]).close
          BY <3>2 DEF Closes
        <4>2. g[gapOrder[j]] = Gap(bs, m, m + gapOrder[j])  BY <1>1, <3>3 DEF WindowGaps
        <4>3. s[shapeOrder[j]] = Shape(bs[m + shapeOrder[j]]).close  BY <1>1, <3>3 DEF ShapeCloses
        <4> QED  BY <3>2, <4>1, <4>2, <4>3
      <3>7. g[gapOrder[j]] \in Int /\ s[shapeOrder[j]] \in Int  BY <1>1, <3>3
      <3> QED  BY SMTT(30), <1>1, <3>1, <3>2, <3>4, <3>5, <3>6, <3>7
    <2>3. n \in P
      <3> HIDE DEF P
      <3> QED  BY <1>0, <2>1, <2>2, NumberInduction
    <2> QED  BY <2>3
  <1>11. bs[m + n].close = a + qg[n] + qs[n]
    <2> DEFINE P == {k \in Nat : k + 1 <= n => bs[m + (k + 1)].close = a + qg[k + 1] + qs[k + 1]}
    <2>0. ASSUME NEW j \in 1..n
          PROVE  /\ qg[j] = qg[j - 1] + g[j] /\ qs[j] = qs[j - 1] + s[j]
                 /\ qg[j - 1] \in Int /\ qs[j - 1] \in Int
                 /\ \E o, c \in Int : /\ o = bs[m + j].open /\ c = bs[m + j].close
                                      /\ s[j] = c - o
                                      /\ j = 1 => g[j] = o - a
                                      /\ j # 1 => g[j] = o - bs[m + (j - 1)].close
      <3>1. j - 1 \in 0..n  BY <1>0
      <3>2. /\ qg[j] = qg[j - 1] + g[j] /\ qs[j] = qs[j - 1] + s[j]
            /\ qg[j - 1] \in Int /\ qs[j - 1] \in Int
        BY <1>6, <1>7, <3>1 DEF Prefix
      <3>3. PICK b \in ShuffleBars : b = bs[m + j]  BY WindowTyped
      <3>4. b.open \in Int /\ b.close \in Int  BY DEF ShuffleBars
      <3>5. s[j] = b.close - b.open  BY <1>1, <3>3 DEF ShapeCloses, Shape
      <3>6. PICK k : k = m + j /\ (k = m + 1 <=> j = 1) /\ k - 1 = m + (j - 1)  BY <1>0
      <3>7. g[j] = Gap(bs, m, k)  BY <1>1, <3>6 DEF WindowGaps
      <3>8. j = 1 => g[j] = b.open - a  BY <1>1, <3>3, <3>6, <3>7 DEF Gap
      <3>9. j # 1 => g[j] = b.open - bs[k - 1].close  BY <1>1, <3>3, <3>6, <3>7 DEF Gap
      <3> QED  BY <3>2, <3>3, <3>4, <3>5, <3>6, <3>8, <3>9
    <2>1. 0 \in P
      <3>1. 1 \in 1..n /\ 1 - 1 = 0 /\ 0 + 1 = 1  BY <1>0
      <3>2. qg[0] = 0 /\ qs[0] = 0  BY <1>6, <1>7 DEF Prefix
      <3>3. /\ qg[1] = 0 + g[1] /\ qs[1] = 0 + s[1]
            /\ \E o, c \in Int : c = bs[m + 1].close /\ s[1] = c - o /\ g[1] = o - a
        BY <2>0, <3>1, <3>2
      <3>4. bs[m + 1].close = a + qg[1] + qs[1]  BY <1>1, <3>3
      <3> QED  BY <3>1, <3>4
    <2>2. ASSUME NEW k \in Nat, k \in P  PROVE k + 1 \in P
      <3> SUFFICES ASSUME k + 1 + 1 <= n
                   PROVE  bs[m + (k + 1 + 1)].close = a + qg[k + 1 + 1] + qs[k + 1 + 1]
        OBVIOUS
      <3>1. PICK i : i = k + 1 /\ bs[m + i].close = a + qg[i] + qs[i]  BY <1>0, <2>2
      <3>2. PICK j : j = k + 1 + 1 /\ j \in 1..n /\ j - 1 = i /\ j # 1  BY <1>0, <3>1
      <3>3. /\ qg[j] = qg[i] + g[j] /\ qs[j] = qs[i] + s[j] /\ qg[i] \in Int /\ qs[i] \in Int
            /\ \E o, c \in Int : c = bs[m + j].close /\ s[j] = c - o /\ g[j] = o - bs[m + i].close
        BY <2>0, <3>2
      <3>4. bs[m + j].close = a + qg[j] + qs[j]
        <4>1. PICK o, c \in Int : c = bs[m + j].close /\ s[j] = c - o /\ g[j] = o - bs[m + i].close
          BY <3>3
        <4>2. PICK x, y \in Int : x = qg[i] /\ y = qs[i]  BY <3>3
        <4>3. a \in Int /\ g[j] = o - (a + x + y)  BY <1>1, <3>1, <4>1, <4>2
        <4> QED  BY <3>3, <4>1, <4>2, <4>3
      <3> QED  BY <3>2, <3>4
    <2>3. PICK l \in Nat : l + 1 = n  BY <1>0
    <2>4. l \in P
      <3> HIDE DEF P
      <3> QED  BY <2>1, <2>2, <2>3, NumberInduction
    <2> QED  BY <2>3, <2>4
  <1> QED  BY <1>8, <1>9, <1>10, <1>11

\* The gaps and the shapes of a window b behind m bars.
GapsFrom(anchor, b, m) ==
  [i \in (m + 1)..Len(b) |-> b[i].open - (IF i = m + 1 THEN anchor ELSE b[i - 1].close)]

ShapesFrom(b, m) == [i \in (m + 1)..Len(b) |-> Shape(b[i])]

\* What ShuffleHonest says of the bars before and after.
Honest(old, new, m) ==
  /\ Len(new) = Len(old)
  /\ \A i \in 1..m : new[i] = old[i]
  /\ \A i \in 1..Len(old) :
       /\ new[i].time = old[i].time
       /\ new[i].low <= new[i].open /\ new[i].low <= new[i].close
       /\ new[i].high >= new[i].open /\ new[i].high >= new[i].close
  /\ Parted(GapsFrom(Anchor(old, m), new, m), (m + 1)..Len(new))
     = Parted(GapsFrom(Anchor(old, m), old, m), (m + 1)..Len(old))
  /\ Parted(ShapesFrom(new, m), (m + 1)..Len(new)) = Parted(ShapesFrom(old, m), (m + 1)..Len(old))
  /\ new[Len(old)].close = old[Len(old)].close

LEMMA PartedGaps ==
  ASSUME NEW a, NEW b, NEW m
  PROVE  [x \in {b[i].open - (IF i = m + 1 THEN a ELSE b[i - 1].close) : i \in (m + 1)..Len(b)} |->
            Cardinality({i \in (m + 1)..Len(b) :
                           b[i].open - (IF i = m + 1 THEN a ELSE b[i - 1].close) = x})]
         = Parted(GapsFrom(a, b, m), (m + 1)..Len(b))
  <1> DEFINE g(i) == b[i].open - (IF i = m + 1 THEN a ELSE b[i - 1].close)
             S == (m + 1)..Len(b)
             v == GapsFrom(a, b, m)
  <1>1. \A i \in S : v[i] = g(i)  BY DEF GapsFrom
  <1> HIDE DEF g, S, v
  <1>2. {v[i] : i \in S} = {g(i) : i \in S} /\ \A x : {i \in S : v[i] = x} = {i \in S : g(i) = x}
    BY <1>1
  <1>3. \A x : Cardinality({i \in S : v[i] = x}) = Cardinality({i \in S : g(i) = x})  BY <1>2
  <1>4. [x \in {g(i) : i \in S} |-> Cardinality({i \in S : g(i) = x})] = Parted(v, S)
    BY <1>2, <1>3 DEF Parted
  <1> QED  BY <1>4 DEF g, S, v

LEMMA PartedShapes ==
  ASSUME NEW b, NEW m
  PROVE  [x \in {Shape(b[i]) : i \in (m + 1)..Len(b)} |->
            Cardinality({i \in (m + 1)..Len(b) : Shape(b[i]) = x})]
         = Parted(ShapesFrom(b, m), (m + 1)..Len(b))
  <1> DEFINE S == (m + 1)..Len(b)
             v == ShapesFrom(b, m)
  <1>1. \A i \in S : v[i] = Shape(b[i])  BY DEF ShapesFrom
  <1> HIDE DEF S, v
  <1>2. {v[i] : i \in S} = {Shape(b[i]) : i \in S} /\ \A x : {i \in S : v[i] = x} = {i \in S : Shape(b[i]) = x}
    BY <1>1
  <1>3. \A x : Cardinality({i \in S : v[i] = x}) = Cardinality({i \in S : Shape(b[i]) = x})  BY <1>2
  <1>4. [x \in {Shape(b[i]) : i \in S} |-> Cardinality({i \in S : Shape(b[i]) = x})] = Parted(v, S)
    BY <1>2, <1>3 DEF Parted
  <1> QED  BY <1>4 DEF S, v

\* Bars that contain their opens and closes, in the order of their times.
IsInput(bs) ==
  /\ bs \in Seq(ShuffleBars) /\ bs # <<>> /\ InOrder(bs)
  /\ \A i \in 1..Len(bs) : Proper(bs[i])

\* A window of fewer than two bars is left as it is.
LEMMA UnshuffledHonest ==
  ASSUME NEW bs, IsInput(bs), NEW m \in Nat
  PROVE  Honest(bs, bs, m)
  <1>1. ASSUME NEW i \in 1..Len(bs)
        PROVE  /\ bs[i].low <= bs[i].open /\ bs[i].low <= bs[i].close
               /\ bs[i].high >= bs[i].open /\ bs[i].high >= bs[i].close
    <2>1. Proper(bs[i]) /\ bs[i] \in ShuffleBars  BY DEF IsInput
    <2>2. PICK b \in ShuffleBars : b = bs[i] /\ Proper(b)  BY <2>1
    <2>3. b.open \in Int /\ b.high \in Int /\ b.low \in Int /\ b.close \in Int  BY DEF ShuffleBars
    <2>4. b.low <= b.open /\ b.low <= b.close /\ b.high >= b.open /\ b.high >= b.close
      BY <2>2, <2>3 DEF Proper
    <2> QED  BY <2>2, <2>4
  <1> QED  BY <1>1 DEF Honest

LEMMA RebuiltHonest ==
  ASSUME NEW bs, IsInput(bs), NEW m, NEW n, IsWindow(bs, m, n),
         NEW gapOrder \in Reorderings(n), NEW shapeOrder \in Reorderings(n),
         NEW new, NEW close, IsRebuilt(new, bs, m, n, close, gapOrder, shapeOrder)
  PROVE  Honest(bs, new, m)
  <1>0. n \in Nat /\ m \in Nat /\ n >= 2 /\ Len(bs) = m + n /\ Len(new) = m + n
    BY DEF IsWindow, IsRebuilt
  <1>1. \A i \in 1..m : new[i] = bs[i]  BY DEF IsRebuilt
  <1>2. \A i \in 1..Len(bs) :
          /\ new[i].time = bs[i].time
          /\ new[i].low <= new[i].open /\ new[i].low <= new[i].close
          /\ new[i].high >= new[i].open /\ new[i].high >= new[i].close
    <2> TAKE i \in 1..Len(bs)
    <2>1. CASE i \in 1..m
      <3>1. new[i] = bs[i]  BY <1>1, <2>1
      <3>2. Honest(bs, bs, m)  BY <1>0, UnshuffledHonest
      <3> QED  BY <3>1, <3>2 DEF Honest
    <2>2. CASE i \notin 1..m
      <3>1. PICK j \in 1..n : i = m + j  BY <1>0, <2>2
      <3>2. PICK r, o : r = new[m + j] /\ o = r.open  OBVIOUS
      <3>3. PICK b \in ShuffleBars :
              /\ b = bs[m + shapeOrder[j]]
              /\ r.low = o + b.low - b.open
              /\ r.high = o + b.high - b.open
              /\ r.close = o + b.close - b.open
        BY <3>2, RebuiltParts
      <3>4. o \in Int /\ r.time = bs[m + j].time  BY <3>2, RebuiltParts
      <3>5. Proper(b)
        <4>1. shapeOrder[j] \in 1..n  BY DEF Reorderings
        <4>2. m + shapeOrder[j] \in 1..Len(bs)  BY <4>1, WindowTyped
        <4> QED  BY <3>3, <4>2 DEF IsInput
      <3>6. b.open \in Int /\ b.high \in Int /\ b.low \in Int /\ b.close \in Int  BY DEF ShuffleBars
      <3>7. b.low <= b.open /\ b.low <= b.close /\ b.open <= b.high /\ b.close <= b.high
        BY <3>5 DEF Proper
      <3>8. r.low <= r.open /\ r.low <= r.close /\ r.high >= r.open /\ r.high >= r.close
        <4>1. PICK bo, bh, bl, bc \in Int : bo = b.open /\ bh = b.high /\ bl = b.low /\ bc = b.close
          BY <3>6
        <4>2. r.low = o + bl - bo /\ r.high = o + bh - bo /\ r.close = o + bc - bo /\ r.open = o
          BY <3>2, <3>3, <4>1
        <4>3. bl <= bo /\ bl <= bc /\ bo <= bh /\ bc <= bh  BY <3>7, <4>1
        <4>4. /\ o + bl - bo <= o /\ o + bl - bo <= o + bc - bo
              /\ o + bh - bo >= o /\ o + bh - bo >= o + bc - bo
          BY <3>4, <4>3
        <4> QED  BY <4>2, <4>4
      <3> QED  BY <3>1, <3>2, <3>4, <3>8
    <2> QED  BY <2>1, <2>2
  <1>3. PICK a, g, s : a = Anchor(bs, m) /\ g = WindowGaps(bs, m, n) /\ s = WindowShapes(bs, m, n)
    OBVIOUS
  <1>4. Parted(GapsFrom(a, new, m), (m + 1)..Len(new)) = Counted(Reordered(g, gapOrder, n), n)
    <2>1. PICK v : v = GapsFrom(a, new, m)  OBVIOUS
    <2>2. \A i \in 1..n : v[m + i] = Reordered(g, gapOrder, n)[i]
      <3> TAKE i \in 1..n
      <3>1. PICK k : k = m + i /\ k \in (m + 1)..Len(new) /\ m + i - 1 = k - 1  BY <1>0
      <3>2. v[m + i] = new[m + i].open - (IF m + i = m + 1 THEN a ELSE new[m + i - 1].close)
        BY <2>1, <3>1 DEF GapsFrom
      <3>3. new[m + i].open - (IF m + i = m + 1 THEN Anchor(bs, m) ELSE new[m + i - 1].close)
              = Reordered(WindowGaps(bs, m, n), gapOrder, n)[i]
        BY RebuiltParts
      <3> QED  BY <1>3, <3>2, <3>3
    <2>3. PICK h : h = Reordered(g, gapOrder, n)  OBVIOUS
    <2>4. Parted(v, (m + 1)..(m + n)) = Counted(h, n)
      <3>1. \A i \in 1..n : v[m + i] = h[i]  BY <2>2, <2>3
      <3> QED  BY <1>0, <3>1, PartsCounted
    <2> QED  BY <1>0, <2>1, <2>3, <2>4
  <1>5. Parted(GapsFrom(a, bs, m), (m + 1)..Len(bs)) = Counted(g, n)
    <2>1. PICK v : v = GapsFrom(a, bs, m)  OBVIOUS
    <2>2. \A i \in 1..n : v[m + i] = g[i]
      <3> TAKE i \in 1..n
      <3>1. PICK k : k = m + i /\ k \in (m + 1)..Len(bs)  BY <1>0
      <3> QED  BY <1>3, <2>1, <3>1 DEF GapsFrom, WindowGaps, Gap
    <2> QED  BY SMTT(30), <1>0, <2>1, <2>2, PartsCounted
  <1>6. Parted(ShapesFrom(new, m), (m + 1)..Len(new)) = Counted(Reordered(s, shapeOrder, n), n)
    <2>1. PICK v : v = ShapesFrom(new, m)  OBVIOUS
    <2>2. \A i \in 1..n : v[m + i] = Reordered(s, shapeOrder, n)[i]
      <3> TAKE i \in 1..n
      <3>1. m + i \in (m + 1)..Len(new)  BY <1>0
      <3>2. Shape(new[m + i]) = Reordered(WindowShapes(bs, m, n), shapeOrder, n)[i]  BY RebuiltParts
      <3> QED  BY <1>3, <2>1, <3>1, <3>2 DEF ShapesFrom
    <2>3. PICK h : h = Reordered(s, shapeOrder, n)  OBVIOUS
    <2>4. Parted(v, (m + 1)..(m + n)) = Counted(h, n)
      <3>1. \A i \in 1..n : v[m + i] = h[i]  BY <2>2, <2>3
      <3> QED  BY <1>0, <3>1, PartsCounted
    <2> QED  BY <1>0, <2>1, <2>3, <2>4
  <1>7. Parted(ShapesFrom(bs, m), (m + 1)..Len(bs)) = Counted(s, n)
    <2>1. PICK v : v = ShapesFrom(bs, m)  OBVIOUS
    <2>2. \A i \in 1..n : v[m + i] = s[i]
      <3> TAKE i \in 1..n
      <3>1. m + i \in (m + 1)..Len(bs)  BY <1>0
      <3> QED  BY <1>3, <2>1, <3>1 DEF WindowShapes, ShapesFrom
    <2> QED  BY SMTT(30), <1>0, <2>1, <2>2, PartsCounted
  <1>8. /\ Counted(Reordered(g, gapOrder, n), n) = Counted(g, n)
        /\ Counted(Reordered(s, shapeOrder, n), n) = Counted(s, n)
    BY <1>0, CountsPermuted
  <1>9. new[m + n].close = bs[m + n].close
    <2>1. Closes(close, bs, m, n, gapOrder, shapeOrder)  BY DEF IsRebuilt
    <2>2. close[n] = bs[m + n].close  BY <2>1, DriftKept
    <2>3. n \in 1..n  BY <1>0
    <2>4. new[m + n] = RebuiltBar(bs, m, close, gapOrder, shapeOrder, n)  BY <2>3 DEF IsRebuilt
    <2>5. RebuiltBar(bs, m, close, gapOrder, shapeOrder, n).close = close[n]  BY DEF RebuiltBar
    <2> QED  BY <2>2, <2>4, <2>5
  <1>10. /\ Len(new) = Len(bs) /\ new[Len(bs)].close = bs[Len(bs)].close  BY <1>0, <1>9
  <1> QED  BY <1>1, <1>2, <1>3, <1>4, <1>5, <1>6, <1>7, <1>8, <1>10 DEF Honest

-----------------------------------------------------------------------------

ShuffleInv ==
  kind = "shuffle" =>
    /\ given \in ShuffleInputs
    /\ answer.done =>
         \E m, n \in Nat :
           /\ m = WarmUpBars(given.bars, given.start) /\ n = Len(given.bars) - m
           /\ \E gaps \in Reorderings(n), shapes \in Reorderings(n) :
                answer = Done(Shuffled(given.bars, given.start, gaps, shapes))

LEMMA HonestIs ==
  ASSUME kind = "shuffle" /\ answer.done =>
           Honest(given.bars, answer.value,
                  Cardinality({i \in 1..Len(given.bars) : given.bars[i].time < given.start}))
  PROVE  ShuffleHonest
  <1>1. SUFFICES ASSUME kind = "shuffle", answer.done  PROVE ShuffleHonest  BY DEF ShuffleHonest
  <1> DEFINE old == given.bars
             new == answer.value
             m == Cardinality({i \in 1..Len(given.bars) : given.bars[i].time < given.start})
             a == Anchor(old, m)
  <1>2. Honest(old, new, m)  BY <1>1
  <1>3. /\ Parts(new, m, LAMBDA b, k, i : b[i].open - (IF i = k + 1 THEN a ELSE b[i - 1].close))
             = Parted(GapsFrom(a, new, m), (m + 1)..Len(new))
        /\ Parts(old, m, LAMBDA b, k, i : b[i].open - (IF i = k + 1 THEN a ELSE b[i - 1].close))
             = Parted(GapsFrom(a, old, m), (m + 1)..Len(old))
    <2> HIDE DEF old, new, m, a
    <2> QED  BY PartedGaps DEF Parts
  <1>4. /\ Parts(new, m, LAMBDA b, k, i : Shape(b[i])) = Parted(ShapesFrom(new, m), (m + 1)..Len(new))
        /\ Parts(old, m, LAMBDA b, k, i : Shape(b[i])) = Parted(ShapesFrom(old, m), (m + 1)..Len(old))
    <2> HIDE DEF old, new, m
    <2> QED  BY PartedShapes DEF Parts
  <1>5. /\ Parts(new, m, LAMBDA b, k, i : b[i].open - (IF i = k + 1 THEN a ELSE b[i - 1].close))
             = Parts(old, m, LAMBDA b, k, i : b[i].open - (IF i = k + 1 THEN a ELSE b[i - 1].close))
        /\ Parts(new, m, LAMBDA b, k, i : Shape(b[i])) = Parts(old, m, LAMBDA b, k, i : Shape(b[i]))
    BY <1>2, <1>3, <1>4 DEF Honest
  <1>6. /\ Len(new) = Len(old)
        /\ \A i \in 1..m : new[i] = old[i]
        /\ \A i \in 1..Len(old) :
             /\ new[i].time = old[i].time
             /\ new[i].low <= new[i].open /\ new[i].low <= new[i].close
             /\ new[i].high >= new[i].open /\ new[i].high >= new[i].close
        /\ new[Len(old)].close = old[Len(old)].close
    BY <1>2 DEF Honest
  <1> QED  BY <1>5, <1>6 DEF ShuffleHonest, Parts

\* The surrogate market of a permutation test has the original's parts in
\* another order and nothing else (permutation/methods/in_sample_bars.py
\* permute_symbol_bars): warm-up, times, gaps, shapes and drift are kept.
THEOREM ShufflesAreHonest == AlgorithmsSpec => []ShuffleHonest
  <1>0. ASSUME NEW input \in ShuffleInputs
        PROVE  IsInput(input.bars) /\ input.start \in Int
    BY InputsAssumption DEF IsInput
  <1>1. AlgorithmsInit => ShuffleInv  BY SMTT(30) DEF AlgorithmsInit, ShuffleInv, Pending
  <1>2. ShuffleInv /\ [AlgorithmsNext]_allVars => ShuffleInv'
    <2> SUFFICES ASSUME ShuffleInv, [AlgorithmsNext]_allVars, kind' = "shuffle"
                 PROVE  ShuffleInv'
      BY DEF ShuffleInv
    <2>1. CASE Shuffles /\ UNCHANGED kind
      <3>1. given' = given /\ given \in ShuffleInputs /\ kind = "shuffle"
        BY <2>1 DEF Shuffles, ShuffleInv
      <3>2. PICK m : m = WarmUpBars(given.bars, given.start)  OBVIOUS
      <3>3. PICK n : n = Len(given.bars) - m  OBVIOUS
      <3>4. m \in 0..Len(given.bars)  BY <1>0, <3>1, <3>2, WarmUpIs DEF IsInput
      <3>5. Len(given.bars) \in Nat  BY <1>0, <3>1 DEF IsInput
      <3>6. m \in Nat /\ n \in Nat  BY <3>3, <3>4, <3>5
      <3>7. \E gaps \in Reorderings(n), shapes \in Reorderings(n) :
              answer' = Done(Shuffled(given.bars, given.start, gaps, shapes))
        BY <2>1, <3>2, <3>3 DEF Shuffles
      <3> QED  BY <3>1, <3>2, <3>3, <3>6, <3>7 DEF ShuffleInv
    <2>2. CASE UNCHANGED allVars  BY <2>2 DEF allVars, ShuffleInv
    <2>3. CASE kind = "universe" /\ UNCHANGED <<kind, given, answer>>  BY <2>3
    <2> QED  BY <2>1, <2>2, <2>3 DEF AlgorithmsNext, Rolls, Builds, Assesses, Prepares, Evicts, Restates
  <1>3. ShuffleInv => ShuffleHonest
    <2> SUFFICES ASSUME ShuffleInv, kind = "shuffle", answer.done
                 PROVE  Honest(given.bars, answer.value,
                          Cardinality({i \in 1..Len(given.bars) : given.bars[i].time < given.start}))
      BY HonestIs
    <2>1. PICK bs, start : bs = given.bars /\ start = given.start  OBVIOUS
    <2>2. PICK m, n \in Nat :
            /\ m = WarmUpBars(bs, start) /\ n = Len(bs) - m
            /\ \E gaps \in Reorderings(n), shapes \in Reorderings(n) :
                 answer = Done(Shuffled(bs, start, gaps, shapes))
      BY <2>1 DEF ShuffleInv
    <2>3. PICK gaps \in Reorderings(n), shapes \in Reorderings(n) :
            answer.value = Shuffled(bs, start, gaps, shapes)
      BY <2>2 DEF Done
    <2>4. IsInput(bs) /\ start \in Int  BY <1>0, <2>1 DEF ShuffleInv
    <2>5. m = Cardinality({i \in 1..Len(bs) : bs[i].time < start})
      BY <2>2, <2>4, WarmUpIs DEF IsInput
    <2>6. Honest(bs, answer.value, m)
      <3>1. CASE n < 2  BY <2>2, <2>3, <2>4, <3>1, UnshuffledHonest DEF Shuffled
      <3>2. CASE n >= 2
        <4>1. IsWindow(bs, m, n)  BY <2>2, <2>4, <3>2 DEF IsInput, IsWindow
        <4>2. PICK close : IsRebuilt(Shuffled(bs, start, gaps, shapes), bs, m, n, close, gaps, shapes)
          BY <2>2, <4>1, ShuffledIs
        <4> QED  BY <2>3, <2>4, <4>1, <4>2, RebuiltHonest
      <3> QED  BY <3>1, <3>2
    <2> QED  BY <2>1, <2>5, <2>6
  <1> QED  BY <1>1, <1>2, <1>3, PTL DEF AlgorithmsSpec

-----------------------------------------------------------------------------
(* The permutation tests. *)

(* Splitting the indices. *)

LEMMA Division ==
  ASSUME NEW n \in Nat, NEW k \in Nat \ {0}
  PROVE  n \div k \in Nat /\ n % k \in 0..(k - 1) /\ n = (k * (n \div k)) + (n % k)
  BY Z3

\* Where the c-th chunk starts, if each has base indices and extra ones one more.
Start(base, extra, c) == (c - 1) * base + Smaller(c - 1, extra)
ChunkSize(base, extra, c)  == base + (IF c <= extra THEN 1 ELSE 0)

\* A chunk starts where the one before it ends.
LEMMA StartStep ==
  ASSUME NEW base \in Nat, NEW extra \in Nat, NEW c \in Nat \ {0}
  PROVE  /\ Start(base, extra, c) \in Nat /\ ChunkSize(base, extra, c) \in Nat
         /\ Start(base, extra, c + 1) = Start(base, extra, c) + ChunkSize(base, extra, c)
  <1>1. /\ (c - 1) * base \in Nat /\ c * base = ((c - 1) * base) + base  BY Z3
  <1>2. /\ Smaller(c - 1, extra) \in Nat
        /\ Smaller(c, extra) = Smaller(c - 1, extra) + (IF c <= extra THEN 1 ELSE 0)
    BY DEF Smaller
  <1>3. (c + 1) - 1 = c  OBVIOUS
  <1>4. QED  BY <1>1, <1>2, <1>3 DEF Start, ChunkSize

\* The starts ascend, and the first is 0.
LEMMA StartsAscend ==
  ASSUME NEW base \in Nat \ {0}, NEW extra \in Nat, NEW c \in Nat \ {0}, NEW d \in Nat, c < d
  PROVE  Start(base, extra, c) < Start(base, extra, d)
  <1>1. (c - 1) * base < (d - 1) * base  BY Z3
  <1>2. Smaller(c - 1, extra) <= Smaller(d - 1, extra)  BY DEF Smaller
  <1>3. /\ (c - 1) * base \in Nat /\ (d - 1) * base \in Nat
        /\ Smaller(c - 1, extra) \in Nat /\ Smaller(d - 1, extra) \in Nat
    <2>1. (c - 1) * base \in Nat /\ (d - 1) * base \in Nat  BY Z3
    <2>2. QED  BY <2>1 DEF Smaller
  <1>4. QED  BY <1>1, <1>2, <1>3 DEF Start

\* The chunks follow one another from 0 to the total, and none is empty.
LEMMA ChunksTile ==
  ASSUME NEW n \in Nat \ {0}, NEW k \in 1..n
  PROVE  \E start \in [1..(k + 1) -> Nat] :
           /\ start[1] = 0 /\ start[k + 1] = n
           /\ \A c \in 1..k : \A d \in 1..(k + 1) : c < d => start[c] < start[d]
           /\ SplitIndices(n, k) =
                [c \in 1..k |-> [i \in 1..(start[c + 1] - start[c]) |-> start[c] + i - 1]]
  <1> DEFINE base  == n \div k
             extra == n % k
             start == [c \in 1..(k + 1) |-> Start(base, extra, c)]
  <1>1. base \in Nat /\ extra \in 0..(k - 1) /\ n = (k * base) + extra  BY Division
  <1>2. base # 0
    <2> SUFFICES ASSUME base = 0 PROVE FALSE  OBVIOUS
    <2>1. n = extra
      <3> HIDE DEF base, extra
      <3>1. k * base = 0  BY Z3
      <3>2. QED  BY <1>1, <3>1
    <2>2. QED  BY <1>1, <2>1
  <1>3. \A c \in 1..k : /\ start[c] \in Nat /\ ChunkSize(base, extra, c) = start[c + 1] - start[c]
                        /\ start[c + 1] \in Nat /\ ChunkSize(base, extra, c) \in Nat
    <2> HIDE DEF base, extra
    <2> SUFFICES ASSUME NEW c \in 1..k
                 PROVE  /\ start[c] \in Nat /\ ChunkSize(base, extra, c) = start[c + 1] - start[c]
                        /\ start[c + 1] \in Nat /\ ChunkSize(base, extra, c) \in Nat
      OBVIOUS
    <2>1. start[c] = Start(base, extra, c) /\ start[c + 1] = Start(base, extra, c + 1)  OBVIOUS
    <2>2. /\ Start(base, extra, c) \in Nat /\ ChunkSize(base, extra, c) \in Nat
          /\ Start(base, extra, c + 1) = Start(base, extra, c) + ChunkSize(base, extra, c)
      BY <1>1, StartStep
    <2> HIDE DEF start
    <2>3. QED  BY <2>1, <2>2
  <1>4. start \in [1..(k + 1) -> Nat]
    <2>1. \A c \in 1..(k + 1) : Start(base, extra, c) \in Nat
      <3> HIDE DEF base, extra
      <3>1. QED  BY <1>1, StartStep
    <2>2. QED  BY <2>1
  <1>5. start[1] = 0
    <2>1. 0 * base = 0 /\ Smaller(0, extra) = 0
      <3> HIDE DEF base, extra
      <3>1. QED  BY <1>1 DEF Smaller
    <2>2. QED  BY <2>1 DEF Start
  <1>6. start[k + 1] = n
    <2> HIDE DEF base, extra
    <2>1. Smaller(k, extra) = extra /\ (k + 1) - 1 = k /\ k + 1 \in 1..(k + 1)  BY <1>1 DEF Smaller
    <2>2. start[k + 1] = (k * base) + extra  BY <2>1 DEF Start
    <2>3. QED  BY <1>1, <2>2
  <1>7. \A c \in 1..k : \A d \in 1..(k + 1) : c < d => start[c] < start[d]
    <2> HIDE DEF base, extra
    <2>1. QED  BY <1>1, <1>2, StartsAscend
  <1>8. SplitIndices(n, k) =
          [c \in 1..k |-> [i \in 1..(start[c + 1] - start[c]) |-> start[c] + i - 1]]
    <2>1. SplitIndices(n, k) =
            [c \in 1..k |-> [i \in 1..ChunkSize(base, extra, c) |-> Start(base, extra, c) + i - 1]]
      BY DEF SplitIndices, Start, ChunkSize
    <2>2. \A c \in 1..k : Start(base, extra, c) = start[c]  OBVIOUS
    <2> HIDE DEF base, extra, start
    <2>3. QED  BY <1>3, <2>1, <2>2
  <1> HIDE DEF start, base, extra
  <1>9. QED  BY <1>4, <1>5, <1>6, <1>7, <1>8

-----------------------------------------------------------------------------
(* Sorting. *)

\* A rearrangement of 1..n that ascends leaves every number in its place.
LEMMA AscendingIsIdentity ==
  ASSUME NEW n \in Nat, NEW f \in [1..n -> 1..n],
         \A i, j \in 1..n : i < j => f[i] < f[j]
  PROVE  \A i \in 1..n : f[i] = i
  <1> DEFINE Up   == {m \in Nat : m \in 1..n => f[m] >= m}
             Down == {m \in Nat : m < n => f[n - m] <= n - m}
  <1>1. Nat \subseteq Up
    <2>1. 0 \in Up  OBVIOUS
    <2>2. ASSUME NEW m \in Nat, m \in Up PROVE m + 1 \in Up
      <3> SUFFICES ASSUME m + 1 \in 1..n PROVE f[m + 1] >= m + 1  OBVIOUS
      <3>1. CASE m = 0  BY <3>1
      <3>2. CASE m # 0
        <4>1. m \in 1..n /\ f[m] >= m /\ f[m] < f[m + 1]  BY <2>2, <3>2
        <4>2. f[m] \in Int /\ f[m + 1] \in Int  BY <4>1
        <4>3. QED  BY <4>1, <4>2
      <3>3. QED  BY <3>1, <3>2
    <2> HIDE DEF Up
    <2>3. QED  BY <2>1, <2>2, NumberInduction
  <1>2. Nat \subseteq Down
    <2>1. 0 \in Down  OBVIOUS
    <2>2. ASSUME NEW m \in Nat, m \in Down PROVE m + 1 \in Down
      <3> SUFFICES ASSUME m + 1 < n PROVE f[n - (m + 1)] <= n - (m + 1)  OBVIOUS
      <3>1. f[n - m] <= n - m /\ n - (m + 1) \in 1..n /\ n - m \in 1..n  BY <2>2
      <3>2. f[n - (m + 1)] < f[n - m]  BY <3>1
      <3>3. f[n - (m + 1)] \in Int /\ f[n - m] \in Int  BY <3>1
      <3>4. QED  BY <3>1, <3>2, <3>3
    <2> HIDE DEF Down
    <2>3. QED  BY <2>1, <2>2, NumberInduction
  <1> SUFFICES ASSUME NEW i \in 1..n PROVE f[i] = i  OBVIOUS
  <1>3. f[i] >= i  BY <1>1
  <1>4. f[i] <= i
    <2>1. n - i \in Nat /\ n - i < n /\ n - (n - i) = i  OBVIOUS
    <2>2. QED  BY <1>2, <2>1
  <1>5. QED  BY <1>3, <1>4

\* Sorting leaves records alone that lie in the order of their indices.
LEMMA SortedAlready ==
  ASSUME NEW n \in Nat, NEW s, DOMAIN s = 1..n, s = [i \in 1..n |-> s[i]],
         \A i \in 1..n : s[i].index = i - 1
  PROVE  Sorted(s) = s
  <1> DEFINE B == Bijection(DOMAIN s, DOMAIN s)
             Ascends(f) == \A i, j \in DOMAIN s : i < j => s[f[i]].index <= s[f[j]].index
             g == CHOOSE f \in B : Ascends(f)
  <1>1. [i \in 1..n |-> i] \in B /\ Ascends([i \in 1..n |-> i])
    BY DEF Bijection, Injection, Surjection, IsInjective
  <1>2. g \in B /\ Ascends(g)
    <2> HIDE DEF B, Ascends
    <2>1. QED  BY <1>1
  <1>3. \A i \in 1..n : g[i] = i
    <2>1. g \in [1..n -> 1..n] /\ IsInjective(g)
      <3> HIDE DEF g
      <3>1. QED  BY <1>2 DEF Bijection, Injection
    <2> HIDE DEF g, B
    <2>2. ASSUME NEW i \in 1..n, NEW j \in 1..n, i < j PROVE g[i] < g[j]
      <3>1. s[g[i]].index <= s[g[j]].index  BY <1>2, <2>2
      <3>2. g[i] # g[j]  BY <2>1, <2>2 DEF IsInjective
      <3>3. g[i] \in 1..n /\ g[j] \in 1..n  BY <2>1
      <3>4. g[i] - 1 <= g[j] - 1  BY <3>1, <3>3
      <3>5. QED  BY <3>2, <3>3, <3>4
    <2>3. QED  BY <2>1, <2>2, AscendingIsIdentity
  <1>4. Sorted(s) = [i \in DOMAIN s |-> s[g[i]]]  BY DEF Sorted
  <1> HIDE DEF g
  <1>5. QED  BY <1>3, <1>4

-----------------------------------------------------------------------------
(* The inductive invariant. *)

Phases == {"check", "simulate", "rows", "trips", "metrics", "finish", "permute", "sample",
           "results", "summaries", "done", "failed"}

\* The phases in which the run is not finished yet.
Before == {"check", "simulate", "rows", "trips", "metrics", "finish"}

TypeOK ==
  /\ command \in Commands /\ phase \in Phases /\ faults \in 0..MaxFaults
  /\ run = [rows |-> run.rows, created |-> run.created, trips |-> run.trips,
            metrics |-> run.metrics, fitness |-> run.fitness, finished |-> run.finished]
  /\ run.trips \in BOOLEAN /\ run.metrics \in BOOLEAN /\ run.finished \in BOOLEAN
  /\ test = [stored |-> test.stored, observed |-> test.observed, exceed |-> test.exceed,
             passed |-> test.passed, rows |-> test.rows]
  /\ test.stored \in BOOLEAN
  /\ summaries \in {{}, {"quicktest"}, {"quicktest", "permutation"}}

\* What is marked done was done, and in order.
StagesInv ==
  /\ run.trips => run.rows = RunRows /\ phase \notin {"check", "simulate", "rows", "trips"}
  /\ run.metrics => run.trips /\ phase # "metrics"
  /\ run.finished => run.metrics /\ phase \notin Before
  /\ phase = "trips" => run.rows = RunRows
  /\ phase = "metrics" => run.trips
  /\ phase = "finish" => run.metrics
  /\ phase \notin Before \cup {"failed"} => run.finished
  /\ phase = "permute" => command.permute = "bars"
  /\ phase = "sample" => command.permute = "trades"

IsSequence(s) == Len(s) \in Nat /\ DOMAIN s = 1..Len(s) /\ s = [k \in 1..Len(s) |-> s[k]]

\* The test's rows are the first of the records, all of them at the end.
TestInv ==
  /\ test.stored => run.finished /\ phase \in {"results", "summaries", "done", "failed"}
  /\ phase = "results" => test.stored /\ command.permute # "none"
  /\ ~test.stored => test.rows = <<>>
  /\ test.stored => \E m \in 0..Len(records) : test.rows = SubSeq(records, 1, m)
  /\ phase \in {"summaries", "done"} /\ command.permute # "none" =>
       test.stored /\ test.rows = records
  /\ summaries # {} =>
       /\ phase \in {"summaries", "done", "failed"} /\ run.finished
       /\ command.permute # "none" => test.stored /\ test.rows = records

Result(k) == [index |-> k - 1, score |-> Score(outcome[k - 1])]

\* The records are the results of the first permutations, and end where a
\* chunk starts or with the last permutation.
RecordsInv ==
  /\ IsSequence(records)
  /\ phase \in Before \/ (phase = "permute" /\ pool = <<>>) => records = <<>>
  /\ phase \in Before => pool = <<>>
  /\ pool # <<>> => DOMAIN pool = DOMAIN Chunks
  /\ command.permute = "bars" =>
       /\ Len(records) <= NPermutations
       /\ \A k \in DOMAIN records : records[k] = Result(k)
       /\ phase = "permute" =>
            (\E c \in DOMAIN Chunks : IsNext(c)) \/ Len(records) = NPermutations

IInv == TypeOK /\ StagesInv /\ TestInv /\ RecordsInv /\ VerdictComplete

LEMMA SequencesAre ==
  ASSUME NEW S, NEW s \in Seq(S)
  PROVE  IsSequence(s)
  <1>1. s \in [1..Len(s) -> S] /\ Len(s) \in Nat  OBVIOUS
  <1>2. QED  BY <1>1 DEF IsSequence

\* Sequences: what appending, concatenating and cutting give.
LEMMA SequenceFacts ==
  ASSUME NEW s, IsSequence(s)
  PROVE  /\ \A e : /\ IsSequence(Append(s, e)) /\ Len(Append(s, e)) = Len(s) + 1
         /\ SubSeq(s, 1, Len(s)) = s /\ SubSeq(s, 1, 0) = <<>>
         /\ \A m \in 0..Len(s) :
              /\ Len(SubSeq(s, 1, m)) = m
              /\ SubSeq(SubSeq(s, 1, m), 1, m) = SubSeq(s, 1, m)
              /\ IsPrefix(SubSeq(s, 1, m), s)
  <1> DEFINE S == {s[k] : k \in 1..Len(s)}
  <1>1. s \in Seq(S)
    <2>1. s \in [1..Len(s) -> S] /\ Len(s) \in Nat  BY DEF IsSequence
    <2> HIDE DEF S
    <2>2. QED  BY <2>1
  <1> HIDE DEF S
  <1>2. ASSUME NEW e PROVE IsSequence(Append(s, e)) /\ Len(Append(s, e)) = Len(s) + 1
    <2>1. s \in Seq(S \cup {e}) /\ e \in S \cup {e}  BY <1>1
    <2>2. Append(s, e) \in Seq(S \cup {e}) /\ Len(Append(s, e)) = Len(s) + 1  BY <2>1
    <2>3. QED  BY <2>2, SequencesAre
  <1>3. SubSeq(s, 1, Len(s)) = s /\ SubSeq(s, 1, 0) = <<>>  BY <1>1
  <1>4. ASSUME NEW m \in 0..Len(s)
        PROVE  /\ Len(SubSeq(s, 1, m)) = m
               /\ SubSeq(SubSeq(s, 1, m), 1, m) = SubSeq(s, 1, m)
               /\ IsPrefix(SubSeq(s, 1, m), s)
    <2>1. SubSeq(s, 1, m) \in Seq(S) /\ Len(SubSeq(s, 1, m)) = m  BY <1>1
    <2>2. SubSeq(SubSeq(s, 1, m), 1, m) = SubSeq(s, 1, m)  BY <2>1
    <2>3. QED  BY <1>1, <2>1, <2>2 DEF IsPrefix
  <1>5. QED  BY <1>2, <1>3, <1>4

\* Concatenation, element by element.
LEMMA ConcatFacts ==
  ASSUME NEW s, IsSequence(s), NEW t, IsSequence(t)
  PROVE  /\ IsSequence(s \o t) /\ Len(s \o t) = Len(s) + Len(t)
         /\ \A k \in 1..Len(s) : (s \o t)[k] = s[k]
         /\ \A k \in 1..Len(t) : (s \o t)[Len(s) + k] = t[k]
  <1> DEFINE S == {s[k] : k \in 1..Len(s)} \cup {t[k] : k \in 1..Len(t)}
  <1>1. s \in Seq(S) /\ t \in Seq(S)
    <2>1. /\ s \in [1..Len(s) -> S] /\ Len(s) \in Nat
          /\ t \in [1..Len(t) -> S] /\ Len(t) \in Nat
      BY DEF IsSequence
    <2> HIDE DEF S
    <2>2. QED  BY <2>1
  <1> HIDE DEF S
  <1>2. s \o t \in Seq(S)  BY <1>1
  <1>3. IsSequence(s \o t)  BY <1>2, SequencesAre
  <1>4. Len(s \o t) = Len(s) + Len(t)  BY <1>1
  <1>5. \A k \in 1..Len(s) : (s \o t)[k] = s[k]  BY <1>1
  <1>6. \A k \in 1..Len(t) : (s \o t)[Len(s) + k] = t[k]  BY <1>1
  <1>7. QED  BY <1>3, <1>4, <1>5, <1>6

\* Once every record is in, they are counted as the permutations are.
LEMMA ExceedCounts ==
  ASSUME DOMAIN records = 1..NPermutations,
         \A k \in 1..NPermutations : records[k] = Result(k)
  PROVE  /\ Exceed([i \in DOMAIN records |-> records[i].score])
              = Cardinality({i \in Indices : Score(outcome[i]) >= Observed})
         /\ Exceed([i \in DOMAIN records |-> records[i].score]) \in Nat
  <1> DEFINE scores == [i \in DOMAIN records |-> records[i].score]
             S == {i \in DOMAIN scores : scores[i] >= Observed}
             T == {i \in Indices : Score(outcome[i]) >= Observed}
             f == [i \in S |-> i - 1]
  <1>1. \A i \in 1..NPermutations : scores[i] = Score(outcome[i - 1])  BY DEF Result
  <1>2. DOMAIN scores = 1..NPermutations  OBVIOUS
  <1> HIDE DEF scores
  <1>3. f \in [S -> T] /\ \A t \in T : t + 1 \in S /\ f[t + 1] = t
    <2>1. \A i \in S : i - 1 \in T  BY <1>1, <1>2, PermutationAssumption DEF Indices
    <2>2. \A t \in T : t + 1 \in S /\ (t + 1) - 1 = t
      <3> SUFFICES ASSUME NEW t \in T PROVE t + 1 \in S /\ (t + 1) - 1 = t  OBVIOUS
      <3>1. t + 1 \in 1..NPermutations /\ (t + 1) - 1 = t  BY PermutationAssumption DEF Indices
      <3>2. scores[t + 1] = Score(outcome[t])  BY <1>1, <3>1
      <3>3. QED  BY <1>2, <3>1, <3>2
    <2> HIDE DEF S, T
    <2>3. QED  BY <2>1, <2>2
  <1>4. \A i, j \in S : f[i] = f[j] => i = j  BY <1>2
  <1>5. IsFiniteSet(S)
    <2>1. IsFiniteSet(1..NPermutations)  BY PermutationAssumption, FS_Interval
    <2>2. QED  BY <1>2, <2>1, FS_Subset
  <1> HIDE DEF S, T, f
  <1>6. ExistsBijection(S, T)
    <2>1. f \in Bijection(S, T)  BY <1>3, <1>4 DEF Bijection, Injection, Surjection, IsInjective
    <2>2. QED  BY <2>1 DEF ExistsBijection
  <1>7. Cardinality(T) = Cardinality(S) /\ Cardinality(S) \in Nat
    BY <1>5, <1>6, FS_Bijection, FS_CardinalityType
  <1>8. QED  BY <1>7 DEF S, T, scores, Exceed

-----------------------------------------------------------------------------
(* Every step preserves it. *)

LEMMA InitInv == Init => IInv
  <1> SUFFICES ASSUME Init PROVE IInv  OBVIOUS
  <1>1. TypeOK  BY PermutationAssumption DEF Init, TypeOK, Phases, NoRun, NoTest
  <1>2. StagesInv  BY DEF Init, StagesInv, Before, NoRun
  <1>3. TestInv  BY DEF Init, TestInv, Before, NoTest
  <1>4. RecordsInv
    <2>1. IsSequence(<<>>) /\ Len(<<>>) = 0 /\ DOMAIN <<>> = {}  BY DEF IsSequence
    <2>2. QED  BY <2>1, PermutationAssumption DEF Init, RecordsInv, Before
  <1>5. VerdictComplete  BY DEF Init, VerdictComplete, NoTest
  <1>6. QED  BY <1>1, <1>2, <1>3, <1>4, <1>5 DEF IInv

\* While the run is not finished there are neither records nor a test.
LEMMA Unfinished ==
  ASSUME IInv, phase \in Before
  PROVE  /\ records = <<>> /\ pool = <<>> /\ test.stored = FALSE /\ test.rows = <<>>
         /\ run.finished = FALSE /\ summaries = {}
  <1>1. run.finished = FALSE  BY DEF IInv, TypeOK, StagesInv
  <1>2. test.stored = FALSE /\ summaries = {}  BY <1>1 DEF IInv, TypeOK, TestInv
  <1>3. QED  BY <1>1, <1>2 DEF IInv, TestInv, RecordsInv

LEMMA BeforeStep ==
  ASSUME IInv, phase \in Before, phase' \in Before \cup {"failed"},
         UNCHANGED <<command, outcome, pool, records, test, summaries>>
  PROVE  RecordsInv' /\ TestInv' /\ VerdictComplete'
  <1>1. /\ records = <<>> /\ pool = <<>> /\ test.stored = FALSE /\ test.rows = <<>>
        /\ summaries = {}
    BY Unfinished
  <1>2. RecordsInv'
    <2>1. IsSequence(<<>>) /\ Len(<<>>) = 0 /\ DOMAIN <<>> = {}  BY DEF IsSequence
    <2>2. QED  BY <1>1, <2>1, PermutationAssumption DEF RecordsInv, Before
  <1>3. TestInv'  BY <1>1 DEF TestInv, Before
  <1>4. VerdictComplete'  BY <1>1 DEF VerdictComplete
  <1>5. QED  BY <1>2, <1>3, <1>4

\* Nothing that was recorded changes, and the bar test goes no step back.
LEMMA RecordsStay ==
  ASSUME IInv, UNCHANGED <<command, outcome, records, run, pool>>,
         phase' \in Before => phase \in Before, phase' = "permute" => phase = "permute"
  PROVE  RecordsInv'
  <1>1. /\ \A c : IsNext(c)' <=> IsNext(c)
        /\ \A k : Result(k)' = Result(k)
        /\ Chunks' = Chunks
    BY DEF IsNext, Result, Score, Observed, Chunks
  <1>2. QED  BY <1>1 DEF IInv, RecordsInv

LEMMA VerdictStays ==
  ASSUME IInv, UNCHANGED <<command, outcome, records, run>>,
         \/ test' = test
         \/ /\ test'.stored = test.stored /\ test'.observed = test.observed
            /\ test'.exceed = test.exceed /\ test'.passed = test.passed
            /\ IsPrefix(test'.rows, records)
  PROVE  VerdictComplete'
  <1>1. \A k : Score(k)' = Score(k)  BY DEF Score, Observed
  <1>2. Observed' = Observed  BY DEF Observed
  <1>3. QED  BY <1>1, <1>2 DEF IInv, VerdictComplete

LEMMA StagesStay ==
  ASSUME IInv, UNCHANGED <<command, run, results>>, phase \notin Before,
         phase' \in {phase, "failed"} \cup {"results", "summaries", "done"}, phase # "failed"
  PROVE  StagesInv'
  <1>1. RunRows' = RunRows  BY DEF RunRows, Curve
  <1>2. QED  BY <1>1 DEF IInv, StagesInv, Before

\* The steps until the run is finished.
LEMMA RunStep ==
  ASSUME IInv,
         Begin \/ Simulate \/ CreateRun \/ FlushRows \/ SaveTrips \/ SaveMetrics
  PROVE  IInv'
  <1>1. /\ phase \in Before /\ phase' \in Before \cup {"failed"}
        /\ UNCHANGED <<command, outcome, pool, records, test, summaries, faults>>
    BY DEF Begin, Simulate, CreateRun, FlushRows, SaveTrips, SaveMetrics, Before
  <1>2. RecordsInv' /\ TestInv' /\ VerdictComplete'  BY <1>1, BeforeStep
  <1>3. TypeOK'
    <2>1. TypeOK  BY DEF IInv
    <2>2. CASE run' = run  BY <1>1, <2>1, <2>2 DEF TypeOK, Before, Phases
    <2>3. CASE CreateRun  BY <1>1, <2>1, <2>3 DEF TypeOK, CreateRun, Before, Phases
    <2>4. CASE FlushRows  BY <1>1, <2>1, <2>4 DEF TypeOK, FlushRows, Before, Phases
    <2>5. CASE SaveTrips  BY <1>1, <2>1, <2>5 DEF TypeOK, SaveTrips, Before, Phases
    <2>6. CASE SaveMetrics  BY <1>1, <2>1, <2>6 DEF TypeOK, SaveMetrics, Before, Phases
    <2>7. QED  BY <2>2, <2>3, <2>4, <2>5, <2>6 DEF Begin, Simulate
  <1>4. StagesInv'
    <2>1. /\ TypeOK /\ StagesInv /\ run.finished = FALSE  BY <1>1, Unfinished DEF IInv
    <2>2. results' = results => RunRows' = RunRows  BY DEF RunRows, Curve
    <2>3. CASE Begin  BY <2>1, <2>2, <2>3 DEF Begin, StagesInv, Before, simVars
    <2>4. CASE Simulate
      <3>1. ~run.trips /\ ~run.metrics /\ ~run.finished  BY <2>1, <2>4 DEF Simulate, StagesInv
      <3>2. QED  BY <2>1, <2>4, <3>1 DEF Simulate, StagesInv, Before
    <2>5. CASE CreateRun
      <3>1. ~run.trips /\ ~run.metrics /\ ~run.finished  BY <2>1, <2>5 DEF CreateRun, StagesInv
      <3>2. ~run'.trips /\ ~run'.metrics /\ ~run'.finished /\ phase' = "rows"
        BY <2>1, <2>5, <3>1 DEF CreateRun, TypeOK
      <3>3. QED  BY <3>2 DEF StagesInv, Before
    <2>6. CASE FlushRows
      <3>1. ~run.trips /\ ~run.metrics /\ ~run.finished /\ RunRows' = RunRows
        BY <2>1, <2>2, <2>6 DEF FlushRows, StagesInv, simVars
      <3>2. /\ ~run'.trips /\ ~run'.metrics /\ ~run'.finished
            /\ phase' = "rows" \/ (phase' = "trips" /\ run'.rows = RunRows')
        BY <2>1, <2>6, <3>1 DEF FlushRows, TypeOK
      <3>3. QED  BY <3>2 DEF StagesInv, Before
    <2>7. CASE SaveTrips
      <3>1. run.rows = RunRows /\ ~run.metrics /\ ~run.finished /\ RunRows' = RunRows
        BY <2>1, <2>2, <2>7 DEF SaveTrips, StagesInv, simVars
      <3>2. /\ run'.trips /\ ~run'.metrics /\ ~run'.finished
            /\ phase' = "metrics" /\ run'.rows = RunRows'
        BY <2>1, <2>7, <3>1 DEF SaveTrips, TypeOK
      <3>3. QED  BY <3>2 DEF StagesInv, Before
    <2>8. CASE SaveMetrics
      <3>1. run.rows = RunRows /\ run.trips /\ ~run.finished /\ RunRows' = RunRows
        BY <2>1, <2>2, <2>8 DEF SaveMetrics, StagesInv, simVars
      <3>2. /\ run'.trips /\ run'.metrics /\ ~run'.finished
            /\ phase' = "finish" /\ run'.rows = RunRows'
        BY <2>1, <2>8, <3>1 DEF SaveMetrics, TypeOK
      <3>3. QED  BY <3>2 DEF StagesInv, Before
    <2>9. QED  BY <2>3, <2>4, <2>5, <2>6, <2>7, <2>8
  <1>5. QED  BY <1>2, <1>3, <1>4 DEF IInv

\* The k chunks of the command: where each starts and what it holds.
Starts(k, start) ==
  /\ k \in Nat \ {0} /\ start[1] = 0 /\ start[k + 1] = NPermutations /\ DOMAIN Chunks = 1..k
  /\ \A a \in 1..k :
       /\ start[a] \in Nat /\ start[a + 1] \in Nat
       /\ start[a] < start[a + 1] /\ start[a + 1] <= NPermutations
       /\ Chunks[a] = [i \in 1..(start[a + 1] - start[a]) |-> start[a] + i - 1]
       /\ Chunks[a][1] = start[a]

LEMMA ChunkFacts ==
  ASSUME TypeOK
  PROVE  \E k, start : Starts(k, start)
  <1> DEFINE k == IF command.workers <= 1 \/ NPermutations = 1 THEN 1
                  ELSE Smaller(command.workers, NPermutations)
  <1>0. k \in 1..NPermutations /\ k \in Nat \ {0} /\ NPermutations \in Nat \ {0}
    <2>1. command.workers \in Nat  BY CommandsAssumption DEF TypeOK
    <2>2. QED  BY <2>1, PermutationAssumption DEF Smaller
  <1>1. Chunks = SplitIndices(NPermutations, k)  BY DEF Chunks
  <1> HIDE DEF k
  <1>2. PICK start \in [1..(k + 1) -> Nat] :
          /\ start[1] = 0 /\ start[k + 1] = NPermutations
          /\ \A c \in 1..k : \A d \in 1..(k + 1) : c < d => start[c] < start[d]
          /\ Chunks = [c \in 1..k |-> [i \in 1..(start[c + 1] - start[c]) |-> start[c] + i - 1]]
    BY <1>0, <1>1, ChunksTile
  <1>3. ASSUME NEW a \in 1..k
        PROVE  /\ start[a] \in Nat /\ start[a + 1] \in Nat
               /\ start[a] < start[a + 1] /\ start[a + 1] <= NPermutations
               /\ Chunks[a] = [i \in 1..(start[a + 1] - start[a]) |-> start[a] + i - 1]
               /\ Chunks[a][1] = start[a]
    <2>1. start[a] \in Nat /\ start[a + 1] \in Nat /\ start[a] < start[a + 1]  BY <1>0, <1>2
    <2>2. start[a + 1] <= NPermutations
      <3>1. CASE a = k  BY <1>0, <1>2, <2>1, <3>1
      <3>2. CASE a # k
        <4>1. a + 1 \in 1..k /\ k + 1 \in 1..(k + 1) /\ a + 1 < k + 1  BY <1>0, <3>2
        <4>2. start[a + 1] < start[k + 1]  BY <1>2, <4>1
        <4>3. QED  BY <1>2, <2>1, <4>2, PermutationAssumption
      <3>3. QED  BY <3>1, <3>2
    <2>3. Chunks[a] = [i \in 1..(start[a + 1] - start[a]) |-> start[a] + i - 1]  BY <1>2
    <2>4. 1 \in 1..(start[a + 1] - start[a])  BY <2>1
    <2>5. QED  BY <2>1, <2>2, <2>3, <2>4
  <1>4. DOMAIN Chunks = 1..k  BY <1>2
  <1>5. Starts(k, start)  BY <1>0, <1>2, <1>3, <1>4 DEF Starts
  <1>6. QED  BY <1>5

\* The run is finished: a bar test starts at the first chunk.
LEMMA FinishStep ==
  ASSUME IInv, FinishRun
  PROVE  IInv'
  <1>1. /\ records = <<>> /\ pool = <<>> /\ test.stored = FALSE /\ test.rows = <<>>
        /\ run.finished = FALSE /\ summaries = {}
    BY Unfinished DEF FinishRun, Before
  <1>2. /\ TypeOK /\ command.permute \in {"none", "bars", "trades"} /\ command' = command
    BY CommandsAssumption DEF IInv, TypeOK, FinishRun
  <1>3. /\ phase' \in {"summaries", "permute", "failed", "sample"}
        /\ phase' = "permute" => command.permute = "bars"
        /\ phase' = "sample" => command.permute = "trades"
        /\ phase' = "summaries" => command.permute = "none"
    BY <1>2 DEF FinishRun
  <1>4. TypeOK'  BY <1>2, <1>3 DEF TypeOK, FinishRun, Phases
  <1>5. StagesInv'
    <2>1. RunRows' = RunRows  BY DEF RunRows, Curve, FinishRun, simVars
    <2>2. run.metrics /\ run.trips /\ run.rows = RunRows  BY DEF IInv, StagesInv, FinishRun
    <2>3. run'.metrics /\ run'.trips /\ run'.rows = RunRows' /\ run'.finished
      BY <1>2, <2>1, <2>2 DEF TypeOK, FinishRun
    <2>4. QED  BY <1>2, <1>3, <2>3 DEF StagesInv, Before
  <1>6. TestInv' /\ VerdictComplete'  BY <1>1, <1>2, <1>3 DEF TestInv, VerdictComplete, FinishRun
  <1>7. RecordsInv'
    <2>1. IsSequence(<<>>) /\ Len(<<>>) = 0 /\ DOMAIN <<>> = {}  BY DEF IsSequence
    <2>2. \E c \in DOMAIN Chunks : Chunks[c][1] = 0
      <3>1. PICK k, start : Starts(k, start)  BY <1>2, ChunkFacts
      <3>2. 1 \in 1..k  BY <3>1 DEF Starts
      <3>3. QED  BY <3>1, <3>2 DEF Starts
    <2>3. Chunks' = Chunks  BY <1>2 DEF Chunks
    <2>4. records' = <<>> /\ pool' = <<>>  BY <1>1 DEF FinishRun
    <2>5. (\E c \in DOMAIN Chunks : IsNext(c))'  BY <2>1, <2>2, <2>3, <2>4 DEF IsNext
    <2>6. QED  BY <1>2, <1>3, <2>1, <2>4, <2>5, PermutationAssumption DEF RecordsInv, Before
  <1>8. QED  BY <1>4, <1>5, <1>6, <1>7 DEF IInv

\* In the permute phase no test is stored.
LEMMA NotStored ==
  ASSUME IInv, phase \in {"permute", "sample"}
  PROVE  test.stored = FALSE /\ test.rows = <<>> /\ summaries = {} /\ run.finished
  <1>1. test.stored = FALSE /\ summaries = {}  BY DEF IInv, TypeOK, TestInv
  <1>2. QED  BY <1>1 DEF IInv, TestInv, StagesInv, Before

\* Submitting, and the ends of the workers.
LEMMA PoolStep ==
  ASSUME IInv, Submit \/ \E c \in DOMAIN pool : WorkerEnds(c) \/ WorkerFails(c)
  PROVE  IInv'
  <1>1. /\ phase = "permute" /\ phase' = phase
        /\ UNCHANGED <<command, run, results, records, test, summaries>>
    BY DEF Submit, WorkerEnds, WorkerFails, simVars
  <1>2. test.stored = FALSE /\ test.rows = <<>> /\ summaries = {}  BY <1>1, NotStored
  <1>3. TypeOK'  BY <1>1, PermutationAssumption DEF IInv, TypeOK, Submit, WorkerEnds, WorkerFails
  <1>4. StagesInv'  BY <1>1, StagesStay DEF Before
  <1>5. TestInv' /\ VerdictComplete'  BY <1>1, <1>2 DEF IInv, TestInv, VerdictComplete
  <1>6. Chunks' = Chunks /\ \A c : IsNext(c)' <=> IsNext(c)  BY <1>1 DEF IsNext, Chunks
  <1>7. RecordsInv'
    <2>1. RecordsInv /\ command.permute = "bars"  BY <1>1 DEF IInv, StagesInv
    <2>2. CASE Submit
      <3>1. records = <<>> /\ DOMAIN records = {}  BY <1>1, <2>1, <2>2 DEF RecordsInv, Submit
      <3>2. DOMAIN pool' = DOMAIN Chunks  BY <2>2 DEF Submit
      <3>3. QED  BY <1>1, <1>6, <2>1, <3>1, <3>2 DEF RecordsInv, Before
    <2>3. CASE \E c \in DOMAIN pool : WorkerEnds(c) \/ WorkerFails(c)
      <3>1. DOMAIN pool' = DOMAIN pool /\ pool # <<>> /\ outcome' = outcome
        BY <2>3 DEF WorkerEnds, WorkerFails
      <3>2. \A k : Result(k)' = Result(k)  BY <1>1, <3>1 DEF Result, Score, Observed
      <3>3. pool' # <<>>  BY <3>1, <2>3
      <3>4. QED  BY <1>1, <1>6, <2>1, <3>1, <3>2, <3>3 DEF RecordsInv, Before
    <2>4. QED  BY <2>2, <2>3
  <1>8. QED  BY <1>3, <1>4, <1>5, <1>7 DEF IInv

\* The results of a chunk follow the records and end where the next one starts.
LEMMA NextChunk ==
  ASSUME IInv, NEW c \in DOMAIN Chunks, IsNext(c), command.permute = "bars"
  PROVE  LET r == records \o ChunkRecords(c) IN
         /\ IsSequence(r) /\ Len(r) <= NPermutations
         /\ \A k \in DOMAIN r : r[k] = Result(k)
         /\ (\E d \in DOMAIN Chunks : Chunks[d][1] = Len(r)) \/ Len(r) = NPermutations
  <1> DEFINE t == ChunkRecords(c)
             n == Len(records)
  <1>1. PICK k, start : Starts(k, start)  BY ChunkFacts DEF IInv
  <1>2. /\ k \in Nat \ {0} /\ start[1] = 0 /\ start[k + 1] = NPermutations /\ DOMAIN Chunks = 1..k
        /\ \A a \in 1..k :
             /\ start[a] \in Nat /\ start[a + 1] \in Nat
             /\ start[a] < start[a + 1] /\ start[a + 1] <= NPermutations
             /\ Chunks[a] = [i \in 1..(start[a + 1] - start[a]) |-> start[a] + i - 1]
             /\ Chunks[a][1] = start[a]
    BY <1>1 DEF Starts
  <1>5. c \in 1..k /\ n = start[c] /\ n \in Nat  BY <1>2 DEF IsNext
  <1>6. /\ IsSequence(t) /\ Len(t) = start[c + 1] - start[c]
        /\ \A i \in 1..Len(t) : t[i] = Result(n + i)
    <2> DEFINE m == start[c + 1] - start[c]
    <2>1. m \in Nat /\ Chunks[c] = [i \in 1..m |-> n + i - 1]  BY SMTT(30), <1>2, <1>5
    <2>2. t = [i \in 1..m |-> Result(n + i)]
      <3>1. t = [i \in 1..m |-> [index |-> Chunks[c][i], score |-> Score(outcome[Chunks[c][i]])]]
        BY <2>1 DEF ChunkRecords
      <3>2. \A i \in 1..m : Chunks[c][i] = (n + i) - 1  BY <1>5, <2>1
      <3> HIDE DEF t, m, n
      <3>3. QED  BY <3>1, <3>2 DEF Result
    <2> HIDE DEF m
    <2>3. Len(t) = m  BY <2>1, <2>2
    <2>4. QED  BY <2>1, <2>2, <2>3 DEF IsSequence, m
  <1>7. /\ IsSequence(records) /\ \A i \in DOMAIN records : records[i] = Result(i)
    BY DEF IInv, RecordsInv
  <1> HIDE DEF t, n
  <1>8. /\ IsSequence(records \o t) /\ Len(records \o t) = n + Len(t)
        /\ \A i \in 1..n : (records \o t)[i] = records[i]
        /\ \A i \in 1..Len(t) : (records \o t)[n + i] = t[i]
    <2>1. IsSequence(records) /\ IsSequence(t)  BY <1>6, <1>7
    <2>2. QED  BY <2>1, ConcatFacts DEF n
  <1>9. Len(records \o t) = start[c + 1]
    <2>1. start[c] \in Nat /\ start[c + 1] \in Nat  BY <1>2, <1>5
    <2>2. n = start[c] /\ Len(t) = start[c + 1] - start[c] /\ Len(records \o t) = n + Len(t)
      BY <1>5, <1>6, <1>8
    <2>3. QED  BY <2>1, <2>2
  <1>10. \A i \in DOMAIN (records \o t) : (records \o t)[i] = Result(i)
    <2> SUFFICES ASSUME NEW i \in DOMAIN (records \o t) PROVE (records \o t)[i] = Result(i)  OBVIOUS
    <2>1. i \in 1..(n + Len(t)) /\ Len(t) \in Nat /\ DOMAIN records = 1..n
      BY <1>6, <1>7, <1>8 DEF IsSequence, n
    <2>2. CASE i <= n  BY <1>5, <1>7, <1>8, <2>1, <2>2
    <2>3. CASE i > n
      <3> DEFINE j == i - n
      <3>1. j \in 1..Len(t) /\ i = n + j  BY <1>5, <2>1, <2>3
      <3> HIDE DEF j
      <3>2. QED  BY <1>6, <1>8, <3>1
    <2>4. QED  BY <1>5, <2>1, <2>2, <2>3
  <1>11. start[c + 1] <= NPermutations  BY <1>2, <1>5, PermutationAssumption
  <1>12. (\E d \in DOMAIN Chunks : Chunks[d][1] = start[c + 1]) \/ start[c + 1] = NPermutations
    <2>1. CASE c = k  BY <1>2, <2>1
    <2>2. CASE c # k
      <3>1. c + 1 \in 1..k  BY <1>2, <1>5, <2>2
      <3>2. QED  BY <1>2, <3>1
    <2>3. QED  BY <2>1, <2>2
  <1>13. QED  BY <1>8, <1>9, <1>10, <1>11, <1>12 DEF t, n

\* A future is waited for.
LEMMA CollectStep ==
  ASSUME IInv, Collect
  PROVE  IInv'
  <1>1. /\ phase = "permute" /\ phase' \in {"permute", "failed"}
        /\ UNCHANGED <<command, run, results, outcome, pool, test, summaries, faults>>
    BY DEF Collect, simVars
  <1>2. test.stored = FALSE /\ test.rows = <<>> /\ summaries = {}  BY <1>1, NotStored
  <1>3. TypeOK'  BY <1>1 DEF IInv, TypeOK, Phases
  <1>4. StagesInv'  BY <1>1, StagesStay DEF Before
  <1>5. TestInv' /\ VerdictComplete'  BY <1>1, <1>2 DEF TestInv, VerdictComplete
  <1>6. RecordsInv'
    <2>1. RecordsInv /\ command.permute = "bars"  BY <1>1 DEF IInv, StagesInv
    <2>2. CASE records' = records  BY <1>1, <2>2, RecordsStay DEF Before
    <2>3. CASE records' # records
      <3>1. PICK c \in DOMAIN pool : IsNext(c) /\ records' = records \o ChunkRecords(c)
        BY <2>3 DEF Collect
      <3>2. c \in DOMAIN Chunks /\ pool # <<>> /\ DOMAIN pool = DOMAIN Chunks
        BY <2>1, <3>1 DEF RecordsInv
      <3>3. /\ IsSequence(records') /\ Len(records') <= NPermutations
            /\ \A k \in DOMAIN records' : records'[k] = Result(k)
            /\ (\E d \in DOMAIN Chunks : Chunks[d][1] = Len(records'))
                 \/ Len(records') = NPermutations
        BY <2>1, <3>1, <3>2, NextChunk
      <3>4. Chunks' = Chunks /\ \A k : Result(k)' = Result(k)
        BY <1>1 DEF Chunks, Result, Score, Observed
      <3>5. (\E d \in DOMAIN Chunks : IsNext(d))' \/ Len(records') = NPermutations
        BY <3>3, <3>4 DEF IsNext
      <3>6. QED  BY <1>1, <3>2, <3>3, <3>4, <3>5 DEF RecordsInv, Before
    <2>4. QED  BY <2>2, <2>3
  <1>7. QED  BY <1>3, <1>4, <1>5, <1>6 DEF IInv

\* Every chunk is in: the records are all the permutations' and in their order.
LEMMA CreateStep ==
  ASSUME IInv, CreateTest
  PROVE  IInv'
  <1>1. /\ phase = "permute" /\ phase' = "results"
        /\ UNCHANGED <<command, run, results, outcome, pool, summaries, faults>>
    BY DEF CreateTest, simVars
  <1>2. /\ test.stored = FALSE /\ test.rows = <<>> /\ summaries = {} /\ run.finished
        /\ RecordsInv /\ TypeOK /\ command.permute = "bars"
    BY <1>1, NotStored DEF IInv, StagesInv
  <1>3. /\ Len(records) = NPermutations /\ DOMAIN records = 1..NPermutations
        /\ IsSequence(records)
        /\ \A k \in 1..NPermutations : records[k] = Result(k)
    <2>1. ~\E c \in DOMAIN Chunks : IsNext(c)  BY <1>2 DEF RecordsInv, CreateTest
    <2>2. QED  BY <1>1, <1>2, <2>1 DEF RecordsInv, IsSequence
  <1>4. Sorted(records) = records
    <2>1. records = [k \in 1..NPermutations |-> records[k]]  BY <1>3 DEF IsSequence
    <2>2. \A k \in 1..NPermutations : records[k].index = k - 1  BY <1>3 DEF Result
    <2>3. NPermutations \in Nat  BY PermutationAssumption
    <2>4. QED  BY <1>3, <2>1, <2>2, <2>3, SortedAlready
  <1> DEFINE exceed == Exceed([i \in DOMAIN records |-> records[i].score])
             atLeast == Cardinality({i \in Indices : Score(outcome[i]) >= Observed})
  <1>5. exceed = atLeast /\ atLeast \in Nat  BY <1>3, ExceedCounts
  <1>6. /\ records' = records
        /\ test' = [test EXCEPT !.stored = TRUE, !.observed = Observed, !.exceed = exceed,
                      !.passed = IF Significant(exceed, NPermutations) THEN "pass" ELSE "fail"]
    BY <1>3, <1>4 DEF CreateTest
  <1> HIDE DEF exceed, atLeast
  <1>7. /\ test' = [stored |-> TRUE, observed |-> Observed, exceed |-> exceed,
                    passed |-> IF Significant(exceed, NPermutations) THEN "pass" ELSE "fail",
                    rows |-> <<>>]
    BY <1>2, <1>6 DEF TypeOK
  <1>8. TypeOK'  BY <1>1, <1>2, <1>7 DEF TypeOK, Phases
  <1>9. StagesInv'  BY <1>1, StagesStay DEF Before
  <1>10. TestInv'
    <2>1. <<>> = SubSeq(records, 1, 0) /\ 0 \in 0..Len(records)
      BY <1>3, SequenceFacts, PermutationAssumption
    <2>2. records' = records /\ test'.rows = <<>> /\ test'.stored = TRUE
      <3>1. test'.rows = <<>> /\ test'.stored = TRUE  BY <1>7
      <3>2. QED  BY <1>6, <3>1
    <2>3. \E m \in 0..Len(records') : test'.rows = SubSeq(records', 1, m)  BY <2>1, <2>2
    <2>4. QED  BY <1>1, <1>2, <2>2, <2>3 DEF TestInv
  <1>11. RecordsInv'  BY <1>1, <1>6, RecordsStay DEF Before
  <1>12. VerdictComplete'
    <2>1. /\ Observed' = Observed /\ \A k : Score(k)' = Score(k)  BY <1>1 DEF Observed, Score
    <2>2. records = [k \in 1..NPermutations |-> [index |-> k - 1, score |-> Score(outcome[k - 1])]]
      BY <1>3 DEF IsSequence, Result
    <2>3. IsPrefix(<<>>, records)
      <3>1. <<>> = SubSeq(records, 1, 0) /\ 0 \in 0..Len(records)
        BY <1>3, SequenceFacts, PermutationAssumption
      <3>2. IsPrefix(SubSeq(records, 1, 0), records)  BY <1>3, <3>1, SequenceFacts
      <3>3. QED  BY <3>1, <3>2
    <2>4. /\ (test'.passed = "pass") <=> Significant(exceed, NPermutations)
          /\ test'.observed = Observed /\ test'.exceed = atLeast /\ test'.rows = <<>>
      BY <1>5, <1>7
    <2>5. Significant(exceed, NPermutations)
            <=> 100 * (atLeast + 1) <= PctSignificance * (NPermutations + 1)
      <3>1. 1 + atLeast = atLeast + 1  BY <1>5
      <3>2. QED  BY <1>5, <3>1 DEF Significant
    <2>6. atLeast' = atLeast  BY <1>1, <2>1 DEF atLeast, Indices
    <2>7. QED  BY <1>1, <1>6, <2>1, <2>2, <2>3, <2>4, <2>5, <2>6 DEF VerdictComplete, atLeast
  <1>13. QED  BY <1>8, <1>9, <1>10, <1>11, <1>12 DEF IInv

\* One sampled path, and the distribution of all of them.
LEMMA SampleStep ==
  ASSUME IInv, Sample \/ CreateDistribution
  PROVE  IInv'
  <1>1. /\ phase = "sample" /\ phase' \in {"sample", "results"}
        /\ UNCHANGED <<command, run, results, outcome, pool, summaries, faults>>
    BY DEF Sample, CreateDistribution, simVars
  <1>2. /\ test.stored = FALSE /\ test.rows = <<>> /\ summaries = {} /\ run.finished
        /\ RecordsInv /\ TypeOK /\ command.permute = "trades"
    BY <1>1, NotStored DEF IInv, StagesInv
  <1>3. StagesInv'  BY <1>1, StagesStay DEF Before
  <1>4. VerdictComplete'  BY <1>1, <1>2 DEF VerdictComplete
  <1>5. IsSequence(records)  BY <1>2 DEF RecordsInv
  <1>6. CASE Sample
    <2>1. PICK e : records' = Append(records, e)  BY <1>6 DEF Sample
    <2>2. IsSequence(records')  BY <1>5, <2>1, SequenceFacts
    <2>3. phase' = "sample" /\ test' = test  BY <1>1, <1>6 DEF Sample
    <2>4. RecordsInv'  BY <1>1, <1>2, <2>2, <2>3 DEF RecordsInv, Before, Chunks
    <2>5. TypeOK' /\ TestInv'  BY <1>1, <1>2, <2>3 DEF TypeOK, TestInv, Phases
    <2>6. QED  BY <1>3, <1>4, <2>4, <2>5 DEF IInv
  <1>7. CASE CreateDistribution
    <2>1. /\ phase' = "results" /\ records' = records
          /\ test' = [test EXCEPT !.stored = TRUE, !.observed = test'.observed]
      BY <1>2, <1>7 DEF CreateDistribution, TypeOK
    <2>2. /\ test'.stored = TRUE /\ test'.rows = <<>>
          /\ test' = [stored |-> test'.stored, observed |-> test'.observed,
                      exceed |-> test'.exceed, passed |-> test'.passed, rows |-> test'.rows]
      BY <1>2, <2>1 DEF TypeOK
    <2>3. <<>> = SubSeq(records, 1, 0) /\ 0 \in 0..Len(records)
      BY <1>5, SequenceFacts DEF IsSequence
    <2>4. \E m \in 0..Len(records') : test'.rows = SubSeq(records', 1, m)  BY <2>1, <2>2, <2>3
    <2>5. TypeOK'  BY <1>1, <1>2, <2>1, <2>2 DEF TypeOK, Phases
    <2>6. TestInv'  BY <1>1, <1>2, <2>1, <2>2, <2>4 DEF TestInv
    <2>7. RecordsInv'  BY <1>1, <2>1, RecordsStay DEF Before
    <2>8. QED  BY <1>3, <1>4, <2>5, <2>6, <2>7 DEF IInv
  <1>8. QED  BY <1>6, <1>7

\* Result rows are flushed.
LEMMA FlushStep ==
  ASSUME IInv, FlushResults
  PROVE  IInv'
  <1>1. /\ phase = "results" /\ phase' \in {"results", "summaries"}
        /\ UNCHANGED <<command, run, results, outcome, pool, records, summaries, faults>>
    BY DEF FlushResults, simVars
  <1>2. /\ TypeOK /\ TestInv /\ RecordsInv /\ VerdictComplete
        /\ test.stored = TRUE /\ command.permute # "none"
    BY <1>1 DEF IInv, TestInv, TypeOK
  <1>3. summaries = {}  BY <1>1, <1>2 DEF TypeOK, TestInv
  <1>4. IsSequence(records) /\ Len(records) \in Nat  BY <1>2 DEF RecordsInv, IsSequence
  <1>5. PICK m \in 0..Len(records) : test.rows = SubSeq(records, 1, m)  BY <1>2 DEF TestInv
  <1>6. Len(test.rows) = m  BY <1>4, <1>5, SequenceFacts
  <1>7. StagesInv' /\ RecordsInv'  BY <1>1, StagesStay, RecordsStay DEF Before
  <1>8. CASE m < Len(records)
    <2> DEFINE n == Smaller(Len(records), m + MaxRows)
    <2>1. /\ phase' = "results"
          /\ test' = [test EXCEPT !.rows = SubSeq(records, 1, n)]
      BY <1>1, <1>6, <1>8 DEF FlushResults
    <2>2. n \in 0..Len(records)  BY <1>4, PermutationAssumption DEF Smaller
    <2> HIDE DEF n
    <2>3. /\ test' = [stored |-> test'.stored, observed |-> test'.observed,
                      exceed |-> test'.exceed, passed |-> test'.passed, rows |-> test'.rows]
          /\ test'.stored = test.stored /\ test'.observed = test.observed
          /\ test'.exceed = test.exceed /\ test'.passed = test.passed
          /\ test'.rows = SubSeq(records, 1, n)
      BY <1>2, <2>1 DEF TypeOK
    <2>4. IsPrefix(test'.rows, records)  BY <1>4, <2>2, <2>3, SequenceFacts
    <2>5. VerdictComplete'  BY <1>1, <2>3, <2>4, VerdictStays
    <2>6. \E i \in 0..Len(records') : test'.rows = SubSeq(records', 1, i)
      <3>1. records' = records  BY <1>1
      <3>2. QED  BY <2>2, <2>3, <3>1
    <2>7. TestInv'  BY <1>1, <1>2, <1>3, <2>1, <2>3, <2>6 DEF TestInv
    <2>8. TypeOK'  BY <1>1, <1>2, <2>3 DEF TypeOK, Phases
    <2>9. QED  BY <1>7, <2>5, <2>7, <2>8 DEF IInv
  <1>9. CASE ~(m < Len(records))
    <2>1. phase' = "summaries" /\ test' = test  BY <1>1, <1>6, <1>9 DEF FlushResults
    <2>2. m = Len(records)  BY <1>4, <1>9
    <2>3. test.rows = records  BY <1>4, <1>5, <2>2, SequenceFacts
    <2>4. VerdictComplete'  BY <1>1, <2>1, VerdictStays
    <2>5. TestInv'  BY <1>1, <1>2, <1>3, <2>1, <2>3 DEF TestInv
    <2>6. TypeOK'  BY <1>1, <1>2, <2>1 DEF TypeOK, Phases
    <2>7. QED  BY <1>7, <2>4, <2>5, <2>6 DEF IInv
  <1>10. QED  BY <1>4, <1>8, <1>9

\* The summaries are written.
LEMMA SummaryStep ==
  ASSUME IInv, WriteQuicktestSummary \/ WritePermutationSummary
  PROVE  IInv'
  <1>1. /\ phase = "summaries" /\ phase' \in {"summaries", "done"}
        /\ UNCHANGED <<command, run, results, outcome, pool, records, test, faults>>
        /\ summaries' \in {{"quicktest"}, {"quicktest", "permutation"}}
    BY DEF WriteQuicktestSummary, WritePermutationSummary, simVars
  <1>2. TypeOK'  BY <1>1 DEF IInv, TypeOK, Phases
  <1>3. StagesInv' /\ RecordsInv' /\ VerdictComplete'
    BY <1>1, StagesStay, RecordsStay, VerdictStays DEF Before
  <1>4. run.finished  BY <1>1 DEF IInv, StagesInv, Before
  <1>5. TestInv'  BY <1>1, <1>4 DEF IInv, TestInv
  <1>6. QED  BY <1>2, <1>3, <1>5 DEF IInv

\* A step fails, or the process is killed: what is persisted stays.
LEMMA FailStep ==
  ASSUME IInv, StepFails
  PROVE  IInv'
  <1>1. /\ phase # "failed" /\ phase' = "failed" /\ faults' \in 0..MaxFaults
        /\ UNCHANGED <<command, run, results, outcome, pool, records, test, summaries>>
    BY PermutationAssumption DEF IInv, TypeOK, StepFails, simVars
  <1>2. TypeOK'  BY <1>1 DEF IInv, TypeOK, Phases
  <1>3. RecordsInv' /\ VerdictComplete'  BY <1>1, RecordsStay, VerdictStays DEF Before
  <1>4. StagesInv'
    <2>1. RunRows' = RunRows  BY <1>1 DEF RunRows, Curve
    <2>2. QED  BY <1>1, <2>1 DEF IInv, StagesInv, Before
  <1>5. TestInv'  BY <1>1 DEF IInv, TestInv
  <1>6. QED  BY <1>2, <1>3, <1>4, <1>5 DEF IInv

LEMMA StutterStep ==
  ASSUME IInv, UNCHANGED vars
  PROVE  IInv'
  <1>1. UNCHANGED <<results, command, phase, run, outcome, pool, records, test, summaries, faults>>
    BY DEF vars, simVars
  <1>2. RunRows' = RunRows  BY <1>1 DEF RunRows, Curve
  <1>3. TypeOK' /\ StagesInv' /\ TestInv'  BY <1>1, <1>2 DEF IInv, TypeOK, StagesInv, TestInv
  <1>4. RecordsInv' /\ VerdictComplete'  BY <1>1, RecordsStay, VerdictStays
  <1>5. QED  BY <1>3, <1>4 DEF IInv

LEMMA NextInv == IInv /\ [Next]_vars => IInv'
  <1> SUFFICES ASSUME IInv, [Next]_vars PROVE IInv'  OBVIOUS
  <1>1. CASE Begin \/ Simulate \/ CreateRun \/ FlushRows \/ SaveTrips \/ SaveMetrics
    BY <1>1, RunStep
  <1>2. CASE FinishRun  BY <1>2, FinishStep
  <1>3. CASE Submit \/ \E c \in DOMAIN pool : WorkerEnds(c) \/ WorkerFails(c)  BY <1>3, PoolStep
  <1>4. CASE Collect  BY <1>4, CollectStep
  <1>5. CASE CreateTest  BY <1>5, CreateStep
  <1>6. CASE Sample \/ CreateDistribution  BY <1>6, SampleStep
  <1>7. CASE FlushResults  BY <1>7, FlushStep
  <1>8. CASE WriteQuicktestSummary \/ WritePermutationSummary  BY <1>8, SummaryStep
  <1>9. CASE StepFails  BY <1>9, FailStep
  <1>10. CASE UNCHANGED vars  BY <1>10, StutterStep
  <1>11. QED
    BY <1>1, <1>2, <1>3, <1>4, <1>5, <1>6, <1>7, <1>8, <1>9, <1>10
    DEF Next, Persist, Permute

-----------------------------------------------------------------------------
(* What a sequence sums up to. *)

\* The sum of what v makes of the elements of a sequence.
Over(v, seq) == SumFunction([k \in 1..Len(seq) |-> v[seq[k]]])

\* A sum along a sequence grows with it.
LEMMA OverIs ==
  ASSUME NEW T, NEW v \in [T -> Int]
  PROVE  /\ Over(v, <<>>) = 0
         /\ \A s \in Seq(T) : Over(v, s) \in Int
         /\ \A s \in Seq(T), x \in T : Over(v, Append(s, x)) = Over(v, s) + v[x]
         /\ \A s, t \in Seq(T) : Over(v, s \o t) = Over(v, s) + Over(v, t)
  <1>1. Over(v, <<>>) = 0
    <2>1. 1..Len(<<>>) = {} /\ [k \in 1..Len(<<>>) |-> v[<<>>[k]]] \in [{} -> Int]  OBVIOUS
    <2> QED  BY <2>1, FS_EmptySet, SumIs DEF Over
  <1>2. ASSUME NEW s \in Seq(T)  PROVE Over(v, s) \in Int
    <2>1. [k \in 1..Len(s) |-> v[s[k]]] \in [1..Len(s) -> Int]  OBVIOUS
    <2>2. IsFiniteSet(1..Len(s))  BY FS_Interval
    <2> QED  BY <2>1, <2>2, SumIs DEF Over
  <1>3. ASSUME NEW s \in Seq(T), NEW x \in T  PROVE Over(v, Append(s, x)) = Over(v, s) + v[x]
    <2> DEFINE f == [k \in 1..Len(Append(s, x)) |-> v[Append(s, x)[k]]]
               g == [k \in 1..Len(s) |-> v[s[k]]]
               n == Len(s)
    <2>1. n \in Nat /\ f \in [1..(n + 1) -> Int] /\ g \in [1..n -> Int] /\ (\A k \in 1..n : f[k] = g[k]) /\ f[n + 1] = v[x]
      OBVIOUS
    <2>2. Over(v, Append(s, x)) = SumFunction(f) /\ Over(v, s) = SumFunction(g)  BY DEF Over
    <2> HIDE DEF f, g, n
    <2> QED  BY <2>1, <2>2, SumOneMore
  <1>4. ASSUME NEW s \in Seq(T), NEW t \in Seq(T)  PROVE Over(v, s \o t) = Over(v, s) + Over(v, t)
    <2> DEFINE f == [k \in 1..Len(s \o t) |-> v[(s \o t)[k]]]
               g == [k \in 1..Len(s) |-> v[s[k]]]
               h == [k \in 1..Len(t) |-> v[t[k]]]
               m == Len(s)
               n == Len(t)
    <2>1. m \in Nat /\ n \in Nat /\ g \in [1..m -> Int] /\ h \in [1..n -> Int]  OBVIOUS
    <2>2. s \o t \in Seq(T) /\ Len(s \o t) = m + n  OBVIOUS
    <2>3. f \in [1..(m + n) -> Int]  BY <2>2
    <2>4. \A k \in 1..m : f[k] = g[k]  OBVIOUS
    <2>5. \A k \in 1..n : f[m + k] = h[k]  OBVIOUS
    <2>6. Over(v, s \o t) = SumFunction(f) /\ Over(v, s) = SumFunction(g) /\ Over(v, t) = SumFunction(h)
      BY DEF Over
    <2> HIDE DEF f, g, h, m, n
    <2>7. SumFunction(f) = SumFunction(g) + SumFunction(h)  BY <2>1, <2>3, <2>4, <2>5, SumJoined
    <2> QED  BY <2>6, <2>7
  <1> QED  BY <1>1, <1>2, <1>3, <1>4

-----------------------------------------------------------------------------
(* Folds from the left, by the state after each element. *)

\* f is the states of a fold over the first n places, by the places passed.
FoldOf(f, n, A, base, G) ==
  /\ f \in [SUBSET (1..n) -> A]
  /\ f[{}] = base
  /\ \A T \in SUBSET (1..n) : T # {} => f[T] = G[f[T \ {Max(T)}]][Max(T)]

\* A fold is defined when its steps stay in a set.
LEMMA FoldExists ==
  ASSUME NEW n \in Nat, NEW A, NEW base \in A, NEW G \in [A -> [1..n -> A]]
  PROVE  \E f : FoldOf(f, n, A, base, G)
  <1> DEFINE P == {m \in Nat : m <= n => \E f : FoldOf(f, m, A, base, G)}
  <1>1. 0 \in P
    <2> DEFINE f == [T \in SUBSET (1..0) |-> base]
    <2>1. 1..0 = {}  OBVIOUS
    <2>2. FoldOf(f, 0, A, base, G)  BY <2>1 DEF FoldOf
    <2> QED  BY <2>2
  <1>2. ASSUME NEW m \in Nat, m \in P  PROVE m + 1 \in P
    <2> SUFFICES ASSUME m + 1 <= n  PROVE \E f : FoldOf(f, m + 1, A, base, G)  OBVIOUS
    <2>0. m <= n /\ m + 1 \in 1..n  OBVIOUS
    <2>1. PICK f : FoldOf(f, m, A, base, G)  BY <1>2, <2>0
    <2> DEFINE g == [T \in SUBSET (1..(m + 1)) |->
                       IF m + 1 \in T THEN G[f[T \ {m + 1}]][m + 1] ELSE f[T]]
    <2>2. \A T \in SUBSET (1..(m + 1)) :
            /\ T \ {m + 1} \in SUBSET (1..m)
            /\ m + 1 \notin T => T \in SUBSET (1..m)
      OBVIOUS
    <2>3. ASSUME NEW T \in SUBSET (1..(m + 1)), m + 1 \in T  PROVE Max(T) = m + 1
      <3>1. m + 1 \in Nat /\ T # {}  BY <2>3
      <3>2. Max(T) \in T /\ \A i \in T : i <= Max(T)  BY <3>1, MaxOf
      <3>3. Max(T) \in 1..(m + 1) /\ m + 1 <= Max(T)  BY <2>3, <3>2
      <3> QED  BY <3>1, <3>3
    <2>4. g \in [SUBSET (1..(m + 1)) -> A] /\ g[{}] = base
      <3> SUFFICES ASSUME NEW T \in SUBSET (1..(m + 1))
                   PROVE  (IF m + 1 \in T THEN G[f[T \ {m + 1}]][m + 1] ELSE f[T]) \in A
        BY <2>1 DEF FoldOf
      <3>1. f \in [SUBSET (1..m) -> A]  BY <2>1 DEF FoldOf
      <3>2. CASE m + 1 \in T
        <4>1. f[T \ {m + 1}] \in A  BY <2>2, <3>1
        <4>2. G[f[T \ {m + 1}]] \in [1..n -> A]  BY <4>1
        <4> QED  BY <2>0, <3>2, <4>2
      <3>3. CASE m + 1 \notin T  BY <2>2, <3>1, <3>3
      <3> QED  BY <3>2, <3>3
    <2>5. ASSUME NEW T \in SUBSET (1..(m + 1)), T # {}  PROVE g[T] = G[g[T \ {Max(T)}]][Max(T)]
      <3>1. CASE m + 1 \in T
        <4>1. g[T] = G[f[T \ {m + 1}]][m + 1]  BY <3>1
        <4>2. T \ {m + 1} \in SUBSET (1..(m + 1)) /\ m + 1 \notin T \ {m + 1}  OBVIOUS
        <4>3. g[T \ {m + 1}] = f[T \ {m + 1}]  BY <4>2
        <4> HIDE DEF g
        <4> QED  BY <2>3, <3>1, <4>1, <4>3
      <3>2. CASE m + 1 \notin T
        <4>1. T \in SUBSET (1..m) /\ g[T] = f[T]  BY <2>2, <3>2
        <4>2. f[T] = G[f[T \ {Max(T)}]][Max(T)]  BY <2>1, <2>5, <4>1 DEF FoldOf
        <4>3. T \ {Max(T)} \in SUBSET (1..(m + 1)) /\ m + 1 \notin T \ {Max(T)}  BY <3>2
        <4>4. g[T \ {Max(T)}] = f[T \ {Max(T)}]  BY <4>3
        <4> HIDE DEF g
        <4> QED  BY <4>1, <4>2, <4>4
      <3> QED  BY <3>1, <3>2
    <2> HIDE DEF g
    <2> QED  BY <2>4, <2>5 DEF FoldOf
  <1> QED
    <2> HIDE DEF P
    <2>1. n \in P  BY <1>1, <1>2, NumberInduction
    <2> QED  BY <2>1 DEF P

\* f takes a step of a fold wherever it is in A.
Folds(f, n, A, base, G) ==
  /\ f[{}] = base
  /\ \A T \in SUBSET (1..n) :
       T # {} /\ f[T \ {Max(T)}] \in A => f[T] = G[f[T \ {Max(T)}]][Max(T)]

\* g is its states after each place.
Walks(g, f, n, A, base, G) ==
  /\ g \in [0..n -> A] /\ g[0] = base /\ g[n] = f[1..n]
  /\ \A k \in 1..n : g[k - 1] \in A /\ g[k] = G[g[k - 1]][k]

LEMMA FoldPath ==
  ASSUME NEW n \in Nat, NEW A, NEW base \in A, NEW G \in [A -> [1..n -> A]],
         NEW f, Folds(f, n, A, base, G)
  PROVE  \E g : Walks(g, f, n, A, base, G)
  <1> DEFINE g == [k \in 0..n |-> f[1..k]]
             P == {k \in Nat : k <= n => f[1..k] \in A}
  <1>1. 1..0 = {} /\ f[1..0] = base  BY DEF Folds
  <1>2. ASSUME NEW k \in 1..n, f[1..(k - 1)] \in A  PROVE f[1..k] = G[f[1..(k - 1)]][k]
    BY <1>2, UptoMax DEF Folds
  <1>3. ASSUME NEW k \in Nat, k \in P  PROVE k + 1 \in P
    <2> SUFFICES ASSUME k + 1 <= n  PROVE f[1..(k + 1)] \in A  OBVIOUS
    <2>1. k + 1 \in 1..n /\ (k + 1) - 1 = k /\ f[1..k] \in A  BY <1>3
    <2>2. f[1..(k + 1)] = G[f[1..k]][k + 1]  BY <1>2, <2>1
    <2> QED  BY <2>1, <2>2
  <1>4. Nat \subseteq P
    <2>1. 0 \in P  BY <1>1
    <2> HIDE DEF P
    <2> QED  BY <1>3, <2>1, NumberInduction
  <1>5. \A k \in 0..n : f[1..k] \in A  BY <1>4
  <1>6. \A k \in 1..n : k \in 0..n /\ k - 1 \in 0..n  OBVIOUS
  <1>7. g \in [0..n -> A] /\ g[0] = base /\ g[n] = f[1..n]  BY <1>1, <1>5
  <1>8. \A k \in 1..n : g[k - 1] \in A /\ g[k] = G[g[k - 1]][k]  BY <1>2, <1>5, <1>6
  <1> HIDE DEF g
  <1> QED  BY <1>7, <1>8 DEF Walks

-----------------------------------------------------------------------------
(* Matching books what the fills are worth. *)

\* Fills and lots as the proofs know them.
Fills == [symbol : Syms, side : {"buy", "sell"}, qty : Nat, price : Int, time : Int]
LotRecs == [qty : Int, price : Int, time : Int]
TripRecs == [symbol : Syms, direction : {"long", "short"}, qty : Int, entry : Int, exit : Int,
             pnl : Int, openedAt : Int, closedAt : Int]

Matching == [remaining : Nat, kept : Seq(LotRecs), trips : Seq(TripRecs)]

\* One lot keeps the shape of the matching.
LEMMA MatchLotIn ==
  ASSUME NEW trade \in Fills, NEW acc \in Matching, NEW lot \in LotRecs
  PROVE  MatchLot(trade, acc, lot) \in Matching
  <1> DEFINE matched == Smaller(acc.remaining, lot.qty)
  <1>1. matched \in Int /\ acc.remaining - matched \in Nat  BY DEF Smaller, Matching, LotRecs
  <1>2. [lot EXCEPT !.qty = @ - matched] \in LotRecs  BY <1>1 DEF LotRecs
  <1>3. Trip(trade, lot, matched) \in TripRecs
    <2>1. Signed(Closed(trade.side)) \in Int /\ Closed(trade.side) \in {"long", "short"}
      BY DEF Signed, Closed
    <2>2. trade.price - lot.price \in Int  BY DEF Fills, LotRecs
    <2>3. Signed(Closed(trade.side)) * (trade.price - lot.price) * matched \in Int
      BY <1>1, <2>1, <2>2
    <2> HIDE DEF matched
    <2> QED  BY <1>1, <2>1, <2>3 DEF Trip, TripRecs, Fills, LotRecs
  <1> HIDE DEF matched
  <1>4. /\ Append(acc.kept, [lot EXCEPT !.qty = @ - matched]) \in Seq(LotRecs) /\ acc.kept \in Seq(LotRecs)
        /\ Append(acc.trips, Trip(trade, lot, matched)) \in Seq(TripRecs) /\ acc.trips \in Seq(TripRecs)
    BY <1>2, <1>3 DEF Matching
  <1> QED  BY <1>1, <1>4 DEF MatchLot, Matching, matched

\* The states of MatchLots.
LEMMA MatchLotsAre ==
  ASSUME NEW trade \in Fills, NEW lots \in Seq(LotRecs)
  PROVE  \E g \in [0..Len(lots) -> Matching] :
           /\ g[0] = [remaining |-> trade.qty, kept |-> <<>>, trips |-> <<>>]
           /\ \A k \in 1..Len(lots) : g[k] = MatchLot(trade, g[k - 1], lots[k])
           /\ MatchLots(trade, lots) = g[Len(lots)]
  <1> DEFINE base == [remaining |-> trade.qty, kept |-> <<>>, trips |-> <<>>]
             Is(f) == f = [T \in SUBSET DOMAIN lots |->
                            IF T = {} THEN base
                            ELSE LET i == Max(T) IN MatchLot(trade, f[T \ {i}], lots[i])]
             f == CHOOSE f : Is(f)
             n == Len(lots)
             G == [a \in Matching |-> [k \in 1..n |-> MatchLot(trade, a, lots[k])]]
  <1>1. DOMAIN lots = 1..n /\ n \in Nat  OBVIOUS
  <1>2. MatchLots(trade, lots) = f[DOMAIN lots]  BY Zenon DEF MatchLots, FoldLeft, MapThenFoldSet
  <1>3. base \in Matching  BY DEF Matching, Fills
  <1>4. G \in [Matching -> [1..n -> Matching]]
    <2> SUFFICES ASSUME NEW a \in Matching, NEW k \in 1..n  PROVE MatchLot(trade, a, lots[k]) \in Matching
      OBVIOUS
    <2>1. lots[k] \in LotRecs  OBVIOUS
    <2> QED  BY <2>1, MatchLotIn
  <1>5. \A a \in Matching, k \in 1..n : G[a][k] = MatchLot(trade, a, lots[k])  OBVIOUS
  <1>6. \A T \in SUBSET (1..n) : T # {} => Max(T) \in 1..n  BY <1>1, MaxOf
  <1> HIDE DEF base, G, n, f
  <1>7. \E h : Is(h)
    <2>0. PICK h : FoldOf(h, n, Matching, base, G)
      <3> HIDE DEF Is
      <3> QED  BY <1>1, <1>3, <1>4, FoldExists
    <2>2. ASSUME NEW T \in SUBSET (1..n)
          PROVE  h[T] = IF T = {} THEN base ELSE MatchLot(trade, h[T \ {Max(T)}], lots[Max(T)])
      <3>1. T \ {Max(T)} \in SUBSET (1..n)  OBVIOUS
      <3>2. h[T \ {Max(T)}] \in Matching  BY <2>0, <3>1 DEF FoldOf
      <3> QED  BY <1>5, <1>6, <2>0, <3>2 DEF FoldOf
    <2>3. h = [T \in SUBSET (1..n) |-> h[T]]  BY <2>0 DEF FoldOf
    <2>4. h = [T \in SUBSET (1..n) |->
                 IF T = {} THEN base ELSE MatchLot(trade, h[T \ {Max(T)}], lots[Max(T)])]
      BY <2>2, <2>3
    <2>5. Is(h)  BY <1>1, <2>4
    <2> HIDE DEF Is
    <2> QED  BY <2>5
  <1>8. Is(f)
    <2> HIDE DEF Is
    <2> QED  BY <1>7 DEF f
  <1>9. /\ f[{}] = base
        /\ \A T \in SUBSET (1..n) : T # {} => f[T] = MatchLot(trade, f[T \ {Max(T)}], lots[Max(T)])
    BY <1>1, <1>8
  <1> HIDE DEF Is
  <1>10. Folds(f, n, Matching, base, G)  BY <1>5, <1>6, <1>9 DEF Folds
  <1>11. PICK g : Walks(g, f, n, Matching, base, G)  BY <1>1, <1>3, <1>4, <1>10, FoldPath
  <1>12. \A k \in 1..n : g[k] = MatchLot(trade, g[k - 1], lots[k])  BY <1>5, <1>11 DEF Walks
  <1> QED  BY <1>1, <1>2, <1>11, <1>12 DEF base, n, Walks

-----------------------------------------------------------------------------
(* What a fill books: what it realises, and what the lots are worth after. *)

LotWorth(dir, close) == [lot \in LotRecs |-> Signed(dir) * (close - lot.price) * lot.qty]
TripPnl == [trip \in TripRecs |-> trip.pnl]

\* Worths and profits are integers.
LEMMA WorthIs ==
  ASSUME NEW dir, NEW close \in Int
  PROVE  /\ LotWorth(dir, close) \in [LotRecs -> Int] /\ TripPnl \in [TripRecs -> Int]
         /\ Signed(dir) \in {1, -1}
  <1>1. Signed(dir) \in {1, -1}  BY DEF Signed
  <1>2. ASSUME NEW lot \in LotRecs  PROVE Signed(dir) * (close - lot.price) * lot.qty \in Int
    BY <1>1 DEF LotRecs
  <1>3. TripPnl \in [TripRecs -> Int]  BY DEF TripPnl, TripRecs
  <1> QED  BY <1>1, <1>2, <1>3 DEF LotWorth

LEMMA TripPnlIs == TripPnl \in [TripRecs -> Int] /\ \A dir : Signed(dir) \in {1, -1}
  BY DEF TripPnl, TripRecs, Signed

\* A part of a lot that is closed at one price and marked at another.
LEMMA ClosedPart ==
  ASSUME NEW s \in {1, -1}, NEW paid \in Int, NEW got \in Int, NEW close \in Int,
         NEW q \in Int, NEW m \in Int
  PROVE  s * (got - paid) * m + s * (close - paid) * (q - m)
           = s * (close - paid) * q + s * (got - close) * m
  <1>1. (got - paid) * m + (close - paid) * (q - m) = (close - paid) * q + (got - close) * m  BY Z3
  <1>2. PICK a \in Int, b \in Int, c \in Int, d \in Int :
          /\ a = (got - paid) * m /\ b = (close - paid) * (q - m)
          /\ c = (close - paid) * q /\ d = (got - close) * m
    OBVIOUS
  <1>3. CASE s = 1  BY <1>1, <1>3
  <1>4. CASE s = -1
    <2>1. /\ s * (got - paid) * m = -a /\ s * (close - paid) * (q - m) = -b
          /\ s * (close - paid) * q = -c /\ s * (got - close) * m = -d
      BY <1>2, <1>4, Z3
    <2> QED  BY <1>1, <1>2, <2>1
  <1> QED  BY <1>3, <1>4

\* One lot moves worth to the trips and books the gain on the closed part.
LEMMA MatchLotBooks ==
  ASSUME NEW trade \in Fills, NEW acc \in Matching, NEW lot \in LotRecs, NEW close \in Int,
         NEW d, d = Closed(trade.side), NEW w, w = LotWorth(d, close),
         NEW next, next = MatchLot(trade, acc, lot)
  PROVE  /\ Over(TripPnl, next.trips) + Over(w, next.kept)
              = Over(TripPnl, acc.trips) + Over(w, acc.kept) + w[lot]
                  + Signed(d) * (trade.price - close) * (acc.remaining - next.remaining)
  <1> DEFINE m == Smaller(acc.remaining, lot.qty)
             rest == [lot EXCEPT !.qty = @ - m]
             trip == Trip(trade, lot, m)
  <1>0. /\ Signed(d) \in {1, -1} /\ w \in [LotRecs -> Int] /\ TripPnl \in [TripRecs -> Int]
    BY WorthIs
  <1>1. /\ m \in Int /\ lot.qty \in Int /\ lot.price \in Int /\ trade.price \in Int
        /\ acc.remaining \in Int
        /\ acc.kept \in Seq(LotRecs) /\ acc.trips \in Seq(TripRecs)
    BY DEF Smaller, Matching, LotRecs, Fills
  <1>2. /\ next.remaining = acc.remaining - m
        /\ next.kept = IF m = lot.qty THEN acc.kept ELSE Append(acc.kept, rest)
        /\ next.trips = IF m = 0 THEN acc.trips ELSE Append(acc.trips, trip)
    BY DEF MatchLot
  <1>3. rest \in LotRecs /\ rest.qty = lot.qty - m /\ rest.price = lot.price  BY <1>1 DEF LotRecs
  <1>4. trip \in TripRecs /\ trip.pnl = Signed(d) * (trade.price - lot.price) * m
    <2>1. Closed(trade.side) \in {"long", "short"}  BY DEF Closed
    <2>2. Signed(d) * (trade.price - lot.price) * m \in Int
      <3> HIDE DEF m
      <3> QED  BY <1>0, <1>1
    <2> HIDE DEF m
    <2> QED  BY <1>1, <2>1, <2>2 DEF Trip, TripRecs, Fills, LotRecs
  <1>5. /\ w[lot] = Signed(d) * (close - lot.price) * lot.qty
        /\ w[rest] = Signed(d) * (close - lot.price) * (lot.qty - m)
        /\ TripPnl[trip] = Signed(d) * (trade.price - lot.price) * m
    <2> HIDE DEF m, rest, trip
    <2> QED  BY <1>3, <1>4 DEF LotWorth, TripPnl
  <1> HIDE DEF m, rest, trip
  <1>6. TripPnl[trip] + w[rest] = w[lot] + Signed(d) * (trade.price - close) * m
    <2>1. Signed(d) * (trade.price - lot.price) * m + Signed(d) * (close - lot.price) * (lot.qty - m)
            = Signed(d) * (close - lot.price) * lot.qty + Signed(d) * (trade.price - close) * m
      <3>1. PICK s \in {1, -1} : s = Signed(d)  BY <1>0
      <3>2. PICK paid \in Int, got \in Int, q \in Int, part \in Int :
              paid = lot.price /\ got = trade.price /\ q = lot.qty /\ part = m
        BY <1>1
      <3>3. s * (got - paid) * part + s * (close - paid) * (q - part)
              = s * (close - paid) * q + s * (got - close) * part
        BY ClosedPart
      <3> QED  BY <3>1, <3>2, <3>3, Zenon
    <2> QED  BY <1>5, <2>1
  <1>7. Over(TripPnl, next.trips) = Over(TripPnl, acc.trips) + TripPnl[trip]
    <2>1. CASE m = 0
      <3>1. TripPnl[trip] = 0  BY <1>0, <1>1, <1>5, <2>1
      <3>2. Over(TripPnl, acc.trips) \in Int  BY <1>0, <1>1, OverIs
      <3> QED  BY <1>2, <2>1, <3>1, <3>2
    <2>2. CASE m # 0  BY ZenonT(60), <1>0, <1>1, <1>2, <1>4, <2>2, OverIs
    <2> QED  BY <2>1, <2>2
  <1>8. Over(w, next.kept) = Over(w, acc.kept) + w[rest]
    <2>1. CASE m = lot.qty
      <3>1. w[rest] = 0  BY <1>0, <1>1, <1>5, <2>1
      <3>2. Over(w, acc.kept) \in Int  BY <1>0, <1>1, OverIs
      <3> QED  BY <1>2, <2>1, <3>1, <3>2
    <2>2. CASE m # lot.qty  BY SMTT(30), <1>0, <1>1, <1>2, <1>3, <2>2, OverIs
    <2> QED  BY <2>1, <2>2
  <1>9. /\ Over(TripPnl, acc.trips) \in Int /\ Over(w, acc.kept) \in Int
        /\ TripPnl[trip] \in Int /\ w[rest] \in Int /\ w[lot] \in Int
    BY <1>0, <1>1, <1>3, <1>4, OverIs
  <1>10. acc.remaining - next.remaining = m  BY <1>1, <1>2
  <1>11. PICK x \in Int : x = Signed(d) * (trade.price - close) * m  BY <1>0, <1>1
  <1>12. TripPnl[trip] + w[rest] = w[lot] + x  BY <1>6, <1>11
  <1> QED  BY <1>7, <1>8, <1>9, <1>10, <1>11, <1>12

\* All lots of the closing deque: what is realised and what the lots kept are
\* worth is what the lots were worth and what the fill gained on its part.
LEMMA MatchLotsBook ==
  ASSUME NEW trade \in Fills, NEW lots \in Seq(LotRecs), NEW close \in Int,
         NEW d, d = Closed(trade.side), NEW w, w = LotWorth(d, close),
         NEW m, m = MatchLots(trade, lots)
  PROVE  /\ m \in Matching
         /\ Over(TripPnl, m.trips) + Over(w, m.kept)
              = Over(w, lots) + Signed(d) * (trade.price - close) * (trade.qty - m.remaining)
         /\ lots = <<>> => m.kept = <<>>
  <1> DEFINE n == Len(lots)
  <1>0. /\ Signed(d) \in {1, -1} /\ w \in [LotRecs -> Int] /\ TripPnl \in [TripRecs -> Int]
    BY WorthIs
  <1>1. PICK g \in [0..n -> Matching] :
          /\ g[0] = [remaining |-> trade.qty, kept |-> <<>>, trips |-> <<>>]
          /\ \A k \in 1..n : g[k] = MatchLot(trade, g[k - 1], lots[k])
          /\ MatchLots(trade, lots) = g[n]
    BY MatchLotsAre
  <1>2. n \in Nat /\ \A k \in 1..n : lots[k] \in LotRecs  OBVIOUS
  <1> HIDE DEF n
  <1>3. m = g[n] /\ m \in Matching  BY <1>1, <1>2
  <1> DEFINE gain(k) == Signed(d) * (trade.price - close) * (trade.qty - g[k].remaining)
             h == [k \in 0..n |-> Over(TripPnl, g[k].trips) + Over(w, g[k].kept) - gain(k)]
             f == [k \in 1..n |-> w[lots[k]]]
  <1>4. ASSUME NEW k \in 0..n
        PROVE  /\ gain(k) \in Int /\ Over(TripPnl, g[k].trips) \in Int /\ Over(w, g[k].kept) \in Int
               /\ g[k].remaining \in Int
    <2>1. g[k] \in Matching  BY <1>1
    <2>2. /\ g[k].remaining \in Int /\ g[k].trips \in Seq(TripRecs) /\ g[k].kept \in Seq(LotRecs)
          /\ trade.price \in Int /\ trade.qty \in Int
      BY <2>1 DEF Matching, Fills
    <2>3. gain(k) \in Int  BY SMTT(30), <1>0, <2>2
    <2> HIDE DEF gain
    <2> QED  BY <1>0, <2>2, <2>3, OverIs
  <1>5. h[0] = 0
    <2>1. g[0].remaining = trade.qty /\ g[0].kept = <<>> /\ g[0].trips = <<>>  BY <1>1
    <2>2. Over(TripPnl, <<>>) = 0 /\ Over(w, <<>>) = 0  BY <1>0, OverIs
    <2>3. gain(0) = 0  BY <1>0, <2>1 DEF Fills
    <2>4. 0 \in 0..n  BY <1>2
    <2> HIDE DEF gain
    <2> QED  BY <2>1, <2>2, <2>3, <2>4
  <1>6. ASSUME NEW k \in 1..n  PROVE h[k] = h[k - 1] + f[k]
    <2>1. k - 1 \in 0..n /\ k \in 0..n  BY <1>2
    <2>2. g[k] = MatchLot(trade, g[k - 1], lots[k]) /\ g[k - 1] \in Matching /\ lots[k] \in LotRecs
      BY <1>1, <1>2, <2>1
    <2>3. Over(TripPnl, g[k].trips) + Over(w, g[k].kept)
            = Over(TripPnl, g[k - 1].trips) + Over(w, g[k - 1].kept) + w[lots[k]]
                + Signed(d) * (trade.price - close) * (g[k - 1].remaining - g[k].remaining)
      BY <2>2, MatchLotBooks
    <2>4. gain(k) = gain(k - 1)
                      + Signed(d) * (trade.price - close) * (g[k - 1].remaining - g[k].remaining)
      <3>1. PICK x \in Int : x = Signed(d) * (trade.price - close)  BY <1>0 DEF Fills
      <3>2. trade.qty \in Int /\ g[k].remaining \in Int /\ g[k - 1].remaining \in Int
        BY <1>4, <2>1 DEF Fills
      <3>3. \A a, b, c \in Int : x * (a - b) = x * (a - c) + x * (c - b)  BY Z3
      <3>4. x * (trade.qty - g[k].remaining)
              = x * (trade.qty - g[k - 1].remaining) + x * (g[k - 1].remaining - g[k].remaining)
        BY <3>2, <3>3
      <3> QED  BY <3>1, <3>4
    <2>5. PICK y \in Int : y = Signed(d) * (trade.price - close) * (g[k - 1].remaining - g[k].remaining)
      <3>1. g[k - 1].remaining - g[k].remaining \in Int /\ trade.price - close \in Int
        <4>1. g[k].remaining \in Int /\ g[k - 1].remaining \in Int
          <5> HIDE DEF gain, h, f
          <5> QED  BY <1>4, <2>1
        <4>2. trade.price \in Int  BY DEF Fills
        <4> QED  BY <4>1, <4>2
      <3>2. Signed(d) * (trade.price - close) \in Int  BY <1>0, <3>1
      <3> QED  BY <3>1, <3>2
    <2>6. w[lots[k]] \in Int /\ f[k] = w[lots[k]]  BY <1>0, <1>2
    <2>7. /\ gain(k) \in Int /\ Over(TripPnl, g[k].trips) \in Int /\ Over(w, g[k].kept) \in Int
          /\ gain(k - 1) \in Int /\ Over(TripPnl, g[k - 1].trips) \in Int
          /\ Over(w, g[k - 1].kept) \in Int
      BY <1>4, <2>1
    <2> HIDE DEF gain, f
    <2>8. /\ h[k] = Over(TripPnl, g[k].trips) + Over(w, g[k].kept) - gain(k)
          /\ h[k - 1] = Over(TripPnl, g[k - 1].trips) + Over(w, g[k - 1].kept) - gain(k - 1)
      BY <2>1
    <2> HIDE DEF h
    <2>9. gain(k) = gain(k - 1) + y  BY <2>4, <2>5
    <2>10. Over(TripPnl, g[k].trips) + Over(w, g[k].kept)
             = Over(TripPnl, g[k - 1].trips) + Over(w, g[k - 1].kept) + w[lots[k]] + y
      BY <2>3, <2>5
    <2>11. PICK a \in Int, b \in Int, c \in Int, p \in Int, q \in Int, r \in Int, z \in Int :
             /\ a = gain(k) /\ b = Over(TripPnl, g[k].trips) /\ c = Over(w, g[k].kept)
             /\ p = gain(k - 1) /\ q = Over(TripPnl, g[k - 1].trips) /\ r = Over(w, g[k - 1].kept)
             /\ z = w[lots[k]]
      BY <2>6, <2>7, Zenon
    <2>12. h[k] = b + c - a /\ h[k - 1] = q + r - p /\ f[k] = z  BY <2>6, <2>8, <2>11
    <2>13. a = p + y /\ b + c = q + r + z + y  BY <2>9, <2>10, <2>11
    <2> HIDE DEF h
    <2>14. b + c - a = (q + r - p) + z  BY <2>13
    <2> QED  BY <2>12, <2>14
  <1>7. f \in [1..n -> Int]  BY <1>0, <1>2
  <1>8. h[n] = SumFunction(f)
    <2> HIDE DEF h, f
    <2> QED  BY <1>2, <1>5, <1>6, <1>7, SumRunning
  <1>9. SumFunction(f) = Over(w, lots)  BY DEF Over, n
  <1>10. h[n] = Over(TripPnl, m.trips) + Over(w, m.kept) - gain(n) /\ n \in 0..n  BY <1>2, <1>3
  <1>11. Over(TripPnl, m.trips) + Over(w, m.kept) = Over(w, lots) + gain(n)
    <2> HIDE DEF h, f, gain
    <2> QED  BY <1>3, <1>4, <1>8, <1>9, <1>10
  <1>12. lots = <<>> => m.kept = <<>>  BY <1>1, <1>3 DEF n
  <1> QED  BY <1>3, <1>11, <1>12

-----------------------------------------------------------------------------
(* What all fills book. *)

Ledgers == [lots : [Syms \X {"long", "short"} -> Seq(LotRecs)], trips : Seq(TripRecs)]

\* What a lot opened with a fill is, and the two deques of the fill.
LEMMA Deques ==
  ASSUME NEW trade \in Fills
  PROVE  /\ Closed(trade.side) \in {"long", "short"} /\ Opened(trade.side) \in {"long", "short"}
         /\ Closed(trade.side) # Opened(trade.side)
         /\ \/ Signed(Closed(trade.side)) = 1 /\ Signed(Opened(trade.side)) = -1
            \/ Signed(Closed(trade.side)) = -1 /\ Signed(Opened(trade.side)) = 1
         /\ Delta(trade.side, trade.qty) = Signed(Opened(trade.side)) * trade.qty
         /\ trade.symbol \in Syms /\ trade.qty \in Int /\ trade.price \in Int /\ trade.time \in Int
  <1>1. /\ trade.side \in {"buy", "sell"} /\ trade.qty \in Int
        /\ trade.symbol \in Syms /\ trade.price \in Int /\ trade.time \in Int
    BY DEF Fills
  <1>2. CASE trade.side = "buy"
    <2>1. /\ Closed(trade.side) = "short" /\ Opened(trade.side) = "long"
          /\ Delta(trade.side, trade.qty) = trade.qty
      BY <1>2 DEF Closed, Opened, Delta
    <2>2. Signed("long") = 1 /\ Signed("short") = -1  BY DEF Signed
    <2> QED  BY <1>1, <2>1, <2>2
  <1>3. CASE trade.side = "sell"
    <2>1. /\ Closed(trade.side) = "long" /\ Opened(trade.side) = "short"
          /\ Delta(trade.side, trade.qty) = -trade.qty
      BY <1>3 DEF Closed, Opened, Delta
    <2>2. Signed("long") = 1 /\ Signed("short") = -1  BY SMTT(30) DEF Signed
    <2> QED  BY <1>1, <2>1, <2>2
  <1> QED  BY <1>1, <1>2, <1>3

\* One fill, deque by deque.
LEMMA MatchTradeIs ==
  ASSUME NEW acc \in Ledgers, NEW trade \in Fills
  PROVE  LET d == Closed(trade.side)
             o == Opened(trade.side)
             m == MatchLots(trade, acc.lots[<<trade.symbol, d>>])
             lot == [qty |-> m.remaining, price |-> trade.price, time |-> trade.time]
             next == MatchTrade(acc, trade)
         IN
         /\ m \in Matching /\ lot \in LotRecs
         /\ next \in Ledgers
         /\ next.trips = acc.trips \o m.trips
         /\ next.lots[<<trade.symbol, d>>] = m.kept
         /\ next.lots[<<trade.symbol, o>>]
              = IF m.remaining > 0 THEN Append(acc.lots[<<trade.symbol, o>>], lot)
                ELSE acc.lots[<<trade.symbol, o>>]
         /\ \A k \in Syms \X {"long", "short"} : k[1] # trade.symbol => next.lots[k] = acc.lots[k]
  <1> DEFINE K == Syms \X {"long", "short"}
             d == Closed(trade.side)
             o == Opened(trade.side)
             m == MatchLots(trade, acc.lots[<<trade.symbol, d>>])
             lot == [qty |-> m.remaining, price |-> trade.price, time |-> trade.time]
             close == <<trade.symbol, d>>
             open  == <<trade.symbol, o>>
             next  == MatchTrade(acc, trade)
             opens == IF m.remaining > 0 THEN Append(acc.lots[open], lot) ELSE acc.lots[open]
  <1>1. /\ close \in K /\ open \in K /\ close # open  BY Deques
  <1>2. acc.lots \in [K -> Seq(LotRecs)] /\ acc.trips \in Seq(TripRecs)  BY DEF Ledgers
  <1>3. m \in Matching
    <2>1. acc.lots[close] \in Seq(LotRecs)  BY <1>1, <1>2
    <2>2. \A lots \in Seq(LotRecs) : MatchLots(trade, lots) \in Matching  BY MatchLotsBook
    <2> QED  BY <2>1, <2>2
  <1>4. m.remaining \in Nat /\ m.kept \in Seq(LotRecs) /\ m.trips \in Seq(TripRecs)
    BY <1>3 DEF Matching
  <1>5. lot \in LotRecs
    <2> HIDE DEF m
    <2> QED  BY <1>4, Deques DEF LotRecs
  <1>6. next = [lots |-> [acc.lots EXCEPT ![close] = m.kept,
                             ![open] = IF m.remaining > 0 THEN Append(@, lot) ELSE @],
                trips |-> acc.trips \o m.trips]
    BY DEF MatchTrade
  <1> HIDE DEF next, close, open, K, m, lot
  <1>7. /\ next.trips = acc.trips \o m.trips
        /\ next.lots = [k \in K |-> IF k = open THEN opens ELSE IF k = close THEN m.kept ELSE acc.lots[k]]
    BY <1>1, <1>2, <1>6
  <1>8. opens \in Seq(LotRecs) /\ acc.trips \o m.trips \in Seq(TripRecs)  BY <1>1, <1>2, <1>4, <1>5
  <1>9. next.lots[open] = opens /\ next.lots[close] = m.kept  BY <1>1, <1>7
  <1>10. next.lots \in [K -> Seq(LotRecs)]
    <2> HIDE DEF opens
    <2> QED  BY <1>2, <1>4, <1>7, <1>8
  <1>11. next \in Ledgers
    <2>1. next = [lots |-> next.lots, trips |-> next.trips]  BY <1>6
    <2>2. next.trips \in Seq(TripRecs)  BY <1>7, <1>8
    <2> QED  BY <1>10, <2>1, <2>2 DEF Ledgers, K
  <1>12. \A k \in K : k[1] # trade.symbol => next.lots[k] = acc.lots[k]
    <2>1. close[1] = trade.symbol /\ open[1] = trade.symbol  BY DEF close, open
    <2> HIDE DEF opens
    <2> QED  BY <1>7, <2>1
  <1> HIDE DEF d, o
  <1> QED  BY <1>3, <1>5, <1>7, <1>9, <1>11, <1>12 DEF close, open, K, next, m, lot, d, o

\* The states of Match.
LEMMA MatchIs ==
  ASSUME NEW trades \in Seq(Fills)
  PROVE  \E g \in [0..Len(trades) -> Ledgers] :
           /\ g[0] = [lots |-> [k \in Syms \X {"long", "short"} |-> <<>>], trips |-> <<>>]
           /\ \A k \in 1..Len(trades) : g[k] = MatchTrade(g[k - 1], trades[k])
           /\ Match(Syms, trades) = g[Len(trades)]
  <1> DEFINE base == [lots |-> [k \in Syms \X {"long", "short"} |-> <<>>], trips |-> <<>>]
             Is(f) == f = [T \in SUBSET DOMAIN trades |->
                            IF T = {} THEN base
                            ELSE LET i == Max(T) IN MatchTrade(f[T \ {i}], trades[i])]
             f == CHOOSE f : Is(f)
             n == Len(trades)
             G == [a \in Ledgers |-> [k \in 1..n |-> MatchTrade(a, trades[k])]]
  <1>1. DOMAIN trades = 1..n /\ n \in Nat  OBVIOUS
  <1>2. Match(Syms, trades) = f[DOMAIN trades]  BY Zenon DEF Match, FoldLeft, MapThenFoldSet
  <1>3. base \in Ledgers  BY DEF Ledgers
  <1>4. G \in [Ledgers -> [1..n -> Ledgers]]
    <2> SUFFICES ASSUME NEW a \in Ledgers, NEW k \in 1..n  PROVE MatchTrade(a, trades[k]) \in Ledgers
      OBVIOUS
    <2>1. trades[k] \in Fills  OBVIOUS
    <2> QED  BY <2>1, MatchTradeIs
  <1>5. \A a \in Ledgers, k \in 1..n : G[a][k] = MatchTrade(a, trades[k])  OBVIOUS
  <1>6. \A T \in SUBSET (1..n) : T # {} => Max(T) \in 1..n  BY <1>1, MaxOf
  <1> HIDE DEF base, G, n, f
  <1>7. \E h : Is(h)
    <2>0. PICK h : FoldOf(h, n, Ledgers, base, G)
      <3> HIDE DEF Is
      <3> QED  BY <1>1, <1>3, <1>4, FoldExists
    <2>2. ASSUME NEW T \in SUBSET (1..n)
          PROVE  h[T] = IF T = {} THEN base ELSE MatchTrade(h[T \ {Max(T)}], trades[Max(T)])
      <3>1. T \ {Max(T)} \in SUBSET (1..n)  OBVIOUS
      <3>2. h[T \ {Max(T)}] \in Ledgers  BY <2>0, <3>1 DEF FoldOf
      <3> QED  BY <1>5, <1>6, <2>0, <3>2 DEF FoldOf
    <2>3. h = [T \in SUBSET (1..n) |-> h[T]]  BY <2>0 DEF FoldOf
    <2>4. h = [T \in SUBSET (1..n) |->
                 IF T = {} THEN base ELSE MatchTrade(h[T \ {Max(T)}], trades[Max(T)])]
      BY <2>2, <2>3
    <2>5. Is(h)  BY <1>1, <2>4
    <2> HIDE DEF Is
    <2> QED  BY <2>5
  <1>8. Is(f)
    <2> HIDE DEF Is
    <2> QED  BY <1>7 DEF f
  <1>9. /\ f[{}] = base
        /\ \A T \in SUBSET (1..n) : T # {} => f[T] = MatchTrade(f[T \ {Max(T)}], trades[Max(T)])
    BY <1>1, <1>8
  <1> HIDE DEF Is
  <1>10. Folds(f, n, Ledgers, base, G)  BY <1>5, <1>6, <1>9 DEF Folds
  <1>11. PICK g : Walks(g, f, n, Ledgers, base, G)  BY <1>1, <1>3, <1>4, <1>10, FoldPath
  <1>12. \A k \in 1..n : g[k] = MatchTrade(g[k - 1], trades[k])  BY <1>5, <1>11 DEF Walks
  <1> QED  BY <1>1, <1>2, <1>11, <1>12 DEF base, n, Walks

\* What the lots of a symbol are worth, and of all symbols.
Values(lots, closes) == SumFunction([s \in Syms |-> Unrealized(s, lots, closes[s])])

\* What a fill is worth when it is marked at closes.
Exposure(closes) ==
  [trade \in Fills |-> (closes[trade.symbol] - trade.price) * Delta(trade.side, trade.qty)]

\* Unrealized, as sums along the two deques.
LEMMA UnrealizedIs ==
  ASSUME NEW lots \in [Syms \X {"long", "short"} -> Seq(LotRecs)], NEW s \in Syms, NEW close \in Int
  PROVE  /\ Unrealized(s, lots, close)
              = Over(LotWorth("long", close), lots[<<s, "long">>])
                  + Over(LotWorth("short", close), lots[<<s, "short">>])
         /\ \A dir \in {"long", "short"} : Over(LotWorth(dir, close), lots[<<s, dir>>]) \in Int
         /\ Unrealized(s, lots, close) \in Int
  <1>1. ASSUME NEW dir \in {"long", "short"}
        PROVE  /\ SumFunction([i \in DOMAIN lots[<<s, dir>>] |->
                                 Signed(dir) * (close - lots[<<s, dir>>][i].price) * lots[<<s, dir>>][i].qty])
                    = Over(LotWorth(dir, close), lots[<<s, dir>>])
               /\ Over(LotWorth(dir, close), lots[<<s, dir>>]) \in Int
    <2>1. PICK open : open = lots[<<s, dir>>] /\ open \in Seq(LotRecs)  OBVIOUS
    <2>2. DOMAIN open = 1..Len(open) /\ \A i \in 1..Len(open) : open[i] \in LotRecs  BY <2>1
    <2>3. [i \in DOMAIN open |-> Signed(dir) * (close - open[i].price) * open[i].qty]
            = [i \in 1..Len(open) |-> LotWorth(dir, close)[open[i]]]
      BY <2>2 DEF LotWorth
    <2>4. Over(LotWorth(dir, close), open) \in Int  BY <2>1, WorthIs, OverIs
    <2> QED  BY <2>1, <2>3, <2>4 DEF Over
  <1>2. Unrealized(s, lots, close)
          = Over(LotWorth("long", close), lots[<<s, "long">>])
              + Over(LotWorth("short", close), lots[<<s, "short">>])
    BY <1>1 DEF Unrealized
  <1> QED  BY <1>1, <1>2

\* One fill books its exposure.
LEMMA MatchTradeBooks ==
  ASSUME NEW acc \in Ledgers, NEW trade \in Fills, NEW closes \in [Syms -> Int]
  PROVE  LET next == MatchTrade(acc, trade) IN
         Over(TripPnl, next.trips) + Values(next.lots, closes)
           = Over(TripPnl, acc.trips) + Values(acc.lots, closes) + Exposure(closes)[trade]
  <1> DEFINE next == MatchTrade(acc, trade)
             s == trade.symbol
             d == Closed(trade.side)
             o == Opened(trade.side)
             m == MatchLots(trade, acc.lots[<<s, d>>])
             lot == [qty |-> m.remaining, price |-> trade.price, time |-> trade.time]
             c == closes[s]
             A == [x \in Syms |-> Unrealized(x, acc.lots, closes[x])]
             B == [x \in Syms |-> Unrealized(x, next.lots, closes[x])]
  <1>1. /\ d \in {"long", "short"} /\ o \in {"long", "short"} /\ d # o
        /\ (Signed(d) = 1 /\ Signed(o) = -1) \/ (Signed(d) = -1 /\ Signed(o) = 1)
        /\ Delta(trade.side, trade.qty) = Signed(o) * trade.qty
        /\ s \in Syms /\ trade.qty \in Int /\ trade.price \in Int /\ c \in Int
    BY Deques
  <1>2. /\ m \in Matching /\ lot \in LotRecs /\ next \in Ledgers
        /\ next.trips = acc.trips \o m.trips
        /\ next.lots[<<s, d>>] = m.kept
        /\ next.lots[<<s, o>>]
             = IF m.remaining > 0 THEN Append(acc.lots[<<s, o>>], lot) ELSE acc.lots[<<s, o>>]
        /\ \A k \in Syms \X {"long", "short"} : k[1] # s => next.lots[k] = acc.lots[k]
    BY MatchTradeIs
  <1>3. lot.qty = m.remaining /\ lot.price = trade.price  OBVIOUS
  <1> HIDE DEF next, s, d, o, m, lot, c
  <1>4. /\ acc.lots \in [Syms \X {"long", "short"} -> Seq(LotRecs)] /\ acc.trips \in Seq(TripRecs)
        /\ next.lots \in [Syms \X {"long", "short"} -> Seq(LotRecs)]
        /\ m.remaining \in Nat /\ m.kept \in Seq(LotRecs) /\ m.trips \in Seq(TripRecs)
    BY <1>2 DEF Ledgers, Matching
  <1>5. IsFiniteSet(Syms)  BY SymbolsAssumption, ToSetFinite DEF Syms
  <1>6. A \in [Syms -> Int] /\ B \in [Syms -> Int]  BY <1>4, UnrealizedIs
  <1>7. \A x \in Syms : x # s => B[x] = A[x]
    <2> SUFFICES ASSUME NEW x \in Syms, x # s
                 PROVE  Unrealized(x, next.lots, closes[x]) = Unrealized(x, acc.lots, closes[x])
      OBVIOUS
    <2>1. \A dir \in {"long", "short"} : next.lots[<<x, dir>>] = acc.lots[<<x, dir>>]  BY <1>2
    <2>2. closes[x] \in Int  OBVIOUS
    <2>3. ASSUME NEW lots \in [Syms \X {"long", "short"} -> Seq(LotRecs)]
          PROVE  Unrealized(x, lots, closes[x])
                   = Over(LotWorth("long", closes[x]), lots[<<x, "long">>])
                       + Over(LotWorth("short", closes[x]), lots[<<x, "short">>])
      BY <2>2, UnrealizedIs
    <2> QED  BY <1>4, <2>1, <2>3
  <1>8. Values(next.lots, closes) = Values(acc.lots, closes) + (B[s] - A[s])
    <2>1. Values(next.lots, closes) = SumFunction(B) /\ Values(acc.lots, closes) = SumFunction(A)
      BY DEF Values
    <2> HIDE DEF A, B
    <2> QED  BY <1>1, <1>5, <1>6, <1>7, <2>1, SumChanged
  <1> DEFINE wd == LotWorth(d, c)
             wo == LotWorth(o, c)
  <1>9. /\ A[s] = Over(wd, acc.lots[<<s, d>>]) + Over(wo, acc.lots[<<s, o>>])
        /\ B[s] = Over(wd, next.lots[<<s, d>>]) + Over(wo, next.lots[<<s, o>>])
        /\ Over(wd, acc.lots[<<s, d>>]) \in Int /\ Over(wo, acc.lots[<<s, o>>]) \in Int
        /\ Over(wd, next.lots[<<s, d>>]) \in Int /\ Over(wo, next.lots[<<s, o>>]) \in Int
    <2>1. A[s] = Unrealized(s, acc.lots, c) /\ B[s] = Unrealized(s, next.lots, c)  BY <1>1 DEF c
    <2> HIDE DEF A, B
    <2>2. ASSUME NEW lots \in [Syms \X {"long", "short"} -> Seq(LotRecs)]
          PROVE  /\ Unrealized(s, lots, c) = Over(wd, lots[<<s, d>>]) + Over(wo, lots[<<s, o>>])
                 /\ Over(wd, lots[<<s, d>>]) \in Int /\ Over(wo, lots[<<s, o>>]) \in Int
      <3>1. /\ Unrealized(s, lots, c)
                 = Over(LotWorth("long", c), lots[<<s, "long">>])
                     + Over(LotWorth("short", c), lots[<<s, "short">>])
            /\ Over(LotWorth("long", c), lots[<<s, "long">>]) \in Int
            /\ Over(LotWorth("short", c), lots[<<s, "short">>]) \in Int
        BY <1>1, UnrealizedIs
      <3>2. CASE d = "long" /\ o = "short"  BY <3>1, <3>2
      <3>3. CASE d = "short" /\ o = "long"  BY <3>1, <3>3
      <3> QED  BY <1>1, <3>2, <3>3
    <2> QED  BY <1>4, <2>1, <2>2
  <1>10. Over(TripPnl, m.trips) + Over(wd, m.kept)
           = Over(wd, acc.lots[<<s, d>>]) + Signed(d) * (trade.price - c) * (trade.qty - m.remaining)
    <2>1. acc.lots[<<s, d>>] \in Seq(LotRecs)  BY <1>1, <1>4
    <2> QED  BY SMTT(30), <1>1, <2>1, MatchLotsBook DEF d, m
  <1>11. Over(wo, next.lots[<<s, o>>])
           = Over(wo, acc.lots[<<s, o>>]) + Signed(o) * (c - trade.price) * m.remaining
    <2>1. wo[lot] = Signed(o) * (c - trade.price) * m.remaining  BY <1>2, <1>3 DEF LotWorth
    <2>2. acc.lots[<<s, o>>] \in Seq(LotRecs) /\ wo \in [LotRecs -> Int]  BY <1>1, <1>4, WorthIs
    <2>3. CASE m.remaining > 0  BY <1>2, <2>1, <2>2, <2>3, OverIs
    <2>4. CASE m.remaining = 0
      <3>1. Signed(o) * (c - trade.price) \in Int  BY <1>1, WorthIs
      <3>2. wo[lot] = 0  BY <2>1, <2>4, <3>1
      <3>3. next.lots[<<s, o>>] = acc.lots[<<s, o>>]  BY <1>2, <2>4
      <3> QED  BY <1>9, <2>1, <3>2, <3>3
    <2> QED  BY <1>4, <2>3, <2>4
  <1>12. Over(TripPnl, next.trips) = Over(TripPnl, acc.trips) + Over(TripPnl, m.trips)
    <2>1. \A a, b \in Seq(TripRecs) : Over(TripPnl, a \o b) = Over(TripPnl, a) + Over(TripPnl, b)
      BY TripPnlIs, OverIs
    <2> QED  BY <1>2, <1>4, <2>1
  <1>13. /\ Over(TripPnl, acc.trips) \in Int /\ Over(TripPnl, m.trips) \in Int
         /\ Values(acc.lots, closes) \in Int
    <2>1. Over(TripPnl, acc.trips) \in Int /\ Over(TripPnl, m.trips) \in Int
      BY <1>4, TripPnlIs, OverIs
    <2>2. Values(acc.lots, closes) = SumFunction(A)  BY DEF Values
    <2> HIDE DEF A
    <2>3. SumFunction(A) \in Int  BY <1>5, <1>6, SumIs
    <2> QED  BY <2>1, <2>2, <2>3
  <1>14. Exposure(closes)[trade] = (c - trade.price) * (Signed(o) * trade.qty)
    BY <1>1 DEF Exposure, c, s
  <1>15. Signed(d) * (trade.price - c) * (trade.qty - m.remaining)
           + Signed(o) * (c - trade.price) * m.remaining
           = (c - trade.price) * (Signed(o) * trade.qty)
    <2>1. PICK p \in Int, q \in Int, r \in Int, z \in Int :
            p = trade.price /\ q = trade.qty /\ r = m.remaining /\ z = c
      BY <1>1, <1>4
    <2>2. CASE Signed(d) = 1 /\ Signed(o) = -1
      <3>1. 1 * (p - z) * (q - r) + (-1) * (z - p) * r = (z - p) * ((-1) * q)  BY Z3
      <3> QED  BY <2>1, <2>2, <3>1, Zenon
    <2>3. CASE Signed(d) = -1 /\ Signed(o) = 1
      <3>1. (-1) * (p - z) * (q - r) + 1 * (z - p) * r = (z - p) * (1 * q)  BY Z3
      <3> QED  BY <2>1, <2>3, <3>1, Zenon
    <2> QED  BY <1>1, <2>2, <2>3
  <1>16. PICK x \in Int, y \in Int :
           /\ x = Signed(d) * (trade.price - c) * (trade.qty - m.remaining)
           /\ y = Signed(o) * (c - trade.price) * m.remaining
    <2>1. Signed(d) \in {1, -1} /\ Signed(o) \in {1, -1}  BY TripPnlIs
    <2>2. trade.price - c \in Int /\ trade.qty - m.remaining \in Int /\ c - trade.price \in Int /\ m.remaining \in Int
      BY <1>1, <1>4
    <2> QED  BY <2>1, <2>2
  <1>17. Exposure(closes)[trade] = x + y  BY <1>14, <1>15, <1>16
  <1>18. PICK p0 \in Int, p1 \in Int, v0 \in Int, a1 \in Int, a2 \in Int, b1 \in Int, b2 \in Int :
           /\ p0 = Over(TripPnl, acc.trips) /\ p1 = Over(TripPnl, m.trips)
           /\ v0 = Values(acc.lots, closes)
           /\ a1 = Over(wd, acc.lots[<<s, d>>]) /\ a2 = Over(wo, acc.lots[<<s, o>>])
           /\ b1 = Over(wd, next.lots[<<s, d>>]) /\ b2 = Over(wo, next.lots[<<s, o>>])
    BY <1>9, <1>13, Zenon
  <1>19. /\ Over(TripPnl, next.trips) = p0 + p1
         /\ Values(next.lots, closes) = v0 + ((b1 + b2) - (a1 + a2))
    BY <1>8, <1>9, <1>12, <1>18
  <1>20. p1 + b1 = a1 + x  BY <1>2, <1>10, <1>16, <1>18
  <1>21. b2 = a2 + y  BY <1>11, <1>16, <1>18
  <1>22. (p0 + p1) + (v0 + ((b1 + b2) - (a1 + a2))) = p0 + v0 + (x + y)  BY <1>20, <1>21
  <1>23. Over(TripPnl, next.trips) + Values(next.lots, closes) = p0 + v0 + Exposure(closes)[trade]
    BY <1>17, <1>19, <1>22
  <1> QED  BY <1>18, <1>23 DEF next

\* match_round_trips keeps the books: what it realises and what the lots it
\* leaves are worth is what the fills are worth; no lot without a fill.
LEMMA MatchBooks ==
  ASSUME NEW trades \in Seq(Fills), NEW closes \in [Syms -> Int]
  PROVE  LET m == Match(Syms, trades) IN
         /\ m \in Ledgers
         /\ SumPnl(m.trips) + Values(m.lots, closes) = Over(Exposure(closes), trades)
         /\ \A s \in Syms, dir \in {"long", "short"} :
              m.lots[<<s, dir>>] # <<>> => \E k \in DOMAIN trades : trades[k].symbol = s
  <1> DEFINE n == Len(trades)
             m == Match(Syms, trades)
             e == Exposure(closes)
  <1>1. PICK g \in [0..n -> Ledgers] :
           /\ g[0] = [lots |-> [k \in Syms \X {"long", "short"} |-> <<>>], trips |-> <<>>]
           /\ \A k \in 1..n : g[k] = MatchTrade(g[k - 1], trades[k])
           /\ m = g[n]
    BY MatchIs
  <1>2. n \in Nat /\ DOMAIN trades = 1..n /\ \A k \in 1..n : trades[k] \in Fills  OBVIOUS
  <1>3. e \in [Fills -> Int]
    <2> SUFFICES ASSUME NEW trade \in Fills
                 PROVE  (closes[trade.symbol] - trade.price) * Delta(trade.side, trade.qty) \in Int
      BY DEF Exposure
    <2>1. closes[trade.symbol] \in Int /\ trade.price \in Int  BY Deques
    <2>2. Delta(trade.side, trade.qty) \in Int  BY Deques DEF Delta
    <2> QED  BY <2>1, <2>2
  <1> HIDE DEF n, m, e
  <1>4. m \in Ledgers  BY <1>1, <1>2
  <1> DEFINE h == [k \in 0..n |-> Over(TripPnl, g[k].trips) + Values(g[k].lots, closes)]
             f == [k \in 1..n |-> e[trades[k]]]
  <1>5. h[0] = 0
    <2>1. g[0].trips = <<>> /\ g[0].lots = [k \in Syms \X {"long", "short"} |-> <<>>]  BY <1>1
    <2>2. Over(TripPnl, <<>>) = 0  BY TripPnlIs, OverIs
    <2>3. ASSUME NEW s \in Syms  PROVE Unrealized(s, g[0].lots, closes[s]) = 0
      <3>1. closes[s] \in Int /\ g[0].lots \in [Syms \X {"long", "short"} -> Seq(LotRecs)]  BY <2>1
      <3>2. g[0].lots[<<s, "long">>] = <<>> /\ g[0].lots[<<s, "short">>] = <<>>  BY <2>1
      <3>3. ASSUME NEW dir \in {"long", "short"}  PROVE Over(LotWorth(dir, closes[s]), <<>>) = 0
        BY <3>1, WorthIs, OverIs
      <3>4. Unrealized(s, g[0].lots, closes[s])
              = Over(LotWorth("long", closes[s]), g[0].lots[<<s, "long">>])
                  + Over(LotWorth("short", closes[s]), g[0].lots[<<s, "short">>])
        BY <3>1, UnrealizedIs
      <3> QED  BY <3>2, <3>3, <3>4
    <2>4. Values(g[0].lots, closes) = SumFunction([s \in Syms |-> 0])  BY <2>3 DEF Values
    <2>5. SumFunction([s \in Syms |-> 0]) = 0
      <3>1. IsFiniteSet(Syms)  BY SymbolsAssumption, ToSetFinite DEF Syms
      <3>2. SumFunction([s \in Syms |-> 0]) = 0 * Cardinality(Syms) /\ Cardinality(Syms) \in Nat
        <4>1. PICK z \in Int : z = 0  OBVIOUS
        <4>2. SumFunction([s \in Syms |-> z]) = z * Cardinality(Syms)  BY <3>1, SumSame
        <4>3. Cardinality(Syms) \in Nat  BY <3>1, FS_CardinalityType
        <4> QED  BY <4>1, <4>2, <4>3
      <3> QED  BY <3>2
    <2>6. 0 \in 0..n  BY <1>2
    <2> QED  BY <2>1, <2>2, <2>4, <2>5, <2>6
  <1>6. ASSUME NEW k \in 1..n  PROVE h[k] = h[k - 1] + f[k]
    <2>1. k \in 0..n /\ k - 1 \in 0..n  BY <1>2
    <2>2. g[k] = MatchTrade(g[k - 1], trades[k]) /\ g[k - 1] \in Ledgers /\ trades[k] \in Fills
      BY <1>1, <1>2, <2>1
    <2>3. Over(TripPnl, g[k].trips) + Values(g[k].lots, closes)
            = Over(TripPnl, g[k - 1].trips) + Values(g[k - 1].lots, closes) + e[trades[k]]
      BY <2>2, MatchTradeBooks DEF e
    <2>4. /\ h[k] = Over(TripPnl, g[k].trips) + Values(g[k].lots, closes)
          /\ h[k - 1] = Over(TripPnl, g[k - 1].trips) + Values(g[k - 1].lots, closes)
          /\ f[k] = e[trades[k]]
      BY <2>1
    <2> HIDE DEF h, f
    <2> QED  BY <2>3, <2>4
  <1>7. f \in [1..n -> Int]  BY <1>2, <1>3
  <1>8. h[n] = SumFunction(f)
    <2> HIDE DEF h, f
    <2> QED  BY <1>2, <1>5, <1>6, <1>7, SumRunning
  <1>9. SumFunction(f) = Over(e, trades)  BY DEF Over, n
  <1>10. h[n] = Over(TripPnl, m.trips) + Values(m.lots, closes)  BY <1>1, <1>2
  <1>11. SumPnl(m.trips) = Over(TripPnl, m.trips)
    <2>1. m.trips \in Seq(TripRecs)  BY <1>4 DEF Ledgers
    <2>2. PICK trips \in Seq(TripRecs) : trips = m.trips  BY <2>1
    <2>3. [i \in DOMAIN trips |-> trips[i].pnl] = [i \in 1..Len(trips) |-> TripPnl[trips[i]]]
      BY DEF TripPnl
    <2> QED  BY <2>2, <2>3 DEF SumPnl, Over
  <1> DEFINE Q(k) == k <= n =>
                       \A s \in Syms, dir \in {"long", "short"} :
                         g[k].lots[<<s, dir>>] # <<>> => \E j \in 1..k : trades[j].symbol = s
             P == {k \in Nat : Q(k)}
  <1>12. 0 \in P  BY <1>1
  <1>13. ASSUME NEW k \in Nat, k \in P  PROVE k + 1 \in P
    <2> SUFFICES ASSUME k + 1 <= n, NEW s \in Syms, NEW dir \in {"long", "short"},
                        g[k + 1].lots[<<s, dir>>] # <<>>
                 PROVE  \E j \in 1..(k + 1) : trades[j].symbol = s
      OBVIOUS
    <2>1. k + 1 \in 1..n /\ (k + 1) - 1 = k /\ k \in 0..n /\ k <= n  BY <1>2
    <2>2. g[k + 1] = MatchTrade(g[k], trades[k + 1]) /\ g[k] \in Ledgers /\ trades[k + 1] \in Fills
      BY <1>1, <1>2, <2>1
    <2>3. CASE trades[k + 1].symbol = s  BY <2>3
    <2>4. CASE trades[k + 1].symbol # s
      <3>1. g[k + 1].lots[<<s, dir>>] = g[k].lots[<<s, dir>>]
        <4>1. \A x \in Syms \X {"long", "short"} :
                x[1] # trades[k + 1].symbol => MatchTrade(g[k], trades[k + 1]).lots[x] = g[k].lots[x]
          BY <2>2, MatchTradeIs
        <4> QED  BY <2>2, <2>4, <4>1
      <3>2. \E j \in 1..k : trades[j].symbol = s  BY <1>13, <2>1, <3>1
      <3> QED  BY <3>2
    <2> QED  BY <2>3, <2>4
  <1>14. n \in P
    <2> HIDE DEF P
    <2> QED  BY <1>2, <1>12, <1>13, NumberInduction
  <1>15. \A s \in Syms, dir \in {"long", "short"} :
           m.lots[<<s, dir>>] # <<>> => \E k \in DOMAIN trades : trades[k].symbol = s
    <2> HIDE DEF h, f
    <2>1. \A s \in Syms, dir \in {"long", "short"} :
            g[n].lots[<<s, dir>>] # <<>> => \E j \in 1..n : trades[j].symbol = s
      <3>1. Q(n)
        <4> HIDE DEF Q
        <4> QED  BY <1>14
      <3>2. n <= n  BY <1>2
      <3> QED  BY <3>1, <3>2, Zenon
    <2> HIDE DEF P
    <2> QED  BY <1>1, <1>2, <2>1
  <1>16. SumPnl(m.trips) + Values(m.lots, closes) = Over(e, trades)  BY <1>8, <1>9, <1>10, <1>11
  <1> QED  BY <1>4, <1>15, <1>16 DEF m, e

-----------------------------------------------------------------------------
(* Sums over what is picked, and over sequences put end to end. *)

\* What is picked of a sequence, and sums over it.
LEMMA PickedIs ==
  ASSUME NEW T, NEW seq \in Seq(T), NEW S \in SUBSET DOMAIN seq
  PROVE  /\ Picked(seq, S) \in Seq(T)
         /\ \A v \in [T -> Int] : \A f : Reads(f, S, v, seq) => Over(v, Picked(seq, S)) = SumFunction(f)
         /\ \A k \in 1..Len(Picked(seq, S)) : \E i \in S : Picked(seq, S)[k] = seq[i]
  <1> DEFINE R == {p \in S \X S : p[1] < p[2]}
             n == Cardinality(S)
             at == [k \in 1..n |-> CHOOSE i \in S : Cardinality({r \in S : r < i}) = k - 1]
  <1>1. IsFiniteSet(S) /\ S \subseteq Int /\ n \in Nat
    <2>1. DOMAIN seq = 1..Len(seq) /\ Len(seq) \in Nat  OBVIOUS
    <2>2. IsFiniteSet(1..Len(seq)) /\ S \in SUBSET (1..Len(seq))  BY <2>1, FS_Interval
    <2> QED  BY <2>2, FS_Subset, FS_CardinalityType
  <1>2. Linear(R, S) /\ \A i \in S : {r \in S : r < i} = Ahead(R, S, i)  BY <1>1 DEF Linear, Ahead
  <1>3. Picked(seq, S) = [k \in DOMAIN at |-> seq[at[k]]]  BY DEF Picked, Ascending
  <1>4. ASSUME NEW k \in 1..n  PROVE at[k] \in S /\ Cardinality(Ahead(R, S, at[k])) = k - 1
    <2> HIDE DEF R
    <2>1. PICK a \in S : Cardinality(Ahead(R, S, a)) = k - 1  BY <1>1, <1>2, Places
    <2>2. \E b \in S : Cardinality({r \in S : r < b}) = k - 1  BY <1>2, <2>1
    <2>3. at[k] \in S /\ Cardinality({r \in S : r < at[k]}) = k - 1  BY <2>2
    <2> QED  BY <1>2, <2>3
  <1>0. at = [k \in 1..n |-> CHOOSE i \in S : Cardinality({r \in S : r < i}) = k - 1]  OBVIOUS
  <1> HIDE DEF at, R
  <1>5. at \in [1..n -> S]  BY <1>0, <1>4
  <1>6. ToSet(at) = S  BY <1>1, <1>2, <1>4, <1>5, Placed DEF n
  <1>7. \A x, y \in 1..n : at[x] = at[y] => x = y
    <2> SUFFICES ASSUME NEW x \in 1..n, NEW y \in 1..n, at[x] = at[y]  PROVE x = y  OBVIOUS
    <2>1. x - 1 = y - 1  BY <1>4
    <2> QED  BY <1>1, <2>1
  <1>8. \A i \in S : \E x \in 1..n : at[x] = i  BY <1>5, <1>6 DEF ToSet
  <1>9. Picked(seq, S) = [k \in 1..n |-> seq[at[k]]] /\ \A k \in 1..n : seq[at[k]] \in T
    BY <1>3, <1>5
  <1> HIDE DEF n
  <1>10. Picked(seq, S) \in Seq(T) /\ Len(Picked(seq, S)) = n  BY <1>1, <1>9
  <1>11. ASSUME NEW v \in [T -> Int], NEW f, Reads(f, S, v, seq)
         PROVE  Over(v, Picked(seq, S)) = SumFunction(f)
    <2> DEFINE N == 1..n
               g == [k \in N |-> v[Picked(seq, S)[k]]]
    <2>1. Over(v, Picked(seq, S)) = SumFunction(g)  BY <1>10 DEF Over
    <2>2. Pairs(at, N, S) /\ IsFiniteSet(N)  BY <1>1, <1>5, <1>7, <1>8, FS_Interval DEF Pairs
    <2>3. Reads(g, N, f, at) /\ f \in [S -> Int]  BY <1>5, <1>9, <1>11 DEF Reads
    <2> HIDE DEF N, g
    <2>4. SumFunction(g) = SumFunction(f)  BY <2>2, <2>3, SumMatched
    <2> QED  BY <2>1, <2>4
  <1>12. \A k \in 1..Len(Picked(seq, S)) : \E i \in S : Picked(seq, S)[k] = seq[i]
    BY <1>5, <1>9, <1>10
  <1> QED  BY <1>10, <1>11, <1>12

\* u counts what v does at the places in S of a sequence, and nothing elsewhere.
Chosen(u, v, seq, S, T) ==
  /\ seq \in Seq(T) /\ S \in SUBSET DOMAIN seq /\ v \in [T -> Int] /\ u \in [T -> Int]
  /\ \A i \in DOMAIN seq : u[seq[i]] = IF i \in S THEN v[seq[i]] ELSE 0

\* A sum over what is picked is one over all that counts only that.
LEMMA OverPicked ==
  ASSUME NEW T, NEW seq, NEW S, NEW v, NEW u, Chosen(u, v, seq, S, T)
  PROVE  Over(v, Picked(seq, S)) = Over(u, seq)
  <1> DEFINE f == [i \in 1..Len(seq) |-> u[seq[i]]]
             D == 1..Len(seq)
  <1>0. seq \in Seq(T) /\ S \in SUBSET DOMAIN seq /\ v \in [T -> Int] /\ u \in [T -> Int]
    BY DEF Chosen
  <1>1. D = DOMAIN seq /\ f \in [D -> Int] /\ \A i \in D : f[i] = u[seq[i]]  BY <1>0
  <1>2. IsFiniteSet(D)  BY <1>0, FS_Interval
  <1>3. Over(u, seq) = SumFunction(f)  BY DEF Over
  <1> HIDE DEF f, D
  <1>4. SumFunction(f) = SumFunction([i \in S |-> f[i]])
    <2>1. \A i \in D : i \notin S => f[i] = 0  BY <1>1 DEF Chosen
    <2>2. S \in SUBSET D  BY <1>0, <1>1
    <2> QED  BY <1>1, <1>2, <2>1, <2>2, SumWhere
  <1>5. [i \in S |-> f[i]] = [i \in S |-> v[seq[i]]]  BY <1>1 DEF Chosen
  <1>6. Over(v, Picked(seq, S)) = SumFunction([i \in S |-> v[seq[i]]])
    <2> DEFINE g == [i \in S |-> v[seq[i]]]
    <2>1. Reads(g, S, v, seq)  BY <1>0 DEF Reads
    <2> HIDE DEF g
    <2>2. Over(v, Picked(seq, S)) = SumFunction(g)  BY <1>0, <2>1, PickedIs
    <2> QED  BY <2>2 DEF g
  <1> QED  BY <1>3, <1>4, <1>5, <1>6

\* e is what v makes of each of the sequences.
Totals(e, v, seqs) == e \in [1..Len(seqs) -> Int] /\ \A i \in 1..Len(seqs) : e[i] = Over(v, seqs[i])

\* Sequences put end to end: a sum over them is that of their sums.
LEMMA FlattenIs ==
  ASSUME NEW T, NEW seqs \in Seq(Seq(T))
  PROVE  /\ FlattenSeq(seqs) \in Seq(T)
         /\ \A v \in [T -> Int] : \A e : Totals(e, v, seqs) => Over(v, FlattenSeq(seqs)) = SumFunction(e)
  <1> DEFINE n == Len(seqs)
             Is(f) == f = [i \in 1..n |-> IF i = 1 THEN seqs[i] ELSE f[i - 1] \o seqs[i]]
             f == CHOOSE f : Is(f)
             G == [a \in Seq(T) |-> [k \in 1..n |-> a \o seqs[k]]]
  <1>1. n \in Nat /\ \A k \in 1..n : seqs[k] \in Seq(T)  OBVIOUS
  <1>2. FlattenSeq(seqs) = IF n = 0 THEN seqs ELSE f[n]  BY Zenon DEF FlattenSeq
  <1>3. G \in [Seq(T) -> [1..n -> Seq(T)]] /\ \A a \in Seq(T), k \in 1..n : G[a][k] = a \o seqs[k]
    BY <1>1
  <1>4. <<>> \in Seq(T) /\ \A a \in Seq(T) : <<>> \o a = a  OBVIOUS
  <1> HIDE DEF n, f, G
  <1>5. \E g : Is(g) /\ (n # 0 => g \in [1..n -> Seq(T)])
    <2>1. PICK h : FoldOf(h, n, Seq(T), <<>>, G)  BY <1>1, <1>3, <1>4, FoldExists
    <2>2. PICK w : Walks(w, h, n, Seq(T), <<>>, G)
      <3>1. Folds(h, n, Seq(T), <<>>, G)  BY <2>1 DEF FoldOf, Folds
      <3> QED  BY <1>1, <1>3, <1>4, <3>1, FoldPath
    <2> DEFINE g == [i \in 1..n |-> w[i]]
    <2>3. ASSUME NEW i \in 1..n  PROVE g[i] \in Seq(T) /\ g[i] = w[i - 1] \o seqs[i]
      <3>1. i \in 0..n  BY <1>1
      <3> QED  BY <1>3, <2>2, <3>1 DEF Walks
    <2>4. ASSUME NEW i \in 1..n
          PROVE  g[i] = IF i = 1 THEN seqs[i] ELSE g[i - 1] \o seqs[i]
      <3>1. CASE i = 1
        <4>1. seqs[i] \in Seq(T) /\ w[i - 1] = <<>>  BY <1>1, <2>2, <3>1 DEF Walks
        <4> HIDE DEF g
        <4> QED  BY <1>4, <2>3, <3>1, <4>1
      <3>2. CASE i # 1
        <4>1. i - 1 \in 1..n  BY <1>1, <3>2
        <4> QED  BY <2>3, <3>2, <4>1
      <3> QED  BY <3>1, <3>2
    <2>5. g = [i \in 1..n |-> g[i]]  OBVIOUS
    <2> HIDE DEF g
    <2>6. Is(g)  BY <2>4, <2>5
    <2>7. g \in [1..n -> Seq(T)]  BY <2>3, <2>5
    <2> HIDE DEF Is
    <2> QED  BY <2>6, <2>7
  <1>6. Is(f)
    <2> HIDE DEF Is
    <2> QED  BY <1>5 DEF f
  <1>7. \A i \in 1..n : f[i] = IF i = 1 THEN seqs[i] ELSE f[i - 1] \o seqs[i]  BY <1>6
  <1> HIDE DEF Is
  <1> DEFINE P == {k \in Nat : k + 1 <= n => f[k + 1] \in Seq(T)}
  <1>8. 0 \in P  BY <1>1, <1>7
  <1>9. ASSUME NEW k \in Nat, k \in P  PROVE k + 1 \in P
    <2> SUFFICES ASSUME (k + 1) + 1 <= n  PROVE f[(k + 1) + 1] \in Seq(T)  OBVIOUS
    <2>1. f[k + 1] \in Seq(T)  BY <1>1, <1>9
    <2>2. /\ (k + 1) + 1 \in 1..n /\ (k + 1) + 1 # 1 /\ ((k + 1) + 1) - 1 = k + 1  BY <1>1
    <2>3. f[(k + 1) + 1] = f[k + 1] \o seqs[(k + 1) + 1]  BY <1>7, <2>2
    <2> QED  BY <1>1, <2>1, <2>2, <2>3
  <1>10. \A k \in 1..n : f[k] \in Seq(T)
    <2>1. Nat \subseteq P
      <3> HIDE DEF P
      <3> QED  BY <1>8, <1>9, NumberInduction
    <2> SUFFICES ASSUME NEW k \in 1..n  PROVE f[k] \in Seq(T)  OBVIOUS
    <2>2. k - 1 \in Nat /\ (k - 1) + 1 = k /\ k <= n  BY <1>1
    <2>3. k - 1 \in P  BY <2>1, <2>2
    <2> QED  BY <2>2, <2>3
  <1>11. FlattenSeq(seqs) \in Seq(T)
    <2>1. CASE n = 0  BY <1>2, <2>1 DEF n
    <2>2. CASE n # 0  BY <1>1, <1>2, <1>10, <2>2
    <2> QED  BY <2>1, <2>2
  <1>12. ASSUME NEW v \in [T -> Int], NEW e, Totals(e, v, seqs)
         PROVE  Over(v, FlattenSeq(seqs)) = SumFunction(e)
    <2> DEFINE g == [k \in 0..n |-> IF k = 0 THEN 0 ELSE Over(v, f[k])]
    <2>1. e \in [1..n -> Int] /\ \A i \in 1..n : e[i] = Over(v, seqs[i])  BY <1>12 DEF Totals, n
    <2>2. ASSUME NEW k \in 1..n  PROVE g[k] = g[k - 1] + e[k]
      <3>1. k \in 0..n /\ k - 1 \in 0..n /\ k # 0  BY <1>1
      <3>2. g[k] = Over(v, f[k]) /\ e[k] = Over(v, seqs[k])  BY <2>1, <3>1
      <3>3. CASE k = 1
        <4>1. g[k - 1] = 0 /\ f[k] = seqs[k]  BY <1>7, <3>1, <3>3
        <4>2. Over(v, seqs[k]) \in Int  BY <1>1, OverIs
        <4> HIDE DEF g
        <4> QED  BY <3>2, <4>1, <4>2
      <3>4. CASE k # 1
        <4>1. k - 1 \in 1..n /\ k - 1 # 0  BY <1>1, <3>4
        <4>2. g[k - 1] = Over(v, f[k - 1]) /\ f[k] = f[k - 1] \o seqs[k]  BY <1>7, <3>1, <3>4, <4>1
        <4>3. f[k - 1] \in Seq(T) /\ seqs[k] \in Seq(T)  BY <1>1, <1>10, <4>1
        <4> HIDE DEF g
        <4>4. Over(v, f[k - 1] \o seqs[k]) = Over(v, f[k - 1]) + Over(v, seqs[k])  BY <4>3, OverIs
        <4> QED  BY <3>2, <4>2, <4>4
      <3> QED  BY <3>3, <3>4
    <2>3. g[0] = 0 /\ (n = 0 => g[n] = 0) /\ (n # 0 => g[n] = Over(v, f[n]))  BY <1>1
    <2> HIDE DEF g
    <2>4. g[n] = SumFunction(e)  BY <1>1, <2>1, <2>2, <2>3, SumRunning
    <2>5. CASE n = 0
      <3>1. seqs = <<>>  BY <2>5 DEF n
      <3>2. Over(v, <<>>) = 0  BY OverIs
      <3> QED  BY <1>2, <2>3, <2>4, <2>5, <3>1, <3>2
    <2>6. CASE n # 0  BY <1>2, <2>3, <2>4, <2>6
    <2> QED  BY <2>5, <2>6
  <1> QED  BY <1>11, <1>12 DEF n

-----------------------------------------------------------------------------
(* The simulator's ledger. *)

\* What a fill is worth at a close; fills after t count for nothing.
Marked(c) == [trade \in Fills |-> (c - trade.price) * Delta(trade.side, trade.qty)]
MarkedUntil(c, t) == [trade \in Fills |-> IF trade.time <= t THEN Marked(c)[trade] ELSE 0]

BarRecs   == [open : Int, close : Int, time : Int]
PointRecs == [time : Int, equity : Int, cash : Int]
PendingOrders   == {NoOrder} \cup [side : {"buy", "sell"}, qty : Nat]

\* The fields of a simulation.
Shaped(r) ==
  /\ r = [cash |-> r.cash, qty |-> r.qty, entry |-> r.entry, pending |-> r.pending,
          bars |-> r.bars, trades |-> r.trades, equity |-> r.equity]
  /\ r.cash \in Int /\ r.qty \in Int /\ r.pending \in PendingOrders
  /\ r.bars \in Seq(BarRecs) /\ r.trades \in Seq(Fills) /\ r.equity \in Seq(PointRecs)

\* One equity point for each bar, in the order of their times, all before upto.
Charted(r, upto) ==
  /\ Len(r.equity) = Len(r.bars)
  /\ \A j \in 1..Len(r.bars) : r.equity[j].time = r.bars[j].time /\ r.bars[j].time \in 1..(upto - 1)
  /\ \A j, k \in 1..Len(r.bars) : j < k => r.bars[j].time < r.bars[k].time

\* The fills are the symbol's, each at the time of a bar.
Dated(r, s) ==
  \A k \in 1..Len(r.trades) :
    /\ r.trades[k].symbol = s
    /\ \E j \in 1..Len(r.bars) : r.bars[j].time = r.trades[k].time

\* Cash and position at any price are the capital and what the fills are worth
\* at it; so is each equity point, of the fills until then.
Funded(r) ==
  /\ \A c \in Int : r.cash + c * r.qty = Capital + Over(Marked(c), r.trades)
  /\ \A j \in 1..Len(r.bars) :
       r.equity[j].equity = Capital + Over(MarkedUntil(r.bars[j].close, r.bars[j].time), r.trades)

SimOK(r, s, upto) == Shaped(r) /\ Charted(r, upto) /\ Dated(r, s) /\ Funded(r)

\* Marking gives integers.
LEMMA MarkedIs ==
  ASSUME NEW c \in Int
  PROVE  /\ Marked(c) \in [Fills -> Int]
         /\ \A t \in Int : MarkedUntil(c, t) \in [Fills -> Int]
  <1>1. ASSUME NEW trade \in Fills
        PROVE  (c - trade.price) * Delta(trade.side, trade.qty) \in Int
    BY Deques DEF Delta
  <1>2. Marked(c) \in [Fills -> Int]  BY <1>1 DEF Marked
  <1>3. ASSUME NEW t \in Int  PROVE MarkedUntil(c, t) \in [Fills -> Int]  BY <1>2 DEF MarkedUntil
  <1> QED  BY <1>2, <1>3

\* Sums over the same elements that count for the same.
LEMMA OverSame ==
  ASSUME NEW T, NEW seq \in Seq(T), NEW v \in [T -> Int], NEW u \in [T -> Int],
         \A i \in 1..Len(seq) : v[seq[i]] = u[seq[i]]
  PROVE  Over(v, seq) = Over(u, seq)
  <1>1. [k \in 1..Len(seq) |-> v[seq[k]]] = [k \in 1..Len(seq) |-> u[seq[k]]]  OBVIOUS
  <1> QED  BY <1>1 DEF Over

\* A simulation starts with its capital.
LEMMA FreshOK ==
  ASSUME NEW s  PROVE SimOK(Fresh, s, 1)
  <1>1. Capital \in Int  BY QuickTestAssumption
  <1>2. Shaped(Fresh)  BY <1>1 DEF Shaped, Fresh, PendingOrders
  <1>3. Fresh.bars = <<>> /\ Fresh.trades = <<>> /\ Fresh.equity = <<>> /\ Fresh.cash = Capital /\ Fresh.qty = 0
    BY DEF Fresh
  <1>4. Charted(Fresh, 1) /\ Dated(Fresh, s)  BY <1>3 DEF Charted, Dated
  <1>5. Funded(Fresh)
    <2>1. ASSUME NEW c \in Int  PROVE Over(Marked(c), <<>>) = 0  BY MarkedIs, OverIs
    <2> QED  BY <1>1, <1>3, <2>1 DEF Funded
  <1> QED  BY <1>2, <1>4, <1>5 DEF SimOK

\* A pending order fills: the cash moves by what the position costs.
LEMMA FilledOK ==
  ASSUME NEW s \in Syms, NEW t \in Nat, NEW r, SimOK(r, s, t), NEW bar, bar.open \in Int
  PROVE  LET f == Filled(r, s, bar, t) IN
         /\ Shaped(f) /\ f.bars = r.bars /\ f.equity = r.equity
         /\ \A c \in Int : f.cash + c * f.qty = Capital + Over(Marked(c), f.trades)
         /\ \/ f.trades = r.trades
            \/ \E fill \in Fills : f.trades = Append(r.trades, fill) /\ fill.time = t /\ fill.symbol = s
  <1> DEFINE f == Filled(r, s, bar, t)
  <1>0. Shaped(r) /\ Funded(r)  BY DEF SimOK
  <1>1. CASE r.pending = NoOrder
    <2>1. f = r  BY <1>1 DEF Filled
    <2> HIDE DEF f
    <2> QED  BY <1>0, <2>1 DEF Funded, f
  <1>2. CASE r.pending # NoOrder
    <2> DEFINE side  == r.pending.side
               qty   == r.pending.qty
               price == FillPrice(side, bar.open)
               delta == Delta(side, qty)
               fill  == [symbol |-> s, side |-> side, qty |-> qty, price |-> price, time |-> t]
    <2>1. side \in {"buy", "sell"} /\ qty \in Nat  BY <1>0, <1>2 DEF Shaped, PendingOrders
    <2>2. price \in Int
      <3> HIDE DEF side
      <3>1. PICK a \in Int, b \in Int, p \in Int :
              p = bar.open /\ a = PctHalfSpread /\ b = PctSlippage
        BY QuickTestAssumption
      <3>2. (p * (100 + a) * (100 + b)) \div 10000 \in Int /\ (p * (100 - a) * (100 - b)) \div 10000 \in Int
        OBVIOUS
      <3> QED  BY <3>1, <3>2 DEF FillPrice
    <2>3. delta \in Int  BY <2>1 DEF Delta
    <2> HIDE DEF side, qty, price, delta
    <2>4. fill \in Fills /\ fill.time = t /\ fill.symbol = s /\ fill.side = side /\ fill.qty = qty /\ fill.price = price
      BY <2>1, <2>2 DEF Fills
    <2> HIDE DEF fill
    <2>5. f = [r EXCEPT !.cash = @ - delta * price, !.qty = @ + delta,
                        !.entry = EntryAfter(r, delta, price), !.pending = NoOrder,
                        !.trades = Append(@, fill)]
      BY <1>2 DEF Filled, side, qty, price, delta, fill
    <2> DEFINE old == r.entry
               new == EntryAfter(r, delta, price)
    <2>6. PICK e : e = EntryAfter(r, delta, price)  OBVIOUS
    <2>7. f = [cash |-> r.cash - delta * price, qty |-> r.qty + delta, entry |-> e,
               pending |-> NoOrder, bars |-> r.bars, trades |-> Append(r.trades, fill),
               equity |-> r.equity]
      <3> HIDE DEF f
      <3> QED  BY <1>0, <2>5, <2>6 DEF Shaped
    <2> HIDE DEF f
    <2>8. /\ f.cash = r.cash - delta * price /\ f.qty = r.qty + delta /\ f.bars = r.bars
          /\ f.equity = r.equity /\ f.trades = Append(r.trades, fill)
      BY <2>7
    <2>9. Shaped(f)
      <3>1. r.cash \in Int /\ r.qty \in Int /\ r.trades \in Seq(Fills)  BY <1>0 DEF Shaped
      <3>2. r.cash - delta * price \in Int /\ r.qty + delta \in Int  BY <2>2, <2>3, <3>1
      <3>3. Append(r.trades, fill) \in Seq(Fills)  BY <2>4, <3>1
      <3> QED  BY <1>0, <2>7, <3>2, <3>3 DEF Shaped, PendingOrders
    <2>10. ASSUME NEW c \in Int
           PROVE  f.cash + c * f.qty = Capital + Over(Marked(c), f.trades)
      <3>1. r.cash + c * r.qty = Capital + Over(Marked(c), r.trades)  BY <1>0 DEF Funded
      <3>2. Over(Marked(c), Append(r.trades, fill)) = Over(Marked(c), r.trades) + Marked(c)[fill]
        <4>1. r.trades \in Seq(Fills)  BY <1>0 DEF Shaped
        <4> QED  BY ZenonT(60), <2>4, <4>1, MarkedIs, OverIs
      <3>3. Marked(c)[fill] = (c - price) * delta  BY <2>4 DEF Marked, delta
      <3>4. PICK x \in Int, q \in Int, o \in Int, p \in Int, d \in Int, k \in Int :
              /\ x = r.cash /\ q = r.qty /\ o = Over(Marked(c), r.trades) /\ p = price /\ d = delta
              /\ k = Capital
        <4>1. r.cash \in Int /\ r.qty \in Int /\ r.trades \in Seq(Fills)  BY <1>0 DEF Shaped
        <4>2. Over(Marked(c), r.trades) \in Int  BY <4>1, MarkedIs, OverIs
        <4> QED  BY <2>2, <2>3, <4>1, <4>2, QuickTestAssumption
      <3>5. x + c * q = k + o  BY <3>1, <3>4
      <3>6. (x - d * p) + c * (q + d) = (x + c * q) + (c - p) * d  BY Z3
      <3>7. (x - d * p) + c * (q + d) = k + (o + (c - p) * d)
        <4>1. PICK a \in Int, b \in Int, g \in Int :
                a = (x - d * p) + c * (q + d) /\ b = (c - p) * d /\ g = c * q
          OBVIOUS
        <4>2. a = (x + g) + b /\ x + g = k + o  BY <3>5, <3>6, <4>1
        <4>3. a = k + (o + b)  BY <4>2
        <4> QED  BY <4>1, <4>3
      <3>8. f.cash = x - d * p /\ f.qty = q + d /\ Over(Marked(c), f.trades) = o + (c - p) * d
        BY <2>8, <3>2, <3>3, <3>4
      <3> QED  BY <3>4, <3>7, <3>8
    <2> QED  BY <2>4, <2>8, <2>9, <2>10 DEF f
  <1> QED  BY <1>1, <1>2

\* The order planned for the next bar.
LEMMA PlanIs ==
  ASSUME NEW target, NEW held \in Int, NEW close \in Int
  PROVE  Plan(target, held, close) \in PendingOrders
  <1>1. Abs(held) \in Nat  BY DEF Abs
  <1>2. ASSUME close > 0  PROVE Stake \div close \in Nat
    <2>1. Capital * PctSize \in Nat  BY QuickTestAssumption
    <2>2. Stake \in Nat  BY <2>1 DEF Stake
    <2> QED  BY <1>2, <2>2
  <1> QED  BY <1>1, <1>2 DEF Plan, PendingOrders

\* One bar: the fill, the plan, the point.
LEMMA SimulatedOK ==
  ASSUME NEW s \in Syms, NEW t \in Nat \ {0}, NEW r, SimOK(r, s, t), NEW target,
         NEW bar, bar.open \in Int, bar.close \in Int
  PROVE  SimOK(Simulated(r, s, bar, target, t), s, t + 1)
  <1> DEFINE f == Filled(r, s, bar, t)
             q == Simulated(r, s, bar, target, t)
             n == Len(r.bars)
             b == [open |-> bar.open, close |-> bar.close, time |-> t]
             p == [time |-> t, equity |-> f.cash + f.qty * bar.close, cash |-> f.cash]
  <1>1. /\ Shaped(f) /\ f.bars = r.bars /\ f.equity = r.equity
        /\ \A c \in Int : f.cash + c * f.qty = Capital + Over(Marked(c), f.trades)
        /\ \/ f.trades = r.trades
           \/ \E fill \in Fills : f.trades = Append(r.trades, fill) /\ fill.time = t /\ fill.symbol = s
    BY FilledOK
  <1>2. PICK plan \in PendingOrders : plan = Plan(target, f.qty, bar.close)
    <2> HIDE DEF f
    <2>1. f.qty \in Int  BY <1>1 DEF Shaped
    <2> QED  BY <2>1, PlanIs
  <1>3. q = [f EXCEPT !.pending = plan, !.bars = Append(@, b), !.equity = Append(@, p)]
    BY <1>2 DEF Simulated
  <1> HIDE DEF f, q
  <1>4. /\ Shaped(r) /\ Charted(r, t) /\ Dated(r, s) /\ Funded(r)  BY DEF SimOK
  <1>5. /\ f.cash \in Int /\ f.qty \in Int /\ f.trades \in Seq(Fills) /\ r.trades \in Seq(Fills)
        /\ r.bars \in Seq(BarRecs) /\ r.equity \in Seq(PointRecs)
    BY <1>1, <1>4 DEF Shaped
  <1>6. /\ b \in BarRecs /\ b.close = bar.close /\ b.time = t
        /\ p \in PointRecs /\ p.time = t /\ p.equity = f.cash + f.qty * bar.close
    BY <1>5 DEF BarRecs, PointRecs
  <1> HIDE DEF b, p
  <1>7. q = [cash |-> f.cash, qty |-> f.qty, entry |-> f.entry, pending |-> plan,
             bars |-> Append(r.bars, b), trades |-> f.trades, equity |-> Append(r.equity, p)]
    BY <1>1, <1>3 DEF Shaped
  <1>8. /\ q.bars = Append(r.bars, b) /\ q.equity = Append(r.equity, p) /\ q.trades = f.trades
        /\ q.cash = f.cash /\ q.qty = f.qty
    BY <1>7
  <1>9. /\ Len(q.bars) = n + 1 /\ n \in Nat /\ Len(r.equity) = n /\ Len(q.equity) = n + 1
        /\ \A j \in 1..n : q.bars[j] = r.bars[j] /\ q.equity[j] = r.equity[j]
        /\ q.bars[n + 1] = b /\ q.equity[n + 1] = p
        /\ \A j \in 1..n : r.bars[j] \in BarRecs
    BY SMTT(30), <1>4, <1>5, <1>8 DEF Charted
  <1>10. /\ \A j \in 1..n : r.equity[j].time = r.bars[j].time /\ r.bars[j].time \in 1..(t - 1)
         /\ \A j, k \in 1..n : j < k => r.bars[j].time < r.bars[k].time
    BY <1>4 DEF Charted
  <1> HIDE DEF n
  <1>11. Shaped(q)  BY <1>5, <1>6, <1>7 DEF Shaped
  <1>12. Charted(q, t + 1)
    <2>1. ASSUME NEW j \in 1..(n + 1)
          PROVE  q.equity[j].time = q.bars[j].time /\ q.bars[j].time \in 1..((t + 1) - 1)
      <3>1. CASE j \in 1..n
        <4>1. r.equity[j].time = r.bars[j].time /\ r.bars[j].time \in 1..(t - 1)  BY <1>10, <3>1
        <4>2. q.bars[j] = r.bars[j] /\ q.equity[j] = r.equity[j]  BY <1>9, <3>1
        <4> QED  BY <4>1, <4>2
      <3>2. CASE j = n + 1  BY <1>6, <1>9, <3>2
      <3> QED  BY <1>9, <3>1, <3>2
    <2>2. ASSUME NEW j \in 1..(n + 1), NEW k \in 1..(n + 1), j < k
          PROVE  q.bars[j].time < q.bars[k].time
      <3>1. j \in 1..n /\ q.bars[j] = r.bars[j] /\ r.bars[j].time \in 1..(t - 1)
        BY <1>9, <1>10, <2>2
      <3>2. CASE k \in 1..n  BY <1>9, <1>10, <2>2, <3>1, <3>2
      <3>3. CASE k = n + 1  BY <1>6, <1>9, <3>1, <3>3
      <3> QED  BY <1>9, <3>2, <3>3
    <2> QED  BY <1>9, <2>1, <2>2 DEF Charted
  <1>13. \A k \in 1..Len(r.trades) : r.trades[k].symbol = s /\ r.trades[k].time \in 1..(t - 1)
    <2> SUFFICES ASSUME NEW k \in 1..Len(r.trades)
                 PROVE  r.trades[k].symbol = s /\ r.trades[k].time \in 1..(t - 1)
      OBVIOUS
    <2>1. r.trades[k].symbol = s /\ \E j \in 1..n : r.bars[j].time = r.trades[k].time
      BY <1>4 DEF Dated, n
    <2> QED  BY <1>10, <2>1
  <1>14. ASSUME NEW k \in 1..Len(q.trades)
         PROVE  /\ q.trades[k].symbol = s /\ q.trades[k].time <= t
                /\ \E j \in 1..Len(q.bars) : q.bars[j].time = q.trades[k].time
    <2>1. CASE k \in 1..Len(r.trades) /\ q.trades[k] = r.trades[k]
      <3>1. r.trades[k].symbol = s /\ r.trades[k].time \in 1..(t - 1)  BY <1>13, <2>1
      <3>2. PICK j \in 1..n : r.bars[j].time = r.trades[k].time  BY <1>4, <2>1 DEF Dated, n
      <3>3. j \in 1..Len(q.bars) /\ q.bars[j] = r.bars[j]  BY <1>9
      <3>4. q.trades[k].symbol = s /\ q.trades[k].time \in 1..(t - 1)  BY <2>1, <3>1
      <3>5. q.trades[k].time <= t  BY <3>4
      <3>6. q.bars[j].time = q.trades[k].time  BY <2>1, <3>2, <3>3
      <3> QED  BY <3>3, <3>4, <3>5, <3>6
    <2>2. CASE q.trades[k].symbol = s /\ q.trades[k].time = t  BY <1>6, <1>9, <2>2
    <2>3. \/ k \in 1..Len(r.trades) /\ q.trades[k] = r.trades[k]
          \/ q.trades[k].symbol = s /\ q.trades[k].time = t
      <3>1. CASE q.trades = r.trades  BY <3>1
      <3>2. ASSUME NEW fill \in Fills, q.trades = Append(r.trades, fill),
                   fill.time = t, fill.symbol = s
            PROVE  \/ k \in 1..Len(r.trades) /\ q.trades[k] = r.trades[k]
                   \/ q.trades[k].symbol = s /\ q.trades[k].time = t
        <4>1. /\ Len(q.trades) = Len(r.trades) + 1 /\ Len(r.trades) \in Nat
              /\ \A i \in 1..Len(r.trades) : q.trades[i] = r.trades[i]
              /\ q.trades[Len(r.trades) + 1] = fill
          BY <1>5, <3>2
        <4>2. k \in 1..Len(r.trades) \/ k = Len(r.trades) + 1  BY <4>1
        <4> QED  BY <3>2, <4>1, <4>2
      <3> QED  BY <1>1, <1>8, <3>1, <3>2
    <2> QED  BY <2>1, <2>2, <2>3
  <1>15. Dated(q, s)  BY <1>14 DEF Dated
  <1>16. ASSUME NEW c \in Int, NEW at \in 1..(t - 1)
         PROVE  Over(MarkedUntil(c, at), q.trades) = Over(MarkedUntil(c, at), r.trades)
    <2>1. CASE q.trades = r.trades  BY <2>1
    <2>2. ASSUME NEW fill \in Fills, q.trades = Append(r.trades, fill), fill.time = t
          PROVE  Over(MarkedUntil(c, at), q.trades) = Over(MarkedUntil(c, at), r.trades)
      <3>1. MarkedUntil(c, at)[fill] = 0  BY <2>2 DEF MarkedUntil
      <3>a. at \in Int  OBVIOUS
      <3>2. MarkedUntil(c, at) \in [Fills -> Int]  BY <3>a, MarkedIs
      <3>3. /\ Over(MarkedUntil(c, at), Append(r.trades, fill))
                 = Over(MarkedUntil(c, at), r.trades) + MarkedUntil(c, at)[fill]
            /\ Over(MarkedUntil(c, at), r.trades) \in Int
        BY ZenonT(60), <1>5, <3>2, OverIs
      <3> QED  BY <2>2, <3>1, <3>3
    <2> QED  BY <1>1, <1>8, <2>1, <2>2
  <1>17. \A c \in Int : q.cash + c * q.qty = Capital + Over(Marked(c), q.trades)  BY <1>1, <1>8
  <1>18. ASSUME NEW j \in 1..(n + 1)
         PROVE  q.equity[j].equity
                  = Capital + Over(MarkedUntil(q.bars[j].close, q.bars[j].time), q.trades)
    <2>1. CASE j \in 1..n
      <3>1. q.bars[j] = r.bars[j] /\ q.equity[j] = r.equity[j] /\ r.bars[j].time \in 1..(t - 1)
            /\ r.bars[j].close \in Int
        BY <1>9, <1>10, <2>1 DEF BarRecs
      <3>2. r.equity[j].equity
              = Capital + Over(MarkedUntil(r.bars[j].close, r.bars[j].time), r.trades)
        BY <1>4, <2>1 DEF Funded, n
      <3> QED  BY <1>16, <3>1, <3>2
    <2>2. CASE j = n + 1
      <3>1. q.bars[j].close = bar.close /\ q.bars[j].time = t
            /\ q.equity[j].equity = f.cash + f.qty * bar.close
        BY <1>6, <1>9, <2>2
      <3>2. f.cash + bar.close * f.qty = Capital + Over(Marked(bar.close), q.trades)  BY <1>1, <1>8
      <3>3. f.qty * bar.close = bar.close * f.qty  BY <1>5
      <3>4. Over(Marked(bar.close), q.trades) = Over(MarkedUntil(bar.close, t), q.trades)
        <4>1. q.trades \in Seq(Fills) /\ t \in Int  BY <1>5, <1>8
        <4>2. \A k \in 1..Len(q.trades) : Marked(bar.close)[q.trades[k]] = MarkedUntil(bar.close, t)[q.trades[k]]
          BY <1>14, <4>1 DEF MarkedUntil
        <4> QED  BY ZenonT(60), <4>1, <4>2, MarkedIs, OverSame
      <3> QED  BY <3>1, <3>2, <3>3, <3>4
    <2> QED  BY <1>9, <2>1, <2>2
  <1>19. Funded(q)  BY <1>9, <1>17, <1>18 DEF Funded
  <1> QED  BY <1>11, <1>12, <1>15, <1>19 DEF SimOK, q

-----------------------------------------------------------------------------
(* The simulations of a quick test keep their ledgers. *)

\* The finished simulations and the current one, so far.
SimInv ==
  /\ IsSequence(results) /\ Len(results) <= Len(Symbols) /\ slot \in 1..(Slots + 1)
  /\ SimOK(sim, Current, slot)
  /\ \A i \in 1..Len(results) : SimOK(results[i], Symbols[i], Slots + 1)

\* The symbols, each once.
LEMMA SymbolsAre ==
  /\ Symbols \in Seq(Syms) /\ IsFiniteSet(Syms) /\ Len(Symbols) \in Nat
  /\ \A i \in 1..Len(Symbols) : Symbols[i] \in Syms
  /\ \A i, j \in 1..Len(Symbols) : Symbols[i] = Symbols[j] => i = j
  /\ \A s \in Syms : \E i \in 1..Len(Symbols) : Symbols[i] = s
  <1>1. Symbols \in Seq(Syms) /\ \A i, j \in DOMAIN Symbols : Symbols[i] = Symbols[j] => i = j
    BY SymbolsAssumption DEF Syms
  <1>2. DOMAIN Symbols = 1..Len(Symbols) /\ Len(Symbols) \in Nat  BY <1>1
  <1>3. IsFiniteSet(Syms)  BY <1>1, ToSetFinite DEF Syms
  <1>4. \A s \in Syms : \E i \in 1..Len(Symbols) : Symbols[i] = s  BY <1>2 DEF Syms, ToSet
  <1> QED  BY <1>1, <1>2, <1>3, <1>4

\* Nothing is simulated at the start.
LEMMA SimStarts == Init => SimInv
  <1> SUFFICES ASSUME Init  PROVE SimInv  OBVIOUS
  <1>1. results = <<>> /\ sim = Fresh /\ slot = 1  BY DEF Init, SimInit
  <1>2. IsSequence(<<>>) /\ Len(<<>>) = 0  BY DEF IsSequence
  <1>3. SimOK(sim, Current, slot)  BY <1>1, FreshOK
  <1>4. slot \in 1..(Slots + 1)  BY <1>1, QuickTestAssumption
  <1> QED  BY <1>1, <1>2, <1>3, <1>4, SymbolsAre DEF SimInv

\* One bar, a skipped bar, and the end of a symbol.
LEMMA SimStep ==
  ASSUME SimInv, SimulateBar \/ SkipBar \/ SymbolEnds
  PROVE  SimInv'
  <1>0. /\ IsSequence(results) /\ Len(results) <= Len(Symbols) /\ slot \in 1..(Slots + 1)
        /\ SimOK(sim, Current, slot)
        /\ \A i \in 1..Len(results) : SimOK(results[i], Symbols[i], Slots + 1)
    BY DEF SimInv
  <1>1. Len(results) < Len(Symbols) /\ Slots \in Nat
    BY QuickTestAssumption DEF SimulateBar, SkipBar, SymbolEnds, Simulates
  <1>2. Len(results) \in Nat /\ Len(results) + 1 \in 1..Len(Symbols) /\ Current \in Syms
    <2>1. Len(results) \in Nat  BY <1>0 DEF IsSequence
    <2>2. Len(results) + 1 \in 1..Len(Symbols)  BY <1>1, <2>1, SymbolsAre
    <2> QED  BY <2>1, <2>2, SymbolsAre DEF Current
  <1>3. CASE SimulateBar \/ SkipBar
    <2>1. slot' = slot + 1 /\ results' = results /\ slot \in 1..Slots
      BY <1>0, <1>1, <1>3 DEF SimulateBar, SkipBar
    <2>2. Current' = Current  BY <2>1 DEF Current
    <2>3. SimOK(sim', Current, slot + 1)
      <3>1. CASE SimulateBar
        <4>1. PICK bar \in Market[Current][slot] : sim' = Simulated(sim, Current, bar, bar.target, slot)
          BY <3>1 DEF SimulateBar
        <4>2. bar.open \in Int /\ bar.close \in Int  BY <1>2, <2>1, SymbolsAssumption DEF Syms
        <4>3. slot \in Nat \ {0}  BY <2>1
        <4> QED  BY <1>0, <1>2, <4>1, <4>2, <4>3, SimulatedOK
      <3>2. CASE SkipBar
        <4>1. sim' = sim  BY <3>2 DEF SkipBar
        <4>2. Shaped(sim) /\ Charted(sim, slot) /\ Dated(sim, Current) /\ Funded(sim)
          BY <1>0 DEF SimOK
        <4>3. Charted(sim, slot + 1)  BY <2>1, <4>2 DEF Charted
        <4> QED  BY <4>1, <4>2, <4>3 DEF SimOK
      <3> QED  BY <1>3, <3>1, <3>2
    <2>4. slot' \in 1..(Slots + 1)  BY <1>1, <2>1
    <2> QED  BY <1>0, <2>1, <2>2, <2>3, <2>4 DEF SimInv
  <1>4. CASE SymbolEnds
    <2>1. results' = Append(results, sim) /\ sim' = Fresh /\ slot' = 1 /\ slot = Slots + 1
      BY <1>0, <1>1, <1>4 DEF SymbolEnds
    <2>2. /\ IsSequence(results') /\ Len(results') = Len(results) + 1  BY <1>0, <2>1, SequenceFacts
    <2>3. SimOK(sim', Current', slot')  BY <2>1, FreshOK
    <2>4. ASSUME NEW i \in 1..(Len(results) + 1)
          PROVE  SimOK(results'[i], Symbols[i], Slots + 1)
      <3>1. CASE i \in 1..Len(results)  BY <1>0, <2>1, <3>1 DEF IsSequence
      <3>2. CASE i = Len(results) + 1
        <4>1. results'[i] = sim  BY <1>0, <2>1, <3>2 DEF IsSequence
        <4>2. Symbols[i] = Current  BY <3>2 DEF Current
        <4> QED  BY <1>0, <2>1, <4>1, <4>2
      <3> QED  BY <1>2, <3>1, <3>2
    <2>5. slot' \in 1..(Slots + 1)  BY <1>1, <2>1
    <2> QED  BY <1>1, <1>2, <2>2, <2>3, <2>4, <2>5 DEF SimInv
  <1> QED  BY <1>3, <1>4

\* No other step touches the simulations.
LEMMA SimNext == SimInv /\ [Next]_vars => SimInv'
  <1> SUFFICES ASSUME SimInv, [Next]_vars  PROVE SimInv'  OBVIOUS
  <1>1. CASE Simulate  BY <1>1, SimStep DEF Simulate
  <1>2. CASE ~Simulate
    <2>1. UNCHANGED <<results, sim, slot>>
      BY <1>2 DEF Next, Begin, Persist, CreateRun, FlushRows, SaveTrips, SaveMetrics, FinishRun,
        Permute, Submit, Collect, CreateTest, WorkerEnds, WorkerFails, Sample, CreateDistribution,
        FlushResults, WriteQuicktestSummary, WritePermutationSummary, StepFails, vars, simVars
    <2>2. Current' = Current  BY <2>1 DEF Current
    <2> QED  BY <2>1, <2>2 DEF SimInv
  <1> QED  BY <1>1, <1>2

-----------------------------------------------------------------------------
(* A symbol's part of the summed curve. *)

\* The value carried to t is the capital and the worth of the fills until t.
LEMMA CarriedIs ==
  ASSUME NEW s, NEW upto, NEW r, SimOK(r, s, upto), NEW t \in Int
  PROVE  /\ Carried(r, t) \in Int
         /\ Until(r.bars, t) = {} =>
              Carried(r, t) = Capital /\ \A k \in 1..Len(r.trades) : ~(r.trades[k].time <= t)
         /\ Until(r.bars, t) # {} =>
              /\ CloseAt(r, t) \in Int
              /\ Carried(r, t) = Capital + Over(MarkedUntil(CloseAt(r, t), t), r.trades)
  <1> DEFINE n == Len(r.bars)
             U == Until(r.bars, t)
  <1>0. Shaped(r) /\ Charted(r, upto) /\ Dated(r, s) /\ Funded(r)  BY DEF SimOK
  <1>1. /\ n \in Nat /\ DOMAIN r.bars = 1..n /\ DOMAIN r.equity = 1..n
        /\ r.trades \in Seq(Fills)
        /\ \A j \in 1..n : r.bars[j] \in BarRecs /\ r.equity[j] \in PointRecs
    <2>1. r.bars \in Seq(BarRecs) /\ r.equity \in Seq(PointRecs) /\ r.trades \in Seq(Fills)
      BY <1>0 DEF Shaped
    <2>2. Len(r.equity) = n  BY <1>0 DEF Charted
    <2> QED  BY <2>1, <2>2
  <1>2. /\ \A j \in 1..n : r.equity[j].time = r.bars[j].time
        /\ \A j, k \in 1..n : j < k => r.bars[j].time < r.bars[k].time
        /\ \A j \in 1..n : r.bars[j].time \in Int /\ r.bars[j].close \in Int /\ r.equity[j].equity \in Int
    BY <1>0, <1>1 DEF Charted, BarRecs, PointRecs
  <1>3. \A k \in 1..Len(r.trades) : \E j \in 1..n : r.bars[j].time = r.trades[k].time
    BY <1>0 DEF Dated
  <1>4. \A j \in 1..n :
          r.equity[j].equity = Capital + Over(MarkedUntil(r.bars[j].close, r.bars[j].time), r.trades)
    BY <1>0 DEF Funded
  <1> HIDE DEF n
  <1>5. U = {j \in 1..n : r.bars[j].time <= t} /\ Until(r.equity, t) = U  BY <1>1, <1>2 DEF Until
  <1>6. Carried(r, t) = IF U = {} THEN Capital ELSE r.equity[Max(U)].equity  BY <1>5 DEF Carried
  <1>7. CloseAt(r, t) = r.bars[Max(U)].close  BY DEF CloseAt
  <1> HIDE DEF U
  <1>8. CASE U = {}
    <2>1. ASSUME NEW k \in 1..Len(r.trades), r.trades[k].time <= t  PROVE FALSE
      BY <1>3, <1>5, <1>8, <2>1
    <2> QED  BY <1>6, <1>8, <2>1, QuickTestAssumption DEF U
  <1>9. CASE U # {}
    <2>1. Max(U) \in U /\ \A j \in U : j <= Max(U)  BY <1>1, <1>5, <1>9, MaxOf
    <2>2. PICK j \in 1..n : j = Max(U) /\ r.bars[j].time <= t  BY <1>5, <2>1
    <2>3. Carried(r, t) = r.equity[j].equity /\ CloseAt(r, t) = r.bars[j].close
      BY <1>6, <1>7, <1>9, <2>2
    <2> DEFINE c == r.bars[j].close
               v == MarkedUntil(c, r.bars[j].time)
               u == MarkedUntil(c, t)
    <2>4. c \in Int /\ r.bars[j].time \in Int /\ r.equity[j].equity \in Int  BY <1>2
    <2>5. \A k \in 1..Len(r.trades) : v[r.trades[k]] = u[r.trades[k]]
      <3> SUFFICES ASSUME NEW k \in 1..Len(r.trades)  PROVE v[r.trades[k]] = u[r.trades[k]]  OBVIOUS
      <3>1. r.trades[k] \in Fills  BY <1>1
      <3>2. PICK i \in 1..n : r.bars[i].time = r.trades[k].time  BY <1>3
      <3>3. r.trades[k].time <= r.bars[j].time <=> r.trades[k].time <= t
        <4>1. ASSUME r.trades[k].time <= t  PROVE r.trades[k].time <= r.bars[j].time
          <5>1. i \in U  BY <1>5, <3>2, <4>1
          <5>2. i <= j  BY <2>1, <2>2, <5>1
          <5>3. i = j \/ r.bars[i].time < r.bars[j].time  BY <1>1, <1>2, <5>2
          <5>4. r.bars[i].time \in Int /\ r.bars[j].time \in Int  BY <1>2
          <5> QED  BY <3>2, <5>3, <5>4
        <4>2. ASSUME r.trades[k].time <= r.bars[j].time  PROVE r.trades[k].time <= t
          BY <1>2, <2>2, <3>2, <4>2
        <4> QED  BY <4>1, <4>2
      <3> QED  BY <3>1, <3>3 DEF MarkedUntil
    <2>6. v \in [Fills -> Int] /\ u \in [Fills -> Int]  BY <2>4, MarkedIs
    <2>7. r.equity[j].equity = Capital + Over(v, r.trades)  BY <1>4
    <2> HIDE DEF v, u
    <2>8. Over(v, r.trades) = Over(u, r.trades)  BY <1>1, <2>5, <2>6, OverSame
    <2> QED  BY <1>9, <2>3, <2>4, <2>7, <2>8 DEF u, U
  <1> QED  BY <1>8, <1>9

-----------------------------------------------------------------------------
(* The fills of all symbols, by time. *)

\* A sum of nothing.
LEMMA OverZero ==
  ASSUME NEW T, NEW seq \in Seq(T), NEW v \in [T -> Int], \A i \in 1..Len(seq) : v[seq[i]] = 0
  PROVE  Over(v, seq) = 0
  <1> DEFINE n == Len(seq)
             f == [k \in 1..n |-> v[seq[k]]]
             g == [k \in 0..n |-> 0]
  <1>1. n \in Nat /\ f \in [1..n -> Int] /\ \A k \in 1..n : f[k] = 0  OBVIOUS
  <1>2. Over(v, seq) = SumFunction(f)  BY DEF Over
  <1> HIDE DEF f, n
  <1>3. g[0] = 0 /\ \A k \in 1..n : g[k] = g[k - 1] + f[k]  BY <1>1
  <1>4. g[n] = 0  BY <1>1
  <1> HIDE DEF g
  <1>5. g[n] = SumFunction(f)  BY <1>1, <1>3, SumRunning
  <1> QED  BY <1>2, <1>4, <1>5

\* A sum of two values along a sequence.
LEMMA OverAdd ==
  ASSUME NEW T, NEW seq \in Seq(T), NEW v, NEW u, NEW w, Together(w, v, u, T)
  PROVE  Over(w, seq) = Over(v, seq) + Over(u, seq)
  <1> DEFINE S == 1..Len(seq)
             f == [k \in S |-> v[seq[k]]]
             g == [k \in S |-> u[seq[k]]]
             h == [k \in S |-> w[seq[k]]]
  <1>0. \A k \in S : seq[k] \in T  OBVIOUS
  <1> HIDE DEF S
  <1>1. /\ v \in [T -> Int] /\ u \in [T -> Int] /\ w \in [T -> Int]
        /\ \A x \in T : w[x] = v[x] + u[x]
    BY DEF Together
  <1>2. f \in [S -> Int] /\ g \in [S -> Int] /\ h \in [S -> Int]  BY <1>0, <1>1
  <1>3. \A k \in S : f[k] = v[seq[k]] /\ g[k] = u[seq[k]] /\ h[k] = w[seq[k]]  OBVIOUS
  <1>4. Over(v, seq) = SumFunction(f) /\ Over(u, seq) = SumFunction(g) /\ Over(w, seq) = SumFunction(h)
    BY DEF Over, S
  <1> HIDE DEF f, g, h
  <1>5. Together(h, f, g, S)  BY ZenonT(60), <1>0, <1>1, <1>2, <1>3 DEF Together
  <1>6. IsFiniteSet(S)  BY FS_Interval DEF S
  <1> QED  BY <1>4, <1>5, <1>6, SumAdd

\* The fills of each symbol, in the window.
Traded(trades, rs, T) ==
  /\ trades = [i \in 1..Len(rs) |-> rs[i].trades]
  /\ \A i \in 1..Len(rs) : trades[i] \in Seq(T)
  /\ \A i \in 1..Len(rs) : \A k \in 1..Len(trades[i]) : trades[i][k].time \in 1..Slots

\* All fills, in the order of their times: they are the symbols' fills, and
\* count for what the symbols' fills count for together.
LEMMA AllTradesIs ==
  ASSUME NEW T \in SUBSET Fills, NEW rs, IsSequence(rs),
         NEW trades, Traded(trades, rs, T)
  PROVE  /\ AllTrades(rs) \in Seq(T)
         /\ \A v \in [T -> Int] : \A e : Totals(e, v, trades) => Over(v, AllTrades(rs)) = SumFunction(e)
  <1> DEFINE N == Len(rs)
             D == 1..N
             Here(i, t) == {k \in DOMAIN rs[i].trades : rs[i].trades[k].time = t}
             part(t) == [i \in D |-> Picked(trades[i], Here(i, t))]
             all == [t \in 1..Slots |-> TradesAt(rs, t)]
  <1>0. /\ trades = [i \in D |-> rs[i].trades] /\ \A i \in D : trades[i] \in Seq(T)
        /\ \A i \in D : \A k \in 1..Len(trades[i]) : trades[i][k].time \in 1..Slots
    BY DEF Traded
  <1>1. /\ N \in Nat /\ DOMAIN rs = D /\ Slots \in Nat /\ IsFiniteSet(D)
        /\ \A i \in D : trades[i] = rs[i].trades
    <2>1. N \in Nat /\ DOMAIN rs = D  BY DEF IsSequence
    <2>2. IsFiniteSet(D)  BY <2>1, FS_Interval
    <2> QED  BY <1>0, <2>1, <2>2, QuickTestAssumption
  <1>2. trades \in [D -> Seq(T)] /\ Len(trades) = N  BY <1>0, <1>1
  <1>3. \A t : TradesAt(rs, t) = FlattenSeq(part(t))  BY <1>1 DEF TradesAt
  <1>4. AllTrades(rs) = FlattenSeq(all)  BY DEF AllTrades
  <1>5. ASSUME NEW t \in 1..Slots
        PROVE  part(t) \in Seq(Seq(T)) /\ Len(part(t)) = N
    <2>1. ASSUME NEW i \in D  PROVE Picked(trades[i], Here(i, t)) \in Seq(T)
      BY <1>1, <1>2, PickedIs
    <2> HIDE DEF Here
    <2>2. part(t) \in [D -> Seq(T)]  BY <2>1
    <2> QED  BY <1>1, <2>2
  <1>6. ASSUME NEW t \in 1..Slots  PROVE TradesAt(rs, t) \in Seq(T)
    <2> HIDE DEF part
    <2> QED  BY <1>3, <1>5, FlattenIs
  <1>7. all \in Seq(Seq(T)) /\ Len(all) = Slots  BY <1>1, <1>6
  <1>8. AllTrades(rs) \in Seq(T)
    <2> HIDE DEF all
    <2> QED  BY <1>4, <1>7, FlattenIs
  <1>9. ASSUME NEW v \in [T -> Int], NEW e, Totals(e, v, trades)
        PROVE  Over(v, AllTrades(rs)) = SumFunction(e)
    <2> DEFINE at(t)   == [x \in T |-> IF x.time = t THEN v[x] ELSE 0]
               upto(t) == [x \in T |-> IF x.time <= t THEN v[x] ELSE 0]
               a(t) == [i \in D |-> Over(at(t), trades[i])]
               b(t) == [i \in D |-> Over(upto(t), trades[i])]
               f == [t \in 1..Slots |-> Over(v, TradesAt(rs, t))]
               g == [t \in 0..Slots |-> SumFunction(b(t))]
    <2>0. \A x \in T : x.time \in Int  BY DEF Fills
    <2>1. \A t \in Int : at(t) \in [T -> Int] /\ upto(t) \in [T -> Int]  OBVIOUS
    <2>2. \A t \in Int : a(t) \in [D -> Int] /\ b(t) \in [D -> Int]
      <3> SUFFICES ASSUME NEW t \in Int, NEW i \in D
                   PROVE  Over(at(t), trades[i]) \in Int /\ Over(upto(t), trades[i]) \in Int
        OBVIOUS
      <3>1. at(t) \in [T -> Int] /\ upto(t) \in [T -> Int] /\ trades[i] \in Seq(T)  BY <1>2, <2>1
      <3> HIDE DEF at, upto
      <3> QED  BY <3>1, OverIs
    <2>3. ASSUME NEW t \in 1..Slots  PROVE f[t] = SumFunction(a(t))
      <3> DEFINE p == part(t)
      <3>1. p \in Seq(Seq(T)) /\ Len(p) = N  BY <1>5
      <3>2. ASSUME NEW i \in D  PROVE Over(v, p[i]) = Over(at(t), trades[i])
        <4>1. trades[i] \in Seq(T) /\ Here(i, t) \in SUBSET DOMAIN trades[i] /\ p[i] = Picked(trades[i], Here(i, t))
          BY <1>1, <1>2
        <4>2. at(t) \in [T -> Int]  BY <2>1
        <4>3. \A k \in DOMAIN trades[i] :
                at(t)[trades[i][k]] = IF k \in Here(i, t) THEN v[trades[i][k]] ELSE 0
          BY <1>1, <4>1
        <4> HIDE DEF at, Here, p
        <4>4. Chosen(at(t), v, trades[i], Here(i, t), T)  BY <4>1, <4>2, <4>3 DEF Chosen
        <4> QED  BY <4>1, <4>4, OverPicked
      <3>3. Totals(a(t), v, p)
        <4>1. a(t) \in [D -> Int]
          <5>1. t \in Int  BY <1>1
          <5> HIDE DEF a
          <5> QED  BY <2>2, <5>1
        <4>2. \A i \in D : a(t)[i] = Over(at(t), trades[i])  OBVIOUS
        <4> HIDE DEF a, at, p
        <4> QED  BY <3>1, <3>2, <4>1, <4>2 DEF Totals
      <3>4. f[t] = Over(v, FlattenSeq(p))  BY <1>3
      <3> HIDE DEF a, p, f
      <3> QED  BY <3>1, <3>3, <3>4, FlattenIs
    <2>4. g[0] = 0
      <3>1. ASSUME NEW i \in D  PROVE b(0)[i] = 0
        <4>1. trades[i] \in Seq(T) /\ upto(0) \in [T -> Int]  BY <1>2, <2>1
        <4>2. \A k \in 1..Len(trades[i]) : upto(0)[trades[i][k]] = 0
          <5> SUFFICES ASSUME NEW k \in 1..Len(trades[i])  PROVE upto(0)[trades[i][k]] = 0  OBVIOUS
          <5>1. trades[i][k].time \in 1..Slots /\ trades[i][k] \in T  BY <1>0, <4>1
          <5> QED  BY <1>1, <5>1
        <4> HIDE DEF upto
        <4>3. Over(upto(0), trades[i]) = 0  BY <4>1, <4>2, OverZero
        <4> QED  BY <4>3
      <3>2. b(0) = [i \in D |-> 0]
        <4>1. b(0) = [i \in D |-> b(0)[i]]  OBVIOUS
        <4> HIDE DEF b
        <4> QED  BY <3>1, <4>1
      <3>3. SumFunction([i \in D |-> 0]) = 0
        <4>1. PICK z \in Int : z = 0  OBVIOUS
        <4>2. SumFunction([i \in D |-> z]) = z * Cardinality(D)  BY <1>1, SumSame
        <4>3. Cardinality(D) \in Nat  BY <1>1, FS_CardinalityType
        <4> QED  BY <4>1, <4>2, <4>3
      <3>4. 0 \in 0..Slots /\ g[0] = SumFunction(b(0))  BY <1>1
      <3> QED  BY <3>2, <3>3, <3>4
    <2>5. ASSUME NEW t \in 1..Slots  PROVE g[t] = g[t - 1] + f[t]
      <3>1. t \in 0..Slots /\ t - 1 \in 0..Slots /\ t \in Int /\ t - 1 \in Int  BY <1>1
      <3>2. ASSUME NEW i \in D  PROVE b(t)[i] = b(t - 1)[i] + a(t)[i]
        <4>1. /\ trades[i] \in Seq(T) /\ at(t) \in [T -> Int] /\ upto(t) \in [T -> Int]
              /\ upto(t - 1) \in [T -> Int]
          BY <1>2, <2>1, <3>1
        <4>2. \A x \in T : upto(t)[x] = upto(t - 1)[x] + at(t)[x]
          <5> SUFFICES ASSUME NEW x \in T  PROVE upto(t)[x] = upto(t - 1)[x] + at(t)[x]  OBVIOUS
          <5>1. x.time \in Int /\ v[x] \in Int  BY <2>0
          <5>2. CASE x.time <= t - 1  BY <3>1, <5>1, <5>2
          <5>3. CASE x.time = t  BY <3>1, <5>1, <5>3
          <5>4. CASE ~(x.time <= t)  BY <3>1, <5>1, <5>4
          <5> QED  BY <3>1, <5>1, <5>2, <5>3, <5>4
        <4> HIDE DEF at, upto
        <4>a. Together(upto(t), upto(t - 1), at(t), T)  BY <4>1, <4>2 DEF Together
        <4>3. Over(upto(t), trades[i]) = Over(upto(t - 1), trades[i]) + Over(at(t), trades[i])
          BY <4>1, <4>a, OverAdd
        <4> QED  BY <4>3
      <3>3. /\ a(t) \in [D -> Int] /\ b(t) \in [D -> Int] /\ b(t - 1) \in [D -> Int]  BY <2>2, <3>1
      <3>4. f[t] = SumFunction(a(t)) /\ g[t] = SumFunction(b(t)) /\ g[t - 1] = SumFunction(b(t - 1))
        BY <2>3, <3>1
      <3> HIDE DEF a, b, f, g
      <3>a. Together(b(t), b(t - 1), a(t), D)  BY <3>2, <3>3 DEF Together
      <3>5. SumFunction(b(t)) = SumFunction(b(t - 1)) + SumFunction(a(t))  BY <1>1, <3>a, SumAdd
      <3> QED  BY <3>4, <3>5
    <2>6. f \in [1..Slots -> Int]
      <3> SUFFICES ASSUME NEW t \in 1..Slots  PROVE Over(v, TradesAt(rs, t)) \in Int  OBVIOUS
      <3> QED  BY <1>6, OverIs
    <2>7. g[Slots] = SumFunction(f)
      <3> HIDE DEF f, g
      <3> QED  BY <1>1, <2>4, <2>5, <2>6, SumRunning
    <2>8. Over(v, AllTrades(rs)) = SumFunction(f)
      <3>1. Totals(f, v, all)  BY <1>7, <2>6 DEF Totals
      <3> HIDE DEF f, all
      <3> QED  BY <1>4, <1>7, <3>1, FlattenIs
    <2>9. g[Slots] = SumFunction(e)
      <3>1. e \in [D -> Int] /\ \A i \in D : e[i] = Over(v, trades[i])  BY <1>2, <1>9 DEF Totals
      <3>2. ASSUME NEW i \in D  PROVE b(Slots)[i] = e[i]
        <4>1. trades[i] \in Seq(T) /\ upto(Slots) \in [T -> Int]  BY <1>1, <1>2, <2>1
        <4>2. \A k \in 1..Len(trades[i]) : upto(Slots)[trades[i][k]] = v[trades[i][k]]
          <5> SUFFICES ASSUME NEW k \in 1..Len(trades[i])
                       PROVE  upto(Slots)[trades[i][k]] = v[trades[i][k]]
            OBVIOUS
          <5>1. trades[i][k].time \in 1..Slots /\ trades[i][k] \in T  BY <1>0, <4>1
          <5> QED  BY <1>1, <5>1
        <4> HIDE DEF upto
        <4>3. Over(upto(Slots), trades[i]) = Over(v, trades[i])  BY <4>1, <4>2, OverSame
        <4> QED  BY <3>1, <4>3
      <3>3. b(Slots) \in [D -> Int]
        <4>1. Slots \in Int  BY <1>1
        <4> HIDE DEF b
        <4> QED  BY <2>2, <4>1
      <3>4. g[Slots] = SumFunction(b(Slots))  BY <1>1
      <3> HIDE DEF b, g
      <3>5. b(Slots) = e  BY <3>1, <3>2, <3>3
      <3> QED  BY <3>4, <3>5
    <2> QED  BY <2>7, <2>8, <2>9
  <1> QED  BY <1>8, <1>9

-----------------------------------------------------------------------------
(* The two ledgers of a quick test agree. *)

\* Every result is the simulation of its symbol over the whole window.
LEMMA ResultsAre ==
  ASSUME SimInv, AllSimulated
  PROVE  /\ IsSequence(results) /\ Len(results) = Len(Symbols) /\ DOMAIN results = 1..Len(Symbols)
         /\ \A i \in 1..Len(Symbols) : SimOK(results[i], Symbols[i], Slots + 1)
  <1>1. /\ IsSequence(results) /\ Len(results) <= Len(Symbols)
        /\ \A i \in 1..Len(results) : SimOK(results[i], Symbols[i], Slots + 1)
    BY DEF SimInv
  <1>2. ~(Len(results) < Len(Symbols))  BY DEF AllSimulated, Simulates
  <1>3. Len(results) \in Nat /\ DOMAIN results = 1..Len(results)  BY <1>1 DEF IsSequence
  <1>4. Len(results) = Len(Symbols)  BY <1>1, <1>2, <1>3, SymbolsAre
  <1> QED  BY <1>1, <1>3, <1>4

\* The profit of the trips, as a sum along them.
LEMMA SumPnlIs ==
  ASSUME NEW trips \in Seq(TripRecs)
  PROVE  SumPnl(trips) = Over(TripPnl, trips) /\ SumPnl(trips) \in Int
  <1>1. [i \in DOMAIN trips |-> trips[i].pnl] = [k \in 1..Len(trips) |-> TripPnl[trips[k]]]
    BY DEF TripPnl
  <1>2. SumPnl(trips) = Over(TripPnl, trips)  BY <1>1 DEF SumPnl, Over
  <1> QED  BY <1>2, TripPnlIs, OverIs

\* A symbol without a lot is worth nothing.
LEMMA NothingOpen ==
  ASSUME NEW lots \in [Syms \X {"long", "short"} -> Seq(LotRecs)], NEW s \in Syms, NEW close \in Int,
         lots[<<s, "long">>] = <<>>, lots[<<s, "short">>] = <<>>
  PROVE  Unrealized(s, lots, close) = 0
  <1>1. Unrealized(s, lots, close)
          = Over(LotWorth("long", close), <<>>) + Over(LotWorth("short", close), <<>>)
    BY UnrealizedIs
  <1>2. LotWorth("long", close) \in [LotRecs -> Int] /\ LotWorth("short", close) \in [LotRecs -> Int]
    BY WorthIs
  <1>3. Over(LotWorth("long", close), <<>>) = 0 /\ Over(LotWorth("short", close), <<>>) = 0
    BY <1>2, OverIs
  <1> QED  BY <1>1, <1>3

\* The closes all positions are marked at.
CloseOf(closes, t) ==
  /\ closes \in [Syms -> Int]
  /\ \A i \in 1..Len(Symbols) :
       Until(results[i].bars, t) # {} => closes[Symbols[i]] = CloseAt(results[i], t)

\* There are such closes.
LEMMA ClosesExist ==
  ASSUME SimInv, AllSimulated, NEW t \in Int
  PROVE  \E closes : CloseOf(closes, t)
  <1> DEFINE at(s) == CHOOSE i \in 1..Len(Symbols) : Symbols[i] = s
             of(i) == IF Until(results[i].bars, t) # {} THEN CloseAt(results[i], t) ELSE 0
             closes == [s \in Syms |-> of(at(s))]
  <1>1. \A i \in 1..Len(Symbols) : of(i) \in Int
    <2> SUFFICES ASSUME NEW i \in 1..Len(Symbols)  PROVE of(i) \in Int  OBVIOUS
    <2>1. SimOK(results[i], Symbols[i], Slots + 1)  BY ResultsAre
    <2> QED  BY <2>1, CarriedIs
  <1>2. \A s \in Syms : at(s) \in 1..Len(Symbols)  BY SymbolsAre
  <1>3. \A i \in 1..Len(Symbols) : Symbols[i] \in Syms /\ at(Symbols[i]) = i  BY SymbolsAre
  <1>4. \A i \in 1..Len(Symbols) : Until(results[i].bars, t) # {} => of(i) = CloseAt(results[i], t)
    OBVIOUS
  <1> HIDE DEF at, of
  <1>5. closes \in [Syms -> Int]  BY <1>1, <1>2
  <1>6. \A i \in 1..Len(Symbols) : closes[Symbols[i]] = of(i)  BY <1>3
  <1> HIDE DEF closes
  <1>7. CloseOf(closes, t)  BY <1>4, <1>5, <1>6 DEF CloseOf
  <1> QED  BY <1>7

\* Exposure is what a simulation marks a fill at.
LEMMA ExposureIs ==
  ASSUME NEW closes \in [Syms -> Int]
  PROVE  /\ Exposure(closes) \in [Fills -> Int]
         /\ \A x \in Fills : Exposure(closes)[x] = Marked(closes[x.symbol])[x]
  <1> SUFFICES ASSUME NEW x \in Fills
               PROVE  /\ (closes[x.symbol] - x.price) * Delta(x.side, x.qty) \in Int
                      /\ Exposure(closes)[x] = Marked(closes[x.symbol])[x]
    BY DEF Exposure
  <1>1. x.symbol \in Syms  BY Deques
  <1>2. closes[x.symbol] \in Int  BY <1>1
  <1>3. Marked(closes[x.symbol])[x] \in Int  BY <1>2, MarkedIs
  <1> QED  BY <1>3 DEF Exposure, Marked

\* What a fill until t is worth.
ExposureUntil(closes, t) == [x \in Fills |-> IF x.time <= t THEN Exposure(closes)[x] ELSE 0]

\* So is exposure until a time.
LEMMA ExposureUntilIs ==
  ASSUME NEW closes \in [Syms -> Int], NEW t
  PROVE  ExposureUntil(closes, t) \in [Fills -> Int]
  BY ExposureIs DEF ExposureUntil

\* What a symbol gains until t is what its fills are worth.
LEMMA GainIs ==
  ASSUME SimInv, AllSimulated, NEW t \in Int, NEW closes, CloseOf(closes, t),
         NEW i \in 1..Len(Symbols)
  PROVE  /\ Carried(results[i], t) \in Int
         /\ Carried(results[i], t) - Capital = Over(ExposureUntil(closes, t), results[i].trades)
  <1> DEFINE r == results[i]
             s == Symbols[i]
             u == ExposureUntil(closes, t)
  <1>1. SimOK(r, s, Slots + 1)  BY ResultsAre
  <1>2. closes \in [Syms -> Int]  BY DEF CloseOf
  <1>3. r.trades \in Seq(Fills) /\ \A k \in 1..Len(r.trades) : r.trades[k].symbol = s
    BY <1>1 DEF SimOK, Shaped, Dated
  <1>4. u \in [Fills -> Int] /\ Capital \in Int  BY <1>2, ExposureUntilIs, QuickTestAssumption
  <1>5. Carried(r, t) \in Int  BY <1>1, CarriedIs
  <1>6. \A k \in 1..Len(r.trades) : r.trades[k] \in Fills  BY <1>3
  <1>7. CASE Until(r.bars, t) = {}
    <2>1. Carried(r, t) = Capital /\ \A k \in 1..Len(r.trades) : ~(r.trades[k].time <= t)
      BY <1>1, <1>7, CarriedIs
    <2>2. \A k \in 1..Len(r.trades) : u[r.trades[k]] = 0  BY <1>6, <2>1 DEF ExposureUntil
    <2> HIDE DEF u, r
    <2>3. Over(u, r.trades) = 0  BY <1>3, <1>4, <2>2, OverZero
    <2> QED  BY <1>4, <1>5, <2>1, <2>3 DEF u, r
  <1>8. CASE Until(r.bars, t) # {}
    <2> DEFINE c == CloseAt(r, t)
               v == MarkedUntil(c, t)
    <2>1. c \in Int /\ Carried(r, t) = Capital + Over(v, r.trades)  BY <1>1, <1>8, CarriedIs
    <2>2. closes[s] = c  BY <1>8 DEF CloseOf
    <2>3. v \in [Fills -> Int]  BY <2>1, MarkedIs
    <2>4. \A k \in 1..Len(r.trades) : v[r.trades[k]] = u[r.trades[k]]
      <3> SUFFICES ASSUME NEW k \in 1..Len(r.trades)  PROVE v[r.trades[k]] = u[r.trades[k]]  OBVIOUS
      <3>1. r.trades[k] \in Fills /\ closes[r.trades[k].symbol] = c  BY <1>3, <1>6, <2>2
      <3>2. Exposure(closes)[r.trades[k]] = Marked(c)[r.trades[k]]  BY <1>2, <3>1, ExposureIs
      <3> QED  BY <3>1, <3>2 DEF MarkedUntil, ExposureUntil
    <2> HIDE DEF u, v, c
    <2>5. Over(v, r.trades) = Over(u, r.trades)
      <3>1. PICK trades \in Seq(Fills) : trades = r.trades  BY <1>3
      <3>2. u \in [Fills -> Int] /\ \A k \in 1..Len(trades) : v[trades[k]] = u[trades[k]]
        BY <1>4, <2>4, <3>1
      <3>3. Over(v, trades) = Over(u, trades)  BY <2>3, <3>2, OverSame
      <3> QED  BY <3>1, <3>3
    <2> HIDE DEF r
    <2>6. Over(v, r.trades) \in Int  BY <1>3, <2>3, OverIs
    <2> QED  BY <1>4, <2>1, <2>5, <2>6, <1>5 DEF u, r
  <1> QED  BY <1>5, <1>7, <1>8

\* The summed curve at t is the capitals and the gains of all symbols: one
\* without a curve has none.
LEMMA CurvesSum ==
  ASSUME SimInv, AllSimulated, NEW t \in Int
  PROVE  LET gain == [i \in 1..Len(Symbols) |-> Carried(results[i], t) - Capital] IN
         /\ gain \in [1..Len(Symbols) -> Int]
         /\ SumFunction([i \in DOMAIN Curves(results) |-> Carried(Curves(results)[i], t)])
              = Capital * Len(Curves(results)) + SumFunction(gain)
  <1> DEFINE D == 1..Len(Symbols)
             C == {i \in DOMAIN results : results[i].equity # <<>>}
             R == {results[i] : i \in D}
             curves == Curves(results)
             car == [r \in R |-> Carried(r, t)]
             cap == [r \in R |-> Capital]
             add == [r \in R |-> Carried(r, t) - Capital]
             gain == [i \in D |-> Carried(results[i], t) - Capital]
             part == [i \in C |-> gain[i]]
  <1>1. /\ IsSequence(results) /\ Len(results) = Len(Symbols) /\ DOMAIN results = D /\ IsFiniteSet(D)
        /\ \A i \in D : SimOK(results[i], Symbols[i], Slots + 1)
    BY SymbolsAre, FS_Interval, ResultsAre
  <1>2. \A i \in D : Carried(results[i], t) \in Int /\ results[i] \in R  BY <1>1, CarriedIs
  <1>3. Capital \in Int  BY QuickTestAssumption
  <1>4. /\ car \in [R -> Int] /\ cap \in [R -> Int] /\ add \in [R -> Int]
        /\ \A r \in R : car[r] = cap[r] + add[r]
    BY <1>2, <1>3
  <1>5. gain \in [D -> Int] /\ \A i \in D : gain[i] = add[results[i]]  BY <1>2, <1>3
  <1>6. \A i \in D : i \notin C => gain[i] = 0
    <2> SUFFICES ASSUME NEW i \in D, i \notin C  PROVE gain[i] = 0  OBVIOUS
    <2>1. Shaped(results[i]) /\ Charted(results[i], Slots + 1)  BY <1>1 DEF SimOK
    <2>2. results[i].equity = <<>> /\ Len(results[i].equity) = Len(results[i].bars)
      BY <1>1, <2>1 DEF Charted
    <2>3. results[i].bars \in Seq(BarRecs)  BY <2>1 DEF Shaped
    <2>4. Until(results[i].bars, t) = {}
      <3>1. Len(results[i].bars) = 0  BY <2>2
      <3>2. DOMAIN results[i].bars = {}  BY <2>3, <3>1
      <3> QED  BY <3>2 DEF Until
    <2>5. SimOK(results[i], Symbols[i], Slots + 1)  BY <1>1
    <2>6. Carried(results[i], t) = Capital  BY <2>4, <2>5, CarriedIs
    <2> QED  BY <1>3, <2>6
  <1>7. results \in Seq(R)
    <2>1. Len(results) \in Nat  BY <1>1 DEF IsSequence
    <2>2. \A k \in 1..Len(results) : results[k] \in R  BY <1>1, <1>2
    <2>3. results = [k \in 1..Len(results) |-> results[k]]  BY <1>1 DEF IsSequence
    <2> HIDE DEF R
    <2> QED  BY <2>1, <2>2, <2>3, SeqDef
  <1>8. curves = Picked(results, C) /\ C \in SUBSET DOMAIN results /\ C \in SUBSET D
    BY <1>1 DEF Curves
  <1>9. part \in [C -> Int] /\ \A i \in C : part[i] = add[results[i]]  BY <1>1, <1>5
  <1> HIDE DEF R, C
  <1>10. curves \in Seq(R)  BY <1>7, <1>8, PickedIs
  <1>11. SumFunction([i \in DOMAIN curves |-> Carried(curves[i], t)]) = Over(car, curves)
    <2>1. DOMAIN curves = 1..Len(curves) /\ \A i \in 1..Len(curves) : curves[i] \in R  BY <1>10
    <2> HIDE DEF curves
    <2>2. [i \in DOMAIN curves |-> Carried(curves[i], t)] = [i \in 1..Len(curves) |-> car[curves[i]]]
      BY <2>1
    <2> QED  BY <2>2 DEF Over
  <1>12. Over(cap, curves) = Capital * Len(curves)
    <2>1. Len(curves) \in Nat /\ \A i \in 1..Len(curves) : curves[i] \in R  BY <1>10
    <2> HIDE DEF curves
    <2>2. [i \in 1..Len(curves) |-> cap[curves[i]]] = [i \in 1..Len(curves) |-> Capital]  BY <2>1
    <2>3. IsFiniteSet(1..Len(curves)) /\ Cardinality(1..Len(curves)) = Len(curves)
      BY <2>1, FS_Interval
    <2>4. SumFunction([i \in 1..Len(curves) |-> Capital]) = Capital * Cardinality(1..Len(curves))
      BY <1>3, <2>3, SumSame
    <2> QED  BY <2>2, <2>3, <2>4 DEF Over
  <1> HIDE DEF car, cap, add, gain, curves
  <1>13. Over(car, curves) = Over(cap, curves) + Over(add, curves)
    <2>1. Together(car, cap, add, R)  BY <1>4 DEF Together
    <2> QED  BY <1>10, <2>1, OverAdd
  <1>14. Over(add, curves) = SumFunction(part)
    <2>1. Reads(part, C, add, results)  BY <1>9 DEF Reads
    <2> HIDE DEF part
    <2>2. \A f : Reads(f, C, add, results) => Over(add, Picked(results, C)) = SumFunction(f)
      BY <1>4, <1>7, <1>8, PickedIs
    <2> QED  BY <1>8, <2>1, <2>2
  <1>15. SumFunction(gain) = SumFunction(part)  BY <1>1, <1>5, <1>6, <1>8, SumWhere
  <1> QED  BY <1>5, <1>11, <1>12, <1>13, <1>14, <1>15 DEF gain, curves

\* The fills of the quick test.
Booked ==
  {x \in Fills : \E i \in 1..Len(Symbols) : \E k \in 1..Len(results[i].trades) : x = results[i].trades[k]}

\* All fills of the results are fills of the window.
LEMMA BookedIs ==
  ASSUME SimInv, AllSimulated
  PROVE  LET trades == [i \in 1..Len(Symbols) |-> results[i].trades] IN
         Traded(trades, results, Booked) /\ Traded(trades, results, Fills)
  <1> DEFINE D == 1..Len(Symbols)
             trades == [i \in D |-> results[i].trades]
  <1>1. Len(results) = Len(Symbols) /\ \A i \in D : SimOK(results[i], Symbols[i], Slots + 1)
    BY ResultsAre
  <1>2. ASSUME NEW i \in D
        PROVE  /\ trades[i] \in Seq(Booked) /\ trades[i] \in Seq(Fills)
               /\ \A k \in 1..Len(trades[i]) : trades[i][k].time \in 1..Slots
    <2>1. Shaped(results[i]) /\ Charted(results[i], Slots + 1) /\ Dated(results[i], Symbols[i])
      BY <1>1 DEF SimOK
    <2>2. results[i].trades \in Seq(Fills)  BY <2>1 DEF Shaped
    <2>3. \A k \in 1..Len(results[i].trades) : results[i].trades[k] \in Booked  BY <2>2 DEF Booked
    <2>4. results[i].trades \in Seq(Booked)
      <3>1. Len(results[i].trades) \in Nat  BY <2>2
      <3>2. results[i].trades = [k \in 1..Len(results[i].trades) |-> results[i].trades[k]]  BY <2>2
      <3> QED  BY <2>3, <3>1, <3>2, SeqDef
    <2>5. \A k \in 1..Len(results[i].trades) : results[i].trades[k].time \in 1..Slots
      <3>1. (Slots + 1) - 1 = Slots  BY QuickTestAssumption
      <3>2. \A j \in 1..Len(results[i].bars) : results[i].bars[j].time \in 1..Slots
        BY <2>1, <3>1 DEF Charted
      <3> QED  BY <2>1, <3>2 DEF Dated
    <2> QED  BY <2>2, <2>4, <2>5
  <1> HIDE DEF D
  <1>3. trades = [i \in 1..Len(results) |-> results[i].trades]  BY <1>1 DEF D
  <1> HIDE DEF trades
  <1>4. \A i \in 1..Len(results) : i \in D  BY <1>1 DEF D
  <1>5. Traded(trades, results, Booked)  BY <1>2, <1>3, <1>4 DEF Traded
  <1>6. Traded(trades, results, Fills)  BY <1>2, <1>3, <1>4 DEF Traded
  <1> QED  BY <1>5, <1>6 DEF trades, D

\* The symbols with a bar until t.
Seen(t) == {i \in DOMAIN results : Until(results[i].bars, t) # {}}

\* A symbol that is not seen has no fill until t.
LEMMA UnseenIdle ==
  ASSUME SimInv, AllSimulated, NEW t \in Int, NEW i \in 1..Len(Symbols), i \notin Seen(t),
         NEW all \in Seq(Booked), NEW k \in Until(all, t)
  PROVE  all[k].symbol # Symbols[i]
  <1>1. all[k] \in Booked /\ all[k].time <= t  BY DEF Until
  <1>2. PICK j \in 1..Len(Symbols) : \E n \in 1..Len(results[j].trades) : all[k] = results[j].trades[n]
    BY <1>1 DEF Booked
  <1>a. PICK n \in 1..Len(results[j].trades) : all[k] = results[j].trades[n]  BY <1>2
  <1>3. SimOK(results[j], Symbols[j], Slots + 1) /\ DOMAIN results = 1..Len(Symbols)  BY ResultsAre
  <1>4. results[j].trades[n].symbol = Symbols[j]  BY <1>3 DEF SimOK, Dated
  <1> SUFFICES ASSUME Symbols[i] = Symbols[j]  PROVE FALSE  BY <1>a, <1>4
  <1>5. i = j  BY SymbolsAre
  <1>6. Until(results[j].bars, t) = {}  BY <1>3, <1>5 DEF Seen
  <1>7. ~(results[j].trades[n].time <= t)  BY <1>3, <1>6, CarriedIs
  <1> QED  BY <1>1, <1>a, <1>7

\* What the fills of all symbols until t are worth is what each gains.
LEMMA FillsWorth ==
  ASSUME SimInv, AllSimulated, NEW t \in Int, NEW closes, CloseOf(closes, t)
  PROVE  LET all == AllTrades(results)
             gain == [i \in 1..Len(Symbols) |-> Carried(results[i], t) - Capital] IN
         /\ all \in Seq(Fills) /\ all \in Seq(Booked)
         /\ Over(Exposure(closes), Picked(all, Until(all, t))) = SumFunction(gain)
  <1> DEFINE D == 1..Len(Symbols)
             all == AllTrades(results)
             trades == [i \in D |-> results[i].trades]
             gain == [i \in D |-> Carried(results[i], t) - Capital]
             e == Exposure(closes)
             u == ExposureUntil(closes, t)
  <1>1. IsSequence(results) /\ Traded(trades, results, Booked) /\ Traded(trades, results, Fills)
    BY ResultsAre, BookedIs
  <1>2. e \in [Fills -> Int] /\ u \in [Fills -> Int]  BY ExposureIs, ExposureUntilIs DEF CloseOf
  <1>3. Totals(gain, u, trades)
    <2>1. gain \in [D -> Int]  BY CurvesSum
    <2>2. ASSUME NEW i \in D  PROVE gain[i] = Over(u, trades[i])  BY GainIs
    <2>3. Len(trades) = Len(Symbols)  BY SymbolsAre
    <2> HIDE DEF gain, trades, u
    <2> QED  BY <2>1, <2>2, <2>3 DEF Totals
  <1> HIDE DEF trades, gain
  <1>4. all \in Seq(Booked)  BY <1>1, AllTradesIs DEF Booked
  <1>5. all \in Seq(Fills) /\ Over(u, all) = SumFunction(gain)
    <2>1. Fills \in SUBSET Fills  OBVIOUS
    <2> HIDE DEF u
    <2> QED  BY <1>1, <1>2, <1>3, <2>1, AllTradesIs
  <1>6. Over(e, Picked(all, Until(all, t))) = Over(u, all)
    <2>1. \A k \in DOMAIN all : u[all[k]] = IF k \in Until(all, t) THEN e[all[k]] ELSE 0
      <3> SUFFICES ASSUME NEW k \in DOMAIN all
                   PROVE  u[all[k]] = IF k \in Until(all, t) THEN e[all[k]] ELSE 0
        OBVIOUS
      <3>1. all[k] \in Fills  BY <1>5
      <3> QED  BY <3>1 DEF Until, ExposureUntil
    <2>2. Until(all, t) \in SUBSET DOMAIN all  BY DEF Until
    <2> HIDE DEF all, e, u
    <2>3. Chosen(u, e, all, Until(all, t), Fills)  BY <1>2, <1>5, <2>1, <2>2 DEF Chosen
    <2> QED  BY <2>3, OverPicked
  <1> QED  BY <1>4, <1>5, <1>6 DEF gain

\* Only symbols with a bar until t have a lot.
LotsSeen(lots, t) ==
  \A i \in 1..Len(Symbols) : i \notin Seen(t) =>
    lots[<<Symbols[i], "long">>] = <<>> /\ lots[<<Symbols[i], "short">>] = <<>>

\* What the lots of all symbols are worth, of those with a bar until t.
LEMMA OpenWorth ==
  ASSUME SimInv, AllSimulated, NEW t \in Int, NEW closes, CloseOf(closes, t),
         NEW lots \in [Syms \X {"long", "short"} -> Seq(LotRecs)], LotsSeen(lots, t)
  PROVE  /\ Values(lots, closes) \in Int
         /\ Values(lots, closes)
              = SumFunction([i \in Seen(t) |-> Unrealized(Symbols[i], lots, CloseAt(results[i], t))])
  <1> DEFINE D == 1..Len(Symbols)
             h == [s \in Syms |-> Unrealized(s, lots, closes[s])]
             g == [i \in D |-> h[Symbols[i]]]
  <1>1. /\ closes \in [Syms -> Int]
        /\ \A i \in D : i \in Seen(t) => closes[Symbols[i]] = CloseAt(results[i], t)
    BY DEF CloseOf, Seen
  <1>2. /\ IsFiniteSet(D) /\ IsFiniteSet(Syms) /\ Symbols \in [D -> Syms] /\ Pairs(Symbols, D, Syms)
        /\ Seen(t) \in SUBSET D
    <2>1. IsFiniteSet(D) /\ IsFiniteSet(Syms) /\ Symbols \in [D -> Syms]  BY SymbolsAre, FS_Interval
    <2>2. Pairs(Symbols, D, Syms)  BY <2>1, SymbolsAre DEF Pairs
    <2>3. Seen(t) \in SUBSET D  BY ResultsAre DEF Seen
    <2> QED  BY <2>1, <2>2, <2>3
  <1>3. h \in [Syms -> Int]
    <2> SUFFICES ASSUME NEW s \in Syms  PROVE Unrealized(s, lots, closes[s]) \in Int  OBVIOUS
    <2>1. closes[s] \in Int  BY <1>1
    <2> QED  BY <2>1, UnrealizedIs
  <1>4. g \in [D -> Int] /\ \A i \in D : g[i] = h[Symbols[i]]  BY <1>2, <1>3
  <1>5. \A i \in D : i \notin Seen(t) => g[i] = 0
    <2> SUFFICES ASSUME NEW i \in D, i \notin Seen(t)  PROVE g[i] = 0  OBVIOUS
    <2>1. Symbols[i] \in Syms /\ closes[Symbols[i]] \in Int  BY <1>1, <1>2
    <2>2. Unrealized(Symbols[i], lots, closes[Symbols[i]]) = 0  BY <2>1, NothingOpen DEF LotsSeen
    <2> QED  BY <2>1, <2>2
  <1>6. \A i \in Seen(t) : g[i] = Unrealized(Symbols[i], lots, CloseAt(results[i], t))
    BY <1>1, <1>2
  <1>a. IsFiniteSet(D) /\ Pairs(Symbols, D, Syms)  BY <1>2
  <1>7. Values(lots, closes) = SumFunction(h)  BY DEF Values
  <1> HIDE DEF h, g, D
  <1>8. SumFunction(g) = SumFunction(h)  BY <1>3, <1>4, <1>a, SumMatched DEF Reads
  <1>9. SumFunction(g) = SumFunction([i \in Seen(t) |-> g[i]])
    <2>1. PICK W \in SUBSET D : W = Seen(t)  BY <1>2
    <2>2. \A i \in D : i \notin W => g[i] = 0  BY <1>5, <2>1
    <2>3. SumFunction(g) = SumFunction([i \in W |-> g[i]])  BY <1>a, <1>4, <2>2, SumWhere
    <2> QED  BY <2>1, <2>3
  <1>10. [i \in Seen(t) |-> g[i]] = [i \in Seen(t) |-> Unrealized(Symbols[i], lots, CloseAt(results[i], t))]
    BY <1>6
  <1>11. SumFunction(h) \in Int  BY <1>2, <1>3, SumIs
  <1> QED  BY <1>7, <1>8, <1>9, <1>10, <1>11

\* The ledgers agree at every time.
LEMMA BooksAt ==
  ASSUME SimInv, AllSimulated, NEW t \in Int
  PROVE  LET all == AllTrades(results)
             m   == Match(Syms, Picked(all, Until(all, t))) IN
         SumFunction([i \in DOMAIN Curves(results) |-> Carried(Curves(results)[i], t)])
           = Capital * Len(Curves(results)) + SumPnl(m.trips)
               + SumFunction([i \in Seen(t) |-> Unrealized(Symbols[i], m.lots, CloseAt(results[i], t))])
  <1> DEFINE D == 1..Len(Symbols)
             all == AllTrades(results)
             past == Picked(all, Until(all, t))
             m == Match(Syms, past)
             gain == [i \in D |-> Carried(results[i], t) - Capital]
             open == SumFunction([i \in Seen(t) |-> Unrealized(Symbols[i], m.lots, CloseAt(results[i], t))])
  <1>1. PICK closes : CloseOf(closes, t)  BY ClosesExist
  <1>2. closes \in [Syms -> Int]  BY <1>1 DEF CloseOf
  <1>3. all \in Seq(Fills) /\ all \in Seq(Booked) /\ Over(Exposure(closes), past) = SumFunction(gain)
    BY <1>1, FillsWorth
  <1>4. gain \in [D -> Int] /\ IsFiniteSet(D)
    <2>1. gain \in [D -> Int]  BY CurvesSum
    <2>2. IsFiniteSet(D)  BY SymbolsAre, FS_Interval
    <2> QED  BY <2>1, <2>2
  <1>5. SumFunction([i \in DOMAIN Curves(results) |-> Carried(Curves(results)[i], t)])
          = Capital * Len(Curves(results)) + SumFunction(gain)
    BY CurvesSum
  <1> HIDE DEF gain, all
  <1>6. /\ past \in Seq(Fills)
        /\ \A k \in 1..Len(past) : \E i \in Until(all, t) : past[k] = all[i]
    <2>1. Until(all, t) \in SUBSET DOMAIN all  BY DEF Until
    <2> QED  BY <1>3, <2>1, PickedIs
  <1> HIDE DEF past
  <1>7. /\ m \in Ledgers
        /\ SumPnl(m.trips) + Values(m.lots, closes) = Over(Exposure(closes), past)
        /\ \A s \in Syms, dir \in {"long", "short"} :
             m.lots[<<s, dir>>] # <<>> => \E k \in DOMAIN past : past[k].symbol = s
    BY <1>2, <1>6, MatchBooks
  <1> HIDE DEF m
  <1>8. m.lots \in [Syms \X {"long", "short"} -> Seq(LotRecs)] /\ m.trips \in Seq(TripRecs)
    BY <1>7 DEF Ledgers
  <1>9. LotsSeen(m.lots, t)
    <2> SUFFICES ASSUME NEW i \in D, i \notin Seen(t), NEW dir \in {"long", "short"}
                 PROVE  m.lots[<<Symbols[i], dir>>] = <<>>
      BY DEF LotsSeen
    <2>1. Symbols[i] \in Syms  BY SymbolsAre
    <2>2. ASSUME NEW k \in DOMAIN past  PROVE past[k].symbol # Symbols[i]
      <3>1. k \in 1..Len(past)  BY <1>6
      <3>2. PICK j \in Until(all, t) : past[k] = all[j]  BY <1>6, <3>1
      <3> QED  BY <1>3, <3>2, UnseenIdle
    <2> QED  BY <1>7, <2>1, <2>2
  <1>10. Values(m.lots, closes) \in Int /\ Values(m.lots, closes) = open
    BY <1>1, <1>8, <1>9, OpenWorth
  <1>11. SumPnl(m.trips) \in Int  BY <1>8, SumPnlIs
  <1>12. SumFunction(gain) \in Int  BY <1>4, SumIs
  <1>13. SumFunction(gain) = SumPnl(m.trips) + open  BY <1>3, <1>7, <1>10
  <1>14. Capital * Len(Curves(results)) \in Int
    <2>1. PICK R : results \in Seq(R)
      <3>1. results \in Seq({results[i] : i \in 1..Len(results)})
        BY ResultsAre, SeqDef DEF IsSequence
      <3> QED  BY <3>1
    <2>2. Curves(results) \in Seq(R)  BY <2>1, PickedIs DEF Curves
    <2> QED  BY <2>2, QuickTestAssumption
  <1> HIDE DEF open
  <1> QED  BY <1>5, <1>10, <1>11, <1>12, <1>13, <1>14 DEF m, past, all, open

\* The points of the summed curve are at times of its members.
LEMMA CurveAt ==
  ASSUME SimInv, AllSimulated, NEW k \in DOMAIN Curve
  PROVE  /\ Curve[k].time \in Int
         /\ Curve[k].equity = SumFunction([i \in DOMAIN Curves(results) |->
                                             Carried(Curves(results)[i], Curve[k].time)])
  <1> DEFINE curves == Curves(results)
             sets == {ToSet(curves[i].equity) : i \in DOMAIN curves}
             S == {p.time : p \in UNION sets}
             R == {p \in S \X S : p[1] < p[2]}
             times == Ascending(S, <)
             rs == {results[i] : i \in 1..Len(Symbols)}
  <1>1. Curve = [j \in DOMAIN times |->
                   [time |-> times[j], equity |-> SumFunction([i \in DOMAIN curves |-> Carried(curves[i], times[j])])]]
    BY DEF Curve, SumCurves
  <1>2. curves \in Seq(rs) /\ \A r \in rs : r.equity \in Seq(PointRecs)
    <2>1. results \in Seq(rs)
      <3>1. Len(results) \in Nat /\ Len(results) = Len(Symbols) /\ results = [j \in 1..Len(results) |-> results[j]]
        BY ResultsAre DEF IsSequence
      <3>2. \A j \in 1..Len(results) : results[j] \in rs  BY <3>1
      <3> HIDE DEF rs
      <3> QED  BY <3>1, <3>2, SeqDef
    <2>2. \A r \in rs : r.equity \in Seq(PointRecs)  BY ResultsAre DEF SimOK, Shaped
    <2>3. {i \in DOMAIN results : results[i].equity # <<>>} \in SUBSET DOMAIN results  OBVIOUS
    <2> HIDE DEF rs
    <2>4. curves \in Seq(rs)  BY <2>1, <2>3, PickedIs DEF Curves
    <2> QED  BY <2>2, <2>4
  <1> HIDE DEF rs, curves
  <1>3. DOMAIN curves = 1..Len(curves) /\ IsFiniteSet(DOMAIN curves)  BY <1>2, FS_Interval
  <1>4. \A i \in DOMAIN curves : curves[i].equity \in Seq(PointRecs)  BY <1>2, <1>3
  <1>5. IsFiniteSet(S)
    <2>1. IsFiniteSet(sets)
      <3> DEFINE f == [i \in DOMAIN curves |-> ToSet(curves[i].equity)]
      <3>1. sets = {f[i] : i \in DOMAIN curves} /\ DOMAIN f = DOMAIN curves  OBVIOUS
      <3> HIDE DEF f, sets
      <3> QED  BY <1>3, <3>1, ImageFinite
    <2>2. \A s \in sets : IsFiniteSet(s)  BY <1>4, ToSetFinite
    <2>3. IsFiniteSet(UNION sets)
      <3> HIDE DEF sets
      <3> QED  BY <2>1, <2>2, FS_UNION
    <2> DEFINE all == UNION sets
               f == [p \in all |-> p.time]
    <2>4. S = {f[p] : p \in all} /\ DOMAIN f = all /\ IsFiniteSet(all)  BY <2>3
    <2> HIDE DEF f, all, sets, S
    <2> QED  BY <2>4, ImageFinite
  <1>6. S \subseteq Int
    <2>1. \A i \in DOMAIN curves : \A p \in ToSet(curves[i].equity) : p \in PointRecs
      BY <1>4 DEF ToSet
    <2> QED  BY <2>1 DEF PointRecs
  <1> HIDE DEF S
  <1>7. Linear(R, S) /\ \A s \in S : {r \in S : r < s} = Ahead(R, S, s)  BY <1>6 DEF Linear, Ahead
  <1>8. times = [i \in 1..Cardinality(S) |-> CHOOSE s \in S : Cardinality({r \in S : r < s}) = i - 1]
    BY DEF Ascending
  <1>9. k \in 1..Cardinality(S)  BY <1>1, <1>8
  <1>10. times[k] \in Int
    <2> HIDE DEF R
    <2>1. PICK a \in S : Cardinality(Ahead(R, S, a)) = k - 1  BY <1>5, <1>7, <1>9, Places
    <2>2. \E b \in S : Cardinality({r \in S : r < b}) = k - 1  BY <1>7, <2>1
    <2>3. times[k] \in S  BY <1>8, <1>9, <2>2
    <2> QED  BY <1>6, <2>3
  <1>11. k \in DOMAIN times  BY <1>8, <1>9
  <1> HIDE DEF times
  <1> QED  BY <1>1, <1>10, <1>11 DEF curves

\* The simulations being what they are, the ledgers agree.
LEMMA SimBooks == SimInv => BooksBalance
  <1> SUFFICES ASSUME SimInv, AllSimulated, NEW k \in DOMAIN Curve
               PROVE  LET t    == Curve[k].time
                          all  == AllTrades(results)
                          m    == Match(Syms, Picked(all, Until(all, t)))
                          seen == {i \in DOMAIN results : Until(results[i].bars, t) # {}}
                      IN  Curve[k].equity = Capital * Len(Curves(results)) + SumPnl(m.trips)
                            + SumFunction([i \in seen |-> Unrealized(Symbols[i], m.lots, CloseAt(results[i], t))])
    BY DEF BooksBalance
  <1>1. PICK t \in Int : t = Curve[k].time  BY CurveAt
  <1>2. Curve[k].equity = SumFunction([i \in DOMAIN Curves(results) |-> Carried(Curves(results)[i], t)])
    BY <1>1, CurveAt
  <1>3. {i \in DOMAIN results : Until(results[i].bars, t) # {}} = Seen(t)  BY DEF Seen
  <1> QED  BY <1>1, <1>2, <1>3, BooksAt

-----------------------------------------------------------------------------
(* Theorems. *)

\* The invariant holds at every state of every quick test and permutation
\* test, whatever fails and wherever the process is killed.
THEOREM Inductive == Spec => []IInv
  <1>1. QED  BY InitInv, NextInv, PTL DEF Spec

\* A run and a test have all their fields at every step, the command is one
\* that was configured, and the summaries are written in their order.
THEOREM TypeCorrect == Spec => []TypeOK
  <1>1. IInv => TypeOK  BY DEF IInv
  <1>2. QED  BY <1>1, Inductive, PTL

\* For every number of permutations and workers: a stored verdict of a bar
\* test (run_permutation_test) rests on each permutation once, in the order
\* of the indices, with the score of its seed, and counts them rightly.
THEOREM VerdictsHold == Spec => []VerdictComplete
  <1>1. IInv => VerdictComplete  BY DEF IInv
  <1>2. QED  BY <1>1, Inductive, PTL

\* A run that is marked finished is complete, a test is only stored of such a
\* run, and a summary is only written of a complete run and test
\* (persist_quicktest, _persist_results, _run_quicktest).
THEOREM FinishedRunsHold == Spec => []FinishedRunComplete
  <1>1. IInv => FinishedRunComplete  BY DEF IInv, StagesInv, TestInv, FinishedRunComplete
  <1>2. QED  BY <1>1, Inductive, PTL

\* For all symbols, bars, targets and times: at every point of the summed
\* curve (_sum_curves) the equity of the simulations is the capital of their
\* symbols, the profit match_round_trips books on the fills until then and
\* what the lots it leaves open are worth at the last closes.
THEOREM BooksHold == Spec => []BooksBalance
  <1>1. Init => SimInv  BY SimStarts
  <1>2. SimInv /\ [Next]_vars => SimInv'  BY SimNext
  <1>3. SimInv => BooksBalance  BY SimBooks
  <1> QED  BY <1>1, <1>2, <1>3, PTL DEF Spec
=============================================================================
