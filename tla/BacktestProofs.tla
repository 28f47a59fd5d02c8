--------------------------- MODULE BacktestProofs ---------------------------
(***************************************************************************)
(* Proofs about Backtest, for every watchlist, calendar, price and cost:    *)
(* its tables, its fills, its ledger, its loss base, its flatten, and that  *)
(* it implements ExposureMachine.                                           *)
(***************************************************************************)
EXTENDS Backtest, FiniteSetTheorems, TLAPS

Listed == {Watchlist[i] : i \in 1..Len(Watchlist)}
PendingOf(s) == {o \in Pending : order[o].sym = s}

TypeOK ==
  /\ pc \in {"advance", "fill", "reconcile", "symbols", "remaining", "done"}
  /\ now \in Nat
  /\ bar \in [Symbols -> [t : Nat, open : Nat, close : Nat]]
  /\ cash \in Int /\ lastEquity \in Int
  /\ holding \in [Symbols -> Int] /\ closes \in [Symbols -> Nat]
  /\ order \in [Orders -> Order] /\ count \in Nat /\ toFill \in SUBSET Orders
  /\ row \in [Orders -> Status] /\ trade \in [Orders -> Nat]
  /\ next \in Nat \ {0}
  /\ lastAttempt \in [Symbols -> Nat]
  /\ first \in [Orders -> Nat] /\ late \in [Symbols -> Nat]

\* What the tables have, order by order, against what the broker did.
TablesInv ==
  \A o \in Orders :
    /\ o > count => order[o].status = "none" /\ row[o] = "none"
    /\ order[o].status = "none" => o > count /\ first[o] = 0
    /\ row[o] # "accepted" => row[o] = order[o].status
    /\ order[o].status # "filled" => order[o].price = 0
    /\ trade[o] = IF row[o] = "filled" THEN order[o].price ELSE 0
    /\ pc \in {"remaining", "done"} => order[o].status # "accepted"
    /\ pc = "done" => row[o] # "accepted"

\* A symbol has one open row at most, which explains what its order is to do
\* to the position.
PositionInv ==
  /\ \A o, p \in OpenRows : order[o].sym = order[p].sym => o = p
  /\ \A o \in Pending :
       /\ row[o] = "accepted" /\ order[o].qty > 0
       /\ holding[order[o].sym] = IF order[o].kind = "entry" THEN 0
                                  ELSE -(Dir(order[o].side) * order[o].qty)
  /\ \A o \in Orders : order[o].status # "none" => order[o].sym \in Listed
  /\ \A s \in Symbols : holding[s] # 0 => s \in Listed

\* Where an order is between the bar it was decided on and the bar it fills at.
FillInv ==
  /\ pc # "fill" => toFill = {}
  /\ pc # "advance" => now > 0
  /\ \A o \in toFill : o \in Pending /\ first[o] = now /\ bar[order[o].sym].t = now
  /\ \A o \in Orders :
       /\ first[o] <= now /\ order[o].submitted <= now
       /\ first[o] # 0 => first[o] > order[o].submitted

\* The equity of the last tick is still the equity when the next bar comes.
SettledInv == pc = "advance" /\ now > 0 => settled = Equity

IInv ==
  /\ TypeOK /\ TablesInv /\ PositionInv /\ FillInv /\ NextOpenFills /\ SettledInv

-----------------------------------------------------------------------------
(* Sums over finite sets.  A sum is what MapThenSumSet of the community      *)
(* modules computes: element after element, in the order CHOOSE picks them.  *)
(* The library's induction theorems take the statement as an operator; here  *)
(* it is the set of the subsets it holds of.                                 *)

\* A statement that passes from all strict subsets to the set holds of every
\* finite set: what every recursion over sets is shown by.
LEMMA SubsetInduction ==
  ASSUME NEW S, IsFiniteSet(S), NEW P,
         \A T \in SUBSET S : (\A U \in SUBSET T : U # T => U \in P) => T \in P
  PROVE  SUBSET S \subseteq P
  <1> DEFINE C == (SUBSET S) \ P
  <1> SUFFICES ASSUME C # {} PROVE FALSE
    OBVIOUS
  <1>1. C \subseteq FiniteSubsetsOf(S)
    BY FS_Subset DEF FiniteSubsetsOf
  <1>2. IsWellFoundedOn(StrictSubsetOrdering(S), FiniteSubsetsOf(S))
    BY FS_StrictSubsetOrderingWellFounded
  <1>3. PICK T \in C : \A U \in C : <<U, T>> \notin StrictSubsetOrdering(S)
    <2> HIDE DEF C
    <2>1. QED
      BY <1>1, <1>2, WFMin
  <1>4. \A U \in SUBSET T : U # T => U \in P
    <2> SUFFICES ASSUME NEW U \in SUBSET T, U # T, U \notin P PROVE FALSE
      OBVIOUS
    <2>1. U \in C /\ <<U, T>> \in StrictSubsetOrdering(S)
      BY DEF StrictSubsetOrdering
    <2>2. QED
      BY <2>1, <1>3
  <1>5. QED
    BY <1>3, <1>4

\* sum is the sum of g over each subset of S.
Sums(sum, g, S) ==
  sum = [s \in SUBSET S |->
          IF s = {} THEN 0
          ELSE LET x == CHOOSE x \in s : TRUE IN g[x] + sum[s \ {x}]]

Total(g, S) == (CHOOSE sum : Sums(sum, g, S))[S]

\* What Sums says of one set.
LEMMA SumStep ==
  ASSUME NEW sum, NEW g, NEW S, Sums(sum, g, S), NEW T \in SUBSET S
  PROVE  /\ T = {} => sum[T] = 0
         /\ T # {} => \E x \in T : /\ x = CHOOSE y \in T : TRUE
                                   /\ sum[T] = g[x] + sum[T \ {x}]
  BY DEF Sums

\* Two sums agree on a set their summands agree on.
LEMMA SumsAgree ==
  ASSUME NEW a, NEW g, NEW A, Sums(a, g, A), NEW b, NEW h, NEW B, Sums(b, h, B),
         NEW T, T \subseteq A, T \subseteq B, IsFiniteSet(T),
         \A x \in T : g[x] = h[x]
  PROVE  a[T] = b[T]
  <1> DEFINE P == {U \in SUBSET T : a[U] = b[U]}
  <1>1. ASSUME NEW U \in SUBSET T, \A V \in SUBSET U : V # U => V \in P
        PROVE  U \in P
    <2>1. CASE U = {}
      BY <2>1, SumStep
    <2>2. CASE U # {}
      <3>1. PICK x \in U : x = (CHOOSE y \in U : TRUE) /\ a[U] = g[x] + a[U \ {x}]
        BY <2>2, SumStep
      <3>2. PICK y \in U : y = (CHOOSE z \in U : TRUE) /\ b[U] = h[y] + b[U \ {y}]
        BY <2>2, SumStep
      <3>3. x = y
        BY <3>1, <3>2
      <3>4. U \ {x} \in P
        BY <1>1
      <3>5. QED
        BY <3>1, <3>2, <3>3, <3>4
    <2>3. QED
      BY <2>1, <2>2
  <1>2. SUBSET T \subseteq P
    <2> HIDE DEF P
    <2>1. QED
      BY <1>1, SubsetInduction
  <1>3. QED
    BY <1>2

\* The sum over a set is a sum over its subsets.
LEMMA SumsRestrict ==
  ASSUME NEW sum, NEW g, NEW S, Sums(sum, g, S), NEW T \in SUBSET S
  PROVE  Sums([U \in SUBSET T |-> sum[U]], g, T)
  BY DEF Sums

\* The recursion over a finite set has a solution.
LEMMA SumsExist ==
  ASSUME NEW g, NEW S, IsFiniteSet(S)
  PROVE  \E sum : Sums(sum, g, S)
  <1> DEFINE P == {T \in SUBSET S : \E sum : Sums(sum, g, T)}
  <1>1. ASSUME NEW T \in SUBSET S, \A U \in SUBSET T : U # T => U \in P
        PROVE  T \in P
    <2> DEFINE Of(U) == CHOOSE sum : Sums(sum, g, U)
    <2> DEFINE c(U)  == CHOOSE x \in U : TRUE
    <2> DEFINE part == [U \in SUBSET T |-> IF U = T THEN 0 ELSE Of(U)[U]]
    <2> DEFINE sum == [U \in SUBSET T |-> IF U = {} THEN 0 ELSE g[c(U)] + part[U \ {c(U)}]]
    <2>1. \A U \in SUBSET T : U # T => Sums(Of(U), g, U)
      BY <1>1
    <2>2. \A U \in SUBSET T : U # {} => c(U) \in U
      OBVIOUS
    <2>3. ASSUME NEW U \in SUBSET T, U # T PROVE sum[U] = part[U]
      <3>1. Sums(Of(U), g, U)
        BY <2>1, <2>3
      <3>2. CASE U = {}
        <4>1. Of(U)[U] = 0
          BY <3>1, <3>2, SumStep
        <4>2. QED
          BY <4>1, <3>2, <2>3
      <3>3. CASE U # {}
        <4>1. PICK x \in U : x = c(U) /\ Of(U)[U] = g[x] + Of(U)[U \ {x}]
          <5> HIDE DEF Of
          <5>1. QED
            BY <3>1, <3>3, SumStep
        <4>2. Sums(Of(U \ {x}), g, U \ {x})
          BY <2>1
        <4>3. IsFiniteSet(U \ {x})
          BY FS_Subset
        <4>4. Of(U)[U \ {x}] = Of(U \ {x})[U \ {x}]
          <5> HIDE DEF Of
          <5>1. QED
            BY <3>1, <4>2, <4>3, SumsAgree
        <4>5. part[U \ {x}] = Of(U \ {x})[U \ {x}]
          OBVIOUS
        <4>6. sum[U] = g[x] + part[U \ {x}]
          BY <4>1, <3>3
        <4>7. part[U] = Of(U)[U]
          BY <2>3
        <4>8. QED
          BY <4>1, <4>4, <4>5, <4>6, <4>7
      <3>4. QED
        BY <3>2, <3>3
    <2>4. Sums(sum, g, T)
      <3>1. ASSUME NEW U \in SUBSET T, U # {}
            PROVE  sum[U] = g[c(U)] + sum[U \ {c(U)}]
        <4>1. U \ {c(U)} \in SUBSET T /\ U \ {c(U)} # T
          BY <2>2, <3>1
        <4>2. sum[U \ {c(U)}] = part[U \ {c(U)}]
          BY <4>1, <2>3
        <4>3. sum[U] = g[c(U)] + part[U \ {c(U)}]
          BY <3>1
        <4>4. QED
          BY <4>2, <4>3
      <3>2. sum[{}] = 0
        OBVIOUS
      <3>3. \A U \in SUBSET T : sum[U] = IF U = {} THEN 0 ELSE g[c(U)] + sum[U \ {c(U)}]
        BY <3>1, <3>2
      <3>4. sum = [U \in SUBSET T |-> sum[U]]
        OBVIOUS
      <3>5. sum = [U \in SUBSET T |-> IF U = {} THEN 0 ELSE g[c(U)] + sum[U \ {c(U)}]]
        <4> HIDE DEF sum
        <4>1. QED
          BY <3>3, <3>4
      <3>6. QED
        BY <3>5 DEF Sums
    <2>5. QED
      BY <2>4
  <1>2. SUBSET S \subseteq P
    <2> HIDE DEF P
    <2>1. QED
      BY <1>1, SubsetInduction
  <1>3. QED
    BY <1>2

\* A sum of integers is one; a sum of natural numbers is one.
LEMMA SumsType ==
  ASSUME NEW sum, NEW g, NEW S, Sums(sum, g, S), IsFiniteSet(S),
         \A x \in S : g[x] \in Int
  PROVE  /\ \A T \in SUBSET S : sum[T] \in Int
         /\ (\A x \in S : g[x] >= 0) => \A T \in SUBSET S : sum[T] >= 0
  <1> DEFINE P == {U \in SUBSET S : /\ sum[U] \in Int
                                    /\ (\A x \in S : g[x] >= 0) => sum[U] >= 0}
  <1>1. ASSUME NEW U \in SUBSET S, \A V \in SUBSET U : V # U => V \in P
        PROVE  U \in P
    <2>1. CASE U = {}
      <3>1. sum[U] = 0
        BY <2>1, SumStep
      <3>2. QED
        BY <3>1
    <2>2. CASE U # {}
      <3>1. PICK x \in U : sum[U] = g[x] + sum[U \ {x}]
        BY <2>2, SumStep
      <3>2. U \ {x} \in P
        BY <1>1
      <3>3. QED
        BY <3>1, <3>2
    <2>3. QED
      BY <2>1, <2>2
  <1>2. SUBSET S \subseteq P
    <2> HIDE DEF P
    <2>1. QED
      BY <1>1, SubsetInduction
  <1>3. QED
    BY <1>2

\* Whatever the order of the elements, one more element adds its summand.
LEMMA SumsInsert ==
  ASSUME NEW sum, NEW g, NEW S, Sums(sum, g, S), IsFiniteSet(S),
         \A x \in S : g[x] \in Int, NEW T \in SUBSET S, NEW e \in S \ T
  PROVE  sum[T \cup {e}] = sum[T] + g[e]
  <1> DEFINE P == {U \in SUBSET S : \A x \in S \ U : sum[U \cup {x}] = sum[U] + g[x]}
  <1>1. ASSUME NEW U \in SUBSET S, \A V \in SUBSET U : V # U => V \in P
        PROVE  U \in P
    <2> SUFFICES ASSUME NEW x \in S \ U PROVE sum[U \cup {x}] = sum[U] + g[x]
      OBVIOUS
    <2> DEFINE W == U \cup {x}
    <2>1. PICK c \in W : sum[W] = g[c] + sum[W \ {c}]
      <3>1. W \in SUBSET S /\ W # {}
        OBVIOUS
      <3>2. QED
        BY <3>1, SumStep
    <2>2. \A V \in SUBSET S : sum[V] \in Int
      BY SumsType
    <2>3. CASE c = x
      <3>1. W \ {c} = U
        BY <2>3
      <3>2. sum[W] = g[x] + sum[U]
        BY <3>1, <2>1, <2>3
      <3>3. g[x] \in Int /\ sum[U] \in Int
        BY <2>2
      <3>4. QED
        BY <3>2, <3>3
    <2>4. CASE c # x
      <3> DEFINE V == U \ {c}
      <3>1. c \in U /\ V \in SUBSET U /\ V # U /\ x \in S \ V /\ c \in S \ V
        BY <2>4
      <3>2. V \in P
        BY <3>1, <1>1
      <3>3. sum[V \cup {x}] = sum[V] + g[x] /\ sum[V \cup {c}] = sum[V] + g[c]
        BY <3>1, <3>2
      <3>4. V \cup {x} = W \ {c} /\ V \cup {c} = U
        BY <3>1, <2>4
      <3>5. sum[W] = g[c] + (sum[V] + g[x]) /\ sum[U] = sum[V] + g[c]
        BY <3>3, <3>4, <2>1
      <3>6. sum[V] \in Int /\ g[c] \in Int /\ g[x] \in Int
        BY <2>2, <3>1
      <3>7. QED
        BY <3>5, <3>6
    <2>5. QED
      BY <2>3, <2>4
  <1>2. SUBSET S \subseteq P
    <2> HIDE DEF P
    <2>1. QED
      BY <1>1, SubsetInduction
  <1>3. QED
    BY <1>2

-----------------------------------------------------------------------------
(* The same for the total of one set. *)

\* Any sum over S has the total at S.
LEMMA TotalIsSum ==
  ASSUME NEW sum, NEW g, NEW S, Sums(sum, g, S), IsFiniteSet(S)
  PROVE  sum[S] = Total(g, S)
  <1> DEFINE f == CHOOSE f : Sums(f, g, S)
  <1>1. Sums(f, g, S)
    OBVIOUS
  <1>2. sum[S] = f[S]
    <2> HIDE DEF f
    <2>1. QED
      BY <1>1, SumsAgree
  <1>3. QED
    BY <1>2 DEF Total

LEMMA TotalEmpty == ASSUME NEW g PROVE Total(g, {}) = 0
  <1>1. IsFiniteSet({})
    BY FS_EmptySet
  <1>2. PICK sum : Sums(sum, g, {})
    BY <1>1, SumsExist
  <1>3. sum[{}] = 0
    BY <1>2, SumStep
  <1>4. QED
    BY <1>1, <1>2, <1>3, TotalIsSum

LEMMA TotalType ==
  ASSUME NEW g, NEW S, IsFiniteSet(S), \A x \in S : g[x] \in Int
  PROVE  /\ Total(g, S) \in Int
         /\ (\A x \in S : g[x] >= 0) => Total(g, S) >= 0
  <1>1. PICK sum : Sums(sum, g, S)
    BY SumsExist
  <1>2. sum[S] = Total(g, S)
    BY <1>1, TotalIsSum
  <1>3. S \in SUBSET S
    OBVIOUS
  <1>4. QED
    BY <1>1, <1>2, <1>3, SumsType

LEMMA TotalAgree ==
  ASSUME NEW g, NEW h, NEW S, IsFiniteSet(S), \A x \in S : g[x] = h[x]
  PROVE  Total(g, S) = Total(h, S)
  <1>1. PICK a : Sums(a, g, S)
    BY SumsExist
  <1>2. PICK b : Sums(b, h, S)
    BY SumsExist
  <1>3. a[S] = Total(g, S) /\ b[S] = Total(h, S)
    BY <1>1, <1>2, TotalIsSum
  <1>4. a[S] = b[S]
    BY <1>1, <1>2, SumsAgree
  <1>5. QED
    BY <1>3, <1>4

LEMMA TotalInsert ==
  ASSUME NEW g, NEW S, IsFiniteSet(S), NEW e, e \notin S,
         \A x \in S \cup {e} : g[x] \in Int
  PROVE  Total(g, S \cup {e}) = Total(g, S) + g[e]
  <1> DEFINE W == S \cup {e}
  <1>1. IsFiniteSet(W)
    BY FS_AddElement
  <1>2. PICK sum : Sums(sum, g, W)
    BY <1>1, SumsExist
  <1>3. sum[W] = Total(g, W)
    BY <1>1, <1>2, TotalIsSum
  <1>4. S \in SUBSET W
    OBVIOUS
  <1>5. sum[S] = Total(g, S)
    <2> DEFINE part == [U \in SUBSET S |-> sum[U]]
    <2>1. Sums(part, g, S)
      <3> HIDE DEF W
      <3>1. QED
        BY <1>2, <1>4, SumsRestrict
    <2>2. part[S] = sum[S]
      OBVIOUS
    <2> HIDE DEF part
    <2>3. QED
      BY <2>1, <2>2, TotalIsSum
  <1>6. sum[S \cup {e}] = sum[S] + g[e]
    <2>1. e \in W \ S /\ \A x \in W : g[x] \in Int
      OBVIOUS
    <2> HIDE DEF W
    <2>2. QED
      BY <1>1, <1>2, <1>4, <2>1, SumsInsert
  <1>7. QED
    BY <1>3, <1>5, <1>6

-----------------------------------------------------------------------------
(* Arithmetic: prices, lots and sums have their types. *)

LEMMA ConstantsType ==
  /\ IsFiniteSet(Symbols) /\ Symbols # {} /\ Listed \subseteq Symbols
  /\ IsFiniteSet(Orders)
  /\ Len(Watchlist) \in Nat
  /\ \A i \in 1..Len(Watchlist) : Watchlist[i] \in Symbols
  <1>1. IsFiniteSet(Orders)
    BY ReplayAssumption, FS_Interval DEF Orders
  <1>2. QED
    BY <1>1, ReplayAssumption DEF Listed

LEMMA UnusedType == Unused \in Order /\ Unused.status = "none" /\ Unused.price = 0
                    /\ Unused.submitted = 0
  <1>1. (CHOOSE s \in Symbols : TRUE) \in Symbols
    BY ReplayAssumption
  <1>2. QED
    BY <1>1 DEF Unused, Order, Status

LEMMA Products == \A a, b \in Nat : a * b \in Nat
  OBVIOUS

LEMMA QuotientType == ASSUME NEW a \in Int, NEW b \in Nat \ {0} PROVE a \div b \in Int
  OBVIOUS

LEMMA QuotientNat == ASSUME NEW a \in Nat, NEW b \in Nat \ {0} PROVE a \div b \in Nat
  OBVIOUS

\* A fill, after spread and slippage, is still a price.
LEMMA FillPriceType ==
  ASSUME NEW side, NEW open \in Nat PROVE FillPrice(side, open) \in Nat
  <1>1. /\ 100 + PctHalfSpread \in Nat /\ 100 + PctSlippage \in Nat
        /\ 100 - PctHalfSpread \in Nat /\ 100 - PctSlippage \in Nat
    BY ReplayAssumption
  <1>2. \A a, b \in Nat : (open * a) * b \in Nat
    BY Products
  <1>3. \A a \in Nat : a \div 10000 \in Nat
    OBVIOUS
  <1>4. QED
    BY <1>1, <1>2, <1>3 DEF FillPrice
-----------------------------------------------------------------------------
(* The model's sums, as totals of functions. *)

Value   == [s \in Symbols |-> holding[s] * closes[s]]
Worth   == [s \in Symbols |-> Size(holding[s]) * closes[s]]
Outlay  == [o \in Orders |-> Dir(order[o].side) * order[o].qty * order[o].price]
Shares  == [o \in Orders |-> Dir(order[o].side) * order[o].qty]
FilledOf(s) == {o \in Filled : order[o].sym = s}

\* Equity is cash and what the holdings are marked at.
LEMMA EquityIs == Equity = cash + Total(Value, Symbols)
  <1> DEFINE Is(f) == f = [T \in SUBSET Symbols |->
                        IF T = {} THEN 0
                        ELSE LET x == CHOOSE x \in T : TRUE
                             IN holding[x] * closes[x] + f[T \ {x}]]
  <1> DEFINE f == CHOOSE f : Is(f)
  <1>1. \A g : Sums(g, Value, Symbols) <=> Is(g)
    <2>1. ASSUME NEW T \in SUBSET Symbols, T # {}, NEW c, c = CHOOSE x \in T : TRUE
          PROVE  Value[c] = holding[c] * closes[c]
      BY <2>1 DEF Value
    <2>2. QED
      BY <2>1 DEF Sums
  <1>2. PICK sum : Sums(sum, Value, Symbols)
    BY ConstantsType, SumsExist
  <1>3. Is(f)
    <2> HIDE DEF Is
    <2>1. QED
      BY <1>1, <1>2
  <1>4. f[Symbols] = Total(Value, Symbols)
    <2> HIDE DEF Is, f
    <2>1. QED
      BY <1>1, <1>3, ConstantsType, TotalIsSum
  <1>5. Equity = cash + f[Symbols]
    BY Zenon DEF Equity, MapThenSumSet, MapThenFoldSet
  <1>6. QED
    BY <1>4, <1>5

\* The gross value adds up the sizes of the holdings.
LEMMA GrossIs == Gross = Total(Worth, Symbols)
  <1> DEFINE Is(f) == f = [T \in SUBSET Symbols |->
                        IF T = {} THEN 0
                        ELSE LET x == CHOOSE x \in T : TRUE
                             IN Size(holding[x]) * closes[x] + f[T \ {x}]]
  <1> DEFINE f == CHOOSE f : Is(f)
  <1>1. \A g : Sums(g, Worth, Symbols) <=> Is(g)
    <2>1. ASSUME NEW T \in SUBSET Symbols, T # {}, NEW c, c = CHOOSE x \in T : TRUE
          PROVE  Worth[c] = Size(holding[c]) * closes[c]
      BY <2>1 DEF Worth
    <2>2. QED
      BY <2>1 DEF Sums
  <1>2. PICK sum : Sums(sum, Worth, Symbols)
    BY ConstantsType, SumsExist
  <1>3. Is(f)
    <2> HIDE DEF Is
    <2>1. QED
      BY <1>1, <1>2
  <1>4. f[Symbols] = Total(Worth, Symbols)
    <2> HIDE DEF Is, f
    <2>1. QED
      BY <1>1, <1>3, ConstantsType, TotalIsSum
  <1>5. Gross = f[Symbols]
    BY Zenon DEF Gross, MapThenSumSet, MapThenFoldSet
  <1>6. QED
    BY <1>4, <1>5

\* The cash the filled orders account for.
LEMMA OutlayIs ==
  MapThenSumSet(LAMBDA o : Dir(order[o].side) * order[o].qty * order[o].price, Filled)
    = Total(Outlay, Filled)
  <1> DEFINE Is(f) == f = [T \in SUBSET Filled |->
                        IF T = {} THEN 0
                        ELSE LET x == CHOOSE x \in T : TRUE
                             IN Dir(order[x].side) * order[x].qty * order[x].price
                                + f[T \ {x}]]
  <1> DEFINE f == CHOOSE f : Is(f)
  <1>1. IsFiniteSet(Filled)
    BY ConstantsType, FS_Subset, Filled \subseteq Orders DEF Filled
  <1>2. \A g : Sums(g, Outlay, Filled) <=> Is(g)
    <2>1. ASSUME NEW T \in SUBSET Filled, T # {}, NEW c, c = CHOOSE x \in T : TRUE
          PROVE  Outlay[c] = Dir(order[c].side) * order[c].qty * order[c].price
      <3>1. c \in Orders
        BY <2>1 DEF Filled
      <3>2. QED
        BY <3>1 DEF Outlay
    <2>2. QED
      BY <2>1 DEF Sums
  <1>3. PICK sum : Sums(sum, Outlay, Filled)
    BY <1>1, SumsExist
  <1>4. Is(f)
    <2> HIDE DEF Is
    <2>1. QED
      BY <1>2, <1>3
  <1>5. f[Filled] = Total(Outlay, Filled)
    <2> HIDE DEF Is, f
    <2>1. QED
      BY <1>1, <1>2, <1>4, TotalIsSum
  <1>6. MapThenSumSet(LAMBDA o : Dir(order[o].side) * order[o].qty * order[o].price, Filled)
          = f[Filled]
    BY Zenon DEF MapThenSumSet, MapThenFoldSet
  <1>7. QED
    BY <1>5, <1>6

\* The shares of a symbol its filled orders account for.
LEMMA SharesAre ==
  \A s : MapThenSumSet(LAMBDA o : Dir(order[o].side) * order[o].qty,
                       {o \in Filled : order[o].sym = s})
           = Total(Shares, FilledOf(s))
  <1> SUFFICES ASSUME NEW s
               PROVE  MapThenSumSet(LAMBDA o : Dir(order[o].side) * order[o].qty,
                                    {o \in Filled : order[o].sym = s})
                        = Total(Shares, FilledOf(s))
    OBVIOUS
  <1> DEFINE Of == {o \in Filled : order[o].sym = s}
  <1> DEFINE Is(f) == f = [T \in SUBSET Of |->
                        IF T = {} THEN 0
                        ELSE LET x == CHOOSE x \in T : TRUE
                             IN Dir(order[x].side) * order[x].qty + f[T \ {x}]]
  <1> DEFINE f == CHOOSE f : Is(f)
  <1>1. IsFiniteSet(Of)
    BY ConstantsType, FS_Subset, Of \subseteq Orders DEF Filled
  <1>2. \A g : Sums(g, Shares, Of) <=> Is(g)
    <2>1. ASSUME NEW T \in SUBSET Of, T # {}, NEW c, c = CHOOSE x \in T : TRUE
          PROVE  Shares[c] = Dir(order[c].side) * order[c].qty
      <3>1. c \in Orders
        BY <2>1 DEF Filled
      <3>2. QED
        BY <3>1 DEF Shares
    <2> HIDE DEF Of
    <2>2. QED
      BY <2>1 DEF Sums
  <1>3. PICK sum : Sums(sum, Shares, Of)
    BY <1>1, SumsExist
  <1>4. Is(f)
    <2> HIDE DEF Is
    <2>1. QED
      BY <1>2, <1>3
  <1>5. f[Of] = Total(Shares, Of)
    <2> HIDE DEF Is, f, Of
    <2>1. QED
      BY <1>1, <1>2, <1>4, TotalIsSum
  <1>6. MapThenSumSet(LAMBDA o : Dir(order[o].side) * order[o].qty, Of) = f[Of]
    BY Zenon DEF MapThenSumSet, MapThenFoldSet
  <1>7. QED
    BY <1>5, <1>6 DEF FilledOf

\* Cash and marks alone decide the equity.
LEMMA EquityFrame == UNCHANGED <<cash, holding, closes>> => Equity' = Equity
  <1>1. (Equity = cash + Total(Value, Symbols))'
    BY EquityIs, PTL
  <1>2. UNCHANGED <<cash, holding, closes>> => Value' = Value
    BY DEF Value
  <1>3. QED
    BY <1>1, <1>2, EquityIs

LEMMA SizeType == \A n \in Int : Size(n) \in Nat
  BY DEF Size

\* What the account is valued at.
LEMMA AccountType ==
  ASSUME TypeOK
  PROVE  Equity \in Int /\ Gross \in Nat /\ Power \in Nat
  <1>1. \A s \in Symbols : Value[s] \in Int
    <2>1. \A a \in Int, b \in Nat : a * b \in Int
      OBVIOUS
    <2>2. QED
      BY <2>1 DEF TypeOK, Value
  <1>2. \A s \in Symbols : Worth[s] \in Nat
    BY SizeType, Products DEF TypeOK, Worth
  <1>3. Total(Value, Symbols) \in Int
    BY <1>1, ConstantsType, TotalType
  <1>4. Equity \in Int
    BY <1>3, EquityIs DEF TypeOK
  <1>5. Gross \in Nat
    <2>1. \A s \in Symbols : Worth[s] \in Int /\ Worth[s] >= 0
      BY <1>2
    <2>2. Total(Worth, Symbols) \in Int /\ Total(Worth, Symbols) >= 0
      BY <2>1, ConstantsType, TotalType
    <2>3. QED
      BY <2>2, GrossIs
  <1>6. Equity * Margin \in Int
    <2>1. \A a \in Int, b \in Nat : a * b \in Int
      OBVIOUS
    <2>2. QED
      BY <1>4, <2>1, ReplayAssumption
  <1>7. Power \in Nat
    BY <1>5, <1>6 DEF Power
  <1>8. QED
    BY <1>4, <1>5, <1>7
-----------------------------------------------------------------------------
(* The risk manager, for every account, quote and limit. *)

Accounts == [equity : Int, lastEquity : Int, power : Nat, positions : Nat, gross : Nat]
Quotes   == [bid : Nat, ask : Nat]
Goals    == {"unchanged", "flat", "long", "short"}

\* A lot is within the position budget, and within the buying power with both
\* of its buffers.
Affordable(q, a, price) ==
  /\ q * price <= MaxNotional
  /\ 100 * q * price <= PctEquity * a.equity
  /\ q * price * (100 + PctSlippageBuffer) <= a.power * PctPowerBuffer

\* A floor division is the largest multiple that fits.
LEMMA Floor ==
  ASSUME NEW x \in Int, NEW y \in Nat \ {0}, NEW q \in Int
  PROVE  q <= x \div y <=> q * y <= x
  <1> DEFINE d == x \div y
  <1>1. d \in Int /\ d * y <= x /\ x < (d + 1) * y
    BY Z3
  <1> HIDE DEF d
  <1>2. ASSUME q <= d PROVE q * y <= x
    <2>1. q * y <= d * y
      BY <1>1, <1>2
    <2>2. QED
      BY <2>1, <1>1
  <1>3. ASSUME d < q PROVE x < q * y
    <2>1. (d + 1) * y <= q * y
      <3>1. d + 1 <= q /\ d + 1 \in Int
        BY <1>1, <1>3
      <3>2. QED
        BY <3>1
    <2>2. (d + 1) * y \in Int /\ q * y \in Int
      BY <1>1
    <2>3. QED
      BY <2>1, <2>2, <1>1
  <1>4. QED
    BY <1>1, <1>2, <1>3 DEF d

\* Whole shares are lost by neither floor: Lot is the largest affordable lot.
LEMMA LotIsLargest ==
  ASSUME NEW a \in Accounts, NEW price \in Nat \ {0}, NEW q \in Nat
  PROVE  /\ Lot(a, price) \in Int
         /\ Affordable(q, a, price) <=> q <= Lot(a, price)
  <1> DEFINE lot == Budget(a) \div (100 * price)
  <1> DEFINE buffered == price * (100 + PctSlippageBuffer)
  <1> DEFINE payable == a.power * PctPowerBuffer
  <1>1. /\ MaxNotional \in Nat /\ PctEquity \in Nat /\ a.equity \in Int /\ a.power \in Nat
        /\ PctPowerBuffer \in Nat /\ PctSlippageBuffer \in Nat
    BY RiskAssumption DEF Accounts
  <1>2. PctEquity * a.equity \in Int /\ 100 * price \in Nat \ {0}
    BY <1>1
  <1>3. Budget(a) \in Int
    BY <1>1, <1>2 DEF Budget
  <1>4. buffered \in Nat \ {0}
    BY <1>1
  <1>5. payable \in Nat
    BY <1>1
  <1>6. lot \in Int
    BY <1>2, <1>3, QuotientType
  <1>7. q * (100 * price) = 100 * q * price /\ q * price \in Nat
    OBVIOUS
  <1>8. q <= lot <=> q * price <= MaxNotional /\ 100 * q * price <= PctEquity * a.equity
    <2>1. q <= lot <=> q * (100 * price) <= Budget(a)
      BY <1>2, <1>3, Floor
    <2>2. 100 * q * price <= 100 * MaxNotional <=> q * price <= MaxNotional
      <3> DEFINE c == q * price
      <3>1. 100 * q * price = 100 * c /\ c \in Nat
        BY <1>7
      <3> HIDE DEF c
      <3>2. 100 * q * price <= 100 * MaxNotional <=> c <= MaxNotional
        BY <3>1, <1>1
      <3>3. QED
        BY <3>2 DEF c
    <2>3. QED
      BY <2>1, <2>2, <1>1, <1>2, <1>7 DEF Budget
  <1>9. q * price * (100 + PctSlippageBuffer) = q * buffered
    BY <1>1
  <1>10. lot * price * (100 + PctSlippageBuffer) = lot * buffered
    BY <1>1, <1>6
  <1> HIDE DEF buffered, payable, lot
  <1>11. Lot(a, price) = IF lot * buffered > payable THEN payable \div buffered ELSE lot
    BY <1>10 DEF Lot, lot, buffered, payable
  <1>12. q <= payable \div buffered <=> q * buffered <= payable
    BY <1>4, <1>5, Floor
  <1>13. CASE lot * buffered > payable
    <2>1. payable \div buffered < lot
      <3>1. ~(lot <= payable \div buffered)
        BY <1>13, <1>4, <1>5, <1>6, Floor
      <3>2. payable \div buffered \in Int
        BY <1>4, <1>5, QuotientType
      <3>3. QED
        BY <3>1, <3>2, <1>6
    <2>2. Lot(a, price) = payable \div buffered /\ payable \div buffered \in Int
      BY <1>11, <1>13, <1>4, <1>5, QuotientType
    <2>3. q <= payable \div buffered => q <= lot
      BY <2>1, <2>2, <1>6
    <2>4. QED
      BY <2>2, <2>3, <1>8, <1>9, <1>12 DEF Affordable, payable
  <1>14. CASE ~(lot * buffered > payable)
    <2>1. Lot(a, price) = lot
      BY <1>11, <1>14
    <2>2. ASSUME q <= lot PROVE q * buffered <= payable
      <3>1. lot * buffered \in Int /\ q * buffered \in Int
        BY <1>4, <1>6
      <3>2. q * buffered <= lot * buffered
        BY <2>2, <1>4, <1>6
      <3>3. QED
        BY <3>1, <3>2, <1>14, <1>5
    <2>3. QED
      BY <2>1, <2>2, <1>6, <1>8, <1>9 DEF Affordable, payable
  <1>15. QED
    BY <1>13, <1>14

\* The price an entry is sized at.
EntryPrice(target, quote) == IF target = "long" THEN quote.ask ELSE quote.bid

Locked(a) == DailyLossHit(a) \/ a.positions >= MaxOpenPositions

\* What is within every limit: affordable, and under the gross exposure limit.
Fits(q, a, price) ==
  Affordable(q, a, price) /\ 100 * (a.gross + q * price) <= PctExposure * a.equity

\* BasicRiskManager.assess, for every account, quote and limit: an approved
\* entry is the largest affordable lot, within every limit and not locked out;
\* one is refused only when it is locked out, or no lot is affordable, or the
\* largest does not fit under the exposure limit.  A close is never refused,
\* and is for the whole position.
THEOREM EntriesWithinLimits ==
  ASSUME NEW a \in Accounts, NEW quote \in Quotes, NEW target \in Goals, NEW held \in Int
  PROVE  LET d     == Assess(target, held, a, quote)
             price == EntryPrice(target, quote)
             moves == target \notin {"unchanged", ExposureOf(held)}
         IN /\ d.approved => moves
            /\ moves /\ held # 0 =>
                 d = [approved |-> TRUE, side |-> IF held > 0 THEN "sell" ELSE "buy",
                      qty |-> Size(held), kind |-> "close"]
            /\ moves /\ held = 0 => target \in {"long", "short"}
            /\ moves /\ held = 0 /\ d.approved =>
                 /\ d.qty \in Nat \ {0} /\ d.kind = "entry"
                 /\ d.side = IF target = "long" THEN "buy" ELSE "sell"
                 /\ ~Locked(a) /\ Fits(d.qty, a, price)
                 /\ \A q \in Nat : Affordable(q, a, price) => q <= d.qty
            /\ moves /\ held = 0 /\ ~d.approved =>
                 \/ Locked(a) \/ price = 0
                 \/ \A q \in Nat \ {0} : ~Affordable(q, a, price)
                 \/ \E q \in Nat : /\ Affordable(q, a, price) /\ ~Fits(q, a, price)
                                   /\ \A r \in Nat : Affordable(r, a, price) => r <= q
  <1> DEFINE price == EntryPrice(target, quote)
  <1> DEFINE lot == Lot(a, price)
  <1>1. price \in Nat
    BY DEF EntryPrice, Quotes
  <1>2. CASE target \in {"unchanged", ExposureOf(held)}
    BY <1>2 DEF Assess, Rejected
  <1>3. CASE target \notin {"unchanged", ExposureOf(held)} /\ held # 0
    BY <1>3 DEF Assess
  <1>4. CASE target \notin {"unchanged", ExposureOf(held)} /\ held = 0
    <2>1. target \in {"long", "short"}
      BY <1>4 DEF ExposureOf, Goals
    <2>2. Assess(target, held, a, quote) = AssessEntry(target, a, quote)
      BY <1>4 DEF Assess
    <2>3. AssessEntry(target, a, quote) =
            IF \/ Locked(a) \/ price = 0 \/ lot < 1
               \/ 100 * (a.gross + lot * price) > PctExposure * a.equity
            THEN Rejected
            ELSE [approved |-> TRUE, side |-> IF target = "long" THEN "buy" ELSE "sell",
                  qty |-> lot, kind |-> "entry"]
      <3>1. (IF (IF target = "long" THEN "buy" ELSE "sell") = "buy"
             THEN quote.ask ELSE quote.bid) = price
        BY <2>1 DEF EntryPrice
      <3>2. price <= 0 <=> price = 0
        BY <1>1
      <3> HIDE DEF price, lot
      <3>3. QED
        BY <3>1, <3>2 DEF AssessEntry, Locked, lot
    <2>4. CASE price = 0 \/ Locked(a)
      BY <1>4, <2>1, <2>2, <2>3, <2>4 DEF Rejected
    <2>5. CASE price # 0 /\ ~Locked(a)
      <3>1. lot \in Int /\ \A q \in Nat : Affordable(q, a, price) <=> q <= lot
        <4> HIDE DEF price
        <4>1. QED
          BY <1>1, <2>5, LotIsLargest
      <3> HIDE DEF price, lot
      <3>2. CASE lot < 1
        <4>1. \A q \in Nat \ {0} : ~Affordable(q, a, price)
          BY <3>1, <3>2
        <4>2. Assess(target, held, a, quote) = Rejected
          BY <2>2, <2>3, <3>2
        <4>3. QED
          BY <4>1, <4>2, <1>4, <2>1 DEF Rejected, price
      <3>3. CASE ~(lot < 1)
        <4>1. lot \in Nat \ {0} /\ Affordable(lot, a, price)
              /\ \A q \in Nat : Affordable(q, a, price) => q <= lot
          BY <3>1, <3>3
        <4>2. a.gross \in Nat /\ lot * price \in Nat /\ PctExposure * a.equity \in Int
          <5>1. \A m \in Nat, n \in Int : m * n \in Int
            OBVIOUS
          <5>2. QED
            BY <4>1, <1>1, <5>1, Products, RiskAssumption DEF Accounts
        <4>3. CASE 100 * (a.gross + lot * price) > PctExposure * a.equity
          <5>1. ~Fits(lot, a, price)
            BY <4>2, <4>3 DEF Fits
          <5>2. Assess(target, held, a, quote) = Rejected
            BY <2>2, <2>3, <4>3
          <5>3. \E q \in Nat : /\ Affordable(q, a, price) /\ ~Fits(q, a, price)
                               /\ \A r \in Nat : Affordable(r, a, price) => r <= q
            BY <4>1, <5>1
          <5>4. QED
            BY <5>2, <5>3, <1>4, <2>1 DEF Rejected, price
        <4>4. CASE ~(100 * (a.gross + lot * price) > PctExposure * a.equity)
          <5>1. Fits(lot, a, price)
            BY <4>1, <4>2, <4>4 DEF Fits
          <5>2. Assess(target, held, a, quote) =
                  [approved |-> TRUE, side |-> IF target = "long" THEN "buy" ELSE "sell",
                   qty |-> lot, kind |-> "entry"]
            BY <2>2, <2>3, <2>5, <3>3, <4>4
          <5>3. QED
            BY <5>1, <5>2, <4>1, <1>4, <2>1, <2>5 DEF price
        <4>5. QED
          BY <4>3, <4>4
      <3>4. QED
        BY <3>2, <3>3
    <2>6. QED
      BY <2>4, <2>5
  <1>5. QED
    BY <1>2, <1>3, <1>4
-----------------------------------------------------------------------------
(* Type correctness. *)

\* The account and the quotes the risk manager is given in a replay.
LEMMA InputsType ==
  ASSUME TypeOK, NEW s \in Symbols
  PROVE  Account \in Accounts /\ Quote(s) \in Quotes
  <1>1. Cardinality(Held) \in Nat
    <2>1. Held \subseteq Symbols
      BY DEF Held
    <2>2. QED
      BY <2>1, ConstantsType, FS_Subset, FS_CardinalityType
  <1>2. Account \in Accounts
    BY <1>1, AccountType DEF Account, Accounts, TypeOK
  <1>3. /\ 100 - PctHalfSpread \in Nat /\ 100 + PctHalfSpread \in Nat
        /\ bar[s].close \in Nat
    BY ReplayAssumption DEF TypeOK
  <1>4. \A m \in Nat : m \div 100 \in Nat
    OBVIOUS
  <1>5. Quote(s) \in Quotes
    BY <1>3, <1>4, Products DEF Quote, Quotes
  <1>6. QED
    BY <1>2, <1>5

\* What an approved decision of the replay asks for.
LEMMA DecisionIs ==
  ASSUME TypeOK, NEW s \in Symbols, NEW target \in Goals,
         NEW STATE d, d = Assess(target, holding[s], Account, Quote(s)), d.approved
  PROVE  /\ d.side \in {"buy", "sell"} /\ d.qty \in Nat \ {0} /\ d.kind \in {"entry", "close"}
         /\ holding[s] = IF d.kind = "entry" THEN 0 ELSE -(Dir(d.side) * d.qty)
         /\ d.kind = "entry" <=> holding[s] = 0
         /\ target \notin {"unchanged", ExposureOf(holding[s])}
         /\ d.kind = "entry" => target \in {"long", "short"}
  <1>1. /\ Account \in Accounts /\ Quote(s) \in Quotes /\ holding[s] \in Int
    BY InputsType DEF TypeOK
  <1>2. target \notin {"unchanged", ExposureOf(holding[s])}
    BY <1>1, EntriesWithinLimits
  <1>3. CASE holding[s] # 0
    <2>1. d = [approved |-> TRUE, side |-> IF holding[s] > 0 THEN "sell" ELSE "buy",
               qty |-> Size(holding[s]), kind |-> "close"]
      BY <1>2, <1>3 DEF Assess
    <2>2. Size(holding[s]) \in Nat \ {0}
      BY <1>1, <1>3 DEF Size
    <2>3. holding[s] = -(Dir(d.side) * d.qty)
      BY <1>1, <1>3, <2>1 DEF Dir, Size
    <2>4. QED
      BY <1>2, <1>3, <2>1, <2>2, <2>3
  <1>4. CASE holding[s] = 0
    <2>1. /\ target \in {"long", "short"} /\ d.qty \in Nat \ {0} /\ d.kind = "entry"
          /\ d.side = IF target = "long" THEN "buy" ELSE "sell"
      BY <1>1, <1>2, <1>4, EntriesWithinLimits
    <2>2. QED
      BY <1>2, <1>4, <2>1
  <1>5. QED
    BY <1>1, <1>3, <1>4

LEMMA SymType ==
  ASSUME TypeOK, Processing
  PROVE  Sym \in Symbols /\ Sym \in Listed /\ next \in 1..Len(Watchlist)
  <1>1. next \in 1..Len(Watchlist)
    BY ConstantsType DEF TypeOK, Processing
  <1>2. QED
    BY <1>1, ConstantsType DEF Sym, Listed

LEMMA TargetsType == \A s \in Symbols : Targets(s) \subseteq Goals
  BY DEF Targets, Goals, ExposureOf

\* The same order, whatever became of it.
Same(c, b) ==
  /\ c.sym = b.sym /\ c.side = b.side /\ c.qty = b.qty /\ c.kind = b.kind
  /\ c.submitted = b.submitted

\* An order that ends unfilled.
Ended(c, b, st) == Same(c, b) /\ c.status = st /\ c.filled = b.filled /\ c.price = b.price

LEMMA EndedIs ==
  ASSUME NEW b \in Order, NEW st \in Status, NEW c, c = [b EXCEPT !.status = st]
  PROVE  c \in Order /\ Ended(c, b, st)
  BY DEF Order, Ended, Same

\* What a symbol's processing without a new order does to the orders.
LEMMA NoOrderOrders ==
  ASSUME TypeOK, NEW target, NoOrder(target)
  PROVE  /\ order' \in [Orders -> Order]
         /\ \A o \in Orders :
              \/ order'[o] = order[o]
              \/ /\ o \in Pending /\ order[o].sym = Sym
                 /\ Ended(order'[o], order[o], "canceled")
  <1> DEFINE d == Assess(target, holding[Sym], Account, Quote(Sym))
  <1> DEFINE hit(o) == d.approved /\ bar[Sym].t > 0 /\ o \in OpenOrders(Sym) \cap Pending
                       /\ order[o].side # d.side
  <1>1. order' = [o \in Orders |-> IF hit(o)
                    THEN [order[o] EXCEPT !.status = "canceled"] ELSE order[o]]
    BY DEF NoOrder
  <1>2. \A o \in Orders : hit(o) => o \in Pending /\ order[o].sym = Sym
    BY DEF OpenOrders
  <1> HIDE DEF hit
  <1>3. \A o \in Orders : /\ [order[o] EXCEPT !.status = "canceled"] \in Order
                          /\ Ended([order[o] EXCEPT !.status = "canceled"], order[o], "canceled")
    BY EndedIs DEF TypeOK, Status
  <1>4. QED
    BY <1>1, <1>2, <1>3 DEF TypeOK

\* The end of the grid does the same to every pending order.
LEMMA CanceledOrders ==
  ASSUME TypeOK, CancelPending
  PROVE  /\ order' \in [Orders -> Order]
         /\ \A o \in Orders :
              \/ o \notin Pending /\ order'[o] = order[o]
              \/ o \in Pending /\ Ended(order'[o], order[o], "canceled")
  <1>1. \A o \in Orders : /\ [order[o] EXCEPT !.status = "canceled"] \in Order
                          /\ Ended([order[o] EXCEPT !.status = "canceled"], order[o], "canceled")
    BY EndedIs DEF TypeOK, Status
  <1>2. order' = [o \in Orders |->
          IF o \in Pending THEN [order[o] EXCEPT !.status = "canceled"] ELSE order[o]]
    BY DEF CancelPending
  <1>3. QED
    BY <1>1, <1>2 DEF TypeOK

\* What a submission adds to the orders.
LEMMA SubmitOrders ==
  ASSUME TypeOK, NEW target \in Goals, SubmitOrder(target)
  PROVE  /\ count + 1 \in Orders /\ Processing
         /\ order' \in [Orders -> Order]
         /\ \A o \in Orders \ {count + 1} : order'[o] = order[o]
         /\ LET b == order'[count + 1] IN
              /\ b.status = "accepted" /\ b.sym = Sym /\ b.submitted = now
              /\ b.filled = 0 /\ b.price = 0 /\ b.qty > 0
              /\ holding[Sym] = IF b.kind = "entry" THEN 0 ELSE -(Dir(b.side) * b.qty)
              /\ b.kind = "entry" <=> holding[Sym] = 0
              /\ b.kind = "entry" => target \in {"long", "short"}
         /\ target \in Targets(Sym) /\ OpenOrders(Sym) = {}
  <1> DEFINE d == Assess(target, holding[Sym], Account, Quote(Sym))
  <1> DEFINE b == [status |-> "accepted", sym |-> Sym, side |-> d.side, qty |-> d.qty,
                   kind |-> d.kind, submitted |-> now, filled |-> 0, price |-> 0]
  <1>1. count + 1 \in Orders
    BY ReplayAssumption DEF SubmitOrder, TypeOK, Orders
  <1>2. d.approved /\ order' = [order EXCEPT ![count + 1] = b] /\ Processing
        /\ target \in Targets(Sym) /\ OpenOrders(Sym) = {}
    BY DEF SubmitOrder
  <1>3. /\ d.side \in {"buy", "sell"} /\ d.qty \in Nat \ {0} /\ d.kind \in {"entry", "close"}
        /\ holding[Sym] = IF d.kind = "entry" THEN 0 ELSE -(Dir(d.side) * d.qty)
        /\ d.kind = "entry" <=> holding[Sym] = 0
        /\ d.kind = "entry" => target \in {"long", "short"}
    <2> HIDE DEF d
    <2>1. d = Assess(target, holding[Sym], Account, Quote(Sym))
      BY DEF d
    <2>2. QED
      BY <1>2, <2>1, SymType, DecisionIs
  <1> HIDE DEF d
  <1>4. b \in Order
    BY <1>2, <1>3, SymType DEF Order, Status, TypeOK
  <1>5. order'[count + 1] = b
    BY <1>1, <1>2 DEF TypeOK
  <1>6. QED
    BY <1>1, <1>2, <1>3, <1>4, <1>5 DEF TypeOK

\* What a fill does to the orders and to the account.
LEMMA FillOrders ==
  ASSUME TypeOK, NEW o \in Orders, FillPending(o)
  PROVE  LET b == order[o]
             price == FillPrice(b.side, bar[b.sym].open)
         IN /\ order' \in [Orders -> Order] /\ o \in toFill /\ pc = "fill"
            /\ \A p \in Orders \ {o} : order'[p] = order[p]
            /\ price \in Nat
            /\ Same(order'[o], b)
            /\ \/ /\ Ended(order'[o], b, "rejected")
                  /\ Refused(o, price) /\ UNCHANGED <<cash, holding>>
               \/ /\ order'[o].status = "filled" /\ order'[o].filled = now
                  /\ order'[o].price = price
                  /\ cash' = cash - Dir(b.side) * b.qty * price
                  /\ holding' = [holding EXCEPT ![b.sym] = @ + Dir(b.side) * b.qty]
  <1> DEFINE b == order[o]
  <1> DEFINE price == FillPrice(b.side, bar[b.sym].open)
  <1>1. b \in Order /\ bar[b.sym].open \in Nat
    BY DEF TypeOK, Order
  <1>2. price \in Nat
    BY <1>1, FillPriceType
  <1>3. o \in toFill /\ pc = "fill"
    BY DEF FillPending
  <1>4. CASE Refused(o, price)
    <2>1. order' = [order EXCEPT ![o].status = "rejected"] /\ UNCHANGED <<cash, holding>>
      BY <1>4 DEF FillPending
    <2>2. order'[o] = [b EXCEPT !.status = "rejected"]
          /\ \A p \in Orders \ {o} : order'[p] = order[p]
      BY <2>1 DEF TypeOK
    <2>3. order'[o] \in Order /\ Ended(order'[o], b, "rejected")
      <3> HIDE DEF b
      <3>1. QED
        BY <2>2, <1>1, EndedIs DEF Status
    <2>4. order' \in [Orders -> Order]
      BY <2>1, <2>3 DEF TypeOK
    <2>5. QED
      BY <2>1, <2>2, <2>3, <2>4, <1>2, <1>3, <1>4 DEF Ended
  <1>5. CASE ~Refused(o, price)
    <2>1. /\ order' = [order EXCEPT ![o].status = "filled", ![o].filled = now,
                                    ![o].price = price]
          /\ cash' = cash - Dir(b.side) * b.qty * price
          /\ holding' = [holding EXCEPT ![b.sym] = @ + Dir(b.side) * b.qty]
      BY <1>5 DEF FillPending
    <2> HIDE DEF price
    <2>2. order'[o] = [b EXCEPT !.status = "filled", !.filled = now, !.price = price]
          /\ \A p \in Orders \ {o} : order'[p] = order[p]
      BY <2>1 DEF TypeOK
    <2>3. order'[o] \in Order
      BY <2>2, <1>1, <1>2 DEF Order, Status, TypeOK
    <2>4. order' \in [Orders -> Order]
      BY <2>1, <2>3 DEF TypeOK
    <2>5. /\ Same(order'[o], b) /\ order'[o].status = "filled" /\ order'[o].filled = now
          /\ order'[o].price = price
      BY <2>2, <1>1 DEF Same, Order
    <2>6. QED
      BY <2>1, <2>2, <2>4, <2>5, <1>2, <1>3 DEF price
  <1>6. QED
    BY <1>4, <1>5
LEMMA AttemptedType ==
  ASSUME TypeOK, Attempted, Sym \in Symbols
  PROVE  lastAttempt' \in [Symbols -> Nat]
  BY DEF TypeOK, Attempted

LEMMA ReconciledType ==
  ASSUME TypeOK, ReconcileFills
  PROVE  row' \in [Orders -> Status] /\ trade' \in [Orders -> Nat]
  <1>1. \A o \in Orders : order[o].status \in Status /\ order[o].price \in Nat
    BY DEF TypeOK, Order
  <1>2. QED
    BY <1>1 DEF ReconcileFills, TypeOK

\* A step of the grid brings one bar each to some of the symbols.
LEMMA AdvanceIs ==
  ASSUME TypeOK, Advance
  PROVE  \E t \in Nat : \E traded \in SUBSET Symbols : \E prices \in [traded -> Prices] :
            AdvanceTo(t, traded, prices)
  <1>1. \A t \in (now + 1)..Horizon : t \in Nat
    BY DEF TypeOK
  <1>2. now + 1 \in Nat
    BY DEF TypeOK
  <1>3. PICK traded \in SUBSET Symbols : \E prices \in [traded -> Prices] :
          IF BarsMayLack
          THEN \E t \in now + 1..Horizon : AdvanceTo(t, traded, prices)
          ELSE traded = Symbols /\ AdvanceTo(now + 1, traded, prices)
    BY DEF Advance
  <1>4. CASE BarsMayLack
    BY <1>1, <1>3, <1>4
  <1>5. CASE ~BarsMayLack
    BY <1>2, <1>3, <1>5
  <1>6. QED
    BY <1>4, <1>5

\* The steps of a replay, for proofs by case.
LEMMA StepCases ==
  ASSUME TypeOK, [Next]_vars
  PROVE  \/ UNCHANGED vars
         \/ \E t \in Nat : \E traded \in SUBSET Symbols : \E prices \in [traded -> Prices] :
               AdvanceTo(t, traded, prices)
         \/ MarkCloses \/ Reconcile \/ TickDone \/ CancelPending \/ ReconcileRemaining
         \/ \E o \in Orders : FillPending(o)
         \/ \E target \in Goals : NoOrder(target) \/ SubmitOrder(target)
  BY AdvanceIs DEF Next, Goals

\* Every variable keeps its type.
THEOREM InitTypeOK == Init => TypeOK
  <1> SUFFICES ASSUME Init PROVE TypeOK
    OBVIOUS
  <1>1. order \in [Orders -> Order]
    BY UnusedType DEF Init
  <1>2. InitialCapital \in Nat
    BY ReplayAssumption
  <1>3. QED
    BY <1>1, <1>2 DEF Init, TypeOK, Status

LEMMA StepTypeOK == TypeOK /\ [Next]_vars => TypeOK'
  <1> SUFFICES ASSUME TypeOK, [Next]_vars PROVE TypeOK'
    OBVIOUS
  <1> USE DEF brokerVars, dbVars, seen
  <1>1. CASE UNCHANGED vars
    BY <1>1 DEF TypeOK, vars
  <1>2. ASSUME NEW t \in Nat, NEW traded \in SUBSET Symbols, NEW prices \in [traded -> Prices],
               AdvanceTo(t, traded, prices)
        PROVE  TypeOK'
    <2>1. bar' \in [Symbols -> [t : Nat, open : Nat, close : Nat]]
      <3>1. \A s \in traded : prices[s].open \in Nat /\ prices[s].close \in Nat
        BY ReplayAssumption DEF Prices
      <3>2. bar' = [s \in Symbols |->
              IF s \in traded THEN [t |-> t, open |-> prices[s].open, close |-> prices[s].close]
                              ELSE bar[s]]
        BY <1>2 DEF AdvanceTo
      <3>3. QED
        BY <3>1, <3>2 DEF TypeOK
    <2>2. lastEquity' \in Int
      BY <1>2, AccountType DEF AdvanceTo, TypeOK
    <2>3. toFill' \in SUBSET Orders /\ first' \in [Orders -> Nat]
      BY <1>2 DEF AdvanceTo, TypeOK, Pending
    <2>4. late' \in [Symbols -> Nat]
      <3>1. late' = [s \in Symbols |-> (IF Session(t) = Session(now) THEN late[s] ELSE 0)
                     + (IF s \in traded /\ Slot(t) >= FlattenFrom THEN 1 ELSE 0)]
        BY <1>2 DEF AdvanceTo, Later
      <3>2. QED
        BY <3>1 DEF TypeOK
    <2>5. QED
      BY <1>2, <2>1, <2>2, <2>3, <2>4 DEF AdvanceTo, TypeOK
  <1>3. CASE MarkCloses
    <2>1. closes' \in [Symbols -> Nat]
      BY <1>3 DEF MarkCloses, TypeOK
    <2>2. QED
      BY <1>3, <2>1 DEF MarkCloses, TypeOK
  <1>4. CASE Reconcile
    BY <1>4, ReconciledType DEF Reconcile, TypeOK
  <1>5. CASE TickDone
    BY <1>5 DEF TickDone, TypeOK
  <1>6. CASE CancelPending
    BY <1>6, CanceledOrders DEF CancelPending, TypeOK
  <1>7. CASE ReconcileRemaining
    BY <1>7, ReconciledType DEF ReconcileRemaining, TypeOK
  <1>8. ASSUME NEW o \in Orders, FillPending(o) PROVE TypeOK'
    <2> DEFINE b == order[o]
    <2> DEFINE price == FillPrice(b.side, bar[b.sym].open)
    <2>1. order' \in [Orders -> Order] /\ price \in Nat
      BY <1>8, FillOrders
    <2>2. Dir(b.side) * b.qty \in Int /\ b.sym \in Symbols
      BY DEF TypeOK, Order, Dir
    <2>3. cash' \in Int /\ holding' \in [Symbols -> Int]
      <3>1. \A m, n \in Int : m * n \in Int /\ m - n \in Int /\ m + n \in Int
        OBVIOUS
      <3>2. \/ UNCHANGED <<cash, holding>>
            \/ /\ cash' = cash - Dir(b.side) * b.qty * price
               /\ holding' = [holding EXCEPT ![b.sym] = @ + Dir(b.side) * b.qty]
        BY <1>8, FillOrders
      <3> HIDE DEF price, b
      <3>3. QED
        BY <2>1, <2>2, <3>1, <3>2 DEF TypeOK
    <2>4. QED
      BY <1>8, <2>1, <2>3 DEF FillPending, TypeOK
  <1>9. ASSUME NEW target, NoOrder(target) PROVE TypeOK'
    <2>1. Sym \in Symbols
      BY <1>9, SymType DEF NoOrder
    <2>2. order' \in [Orders -> Order] /\ lastAttempt' \in [Symbols -> Nat]
      BY <1>9, <2>1, NoOrderOrders, AttemptedType DEF NoOrder
    <2>3. QED
      BY <1>9, <2>2 DEF NoOrder, TypeOK
  <1>10. ASSUME NEW target \in Goals, SubmitOrder(target) PROVE TypeOK'
    <2>1. Sym \in Symbols
      BY <1>10, SymType DEF SubmitOrder
    <2>2. order' \in [Orders -> Order] /\ lastAttempt' \in [Symbols -> Nat]
      BY <1>10, <2>1, SubmitOrders, AttemptedType DEF SubmitOrder
    <2>3. row' \in [Orders -> Status]
      BY <1>10 DEF SubmitOrder, TypeOK, Status
    <2>4. QED
      BY <1>10, <2>2, <2>3 DEF SubmitOrder, TypeOK
  <1>11. QED
    BY <1>1, <1>2, <1>3, <1>4, <1>5, <1>6, <1>7, <1>8, <1>9, <1>10, StepCases
-----------------------------------------------------------------------------
(* The inductive invariant. *)

THEOREM InitIInv == Init => IInv
  <1> SUFFICES ASSUME Init PROVE IInv
    OBVIOUS
  <1>1. TypeOK
    BY InitTypeOK
  <1>2. \A o \in Orders : order[o] = Unused /\ row[o] = "none" /\ trade[o] = 0 /\ first[o] = 0
    BY DEF Init
  <1>3. \A o \in Orders : o > 0
    BY DEF Orders
  <1>4. TablesInv
    BY <1>2, <1>3, UnusedType DEF Init, TablesInv
  <1>5. PositionInv
    BY <1>2, UnusedType DEF Init, PositionInv, OpenRows, Pending
  <1>6. FillInv
    BY <1>2, UnusedType DEF Init, FillInv
  <1>7. NextOpenFills
    BY <1>2, UnusedType DEF NextOpenFills, Filled, Pending
  <1>8. SettledInv
    BY DEF Init, SettledInv
  <1>9. QED
    BY <1>1, <1>4, <1>5, <1>6, <1>7, <1>8 DEF IInv

\* The tables stay explained by the broker's orders.
LEMMA StepTables == IInv /\ [Next]_vars => TablesInv'
  <1> SUFFICES ASSUME IInv, [Next]_vars PROVE TablesInv'
    OBVIOUS
  <1>0. TypeOK /\ TablesInv /\ PositionInv /\ FillInv /\ NextOpenFills
    BY DEF IInv
  <1> USE DEF brokerVars, dbVars, seen
  <1>1. CASE UNCHANGED vars
    BY <1>0, <1>1 DEF TablesInv, vars
  <1>2. ASSUME NEW t \in Nat, NEW traded \in SUBSET Symbols, NEW prices \in [traded -> Prices],
               AdvanceTo(t, traded, prices)
        PROVE  TablesInv'
    <2>1. \A o \in Orders : order[o].status = "none" => first'[o] = first[o]
      BY <1>2 DEF AdvanceTo, Pending
    <2>2. QED
      BY <1>0, <1>2, <2>1 DEF AdvanceTo, TablesInv
  <1>3. CASE MarkCloses
    BY <1>0, <1>3 DEF MarkCloses, TablesInv
  <1>4. CASE Reconcile
    BY <1>0, <1>4 DEF Reconcile, ReconcileFills, TablesInv, OpenRows, TypeOK
  <1>5. CASE TickDone
    BY <1>0, <1>5 DEF TickDone, TablesInv
  <1>6. CASE CancelPending
    <2>1. \A o \in Orders :
            \/ o \notin Pending /\ order'[o] = order[o]
            \/ o \in Pending /\ Ended(order'[o], order[o], "canceled")
      BY <1>0, <1>6, CanceledOrders
    <2>2. ASSUME NEW o \in Orders
          PROVE  /\ order'[o].status = "none" <=> order[o].status = "none"
                 /\ order'[o].status # "accepted" /\ order'[o].price = order[o].price
                 /\ order'[o].status = "filled" <=> order[o].status = "filled"
                 /\ row[o] # "accepted" => order'[o].status = order[o].status
      <3>1. o \in Pending => row[o] = "accepted"
        BY <1>0 DEF PositionInv
      <3>2. CASE o \in Pending
        BY <3>1, <3>2, <2>1 DEF Ended, Pending
      <3>3. CASE o \notin Pending
        BY <3>3, <2>1 DEF Pending
      <3>4. QED
        BY <3>2, <3>3
    <2>3. UNCHANGED <<row, trade, count, first>> /\ pc' = "remaining"
      BY <1>6 DEF CancelPending
    <2>4. QED
      BY <1>0, <2>2, <2>3 DEF TablesInv
  <1>7. CASE ReconcileRemaining
    BY <1>0, <1>7 DEF ReconcileRemaining, ReconcileFills, TablesInv, OpenRows, TypeOK
  <1>8. ASSUME NEW o \in Orders, FillPending(o) PROVE TablesInv'
    <2>1. o \in toFill /\ pc = "fill" /\ \A p \in Orders \ {o} : order'[p] = order[p]
      BY <1>0, <1>8, FillOrders
    <2>2. o \in Pending /\ row[o] = "accepted" /\ order[o].status = "accepted"
      BY <1>0, <2>1 DEF FillInv, PositionInv, Pending
    <2>3. /\ order'[o].status \in {"filled", "rejected"}
          /\ order'[o].status # "filled" => order'[o].price = order[o].price
      BY <1>0, <1>8, FillOrders DEF Ended
    <2>4. UNCHANGED <<pc, row, trade, count, first>>
      BY <1>8 DEF FillPending
    <2>5. QED
      BY <1>0, <2>1, <2>2, <2>3, <2>4 DEF TablesInv
  <1>9. ASSUME NEW target, NoOrder(target) PROVE TablesInv'
    <2>1. \A o \in Orders :
              \/ order'[o] = order[o]
              \/ o \in Pending /\ Ended(order'[o], order[o], "canceled")
      BY <1>0, <1>9, NoOrderOrders
    <2>2. ASSUME NEW o \in Orders
          PROVE  /\ order'[o].status = "none" <=> order[o].status = "none"
                 /\ order'[o].price = order[o].price
                 /\ order'[o].status = "filled" <=> order[o].status = "filled"
                 /\ row[o] # "accepted" => order'[o].status = order[o].status
      <3>1. o \in Pending => row[o] = "accepted"
        BY <1>0 DEF PositionInv
      <3>2. QED
        BY <3>1, <2>1 DEF Ended, Pending
    <2>3. UNCHANGED <<row, trade, count, first, pc>> /\ pc = "symbols"
      BY <1>9 DEF NoOrder, Processing
    <2>4. QED
      BY <1>0, <2>2, <2>3 DEF TablesInv
  <1>10. ASSUME NEW target \in Goals, SubmitOrder(target) PROVE TablesInv'
    <2> DEFINE n == count + 1
    <2>1. /\ n \in Orders /\ \A o \in Orders \ {n} : order'[o] = order[o]
          /\ order'[n].status = "accepted" /\ order'[n].price = 0
      BY <1>0, <1>10, SubmitOrders
    <2>2. /\ row' = [row EXCEPT ![n] = "accepted"] /\ count' = n
          /\ UNCHANGED <<trade, first, pc>> /\ pc = "symbols"
      BY <1>10 DEF SubmitOrder, Processing
    <2>3. n > count /\ \A o \in Orders : o > n => o > count
      BY <1>0 DEF TypeOK, Orders
    <2>4. order[n].status = "none" /\ row[n] = "none" /\ trade[n] = 0 /\ first[n] = 0
      BY <1>0, <2>1, <2>3 DEF TablesInv
    <2>5. \A o \in Orders \ {n} : row'[o] = row[o] /\ (o > count => o > n)
      BY <1>0, <2>2 DEF TypeOK, Orders
    <2>6. row'[n] = "accepted" /\ ~(n > count')
      BY <1>0, <2>1, <2>2 DEF TypeOK
    <2> HIDE DEF n
    <2>7. QED
      BY <1>0, <2>1, <2>2, <2>3, <2>4, <2>5, <2>6 DEF TablesInv
  <1>11. QED
    BY <1>0, <1>1, <1>2, <1>3, <1>4, <1>5, <1>6, <1>7, <1>8, <1>9, <1>10, StepCases

\* A symbol keeps at most one open row, and a pending order what it is for.
LEMMA StepPosition == IInv /\ [Next]_vars => PositionInv'
  <1> SUFFICES ASSUME IInv, [Next]_vars PROVE PositionInv'
    OBVIOUS
  <1>0. TypeOK /\ TablesInv /\ PositionInv /\ FillInv /\ NextOpenFills
    BY DEF IInv
  <1> USE DEF brokerVars, dbVars, seen
  <1>1. CASE UNCHANGED vars
    BY <1>0, <1>1 DEF PositionInv, vars, OpenRows, Pending
  <1>2. ASSUME NEW t \in Nat, NEW traded \in SUBSET Symbols, NEW prices \in [traded -> Prices],
               AdvanceTo(t, traded, prices)
        PROVE  PositionInv'
    BY <1>0, <1>2 DEF AdvanceTo, PositionInv, OpenRows, Pending
  <1>3. CASE MarkCloses
    BY <1>0, <1>3 DEF MarkCloses, PositionInv, OpenRows, Pending
  <1>4. ASSUME ReconcileFills, UNCHANGED <<holding, order>> PROVE PositionInv'
    <2>1. \A o \in Orders : row'[o] = "accepted" <=> row[o] = "accepted" /\ o \in Pending
      <3>1. \A o \in Orders : row[o] # "accepted" => o \notin Pending
        BY <1>0 DEF PositionInv
      <3>2. QED
        BY <1>0, <1>4, <3>1 DEF ReconcileFills, OpenRows, Pending
    <2>2. Pending' = Pending /\ OpenRows' \subseteq OpenRows
      BY <1>4, <2>1 DEF Pending, OpenRows
    <2>3. QED
      BY <1>0, <1>4, <2>1, <2>2 DEF PositionInv, Pending
  <1>5. CASE Reconcile
    BY <1>4, <1>5 DEF Reconcile
  <1>6. CASE TickDone
    BY <1>0, <1>6 DEF TickDone, PositionInv, OpenRows, Pending
  <1>7. ASSUME UNCHANGED <<row, holding>>,
               \A o \in Orders :
                 \/ order'[o] = order[o]
                 \/ o \in Pending /\ Ended(order'[o], order[o], "canceled")
        PROVE  PositionInv'
    <2>1. \A o \in Orders : /\ order'[o].sym = order[o].sym /\ order'[o].qty = order[o].qty
                            /\ order'[o].kind = order[o].kind
                            /\ order'[o].side = order[o].side
                            /\ order'[o].status # "none" => order[o].status # "none"
                            /\ order'[o].status = "accepted" => order'[o] = order[o]
      BY <1>7 DEF Ended, Same, Pending
    <2>2. Pending' \subseteq Pending /\ OpenRows' = OpenRows
      BY <1>7, <2>1 DEF Pending, OpenRows
    <2>3. QED
      BY <1>0, <1>7, <2>1, <2>2 DEF PositionInv, OpenRows, Pending
  <1>8. CASE CancelPending
    BY <1>0, <1>7, <1>8, CanceledOrders DEF CancelPending
  <1>9. CASE ReconcileRemaining
    BY <1>4, <1>9 DEF ReconcileRemaining
  <1>10. ASSUME NEW o \in Orders, FillPending(o) PROVE PositionInv'
    <2> DEFINE b == order[o]
    <2> DEFINE price == FillPrice(b.side, bar[b.sym].open)
    <2>1. o \in toFill /\ pc = "fill" /\ \A p \in Orders \ {o} : order'[p] = order[p]
      BY <1>0, <1>10, FillOrders
    <2>2. o \in Pending /\ row[o] = "accepted"
      BY <1>0, <2>1 DEF FillInv, PositionInv
    <2>3. b \in Order
      BY <1>0 DEF TypeOK
    <2>4. order'[o].sym = b.sym /\ order'[o].status \in {"filled", "rejected"}
      BY <1>0, <1>10, FillOrders DEF Same, Ended
    <2>5. OpenRows' = OpenRows /\ o \in OpenRows
      BY <1>10, <2>2 DEF FillPending, OpenRows
    <2>6. \A p \in Pending' : p \in Pending /\ p # o /\ order'[p] = order[p]
                              /\ order[p].sym # b.sym
      <3>1. \A p \in Pending' : p \in Pending /\ p # o /\ order'[p] = order[p]
        BY <2>1, <2>4 DEF Pending
      <3>2. \A p \in Pending : p \in OpenRows
        BY <1>0 DEF PositionInv, Pending, OpenRows
      <3>3. QED
        BY <3>1, <3>2, <2>5, <1>0 DEF PositionInv
    <2>7. b.sym \in Listed /\ b.status # "none"
      BY <1>0, <2>2 DEF PositionInv, Pending
    <2>8. \A s \in Symbols : s # b.sym => holding'[s] = holding[s]
      BY <1>0, <1>10, FillOrders DEF TypeOK
    <2>9. \A p \in Orders : order'[p].sym = order[p].sym
      BY <2>1, <2>4
    <2>10. UNCHANGED row
      BY <1>10 DEF FillPending
    <2>11. \A p \in Pending' : order[p].sym \in Symbols /\ row'[p] = "accepted"
                               /\ order'[p].qty > 0
                               /\ holding'[order[p].sym] = holding[order[p].sym]
      BY <1>0, <2>6, <2>8, <2>10 DEF PositionInv, TypeOK, Order, Pending
    <2> HIDE DEF b
    <2>12. \A p \in Orders : order'[p].status # "none" => order'[p].sym \in Listed
      BY <1>0, <2>1, <2>4, <2>7, <2>9 DEF PositionInv, b
    <2>13. \A s \in Symbols : holding'[s] # 0 => s \in Listed
      BY <1>0, <2>7, <2>8 DEF PositionInv
    <2>14. \A p, q \in OpenRows' : order'[p].sym = order'[q].sym => p = q
      BY <1>0, <2>5, <2>9 DEF PositionInv, OpenRows
    <2>15. QED
      BY <1>0, <2>6, <2>11, <2>12, <2>13, <2>14 DEF PositionInv
  <1>11. ASSUME NEW target, NoOrder(target) PROVE PositionInv'
    <2>1. UNCHANGED <<row, holding>>
      BY <1>11 DEF NoOrder
    <2>2. QED
      BY <1>0, <1>7, <1>11, <2>1, NoOrderOrders
  <1>12. ASSUME NEW target \in Goals, SubmitOrder(target) PROVE PositionInv'
    <2> DEFINE n == count + 1
    <2>1. /\ n \in Orders /\ \A o \in Orders \ {n} : order'[o] = order[o]
          /\ order'[n].status = "accepted" /\ order'[n].sym = Sym /\ order'[n].qty > 0
          /\ holding[Sym] = IF order'[n].kind = "entry" THEN 0
                            ELSE -(Dir(order'[n].side) * order'[n].qty)
          /\ OpenOrders(Sym) = {} /\ Processing
      BY <1>0, <1>12, SubmitOrders
    <2>2. /\ row' = [row EXCEPT ![n] = "accepted"] /\ UNCHANGED holding
      BY <1>12 DEF SubmitOrder
    <2>3. n > count
      BY <1>0 DEF TypeOK
    <2>4. order[n].status = "none" /\ row[n] = "none"
      BY <1>0, <2>1, <2>3 DEF TablesInv
    <2>5. Sym \in Symbols /\ Sym \in Listed
      BY <1>0, <2>1, SymType
    <2> HIDE DEF n
    <2>6. OpenRows' = OpenRows \cup {n} /\ n \notin OpenRows
      BY <1>0, <2>1, <2>2, <2>4 DEF OpenRows, TypeOK
    <2>7. Pending' = Pending \cup {n} /\ n \notin Pending
      BY <2>1, <2>4 DEF Pending
    <2>8. \A p \in OpenRows : order'[p] = order[p] /\ order[p].sym # Sym
      BY <2>1, <2>6 DEF OpenOrders, OpenRows
    <2>9. \A p, q \in OpenRows' : order'[p].sym = order'[q].sym => p = q
      BY <1>0, <2>1, <2>6, <2>8 DEF PositionInv
    <2>10. \A p \in Pending : order'[p] = order[p] /\ row'[p] = "accepted"
      BY <1>0, <2>1, <2>2, <2>7 DEF PositionInv, TypeOK, Pending
    <2>11. row'[n] = "accepted"
      BY <1>0, <2>1, <2>2 DEF TypeOK
    <2>12. \A p \in Pending' :
              /\ row'[p] = "accepted" /\ order'[p].qty > 0
              /\ holding'[order'[p].sym] = IF order'[p].kind = "entry" THEN 0
                                           ELSE -(Dir(order'[p].side) * order'[p].qty)
      BY <1>0, <2>1, <2>2, <2>7, <2>10, <2>11 DEF PositionInv
    <2>13. \A p \in Orders : order'[p].status # "none" => order'[p].sym \in Listed
      BY <1>0, <2>1, <2>5 DEF PositionInv
    <2>14. QED
      BY <1>0, <2>2, <2>9, <2>12, <2>13 DEF PositionInv
  <1>13. QED
    BY <1>0, <1>1, <1>2, <1>3, <1>5, <1>6, <1>8, <1>9, <1>10, <1>11, <1>12, StepCases
\* What a bar does to the waiting orders: those of a symbol with a bar are to
\* fill at it, and it is the first bar they see.
LEMMA AdvanceFills ==
  ASSUME IInv, NEW t \in Nat, NEW traded \in SUBSET Symbols, NEW prices \in [traded -> Prices],
         AdvanceTo(t, traded, prices)
  PROVE  /\ pc = "advance" /\ pc' = "fill" /\ now' = t /\ t > now /\ UNCHANGED order
         /\ \A o \in Orders :
              \/ /\ o \in Pending /\ order[o].sym \in traded /\ o \in toFill'
                 /\ first[o] = 0 /\ first'[o] = t
              \/ /\ ~(o \in Pending /\ order[o].sym \in traded) /\ o \notin toFill'
                 /\ first'[o] = first[o]
         /\ \A s \in traded : bar'[s].t = t
  <1>1. \A o \in Pending : first[o] = 0
    BY DEF IInv, NextOpenFills, AdvanceTo, TypeOK, Pending
  <1>2. \A o \in Orders : first'[o] = IF o \in Pending /\ order[o].sym \in traded /\ first[o] = 0
                                      THEN t ELSE first[o]
    BY DEF AdvanceTo
  <1>3. toFill' = {o \in Pending : order[o].sym \in traded}
    BY DEF AdvanceTo
  <1>4. \A s \in traded : bar'[s].t = t
    BY DEF AdvanceTo
  <1>5. QED
    BY <1>1, <1>2, <1>3, <1>4 DEF AdvanceTo

\* What an order waits for stays the first bar after its decision.
LEMMA StepFill == IInv /\ [Next]_vars => FillInv'
  <1> SUFFICES ASSUME IInv, [Next]_vars PROVE FillInv'
    OBVIOUS
  <1>0. TypeOK /\ TablesInv /\ PositionInv /\ FillInv /\ NextOpenFills
    BY DEF IInv
  <1> USE DEF brokerVars, dbVars, seen
  <1>1. CASE UNCHANGED vars
    BY <1>0, <1>1 DEF FillInv, vars, Pending
  <1>2. ASSUME NEW t \in Nat, NEW traded \in SUBSET Symbols, NEW prices \in [traded -> Prices],
               AdvanceTo(t, traded, prices)
        PROVE  FillInv'
    <2>1. pc' = "fill" /\ now' = t /\ t > now /\ UNCHANGED order
      BY <1>2, AdvanceFills
    <2>2. \A o \in toFill' : o \in Pending' /\ first'[o] = now' /\ bar'[order'[o].sym].t = now'
      <3>1. toFill' \subseteq Orders
        BY <1>2 DEF AdvanceTo, Pending
      <3>2. QED
        BY <3>1, <2>1, <1>2, AdvanceFills DEF Pending
    <2>3. now \in Nat /\ \A o \in Orders : first[o] \in Nat /\ order[o].submitted \in Nat
      BY <1>0 DEF TypeOK, Order
    <2>4. \A o \in Orders : /\ first'[o] <= now' /\ order'[o].submitted <= now'
                            /\ first'[o] # 0 => first'[o] > order'[o].submitted
      BY <1>0, <1>2, <2>1, <2>3, AdvanceFills DEF FillInv
    <2>5. QED
      BY <2>1, <2>2, <2>3, <2>4 DEF FillInv
  <1>3. CASE MarkCloses
    BY <1>0, <1>3 DEF MarkCloses, FillInv, Pending
  <1>4. CASE Reconcile
    BY <1>0, <1>4 DEF Reconcile, FillInv, Pending
  <1>5. CASE TickDone
    BY <1>0, <1>5 DEF TickDone, FillInv, Pending
  <1>6. CASE CancelPending
    <2>1. \A o \in Orders : order'[o].submitted = order[o].submitted
      BY <1>0, <1>6, CanceledOrders DEF Ended, Same
    <2>2. toFill = {} /\ UNCHANGED <<toFill, first, now, bar>> /\ now > 0
      BY <1>0, <1>6 DEF CancelPending, FillInv
    <2>3. QED
      BY <1>0, <2>1, <2>2 DEF FillInv
  <1>7. CASE ReconcileRemaining
    BY <1>0, <1>7 DEF ReconcileRemaining, FillInv, Pending
  <1>8. ASSUME NEW o \in Orders, FillPending(o) PROVE FillInv'
    <2>1. \A p \in Orders \ {o} : order'[p] = order[p]
      BY <1>0, <1>8, FillOrders
    <2>2. order'[o].submitted = order[o].submitted
      BY <1>0, <1>8, FillOrders DEF Same
    <2>3. toFill' = toFill \ {o} /\ UNCHANGED <<pc, first, now, bar>> /\ pc = "fill"
      BY <1>8 DEF FillPending
    <2>4. \A p \in toFill' : p \in Orders \ {o} /\ p \in Pending'
      BY <1>0, <2>1, <2>3 DEF FillInv, Pending
    <2>5. QED
      BY <1>0, <2>1, <2>2, <2>3, <2>4 DEF FillInv
  <1>9. ASSUME NEW target, NoOrder(target) PROVE FillInv'
    <2>1. \A o \in Orders : order'[o].submitted = order[o].submitted
      BY <1>0, <1>9, NoOrderOrders DEF Ended, Same
    <2>2. toFill = {} /\ UNCHANGED <<pc, toFill, first, now, bar>>
      BY <1>0, <1>9 DEF NoOrder, Processing, FillInv
    <2>3. QED
      BY <1>0, <2>1, <2>2 DEF FillInv
  <1>10. ASSUME NEW target \in Goals, SubmitOrder(target) PROVE FillInv'
    <2> DEFINE n == count + 1
    <2>1. /\ n \in Orders /\ \A o \in Orders \ {n} : order'[o] = order[o]
          /\ order'[n].submitted = now
      BY <1>0, <1>10, SubmitOrders
    <2>2. toFill = {} /\ UNCHANGED <<pc, toFill, first, now, bar>>
      BY <1>0, <1>10 DEF SubmitOrder, Processing, FillInv
    <2>3. first[n] = 0
      <3>1. n > count
        BY <1>0 DEF TypeOK
      <3>2. QED
        BY <3>1, <2>1, <1>0 DEF TablesInv
    <2>4. now \in Nat
      BY <1>0 DEF TypeOK
    <2> HIDE DEF n
    <2>5. QED
      BY <1>0, <2>1, <2>2, <2>3, <2>4 DEF FillInv
  <1>11. QED
    BY <1>0, <1>1, <1>2, <1>3, <1>4, <1>5, <1>6, <1>7, <1>8, <1>9, <1>10, StepCases

\* An order fills at the open of the first bar after it was decided on, and
\* waits beyond no bar of its symbol.
LEMMA StepNextOpen == IInv /\ [Next]_vars => NextOpenFills'
  <1> SUFFICES ASSUME IInv, [Next]_vars PROVE NextOpenFills'
    OBVIOUS
  <1>0. TypeOK /\ TablesInv /\ PositionInv /\ FillInv /\ NextOpenFills
    BY DEF IInv
  <1> USE DEF brokerVars, dbVars, seen
  <1>1. ASSUME UNCHANGED <<order, first, now, bar, toFill>>, pc' # pc => pc # "fill" \/ toFill = {}
        PROVE  NextOpenFills'
    BY <1>0, <1>1 DEF NextOpenFills, Filled, Pending
  <1>2. CASE UNCHANGED vars
    BY <1>1, <1>2 DEF vars
  <1>3. ASSUME NEW t \in Nat, NEW traded \in SUBSET Symbols, NEW prices \in [traded -> Prices],
               AdvanceTo(t, traded, prices)
        PROVE  NextOpenFills'
    <2>1. pc = "advance" /\ pc' = "fill" /\ now' = t /\ t > now /\ UNCHANGED order
      BY <1>3, AdvanceFills
    <2>2. ASSUME NEW o \in Filled
          PROVE  /\ order'[o].filled = first'[o] /\ first'[o] > order'[o].submitted
                 /\ order'[o].filled # now'
      <3>1. o \in Orders /\ o \notin Pending
        BY DEF Filled, Pending
      <3>2. first'[o] = first[o]
        BY <1>3, <3>1, AdvanceFills
      <3>3. first[o] <= now /\ first[o] \in Nat /\ now \in Nat
        BY <1>0, <3>1 DEF FillInv, TypeOK
      <3>4. order[o].filled = first[o] /\ first[o] > order[o].submitted
        BY <1>0, <3>1 DEF NextOpenFills
      <3>5. QED
        BY <2>1, <3>2, <3>3, <3>4
    <2>3. ASSUME NEW o \in Pending, first'[o] # 0 PROVE o \in toFill'
      <3>1. o \in Orders
        BY DEF Pending
      <3>2. first[o] = 0
        BY <1>0, <2>1, <3>1 DEF NextOpenFills
      <3>3. QED
        BY <1>3, <2>3, <3>1, <3>2, AdvanceFills
    <2>4. Filled' = Filled /\ Pending' = Pending
      BY <2>1 DEF Filled, Pending
    <2>5. QED
      BY <2>1, <2>2, <2>3, <2>4 DEF NextOpenFills
  <1>4. CASE MarkCloses
    BY <1>1, <1>4 DEF MarkCloses
  <1>5. CASE Reconcile
    BY <1>1, <1>5 DEF Reconcile
  <1>6. CASE TickDone
    BY <1>1, <1>6 DEF TickDone
  <1>7. CASE ReconcileRemaining
    BY <1>1, <1>7 DEF ReconcileRemaining
  <1>8. ASSUME UNCHANGED <<first, now, bar, toFill>>, pc # "fill",
               \A o \in Orders :
                 \/ order'[o] = order[o]
                 \/ o \in Pending /\ Ended(order'[o], order[o], "canceled")
        PROVE  NextOpenFills'
    <2>1. \A o \in Orders : /\ o \in Filled' => o \in Filled /\ order'[o] = order[o]
                            /\ o \in Pending' => o \in Pending
      BY <1>8 DEF Filled, Pending, Ended
    <2>2. QED
      BY <1>0, <1>8, <2>1 DEF NextOpenFills
  <1>9. CASE CancelPending
    BY <1>0, <1>8, <1>9, CanceledOrders DEF CancelPending
  <1>10. ASSUME NEW o \in Orders, FillPending(o) PROVE NextOpenFills'
    <2> DEFINE price == FillPrice(order[o].side, bar[order[o].sym].open)
    <2>1. /\ o \in toFill /\ pc = "fill" /\ \A p \in Orders \ {o} : order'[p] = order[p]
          /\ Same(order'[o], order[o])
          /\ \/ order'[o].status = "rejected"
             \/ /\ order'[o].status = "filled" /\ order'[o].filled = now
                /\ order'[o].price = price
      BY <1>0, <1>10, FillOrders DEF Ended
    <2>2. toFill' = toFill \ {o} /\ UNCHANGED <<pc, first, now, bar>>
      BY <1>10 DEF FillPending
    <2>3. first[o] = now /\ order[o].submitted < first[o]
      <3>1. first[o] # 0
        <4>1. o \in Pending /\ order[o].status # "none"
          BY <1>0, <2>1 DEF FillInv, Pending
        <4>2. bar[order[o].sym].t = now /\ first[o] = now
          BY <1>0, <2>1 DEF FillInv
        <4>3. now # 0
          BY <1>0, <2>1 DEF FillInv, TypeOK
        <4>4. QED
          BY <4>2, <4>3
      <3>2. QED
        BY <1>0, <2>1, <3>1 DEF FillInv
    <2>4. ASSUME NEW p \in Orders, p \in Filled'
          PROVE  /\ order'[p].filled = first'[p] /\ first'[p] > order'[p].submitted
                 /\ order'[p].filled = now' =>
                      order'[p].price = FillPrice(order'[p].side, bar'[order'[p].sym].open)
      <3>1. CASE p = o
        BY <3>1, <2>1, <2>2, <2>3, <2>4 DEF Same, Filled
      <3>2. CASE p # o
        BY <3>2, <1>0, <2>1, <2>2, <2>4 DEF NextOpenFills, Filled
      <3>3. QED
        BY <3>1, <3>2
    <2>5. ASSUME NEW p \in Orders, p \in Pending', first'[p] # 0
          PROVE  pc' = "fill" /\ p \in toFill'
      <3>1. p # o
        BY <2>1, <2>5 DEF Pending
      <3>2. p \in Pending
        BY <3>1, <2>1, <2>5 DEF Pending
      <3>3. QED
        BY <3>1, <3>2, <1>0, <2>1, <2>2, <2>5 DEF NextOpenFills
    <2>6. QED
      BY <2>4, <2>5 DEF NextOpenFills
  <1>11. ASSUME NEW target, NoOrder(target) PROVE NextOpenFills'
    <2>1. UNCHANGED <<first, now, bar, toFill>> /\ pc # "fill"
      BY <1>11 DEF NoOrder, Processing
    <2>2. QED
      BY <1>0, <1>8, <1>11, <2>1, NoOrderOrders
  <1>12. ASSUME NEW target \in Goals, SubmitOrder(target) PROVE NextOpenFills'
    <2> DEFINE n == count + 1
    <2>1. /\ n \in Orders /\ \A o \in Orders \ {n} : order'[o] = order[o]
          /\ order'[n].status = "accepted"
      BY <1>0, <1>12, SubmitOrders
    <2>2. UNCHANGED <<first, now, bar, toFill>> /\ pc # "fill"
      BY <1>12 DEF SubmitOrder, Processing
    <2>3. first[n] = 0
      <3>1. n > count
        BY <1>0 DEF TypeOK
      <3>2. QED
        BY <3>1, <2>1, <1>0 DEF TablesInv
    <2> HIDE DEF n
    <2>4. Filled' = Filled /\ \A o \in Filled : order'[o] = order[o]
      <3>1. order[n].status # "filled"
        BY <1>0, <2>1, <2>3 DEF NextOpenFills, Filled, TypeOK, Order
      <3>2. QED
        BY <3>1, <2>1 DEF Filled
    <2>5. \A o \in Pending' : o = n \/ o \in Pending
      BY <2>1 DEF Pending
    <2>6. QED
      BY <1>0, <2>1, <2>2, <2>3, <2>4, <2>5 DEF NextOpenFills
  <1>13. QED
    BY <1>0, <1>2, <1>3, <1>4, <1>5, <1>6, <1>7, <1>9, <1>10, <1>11, <1>12, StepCases
\* Nothing moves cash, holdings or marks between two ticks.
LEMMA StepSettled == IInv /\ [Next]_vars => SettledInv'
  <1> SUFFICES ASSUME IInv, [Next]_vars PROVE SettledInv'
    OBVIOUS
  <1>0. TypeOK /\ SettledInv
    BY DEF IInv
  <1> USE DEF brokerVars, dbVars, seen
  <1>1. CASE UNCHANGED vars
    BY <1>0, <1>1, EquityFrame DEF SettledInv, vars
  <1>2. ASSUME pc' # "advance" PROVE SettledInv'
    BY <1>2 DEF SettledInv
  <1>3. CASE TickDone
    BY <1>3, EquityFrame DEF TickDone, SettledInv
  <1>4. CASE ~TickDone /\ ~UNCHANGED vars
    BY <1>0, <1>2, <1>4, StepCases DEF AdvanceTo, MarkCloses, Reconcile, CancelPending,
       ReconcileRemaining, FillPending, NoOrder, SubmitOrder, Processing
  <1>5. QED
    BY <1>1, <1>3, <1>4

\* IInv is inductive.
THEOREM Inductive == Spec => []IInv
  <1>1. IInv /\ [Next]_vars => IInv'
    <2>1. IInv => TypeOK
      BY DEF IInv
    <2>2. QED
      BY <2>1, StepTypeOK, StepTables, StepPosition, StepFill, StepNextOpen, StepSettled
         DEF IInv
  <1>2. QED
    BY InitIInv, <1>1, PTL DEF Spec

\* Every variable of a replay has its type.
THEOREM TypeCorrect == Spec => []TypeOK
  <1>1. IInv => TypeOK
    BY DEF IInv
  <1>2. QED
    BY Inductive, <1>1, PTL

\* Orders fill at the open of the next bar of their symbol, and only there:
\* replay looks neither ahead nor back.
THEOREM FillsAreNextOpen == Spec => []NextOpenFills
  <1>1. IInv => NextOpenFills
    BY DEF IInv
  <1>2. QED
    BY Inductive, <1>1, PTL

\* After the last reconciliation the tables say what the broker did.
THEOREM TablesAreComplete == Spec => []TablesComplete
  <1>1. IInv => TablesComplete
    <2> SUFFICES ASSUME IInv, pc = "done", NEW o \in Orders
                 PROVE  /\ order[o].status # "accepted" /\ row[o] = order[o].status
                        /\ trade[o] = order[o].price
      BY DEF TablesComplete
    <2>1. /\ order[o].status # "accepted" /\ row[o] # "accepted"
          /\ row[o] # "accepted" => row[o] = order[o].status
          /\ order[o].status # "filled" => order[o].price = 0
          /\ trade[o] = IF row[o] = "filled" THEN order[o].price ELSE 0
      BY DEF IInv, TablesInv
    <2>2. QED
      BY <2>1
  <1>2. QED
    BY Inductive, <1>1, PTL

\* The daily loss is measured from the last tick of the session before.
THEOREM LossBaseHolds == Spec => LossBaseIsPriorClose
  <1>1. IInv /\ [Next]_vars =>
          [lastEquity' # lastEquity =>
             Session(now') # Session(now) /\ lastEquity' = settled]_vars
    <2> SUFFICES ASSUME IInv, [Next]_vars, lastEquity' # lastEquity
                 PROVE  Session(now') # Session(now) /\ lastEquity' = settled
      OBVIOUS
    <2>1. TypeOK /\ SettledInv
      BY DEF IInv
    <2>2. PICK t \in Nat : \E traded \in SUBSET Symbols : \E prices \in [traded -> Prices] :
            AdvanceTo(t, traded, prices)
      BY <2>1, StepCases DEF vars, MarkCloses, Reconcile, TickDone, CancelPending,
         ReconcileRemaining, FillPending, NoOrder, SubmitOrder, brokerVars
    <2>3. /\ pc = "advance" /\ now' = t
          /\ lastEquity' = IF now > 0 /\ Session(t) # Session(now) THEN Equity ELSE lastEquity
      BY <2>2 DEF AdvanceTo
    <2>4. now > 0 /\ Session(t) # Session(now) /\ lastEquity' = Equity
      BY <2>3
    <2>5. QED
      BY <2>1, <2>3, <2>4 DEF SettledInv
  <1>2. QED
    BY Inductive, <1>1, PTL DEF Spec, LossBaseIsPriorClose

-----------------------------------------------------------------------------
(* The replay keeps the engine's promise about exposures. *)

\* A fill takes one symbol from flat into the market, or out of it to flat.
LEMMA FillMoves ==
  ASSUME IInv, NEW o \in Orders, FillPending(o)
  PROVE  [Machine!Next]_exposure
  <1> DEFINE s == order[o].sym
  <1> DEFINE shares == Dir(order[o].side) * order[o].qty
  <1>0. TypeOK /\ PositionInv /\ FillInv
    BY DEF IInv
  <1>1. o \in toFill /\ s \in Symbols /\ shares \in Int /\ order[o].side \in {"buy", "sell"}
    BY <1>0, FillOrders DEF TypeOK, Order, Dir
  <1>2. /\ o \in Pending /\ order[o].qty > 0
        /\ holding[s] = IF order[o].kind = "entry" THEN 0 ELSE -shares
    BY <1>0, <1>1 DEF FillInv, PositionInv
  <1>3. shares # 0
    BY <1>0, <1>2 DEF Dir, TypeOK, Order
  <1>4. UNCHANGED holding \/ holding' = [holding EXCEPT ![s] = @ + shares]
    BY <1>0, FillOrders
  <1> HIDE DEF shares
  <1>5. CASE UNCHANGED holding
    BY <1>5 DEF exposure
  <1>6. CASE holding' = [holding EXCEPT ![s] = @ + shares]
    <2>1. holding'[s] = holding[s] + shares
      BY <1>0, <1>1, <1>6 DEF TypeOK
    <2>2. exposure' = [exposure EXCEPT ![s] = ExposureOf(holding'[s])]
      BY <1>0, <1>1, <1>6 DEF exposure, TypeOK
    <2>3. exposure[s] = ExposureOf(holding[s])
      BY <1>1 DEF exposure
    <2>4. CASE order[o].kind = "entry"
      <3>1. holding[s] = 0 /\ holding'[s] = shares
        BY <1>1, <1>2, <2>1, <2>4
      <3>2. exposure[s] = "flat" /\ ExposureOf(holding'[s]) \in {"long", "short"}
        BY <1>1, <1>3, <2>3, <3>1 DEF ExposureOf
      <3>3. \E target \in {"long", "short"} : Machine!Enter(s, target)
        BY <2>2, <3>2 DEF Machine!Enter
      <3>4. QED
        BY <1>1, <3>3 DEF Machine!Next
    <2>5. CASE order[o].kind # "entry"
      <3>1. holding[s] = -shares /\ holding'[s] = 0
        BY <1>1, <1>2, <2>1, <2>5
      <3>2. exposure[s] # "flat" /\ ExposureOf(holding'[s]) = "flat"
        BY <1>1, <1>3, <2>3, <3>1 DEF ExposureOf
      <3>3. Machine!Leave(s)
        BY <2>2, <3>2 DEF Machine!Leave
      <3>4. QED
        BY <1>1, <3>3 DEF Machine!Next
    <2>6. QED
      BY <2>4, <2>5
  <1>7. QED
    BY <1>4, <1>5, <1>6

\* Step by step the replay implements ExposureMachine: only fills move an
\* exposure, and never from long to short or back.
THEOREM ImplementsExposureMachine == Spec => ImplementsMachine
  <1>1. Init => Machine!Init
    BY DEF Init, Machine!Init, exposure, ExposureOf
  <1>2. IInv /\ [Next]_vars => [Machine!Next]_exposure
    <2> SUFFICES ASSUME IInv, [Next]_vars PROVE [Machine!Next]_exposure
      OBVIOUS
    <2>0. TypeOK
      BY DEF IInv
    <2>1. CASE \E o \in Orders : FillPending(o)
      BY <2>1, FillMoves
    <2>2. CASE ~(\E o \in Orders : FillPending(o))
      <3>1. UNCHANGED holding
        BY <2>0, <2>2, StepCases DEF vars, AdvanceTo, MarkCloses, Reconcile, TickDone,
           CancelPending, ReconcileRemaining, NoOrder, SubmitOrder, brokerVars
      <3>2. QED
        BY <3>1 DEF exposure
    <2>3. QED
      BY <2>1, <2>2
  <1>3. QED
    BY Inductive, <1>1, <1>2, PTL DEF Spec, ImplementsMachine, Machine!Spec
-----------------------------------------------------------------------------
(* The ledger: cash and holdings are the totals of the filled orders.        *)

LedgerInv ==
  /\ cash = InitialCapital - Total(Outlay, Filled)
  /\ \A s \in Symbols : holding[s] = Total(Shares, FilledOf(s))

LEMMA LedgerIs == LedgerInv => LedgerMatches
  <1> SUFFICES ASSUME LedgerInv PROVE LedgerMatches
    OBVIOUS
  <1>1. cash = InitialCapital
          - MapThenSumSet(LAMBDA o : Dir(order[o].side) * order[o].qty * order[o].price, Filled)
    BY OutlayIs, Zenon DEF LedgerInv
  <1>2. \A s \in Symbols : holding[s] =
          MapThenSumSet(LAMBDA o : Dir(order[o].side) * order[o].qty,
                        {o \in Filled : order[o].sym = s})
    BY SharesAre, Zenon DEF LedgerInv
  <1>3. QED
    BY <1>1, <1>2, Zenon DEF LedgerMatches

LEMMA FilledFinite ==
  IsFiniteSet(Filled) /\ \A s \in Symbols : IsFiniteSet(FilledOf(s))
  BY ConstantsType, FS_Subset, Filled \subseteq Orders, \A s \in Symbols : FilledOf(s) \subseteq Orders
     DEF Filled, FilledOf

\* What an order moves.
LEMMA OutlayType ==
  ASSUME NEW ord \in [Orders -> Order], NEW o \in Orders
  PROVE  /\ Dir(ord[o].side) * ord[o].qty * ord[o].price \in Int
         /\ Dir(ord[o].side) * ord[o].qty \in Int
  <1>1. Dir(ord[o].side) \in Int /\ ord[o].qty \in Int /\ ord[o].price \in Int
    BY DEF Order, Dir
  <1>2. \A m, n \in Int : m * n \in Int
    OBVIOUS
  <1>3. QED
    BY <1>1, <1>2

\* A step that fills nothing leaves the totals alone.
LEMMA LedgerFrame ==
  ASSUME LedgerInv, UNCHANGED <<cash, holding>>, Filled' = Filled,
         \A o \in Filled : order'[o] = order[o]
  PROVE  LedgerInv'
  <1>1. \A o \in Filled : Outlay'[o] = Outlay[o] /\ Shares'[o] = Shares[o]
    BY DEF Outlay, Shares, Filled
  <1>2. Total(Outlay', Filled) = Total(Outlay, Filled)
    BY <1>1, FilledFinite, TotalAgree
  <1>3. ASSUME NEW s \in Symbols
        PROVE  FilledOf(s)' = FilledOf(s) /\ Total(Shares', FilledOf(s)) = Total(Shares, FilledOf(s))
    <2>1. FilledOf(s)' = FilledOf(s)
      BY DEF FilledOf
    <2>2. \A o \in FilledOf(s) : Shares'[o] = Shares[o]
      BY <1>1 DEF FilledOf
    <2>3. QED
      BY <2>1, <2>2, FilledFinite, TotalAgree
  <1>4. QED
    BY <1>2, <1>3 DEF LedgerInv

\* A fill adds one order to the totals, at the price it is recorded with.
LEMMA LedgerFills ==
  ASSUME IInv, LedgerInv, NEW o \in Orders, FillPending(o)
  PROVE  LedgerInv'
  <1> DEFINE b == order[o]
  <1> DEFINE price == FillPrice(b.side, bar[b.sym].open)
  <1>0. TypeOK /\ FillInv /\ o \in toFill
    BY FillOrders DEF IInv
  <1>1. o \in Pending /\ o \notin Filled
    BY <1>0 DEF FillInv, Pending, Filled
  <1>2. \A p \in Filled : order'[p] = order[p]
    BY <1>0, <1>1, FillOrders DEF Filled
  <1>3. CASE Ended(order'[o], b, "rejected") /\ UNCHANGED <<cash, holding>>
    <2>1. Filled' = Filled
      BY <1>0, <1>1, <1>3, FillOrders DEF Filled, Ended
    <2>2. QED
      BY <1>2, <1>3, <2>1, LedgerFrame
  <1>4. CASE /\ order'[o].status = "filled" /\ order'[o].price = price
             /\ cash' = cash - Dir(b.side) * b.qty * price
             /\ holding' = [holding EXCEPT ![b.sym] = @ + Dir(b.side) * b.qty]
    <2>1. Filled' = Filled \cup {o}
      BY <1>0, <1>4, FillOrders DEF Filled
    <2>2. order' \in [Orders -> Order] /\ Same(order'[o], b)
          /\ \A p \in Orders \ {o} : order'[p] = order[p]
      BY <1>0, FillOrders
    <2>3. Outlay'[o] = Dir(b.side) * b.qty * price /\ Shares'[o] = Dir(b.side) * b.qty
      BY <1>4, <2>2 DEF Outlay, Shares, Same
    <2>4. \A p \in Filled : Outlay'[p] = Outlay[p] /\ Shares'[p] = Shares[p]
      BY <1>2 DEF Outlay, Shares, Filled
    <2>5. \A p \in Orders : Outlay'[p] \in Int /\ Shares'[p] \in Int
      BY <2>2, OutlayType DEF Outlay, Shares
    <2> HIDE DEF price, b
    <2>6. cash' = InitialCapital - Total(Outlay, Filled)'
      <3>1. Total(Outlay', Filled) = Total(Outlay, Filled)
        BY <2>4, FilledFinite, TotalAgree
      <3>2. Total(Outlay', Filled \cup {o}) = Total(Outlay', Filled) + Outlay'[o]
        <4>1. \A p \in Filled \cup {o} : Outlay'[p] \in Int
          BY <2>5 DEF Filled
        <4>2. QED
          BY <4>1, <1>1, FilledFinite, TotalInsert
      <3>3. Total(Outlay, Filled) \in Int
        <4>1. \A p \in Filled : Outlay[p] \in Int
          BY <2>4, <2>5 DEF Filled
        <4>2. QED
          BY <4>1, FilledFinite, TotalType
      <3>4. Outlay'[o] \in Int /\ InitialCapital \in Int
        BY <2>5, ReplayAssumption
      <3>5. cash' = cash - Outlay'[o] /\ cash = InitialCapital - Total(Outlay, Filled)
        BY <1>4, <2>3 DEF LedgerInv
      <3>6. Total(Outlay, Filled)' = Total(Outlay', Filled \cup {o})
        BY <2>1
      <3>7. QED
        BY <3>1, <3>2, <3>3, <3>4, <3>5, <3>6
    <2>7. ASSUME NEW s \in Symbols PROVE holding'[s] = Total(Shares, FilledOf(s))'
      <3>1. \A p \in FilledOf(s) : Shares'[p] = Shares[p]
        BY <2>4 DEF FilledOf
      <3>2. Total(Shares', FilledOf(s)) = Total(Shares, FilledOf(s))
        BY <3>1, FilledFinite, TotalAgree
      <3>3. \A p \in Filled : order'[p].sym = order[p].sym
        BY <1>2
      <3>4. order'[o].sym = b.sym /\ b.sym \in Symbols
        BY <1>0, <2>2 DEF Same, b, TypeOK, Order
      <3>5. CASE s # b.sym
        <4>1. FilledOf(s)' = FilledOf(s)
          BY <2>1, <3>3, <3>4, <3>5 DEF FilledOf
        <4>2. holding'[s] = holding[s]
          BY <1>0, <1>4, <3>5 DEF TypeOK
        <4>3. QED
          BY <3>2, <4>1, <4>2 DEF LedgerInv
      <3>6. CASE s = b.sym
        <4>1. FilledOf(s)' = FilledOf(s) \cup {o} /\ o \notin FilledOf(s)
          BY <1>1, <2>1, <3>3, <3>4, <3>6 DEF FilledOf
        <4>2. \A p \in FilledOf(s) \cup {o} : Shares'[p] \in Int
          BY <2>5 DEF FilledOf, Filled
        <4>3. Total(Shares', FilledOf(s) \cup {o}) = Total(Shares', FilledOf(s)) + Shares'[o]
          BY <4>1, <4>2, FilledFinite, TotalInsert
        <4>4. holding'[s] = holding[s] + Shares'[o]
          BY <1>0, <1>4, <2>3, <3>4, <3>6 DEF TypeOK
        <4>5. Total(Shares, FilledOf(s))' = Total(Shares', FilledOf(s) \cup {o})
          BY <4>1
        <4>6. QED
          BY <3>2, <4>3, <4>4, <4>5 DEF LedgerInv
      <3>7. QED
        BY <3>5, <3>6
    <2>8. QED
      BY <2>6, <2>7 DEF LedgerInv
  <1>5. QED
    BY <1>0, <1>3, <1>4, FillOrders

LEMMA StepLedger == IInv /\ LedgerInv /\ [Next]_vars => LedgerInv'
  <1> SUFFICES ASSUME IInv, LedgerInv, [Next]_vars PROVE LedgerInv'
    OBVIOUS
  <1>0. TypeOK /\ TablesInv
    BY DEF IInv
  <1> USE DEF brokerVars, dbVars, seen
  <1>1. ASSUME UNCHANGED <<order, cash, holding>> PROVE LedgerInv'
    <2>1. Filled' = Filled
      BY <1>1 DEF Filled
    <2>2. QED
      BY <1>1, <2>1, LedgerFrame
  <1>2. CASE UNCHANGED vars
    BY <1>1, <1>2 DEF vars
  <1>3. ASSUME NEW t \in Nat, NEW traded \in SUBSET Symbols, NEW prices \in [traded -> Prices],
               AdvanceTo(t, traded, prices)
        PROVE  LedgerInv'
    BY <1>1, <1>3 DEF AdvanceTo
  <1>4. CASE MarkCloses
    BY <1>1, <1>4 DEF MarkCloses
  <1>5. CASE Reconcile
    BY <1>1, <1>5 DEF Reconcile
  <1>6. CASE TickDone
    BY <1>1, <1>6 DEF TickDone
  <1>7. CASE ReconcileRemaining
    BY <1>1, <1>7 DEF ReconcileRemaining
  <1>8. ASSUME UNCHANGED <<cash, holding>>,
               \A o \in Orders :
                 \/ order'[o] = order[o]
                 \/ o \in Pending /\ Ended(order'[o], order[o], "canceled")
        PROVE  LedgerInv'
    <2>1. Filled' = Filled /\ \A o \in Filled : order'[o] = order[o]
      BY <1>8 DEF Filled, Pending, Ended
    <2>2. QED
      BY <1>8, <2>1, LedgerFrame
  <1>9. CASE CancelPending
    BY <1>0, <1>8, <1>9, CanceledOrders DEF CancelPending
  <1>10. ASSUME NEW target, NoOrder(target) PROVE LedgerInv'
    <2>1. UNCHANGED <<cash, holding>>
      BY <1>10 DEF NoOrder
    <2>2. QED
      BY <1>0, <1>8, <1>10, <2>1, NoOrderOrders
  <1>11. ASSUME NEW target \in Goals, SubmitOrder(target) PROVE LedgerInv'
    <2> DEFINE n == count + 1
    <2>1. /\ n \in Orders /\ \A o \in Orders \ {n} : order'[o] = order[o]
          /\ order'[n].status = "accepted"
      BY <1>0, <1>11, SubmitOrders
    <2>2. order[n].status = "none"
      <3>1. n > count
        BY <1>0 DEF TypeOK
      <3>2. QED
        BY <3>1, <2>1, <1>0 DEF TablesInv
    <2> HIDE DEF n
    <2>3. Filled' = Filled /\ \A o \in Filled : order'[o] = order[o]
      BY <2>1, <2>2 DEF Filled
    <2>4. QED
      BY <1>11, <2>3, LedgerFrame DEF SubmitOrder
  <1>12. ASSUME NEW o \in Orders, FillPending(o) PROVE LedgerInv'
    BY <1>12, LedgerFills
  <1>13. QED
    BY <1>0, <1>2, <1>3, <1>4, <1>5, <1>6, <1>7, <1>9, <1>10, <1>11, <1>12, StepCases

\* Cash and holdings are exactly what the filled orders explain, however many
\* orders and symbols: no fill is applied twice, none is lost.
THEOREM LedgerHolds == Spec => []LedgerMatches
  <1>1. Init => LedgerInv
    <2> SUFFICES ASSUME Init PROVE LedgerInv
      OBVIOUS
    <2>1. Filled = {} /\ \A s \in Symbols : FilledOf(s) = {}
      BY UnusedType DEF Init, Filled, FilledOf
    <2>2. Total(Outlay, Filled) = 0 /\ \A s \in Symbols : Total(Shares, FilledOf(s)) = 0
      BY <2>1, TotalEmpty
    <2>3. cash = InitialCapital /\ InitialCapital \in Nat /\ \A s \in Symbols : holding[s] = 0
      BY ReplayAssumption DEF Init
    <2>4. QED
      BY <2>2, <2>3 DEF LedgerInv
  <1>2. QED
    BY Inductive, <1>1, StepLedger, LedgerIs, PTL DEF Spec
-----------------------------------------------------------------------------
(* The mandatory flatten.                                                    *)

\* The tick is over for a symbol.
Processed(s) ==
  \/ pc = "advance"
  \/ pc = "symbols" /\ \A i \in 1..Len(Watchlist) : next <= i => Watchlist[i] # s

Closing(s) == \E o \in PendingOf(s) : order[o].kind = "close"
Out(s)     == holding[s] = 0 /\ PendingOf(s) = {}
Leaving(s) == Out(s) \/ (late[s] = 1 /\ Closing(s))

\* A bar counted as late is of this session's flatten window, and so is every
\* bar of its symbol after it.
LateInv ==
  \A s \in Symbols :
    /\ bar[s].t <= now
    /\ bar[s].t > 0 => bar[s].open \in Opens
    /\ late[s] >= 1 => /\ bar[s].t > 0 /\ Session(bar[s].t) = Session(now)
                       /\ Slot(bar[s].t) >= FlattenFrom

\* A symbol that had a bar in the flatten window is out of the market, or on
\* its way: after the tick of the first such bar its close is pending, and
\* after the second it has filled.
OutInv ==
  \A s \in Symbols : late[s] >= 1 =>
    /\ Processed(s) => Leaving(s)
    /\ ~Processed(s) /\ pc \in {"fill", "reconcile", "symbols"} =>
         /\ bar[s].t # now => Leaving(s)
         /\ bar[s].t = now => PendingOf(s) \subseteq toFill
         /\ bar[s].t = now /\ late[s] >= 2 => Out(s) \/ Closing(s)

\* What is open of a symbol when its turn comes is still waiting for a bar.
OpenInv ==
  pc = "symbols" => \A s \in Symbols : ~Processed(s) => OpenOrders(s) \subseteq Pending

FlatInv == LateInv /\ OutInv /\ OpenInv

\* Within a session slots come in the order of their timestamps.
LEMMA SlotsInOrder ==
  ASSUME NEW a \in Nat, NEW b \in Nat, a <= b, Session(a) = Session(b)
  PROVE  Slot(a) <= Slot(b)
  <1>1. BarsPerSession \in Nat \ {0} /\ a - 1 \in Int /\ b - 1 \in Int
    BY ReplayAssumption
  <1>2. \A n \in Int, m \in Nat \ {0} : n = m * (n \div m) + (n % m)
    BY Z3
  <1>3. /\ a - 1 = BarsPerSession * ((a - 1) \div BarsPerSession) + ((a - 1) % BarsPerSession)
        /\ b - 1 = BarsPerSession * ((b - 1) \div BarsPerSession) + ((b - 1) % BarsPerSession)
    BY <1>1, <1>2
  <1>4. (a - 1) \div BarsPerSession = (b - 1) \div BarsPerSession
    BY DEF Session
  <1> DEFINE c == BarsPerSession * ((a - 1) \div BarsPerSession)
  <1> DEFINE x == (a - 1) % BarsPerSession
  <1> DEFINE y == (b - 1) % BarsPerSession
  <1>5. c \in Int /\ x \in Int /\ y \in Int
    BY <1>1
  <1>6. a - 1 = c + x /\ b - 1 = c + y
    BY <1>3, <1>4
  <1> HIDE DEF c, x, y
  <1>7. x <= y
    BY <1>5, <1>6
  <1>8. QED
    BY <1>5, <1>7 DEF Slot, x, y

LEMMA StepLate == IInv /\ LateInv /\ [Next]_vars => LateInv'
  <1> SUFFICES ASSUME IInv, LateInv, [Next]_vars PROVE LateInv'
    OBVIOUS
  <1>0. TypeOK
    BY DEF IInv
  <1>1. ASSUME UNCHANGED <<bar, now, late>> PROVE LateInv'
    BY <1>1 DEF LateInv
  <1>2. ASSUME NEW t \in Nat, NEW traded \in SUBSET Symbols, NEW prices \in [traded -> Prices],
               AdvanceTo(t, traded, prices)
        PROVE  LateInv'
    <2>1. now' = t /\ t > now /\ now \in Nat
      BY <1>0, <1>2 DEF AdvanceTo, TypeOK
    <2> SUFFICES ASSUME NEW s \in Symbols
                 PROVE  /\ bar'[s].t <= now' /\ (bar'[s].t > 0 => bar'[s].open \in Opens)
                        /\ late'[s] >= 1 =>
                             /\ bar'[s].t > 0 /\ Session(bar'[s].t) = Session(now')
                             /\ Slot(bar'[s].t) >= FlattenFrom
      BY DEF LateInv
    <2>2. /\ bar[s].t \in Nat /\ bar[s].t <= now /\ late[s] \in Nat
          /\ bar[s].t > 0 => bar[s].open \in Opens
          /\ late[s] >= 1 => /\ bar[s].t > 0 /\ Session(bar[s].t) = Session(now)
                             /\ Slot(bar[s].t) >= FlattenFrom
      BY <1>0 DEF LateInv, TypeOK
    <2>3. late'[s] = (IF Session(t) = Session(now) THEN late[s] ELSE 0)
                     + (IF s \in traded /\ Slot(t) >= FlattenFrom THEN 1 ELSE 0)
      BY <1>2 DEF AdvanceTo, Later
    <2>4. CASE s \in traded
      <3>1. bar'[s].t = t /\ bar'[s].open \in Opens
        BY <1>2, <2>4 DEF AdvanceTo, Prices
      <3>2. ASSUME late'[s] >= 1 PROVE Slot(t) >= FlattenFrom
        <4>1. CASE Slot(t) >= FlattenFrom
          BY <4>1
        <4>2. CASE ~(Slot(t) >= FlattenFrom)
          <5>1. Session(t) = Session(now) /\ late[s] >= 1
            BY <2>2, <2>3, <3>2, <4>2
          <5>2. Slot(bar[s].t) <= Slot(t)
            BY <5>1, <2>1, <2>2, SlotsInOrder
          <5>3. Slot(bar[s].t) \in Int /\ Slot(t) \in Int /\ FlattenFrom \in Nat
            BY <2>2, ReplayAssumption DEF Slot
          <5>4. QED
            BY <5>1, <5>2, <5>3, <2>2
        <4>3. QED
          BY <4>1, <4>2
      <3>3. QED
        BY <2>1, <3>1, <3>2
    <2>5. CASE s \notin traded
      <3>1. bar'[s] = bar[s]
        BY <1>2, <2>5 DEF AdvanceTo
      <3>2. late'[s] >= 1 => Session(t) = Session(now) /\ late[s] >= 1
        BY <2>2, <2>3, <2>5
      <3>3. QED
        BY <2>1, <2>2, <3>1, <3>2
    <2>6. QED
      BY <2>4, <2>5
  <1>3. CASE ~ \E t \in Nat : \E traded \in SUBSET Symbols : \E prices \in [traded -> Prices] :
                 AdvanceTo(t, traded, prices)
    BY <1>0, <1>1, <1>3, StepCases DEF vars, MarkCloses, Reconcile, TickDone, CancelPending,
       ReconcileRemaining, FillPending, NoOrder, SubmitOrder, brokerVars, seen
  <1>4. QED
    BY <1>2, <1>3

\* What is decided about a symbol with a bar in the flatten window: nothing
\* when it is flat, and to close its position when it is not.
LEMMA LateDecision ==
  ASSUME IInv, LateInv, NEW s \in Symbols, late[s] >= 1, NEW target \in Targets(s),
         NEW STATE d, d = Assess(target, holding[s], Account, Quote(s))
  PROVE  /\ bar[s].t > 0
         /\ holding[s] = 0 => ~d.approved
         /\ holding[s] # 0 => /\ d.approved /\ d.kind = "close"
                              /\ d.side = IF holding[s] > 0 THEN "sell" ELSE "buy"
  <1>1. bar[s].t > 0 /\ Slot(bar[s].t) >= FlattenFrom
    BY DEF LateInv
  <1>2. CASE holding[s] # 0
    <2>1. target = "flat"
      BY <1>1, <1>2 DEF Targets, FlattenDue
    <2>2. ExposureOf(holding[s]) # "flat"
      BY <1>2 DEF IInv, TypeOK, ExposureOf
    <2>3. d = [approved |-> TRUE, side |-> IF holding[s] > 0 THEN "sell" ELSE "buy",
               qty |-> Size(holding[s]), kind |-> "close"]
      BY <1>2, <2>1, <2>2 DEF Assess
    <2>4. QED
      BY <1>1, <1>2, <2>3
  <1>3. CASE holding[s] = 0
    <2>1. ExposureOf(holding[s]) = "flat"
      BY <1>3 DEF ExposureOf
    <2>2. ~EntriesAllowed(s)
      <3>1. Slot(bar[s].t) \in Int
        <4>1. bar[s].t \in Nat
          BY DEF IInv, TypeOK
        <4>2. QED
          BY <4>1, ReplayAssumption DEF Slot
      <3>2. QED
        BY <1>1, <3>1, ReplayAssumption DEF EntriesAllowed
    <2>3. target \in {"unchanged", "flat"}
      BY <1>3, <2>1, <2>2 DEF Targets, FlattenDue
    <2>4. d = Rejected
      BY <2>1, <2>3 DEF Assess
    <2>5. QED
      BY <1>1, <1>3, <2>4 DEF Rejected
  <1>4. QED
    BY <1>2, <1>3

\* A symbol a step does not touch.
Untouched(s) ==
  /\ holding'[s] = holding[s] /\ late'[s] = late[s] /\ bar'[s] = bar[s] /\ now' = now
  /\ PendingOf(s)' = PendingOf(s)
  /\ \A o \in PendingOf(s) : order'[o] = order[o]

LEMMA UntouchedIs ==
  ASSUME NEW s \in Symbols, Untouched(s)
  PROVE  /\ Out(s)' <=> Out(s)
         /\ Closing(s)' <=> Closing(s)
         /\ Leaving(s)' <=> Leaving(s)
  <1>1. Out(s)' <=> Out(s)
    BY DEF Untouched, Out
  <1>2. Closing(s)' <=> Closing(s)
    BY DEF Untouched, Closing
  <1>3. QED
    BY <1>1, <1>2 DEF Untouched, Leaving
\* Bars bring a late symbol's order to its fill, and leave one that is on its
\* way where it is.
LEMMA AdvanceOut ==
  ASSUME IInv, FlatInv, NEW t \in Nat, NEW traded \in SUBSET Symbols,
         NEW prices \in [traded -> Prices], AdvanceTo(t, traded, prices)
  PROVE  OutInv'
  <1>1. /\ pc = "advance" /\ pc' = "fill" /\ now' = t /\ t > now /\ UNCHANGED order
        /\ UNCHANGED holding
    BY AdvanceFills DEF AdvanceTo
  <1> SUFFICES ASSUME NEW s \in Symbols, late'[s] >= 1
               PROVE  /\ bar'[s].t # now' => Leaving(s)'
                      /\ bar'[s].t = now' => PendingOf(s)' \subseteq toFill'
                      /\ bar'[s].t = now' /\ late'[s] >= 2 => Out(s)' \/ Closing(s)'
    BY <1>1 DEF OutInv, Processed
  <1>2. PendingOf(s)' = PendingOf(s)
    BY <1>1 DEF PendingOf, Pending
  <1>3. (Out(s)' <=> Out(s)) /\ (Closing(s)' <=> Closing(s))
    BY <1>1, <1>2 DEF Out, Closing
  <1>4. late[s] >= 1 => Leaving(s)
    BY <1>1 DEF FlatInv, OutInv, Processed
  <1>5. late'[s] = (IF Session(t) = Session(now) THEN late[s] ELSE 0)
                     + (IF s \in traded /\ Slot(t) >= FlattenFrom THEN 1 ELSE 0)
    BY DEF AdvanceTo, Later
  <1>6. late[s] \in Nat /\ bar[s].t <= now /\ bar[s].t \in Nat /\ now \in Nat
    BY DEF IInv, TypeOK, FlatInv, LateInv
  <1>7. CASE s \in traded
    <2>1. bar'[s].t = now'
      BY <1>1, <1>7 DEF AdvanceTo
    <2>2. PendingOf(s)' \subseteq toFill'
      BY <1>2, <1>7 DEF PendingOf, AdvanceTo
    <2>3. ASSUME late'[s] >= 2 PROVE Out(s)' \/ Closing(s)'
      <3>1. late[s] >= 1
        BY <1>5, <1>6, <2>3
      <3>2. QED
        BY <3>1, <1>3, <1>4 DEF Leaving
    <2>4. QED
      BY <2>1, <2>2, <2>3
  <1>8. CASE s \notin traded
    <2>1. bar'[s] = bar[s] /\ bar'[s].t # now'
      <3>1. bar'[s] = bar[s]
        BY <1>8 DEF AdvanceTo
      <3>2. QED
        BY <3>1, <1>1, <1>6
    <2>2. late[s] >= 1 /\ late'[s] = late[s]
      BY <1>5, <1>6, <1>8
    <2>3. QED
      BY <2>1, <2>2, <1>3, <1>4 DEF Leaving
  <1>9. QED
    BY <1>7, <1>8

\* A closing order is filled at the bar: unless that opens at zero, the broker
\* has no ground to refuse it, since it reduces the position.
LEMMA CloseFills ==
  ASSUME 0 \notin Opens, IInv, FlatInv, NEW o \in Orders, FillPending(o),
         order[o].kind = "close", NEW s \in Symbols, s = order[o].sym
  PROVE  Out(s)'
  <1> DEFINE shares == Dir(order[o].side) * order[o].qty
  <1> DEFINE price == FillPrice(order[o].side, bar[s].open)
  <1>0. TypeOK /\ PositionInv /\ FillInv
    BY DEF IInv
  <1>1. /\ o \in toFill /\ s \in Symbols /\ shares \in Int
        /\ \A p \in Orders \ {o} : order'[p] = order[p]
    BY <1>0, FillOrders DEF TypeOK, Order, Dir
  <1>2. o \in Pending /\ bar[s].t = now /\ now > 0 /\ holding[s] = -shares
    BY <1>0, <1>1 DEF FillInv, PositionInv, FillPending
  <1>3. bar[s].open > 0
    <2>1. bar[s].open \in Opens
      BY <1>1, <1>2 DEF FlatInv, LateInv
    <2>2. \A p \in Opens : p \in Nat /\ p # 0
      BY ReplayAssumption
    <2>3. QED
      BY <2>1, <2>2
  <1>4. ~Increases(o)
    <2>1. holding[s] + shares = 0
      BY <1>1, <1>2
    <2>2. Size(0) = 0 /\ ~(Size(0) > Size(holding[s]))
      BY <1>1, <1>2 DEF Size
    <2>3. QED
      BY <2>1, <2>2 DEF Increases
  <1>5. ~Refused(o, price)
    <2>1. bar[s].open \in Nat
      BY <1>0, <1>1 DEF TypeOK
    <2>2. QED
      BY <2>1, <1>3, <1>4 DEF Refused
  <1>6. order'[o].status = "filled" /\ holding' = [holding EXCEPT ![s] = @ + shares]
    BY <1>0, <1>5, FillOrders
  <1>7. holding'[s] = 0
    BY <1>0, <1>1, <1>2, <1>6 DEF TypeOK
  <1>8. PendingOf(s)' = {}
    <2>1. ASSUME NEW p \in Orders, p \in Pending', order'[p].sym = s PROVE FALSE
      <3>1. p # o /\ order'[p] = order[p]
        BY <1>1, <1>6, <2>1 DEF Pending
      <3>2. p \in Pending /\ order[p].sym = s
        BY <2>1, <3>1 DEF Pending
      <3>3. p \in OpenRows /\ o \in OpenRows
        BY <3>2, <1>0, <1>2 DEF PositionInv, OpenRows
      <3>4. QED
        BY <3>1, <3>2, <3>3, <1>0 DEF PositionInv
    <2>2. QED
      BY <2>1 DEF PendingOf, Pending
  <1>9. QED
    BY <1>7, <1>8 DEF Out

\* A fill takes a late symbol that was on its way out of the market.
LEMMA FillOut ==
  ASSUME 0 \notin Opens, IInv, FlatInv, NEW o \in Orders, FillPending(o)
  PROVE  OutInv'
  <1>0. TypeOK /\ PositionInv /\ FillInv
    BY DEF IInv
  <1>1. /\ o \in toFill /\ pc = "fill" /\ pc' = "fill" /\ toFill' = toFill \ {o}
        /\ order[o].sym \in Symbols /\ Same(order'[o], order[o])
        /\ \A p \in Orders \ {o} : order'[p] = order[p]
        /\ UNCHANGED <<bar, now, late>>
    BY <1>0, FillOrders DEF FillPending, TypeOK, Order, seen
  <1>2. o \in Pending /\ order'[o].status \in {"filled", "rejected"}
    BY <1>0, <1>1, FillOrders DEF FillInv, Ended
  <1> SUFFICES ASSUME NEW s \in Symbols, late'[s] >= 1
               PROVE  /\ bar'[s].t # now' => Leaving(s)'
                      /\ bar'[s].t = now' => PendingOf(s)' \subseteq toFill'
                      /\ bar'[s].t = now' /\ late'[s] >= 2 => Out(s)' \/ Closing(s)'
    BY <1>1 DEF OutInv, Processed
  <1>3. /\ bar[s].t # now => Leaving(s)
        /\ bar[s].t = now => PendingOf(s) \subseteq toFill
        /\ bar[s].t = now /\ late[s] >= 2 => Out(s) \/ Closing(s)
    BY <1>1 DEF FlatInv, OutInv, Processed
  <1>4. CASE s # order[o].sym
    <2>1. PendingOf(s)' = PendingOf(s) /\ o \notin PendingOf(s)
      BY <1>1, <1>2, <1>4 DEF PendingOf, Pending, Same
    <2>2. holding'[s] = holding[s]
      BY <1>0, <1>4, FillOrders DEF TypeOK
    <2>3. \A p \in PendingOf(s) : order'[p] = order[p]
      BY <1>1, <2>1 DEF PendingOf, Pending
    <2>4. Untouched(s)
      BY <1>1, <2>1, <2>2, <2>3 DEF Untouched
    <2>5. QED
      BY <1>1, <1>3, <2>1, <2>4, UntouchedIs
  <1>5. CASE s = order[o].sym
    <2>1. bar[s].t = now
      BY <1>0, <1>1, <1>5 DEF FillInv
    <2>2. PendingOf(s)' \subseteq PendingOf(s) \ {o}
      BY <1>1, <1>2 DEF PendingOf, Pending
    <2>3. ASSUME late[s] >= 2 PROVE Out(s)'
      <3>1. Closing(s)
        BY <1>2, <1>3, <1>5, <2>1, <2>3 DEF Out, PendingOf
      <3>2. PICK p \in PendingOf(s) : order[p].kind = "close"
        BY <3>1 DEF Closing
      <3>3. p = o
        <4>1. p \in OpenRows /\ o \in OpenRows
          BY <1>0, <1>2 DEF PendingOf, Pending, PositionInv, OpenRows
        <4>2. QED
          BY <4>1, <1>0, <1>5 DEF PositionInv, PendingOf
      <3>4. QED
        BY <3>2, <3>3, <1>5, CloseFills
    <2>4. QED
      BY <1>1, <1>3, <2>1, <2>2, <2>3
  <1>6. QED
    BY <1>4, <1>5
\* A symbol's turn in the watchlist is its own.
LEMMA TurnIs ==
  ASSUME TypeOK, Processing, pc' = pc, next' = next + 1, NEW s \in Symbols
  PROVE  /\ s = Sym => ~Processed(s) /\ Processed(s)'
         /\ s # Sym => (Processed(s)' <=> Processed(s))
  <1>1. next \in 1..Len(Watchlist) /\ pc = "symbols" /\ pc' = "symbols"
    BY SymType DEF Processing
  <1>2. \A i \in 1..Len(Watchlist) : next + 1 <= i => next <= i /\ i # next
    BY <1>1
  <1>3. \A i \in 1..Len(Watchlist) : i # next => Watchlist[i] # Sym
    BY <1>1, ReplayAssumption DEF Sym
  <1>4. ~Processed(Sym)
    BY <1>1 DEF Processed, Sym
  <1>5. \A i \in 1..Len(Watchlist) : next' <= i => Watchlist[i] # Sym
    BY <1>2, <1>3
  <1>6. ASSUME s # Sym
        PROVE  (\A i \in 1..Len(Watchlist) : next' <= i => Watchlist[i] # s)
                 <=> (\A i \in 1..Len(Watchlist) : next <= i => Watchlist[i] # s)
    <2>1. \A i \in 1..Len(Watchlist) : next <= i <=> next + 1 <= i \/ i = next
      BY <1>1
    <2>2. Watchlist[next] # s
      BY <1>6 DEF Sym
    <2>3. QED
      BY <2>1, <2>2
  <1>7. Processed(s)' <=> \A i \in 1..Len(Watchlist) : next' <= i => Watchlist[i] # s
    BY <1>1 DEF Processed
  <1>8. Processed(s) <=> \A i \in 1..Len(Watchlist) : next <= i => Watchlist[i] # s
    BY <1>1 DEF Processed
  <1>9. QED
    BY <1>4, <1>5, <1>6, <1>7, <1>8

\* An order of the flatten is submitted at the first late bar, and no other
\* order of a late symbol is.
LEMMA TurnOut ==
  ASSUME IInv, FlatInv, NEW target \in Goals, NoOrder(target) \/ SubmitOrder(target),
         NEW s \in Symbols, s = Sym, late[s] >= 1
  PROVE  Leaving(s)'
  <1> DEFINE d == Assess(target, holding[s], Account, Quote(s))
  <1>0. TypeOK /\ PositionInv /\ FillInv
    BY DEF IInv
  <1>1. Processing /\ pc = "symbols" /\ toFill = {} /\ target \in Targets(s)
        /\ UNCHANGED <<pc, bar, now, late, holding>> /\ next' = next + 1
    BY <1>0 DEF NoOrder, SubmitOrder, Processing, FillInv, seen
  <1>2. ~Processed(s)
    <2>1. pc' = pc /\ next' = next + 1 /\ Processing
      BY <1>1
    <2>2. QED
      BY <1>0, <2>1, TurnIs
  <1>3. /\ bar[s].t # now => Leaving(s)
        /\ bar[s].t = now => PendingOf(s) = {}
        /\ bar[s].t = now /\ late[s] >= 2 => Out(s)
        /\ OpenOrders(s) \subseteq Pending
    <2>1. /\ bar[s].t # now => Leaving(s)
          /\ bar[s].t = now => PendingOf(s) \subseteq toFill
          /\ bar[s].t = now /\ late[s] >= 2 => Out(s) \/ Closing(s)
      BY <1>1, <1>2 DEF FlatInv, OutInv
    <2>2. OpenOrders(s) \subseteq Pending
      BY <1>1, <1>2 DEF FlatInv, OpenInv
    <2>3. QED
      BY <1>1, <2>1, <2>2 DEF Closing
  <1>4. /\ bar[s].t > 0
        /\ holding[s] = 0 => ~d.approved
        /\ holding[s] # 0 => /\ d.approved /\ d.kind = "close"
                             /\ d.side = IF holding[s] > 0 THEN "sell" ELSE "buy"
    <2> HIDE DEF d
    <2>1. d = Assess(target, holding[s], Account, Quote(s))
      BY DEF d
    <2>2. QED
      BY <1>1, <2>1, LateDecision DEF FlatInv
  <1>5. \A o \in PendingOf(s) : /\ o \in Orders /\ order[o].sym = s /\ o \in OpenOrders(s)
                                /\ order[o].kind = "close" =>
                                     /\ holding[s] # 0
                                     /\ order[o].side = IF holding[s] > 0 THEN "sell" ELSE "buy"
    <2>1. ASSUME NEW o \in PendingOf(s)
          PROVE  /\ o \in Orders /\ order[o].sym = s /\ o \in OpenOrders(s)
                 /\ order[o].side \in {"buy", "sell"} /\ order[o].qty \in Nat
                 /\ order[o].qty > 0
                 /\ holding[s] = IF order[o].kind = "entry" THEN 0
                                 ELSE -(Dir(order[o].side) * order[o].qty)
      BY <1>0 DEF PendingOf, Pending, PositionInv, OpenOrders, OpenRows, TypeOK, Order
    <2>2. QED
      BY <2>1 DEF Dir
  <1>6. CASE holding[s] = 0
    <2>1. Out(s)
      <3>1. ~Closing(s)
        BY <1>5, <1>6 DEF Closing
      <3>2. QED
        BY <1>3, <1>6, <3>1 DEF Leaving, Out
    <2>2. NoOrder(target) /\ order' = order
      <3>1. ~SubmitOrder(target)
        BY <1>4, <1>6 DEF SubmitOrder
      <3>2. order' = [o \in Orders |-> order[o]]
        BY <3>1, <1>4, <1>6 DEF NoOrder
      <3>3. QED
        BY <3>1, <3>2, <1>0 DEF TypeOK
    <2>3. PendingOf(s)' = PendingOf(s)
      BY <2>2 DEF PendingOf, Pending
    <2>4. QED
      BY <1>1, <2>1, <2>3 DEF Leaving, Out
  <1>7. CASE holding[s] # 0 /\ bar[s].t # now
    <2>1. late[s] = 1 /\ Closing(s)
      BY <1>3, <1>7 DEF Leaving, Out
    <2>2. NoOrder(target)
      BY <1>5, <2>1 DEF Closing, SubmitOrder
    <2>3. \A o \in Orders : order'[o] = order[o]
      <3>1. \A o \in OpenOrders(s) : order[o].side = d.side
        <4>1. PICK p \in PendingOf(s) : order[p].kind = "close"
          BY <2>1 DEF Closing
        <4>2. \A o \in OpenOrders(s) : o = p
          BY <1>0, <1>5, <4>1 DEF PositionInv, OpenOrders
        <4>3. QED
          BY <1>4, <1>5, <1>7, <4>1, <4>2
      <3>2. order' = [o \in Orders |->
              IF d.approved /\ bar[s].t > 0 /\ o \in OpenOrders(s) \cap Pending
                 /\ order[o].side # d.side
              THEN [order[o] EXCEPT !.status = "canceled"] ELSE order[o]]
        BY <2>2 DEF NoOrder
      <3> HIDE DEF d
      <3>3. QED
        BY <3>1, <3>2
    <2>4. PendingOf(s)' = PendingOf(s)
      BY <2>3 DEF PendingOf, Pending
    <2>5. \A o \in PendingOf(s) : order'[o] = order[o]
      BY <2>3 DEF PendingOf, Pending
    <2>6. Closing(s)'
      BY <2>1, <2>4, <2>5 DEF Closing
    <2>7. QED
      BY <1>1, <2>1, <2>6 DEF Leaving
  <1>8. CASE holding[s] # 0 /\ bar[s].t = now
    <2>1. late[s] = 1 /\ PendingOf(s) = {} /\ OpenOrders(s) = {}
      <3>1. ~(late[s] >= 2)
        BY <1>3, <1>8 DEF Out
      <3>2. late[s] \in Nat
        BY <1>0 DEF TypeOK
      <3>3. OpenOrders(s) = {}
        BY <1>3, <1>8 DEF OpenOrders, PendingOf
      <3>4. QED
        BY <3>1, <3>2, <3>3, <1>3, <1>8
    <2>2. SubmitOrder(target)
      <3>1. ~NoOrder(target)
        BY <1>4, <1>8, <2>1 DEF NoOrder
      <3>2. QED
        BY <3>1
    <2>3. /\ count + 1 \in Orders /\ order'[count + 1].status = "accepted"
          /\ order'[count + 1].sym = s /\ order'[count + 1].kind = "close"
      <3>1. /\ count + 1 \in Orders /\ order'[count + 1].status = "accepted"
            /\ order'[count + 1].sym = s
            /\ order'[count + 1].kind = "entry" <=> holding[s] = 0
            /\ order'[count + 1] \in Order
        BY <1>0, <2>2, SubmitOrders
      <3>2. QED
        BY <3>1, <1>8 DEF Order
    <2>4. Closing(s)'
      BY <2>3 DEF Closing, PendingOf, Pending
    <2>5. QED
      BY <1>1, <2>1, <2>4 DEF Leaving
  <1>9. QED
    BY <1>6, <1>7, <1>8

\* A turn leaves the other symbols alone.
LEMMA TurnUntouched ==
  ASSUME IInv, NEW target \in Goals, NoOrder(target) \/ SubmitOrder(target),
         NEW s \in Symbols, s # Sym
  PROVE  Untouched(s) /\ OpenOrders(s)' = OpenOrders(s)
         /\ \A o \in Orders : order[o].sym = s /\ order[o].status # "none" => order'[o] = order[o]
  <1>0. TypeOK /\ TablesInv
    BY DEF IInv
  <1>1. UNCHANGED <<bar, now, late, holding>>
    BY DEF NoOrder, SubmitOrder, seen
  <1>2. \A o \in Orders : \/ order'[o] = order[o] /\ row'[o] = row[o]
                          \/ /\ order[o].sym = s => order[o].status = "none" /\ row[o] = "none"
                             /\ order'[o].sym = Sym
    <2>1. CASE NoOrder(target)
      <3>1. \A o \in Orders : order'[o] = order[o] \/ (order[o].sym = Sym /\ order'[o].sym = Sym)
        BY <1>0, <2>1, NoOrderOrders DEF Ended, Same
      <3>2. row' = row
        BY <2>1 DEF NoOrder, dbVars
      <3>3. QED
        BY <3>1, <3>2
    <2>2. CASE SubmitOrder(target)
      <3>1. /\ count + 1 \in Orders /\ order'[count + 1].sym = Sym
            /\ \A o \in Orders \ {count + 1} : order'[o] = order[o]
        BY <1>0, <2>2, SubmitOrders
      <3>2. \A o \in Orders \ {count + 1} : row'[o] = row[o]
        BY <1>0, <2>2 DEF SubmitOrder, TypeOK
      <3>3. order[count + 1].status = "none" /\ row[count + 1] = "none"
        <4>1. count + 1 > count
          BY <1>0 DEF TypeOK
        <4>2. QED
          BY <4>1, <3>1, <1>0 DEF TablesInv
      <3>4. QED
        BY <3>1, <3>2, <3>3
    <2>3. QED
      BY <2>1, <2>2
  <1>3. PendingOf(s)' = PendingOf(s) /\ OpenOrders(s)' = OpenOrders(s)
    BY <1>2 DEF PendingOf, Pending, OpenOrders, OpenRows
  <1>4. \A o \in Orders : order[o].sym = s /\ order[o].status # "none" => order'[o] = order[o]
    BY <1>2
  <1>5. QED
    BY <1>1, <1>3, <1>4 DEF Untouched, PendingOf, Pending
LEMMA StepOpen == IInv /\ FlatInv /\ [Next]_vars => OpenInv'
  <1> SUFFICES ASSUME IInv, FlatInv, [Next]_vars, pc' = "symbols", NEW s \in Symbols,
                      ~Processed(s)'
               PROVE  OpenOrders(s)' \subseteq Pending'
    BY DEF OpenInv
  <1>0. TypeOK /\ PositionInv
    BY DEF IInv
  <1>1. CASE UNCHANGED vars
    <2>1. ~Processed(s) /\ pc = "symbols"
      BY <1>1 DEF vars, Processed
    <2>2. UNCHANGED <<order, row>>
      BY <1>1 DEF vars, brokerVars, dbVars
    <2>3. QED
      BY <2>1, <2>2 DEF FlatInv, OpenInv, OpenOrders, OpenRows, Pending
  <1>2. CASE Reconcile
    <2>1. \A o \in Orders : row'[o] = "accepted" => order[o].status = "accepted"
      BY <1>2 DEF Reconcile, ReconcileFills, OpenRows
    <2>2. UNCHANGED order
      BY <1>2 DEF Reconcile, brokerVars
    <2>3. QED
      BY <2>1, <2>2 DEF OpenOrders, OpenRows, Pending
  <1>3. ASSUME NEW target \in Goals, NoOrder(target) \/ SubmitOrder(target)
        PROVE  OpenOrders(s)' \subseteq Pending'
    <2>1. Processing /\ pc' = pc /\ next' = next + 1 /\ pc = "symbols"
      BY <1>3 DEF NoOrder, SubmitOrder, Processing
    <2>2. s # Sym /\ ~Processed(s)
      BY <1>0, <2>1, TurnIs
    <2>3. OpenOrders(s) \subseteq Pending
      BY <2>1, <2>2 DEF FlatInv, OpenInv
    <2>4. OpenOrders(s)' = OpenOrders(s)
          /\ \A o \in Orders : order[o].sym = s /\ order[o].status # "none" => order'[o] = order[o]
      BY <1>3, <2>2, TurnUntouched
    <2>5. \A o \in OpenOrders(s) : o \in Orders /\ order[o].sym = s /\ o \in Pending
      BY <2>3 DEF OpenOrders, Pending
    <2>6. \A o \in OpenOrders(s) : o \in Pending'
      BY <2>4, <2>5 DEF Pending
    <2>7. QED
      BY <2>4, <2>6
  <1>4. QED
    BY <1>0, <1>1, <1>2, <1>3, StepCases DEF AdvanceTo, MarkCloses, TickDone, CancelPending,
       ReconcileRemaining, FillPending

\* With no bar opening at zero, late symbols stay on their way out.
LEMMA StepOut == 0 \notin Opens /\ IInv /\ FlatInv /\ [Next]_vars => OutInv'
  <1> SUFFICES ASSUME 0 \notin Opens, IInv, FlatInv, [Next]_vars PROVE OutInv'
    OBVIOUS
  <1>0. TypeOK /\ PositionInv /\ FillInv
    BY DEF IInv
  <1> USE DEF brokerVars, dbVars, seen
  <1>1. ASSUME UNCHANGED <<order, holding, bar, now, late>>, NEW s \in Symbols
        PROVE  Untouched(s)
    BY <1>1 DEF Untouched, PendingOf, Pending
  <1>2. CASE UNCHANGED vars
    <2> SUFFICES ASSUME NEW s \in Symbols, late'[s] >= 1
                 PROVE  /\ Processed(s)' => Leaving(s)'
                        /\ ~Processed(s)' /\ pc' \in {"fill", "reconcile", "symbols"} =>
                             /\ bar'[s].t # now' => Leaving(s)'
                             /\ bar'[s].t = now' => PendingOf(s)' \subseteq toFill'
                             /\ bar'[s].t = now' /\ late'[s] >= 2 => Out(s)' \/ Closing(s)'
      BY DEF OutInv
    <2>1. Untouched(s)
      BY <1>1, <1>2 DEF vars
    <2>2. Processed(s)' <=> Processed(s)
      BY <1>2 DEF vars, Processed
    <2>3. UNCHANGED <<pc, bar, now, late, toFill>> /\ PendingOf(s)' = PendingOf(s)
      BY <1>2, <2>1 DEF vars, Untouched
    <2>4. QED
      BY <2>1, <2>2, <2>3, UntouchedIs DEF FlatInv, OutInv
  <1>3. ASSUME NEW t \in Nat, NEW traded \in SUBSET Symbols, NEW prices \in [traded -> Prices],
               AdvanceTo(t, traded, prices)
        PROVE  OutInv'
    BY <1>3, AdvanceOut
  <1>4. CASE MarkCloses
    <2> SUFFICES ASSUME NEW s \in Symbols, late'[s] >= 1
                 PROVE  /\ bar'[s].t # now' => Leaving(s)'
                        /\ bar'[s].t = now' => PendingOf(s)' \subseteq toFill'
                        /\ bar'[s].t = now' /\ late'[s] >= 2 => Out(s)' \/ Closing(s)'
      BY <1>4 DEF OutInv, MarkCloses, Processed
    <2>1. Untouched(s) /\ UNCHANGED <<bar, now, late, toFill>>
      BY <1>1, <1>4 DEF MarkCloses
    <2>2. ~Processed(s) /\ pc = "fill" /\ late[s] >= 1 /\ PendingOf(s)' = PendingOf(s)
      BY <1>4, <2>1 DEF MarkCloses, Processed, Untouched
    <2>3. QED
      BY <2>1, <2>2, UntouchedIs DEF FlatInv, OutInv
  <1>5. CASE Reconcile
    <2> SUFFICES ASSUME NEW s \in Symbols, late'[s] >= 1
                 PROVE  /\ Processed(s)' => Leaving(s)'
                        /\ bar'[s].t # now' => Leaving(s)'
                        /\ bar'[s].t = now' => PendingOf(s)' \subseteq toFill'
                        /\ bar'[s].t = now' /\ late'[s] >= 2 => Out(s)' \/ Closing(s)'
      BY DEF OutInv
    <2>1. Untouched(s) /\ UNCHANGED <<bar, now, late, toFill>>
      BY <1>1, <1>5 DEF Reconcile
    <2>2. ~Processed(s) /\ pc = "reconcile" /\ late[s] >= 1 /\ PendingOf(s)' = PendingOf(s)
      BY <1>5, <2>1 DEF Reconcile, Processed, Untouched
    <2>3. ASSUME Processed(s)' PROVE Leaving(s)'
      <3>1. \A i \in 1..Len(Watchlist) : Watchlist[i] # s
        <4>1. pc' = "symbols" /\ next' = 1
          BY <1>5 DEF Reconcile
        <4>2. \A i \in 1..Len(Watchlist) : 1 <= i
          BY ConstantsType
        <4>3. QED
          BY <2>3, <4>1, <4>2 DEF Processed
      <3>2. s \notin Listed
        BY <3>1 DEF Listed
      <3>3. Out(s)
        BY <1>0, <3>2 DEF PositionInv, Out, PendingOf, Pending
      <3>4. QED
        BY <2>1, <3>3, UntouchedIs DEF Leaving
    <2>4. QED
      BY <2>1, <2>2, <2>3, UntouchedIs DEF FlatInv, OutInv
  <1>6. CASE TickDone
    <2> SUFFICES ASSUME NEW s \in Symbols, late'[s] >= 1 PROVE Leaving(s)'
      BY <1>6 DEF OutInv, TickDone, Processed
    <2>1. Untouched(s) /\ UNCHANGED late
      BY <1>1, <1>6 DEF TickDone
    <2>2. Processed(s)
      <3>1. pc = "symbols" /\ next > Len(Watchlist)
        BY <1>6 DEF TickDone
      <3>2. \A i \in 1..Len(Watchlist) : ~(next <= i)
        BY <1>0, <3>1, ConstantsType DEF TypeOK
      <3>3. QED
        BY <3>1, <3>2 DEF Processed
    <2>3. QED
      BY <2>1, <2>2, UntouchedIs DEF FlatInv, OutInv
  <1>7. CASE CancelPending
    BY <1>7 DEF CancelPending, OutInv, Processed
  <1>8. CASE ReconcileRemaining
    BY <1>8 DEF ReconcileRemaining, OutInv, Processed
  <1>9. ASSUME NEW o \in Orders, FillPending(o) PROVE OutInv'
    BY <1>9, FillOut
  <1>10. ASSUME NEW target \in Goals, NoOrder(target) \/ SubmitOrder(target) PROVE OutInv'
    <2>1. Processing /\ pc' = pc /\ next' = next + 1 /\ pc = "symbols"
          /\ UNCHANGED <<toFill, late, bar, now>>
      BY <1>10 DEF NoOrder, SubmitOrder, Processing
    <2> SUFFICES ASSUME NEW s \in Symbols, late'[s] >= 1
                 PROVE  /\ Processed(s)' => Leaving(s)'
                        /\ ~Processed(s)' =>
                             /\ bar'[s].t # now' => Leaving(s)'
                             /\ bar'[s].t = now' => PendingOf(s)' \subseteq toFill'
                             /\ bar'[s].t = now' /\ late'[s] >= 2 => Out(s)' \/ Closing(s)'
      BY DEF OutInv
    <2>2. CASE s = Sym
      <3>1. Processed(s)'
        BY <1>0, <2>1, <2>2, TurnIs
      <3>2. Leaving(s)'
        BY <1>10, <2>1, <2>2, TurnOut
      <3>3. QED
        BY <3>1, <3>2
    <2>3. CASE s # Sym
      <3>1. Processed(s)' <=> Processed(s)
        BY <1>0, <2>1, <2>3, TurnIs
      <3>2. Untouched(s)
        BY <1>10, <2>3, TurnUntouched
      <3>3. PendingOf(s)' = PendingOf(s)
        BY <3>2 DEF Untouched
      <3>4. QED
        BY <2>1, <3>1, <3>2, <3>3, UntouchedIs DEF FlatInv, OutInv
    <2>4. QED
      BY <2>2, <2>3
  <1>11. QED
    BY <1>0, <1>2, <1>3, <1>4, <1>5, <1>6, <1>7, <1>8, <1>9, <1>10, StepCases

\* As long as no bar opens at zero, where the broker refuses every fill, a
\* position is only held into the next session in a symbol that had fewer than
\* two bars in the flatten window: whatever the bars, the signals and the risk
\* manager do, the code that runs at the end of the day closes the position at
\* the first and is filled at the second.
THEOREM FlatWheneverBarsAllow ==
  ASSUME 0 \notin Opens
  PROVE  Spec => FlatGivenBars
  <1>1. Init => FlatInv
    <2> SUFFICES ASSUME Init PROVE FlatInv
      OBVIOUS
    <2>1. \A s \in Symbols : late[s] = 0 /\ bar[s].t = 0
      BY DEF Init
    <2>2. pc = "advance" /\ now = 0
      BY DEF Init
    <2>3. QED
      BY <2>1, <2>2 DEF FlatInv, LateInv, OutInv, OpenInv
  <1>2. IInv /\ FlatInv /\ [Next]_vars => FlatInv'
    BY StepLate, StepOut, StepOpen DEF FlatInv
  <1>3. IInv /\ FlatInv /\ [Next]_vars =>
          [now > 0 /\ Session(now') # Session(now) => \A s \in Held : late[s] < 2]_vars
    <2> SUFFICES ASSUME IInv, FlatInv, [Next]_vars, Session(now') # Session(now),
                        NEW s \in Held
                 PROVE  late[s] < 2
      OBVIOUS
    <2>1. TypeOK /\ s \in Symbols /\ holding[s] # 0
      BY DEF IInv, Held
    <2>2. now' # now
      OBVIOUS
    <2>3. pc = "advance"
      BY <2>1, <2>2, StepCases DEF vars, AdvanceTo, MarkCloses, Reconcile, TickDone,
         CancelPending, ReconcileRemaining, FillPending, NoOrder, SubmitOrder, seen
    <2>4. late[s] >= 1 => Leaving(s)
      BY <2>1, <2>3 DEF FlatInv, OutInv, Processed
    <2>5. late[s] \in Nat
      BY <2>1 DEF TypeOK
    <2>6. QED
      BY <2>1, <2>4, <2>5 DEF Leaving, Out
  <1>4. QED
    BY Inductive, <1>1, <1>2, <1>3, PTL DEF Spec, FlatGivenBars
=============================================================================
