---------------------------- MODULE FrontEndProofs ----------------------------
(***************************************************************************)
(* Proofs about what stands between a user and a command.                  *)
(*                                                                         *)
(* ConfigLayers, for every project, extends graph and depth: each file is  *)
(* merged once and after its parents, and every value of a resolved        *)
(* configuration is credited to the layer that gives it.                   *)
(*                                                                         *)
(* TuiApp, for every catalog and every user: the loop that is confirmed is *)
(* the one that was reviewed, and no line a command writes is lost.        *)
(***************************************************************************)
EXTENDS ConfigLayers, TuiApp, FiniteSetTheorems, SequenceTheorems, TLAPS

-----------------------------------------------------------------------------
(* Resolving a profile.                                                    *)

Universe == "universe"
Phases == {"collect", "merge", "overrides", "universe", "done", "error"}
Frames == [file : Files, todo : Seq(STRING)]

LayersTypeOK ==
  /\ project \in Projects /\ phase \in Phases
  /\ stack \in Seq(Frames) /\ visited \in SUBSET Files /\ layers \in Seq(Files)
  /\ count \in 0..Len(layers)
  /\ DOMAIN merged \subseteq Paths /\ DOMAIN prov \subseteq Paths

\* What is collected: each file once, after its parents.
CollectedInv ==
  /\ visited = {layers[i] : i \in DOMAIN layers}
  /\ \A i, j \in DOMAIN layers : i # j => layers[i] # layers[j]
  /\ \A i \in DOMAIN layers : \A f \in Parents(layers[i]) : \E j \in 1..(i - 1) : layers[j] = f

\* What is being visited: a chain from the profile, of files not collected yet.
\* A parent of one of them is still to do, collected, or the next of the chain.
VisitingInv ==
  phase = "collect" =>
    /\ stack # <<>> /\ stack[1].file = Profile
    /\ \A i \in DOMAIN stack : stack[i].file \notin visited
    /\ \A i, j \in DOMAIN stack : i # j => stack[i].file # stack[j].file
    /\ \A i \in DOMAIN stack : \A f \in Parents(stack[i].file) :
         \/ f \in ToSet(stack[i].todo) \/ f \in visited
         \/ i < Len(stack) /\ f = stack[i + 1].file

\* How far the merge is.
ProgressInv ==
  /\ phase = "collect" => count = 0 /\ merged = NoLeaves /\ prov = NoLeaves
  /\ phase = "merge" => count < Len(layers)
  /\ phase \in {"overrides", "universe", "done"} => count = Len(layers)
  /\ phase \notin {"collect", "error"} => layers # <<>> /\ Last(layers) = Profile

Attributed(r, p) ==
  p \in DOMAIN r \/ \E a \in Atomic : AtOrBelow(a, p) /\ a \in DOMAIN r

\* The sources that may be credited by now.
Sources ==
  {layers[i] : i \in 1..count} \cup
  (IF phase \in {"universe", "done"} THEN {Set} ELSE {}) \cup
  (IF phase = "done" THEN {Universe} ELSE {})

\* The source of leaf p gives its value, and none of those merged later says
\* anything else of it.
Credit(p) ==
  /\ Attributed(prov, p) /\ Source(p) \in Sources
  /\ p \in DOMAIN Content(Source(p)) /\ Content(Source(p))[p] = merged[p]
  /\ \A i, j \in 1..count :
       /\ layers[i] = Source(p) /\ i < j
       /\ p \in DOMAIN project.body[layers[j]]
       => project.body[layers[j]][p] = Empty
  /\ phase \in {"universe", "done"} /\ p \in DOMAIN Overrides
     /\ Overrides[p] # Empty => Source(p) \in {Set, Universe}

CreditInv == phase # "error" => \A p \in DOMAIN merged : Credit(p)

LayersInv == LayersTypeOK /\ CollectedInv /\ VisitingInv /\ ProgressInv /\ CreditInv
-----------------------------------------------------------------------------
(* Sequences and paths. *)

LEMMA FrontLast ==
  ASSUME NEW S, NEW s \in Seq(S), s # <<>>
  PROVE  /\ Front(s) \in Seq(S) /\ Len(Front(s)) = Len(s) - 1
         /\ \A i \in 1..(Len(s) - 1) : Front(s)[i] = s[i]
         /\ Len(s) \in Nat \ {0} /\ Last(s) = s[Len(s)] /\ Last(s) \in S
  <1>1. Len(s) \in Nat \ {0} /\ \A i \in 1..Len(s) : s[i] \in S
    BY EmptySeq, ElementOfSeq
  <1>2. /\ SubSeq(s, 1, Len(s) - 1) \in Seq(S)
        /\ Len(SubSeq(s, 1, Len(s) - 1)) = Len(s) - 1
        /\ \A i \in 1..(Len(s) - 1) : SubSeq(s, 1, Len(s) - 1)[i] = s[i]
    <2> DEFINE n == Len(s) - 1
    <2>1. n \in Nat /\ \A i \in 1..n : s[i] \in S
      BY <1>1
    <2> HIDE DEF n
    <2>2. /\ SubSeq(s, 1, n) \in Seq(S)
          /\ Len(SubSeq(s, 1, n)) = IF 1 <= n THEN n - 1 + 1 ELSE 0
          /\ \A i \in 1..(n - 1 + 1) : SubSeq(s, 1, n)[i] = s[1 + i - 1]
      BY <2>1, SubSeqProperties
    <2>3. /\ SubSeq(s, 1, n) \in Seq(S) /\ Len(SubSeq(s, 1, n)) = n
          /\ \A i \in 1..n : SubSeq(s, 1, n)[i] = s[i]
      BY <2>1, <2>2
    <2> QED  BY <2>3 DEF n
  <1> QED  BY <1>1, <1>2 DEF Front, Last

LEMMA HeadTail ==
  ASSUME NEW S, NEW s \in Seq(S), s # <<>>
  PROVE  /\ Len(s) \in Nat \ {0} /\ DOMAIN s = 1..Len(s) /\ Head(s) = s[1]
         /\ Tail(s) \in Seq(S) /\ Len(Tail(s)) = Len(s) - 1
         /\ DOMAIN Tail(s) = 1..(Len(s) - 1)
         /\ \A i \in 1..(Len(s) - 1) : Tail(s)[i] = s[i + 1]
  OBVIOUS

\* A prefix has the same elements as far as it goes.
LEMMA PrefixElements ==
  ASSUME NEW p \in Paths, NEW q \in Paths
  PROVE  AtOrBelow(p, q) <=> Len(p) <= Len(q) /\ \A i \in 1..Len(p) : p[i] = q[i]
  <1> USE DEF Paths
  <1>1. /\ Len(p) \in Nat /\ Len(q) \in Nat
        /\ \A i \in 1..Len(p) : p[i] \in STRING
        /\ \A i \in 1..Len(q) : q[i] \in STRING
    OBVIOUS
  <1>2. SubSeq(p, 1, Len(p)) = p
    BY SubSeqFull
  <1>3. ASSUME Len(p) <= Len(q)
        PROVE  /\ SubSeq(q, 1, Len(p)) \in Seq(STRING)
               /\ Len(SubSeq(q, 1, Len(p))) = Len(p)
               /\ \A i \in 1..Len(p) : SubSeq(q, 1, Len(p))[i] = q[i]
    <2>1. \A i \in 1..Len(p) : q[i] \in STRING
      BY <1>1, <1>3
    <2> QED  BY <1>1, <2>1, SubSeqProperties
  <1>4. ASSUME Len(p) <= Len(q)
        PROVE  (p = SubSeq(q, 1, Len(p))) <=> \A i \in 1..Len(p) : p[i] = q[i]
    BY <1>3, SeqEqual
  <1>5. p = q => Len(p) <= Len(q) /\ \A i \in 1..Len(p) : p[i] = q[i]
    BY <1>1
  <1> QED  BY <1>2, <1>4, <1>5 DEF AtOrBelow, Below, IsStrictPrefix, IsPrefix

LEMMA PrefixTransitive ==
  ASSUME NEW p \in Paths, NEW q \in Paths, NEW r \in Paths, AtOrBelow(p, q), AtOrBelow(q, r)
  PROVE  AtOrBelow(p, r)
  <1>1. /\ Len(p) <= Len(q) /\ \A i \in 1..Len(p) : p[i] = q[i]
        /\ Len(q) <= Len(r) /\ \A i \in 1..Len(q) : q[i] = r[i]
    BY PrefixElements
  <1>2. Len(p) \in Nat /\ Len(q) \in Nat /\ Len(r) \in Nat
    BY DEF Paths
  <1>3. Len(p) <= Len(r) /\ \A i \in 1..Len(p) : p[i] = r[i]
    BY <1>1, <1>2
  <1> QED  BY <1>3, PrefixElements

\* No path lies in two atomic mappings.
LEMMA AtomicUnique ==
  ASSUME NEW a \in Atomic, NEW b \in Atomic, NEW p \in Paths, AtOrBelow(a, p), AtOrBelow(b, p)
  PROVE  a = b
  <1>1. a \in Paths /\ b \in Paths
    BY AtomicAssumption
  <1>2. /\ Len(a) <= Len(p) /\ \A i \in 1..Len(a) : a[i] = p[i]
        /\ Len(b) <= Len(p) /\ \A i \in 1..Len(b) : b[i] = p[i]
    BY <1>1, PrefixElements
  <1>3. Len(a) \in Nat /\ Len(b) \in Nat /\ Len(p) \in Nat
    BY <1>1 DEF Paths
  <1>4. CASE Len(a) <= Len(b)
    <2>1. \A i \in 1..Len(a) : a[i] = b[i]
      BY <1>2, <1>3, <1>4
    <2>2. AtOrBelow(a, b)
      BY <1>1, <1>4, <2>1, PrefixElements
    <2> QED  BY <2>2, AtomicAssumption DEF AtOrBelow
  <1>5. CASE Len(b) <= Len(a)
    <2>1. \A i \in 1..Len(b) : b[i] = a[i]
      BY <1>2, <1>3, <1>5
    <2>2. AtOrBelow(b, a)
      BY <1>1, <1>5, <2>1, PrefixElements
    <2> QED  BY <2>2, AtomicAssumption DEF AtOrBelow
  <1> QED  BY <1>3, <1>4, <1>5

\* An entry that is the only atomic one above a path is the one it is credited to.
LEMMA CreditedAbove ==
  ASSUME NEW r, NEW p \in Paths, p \notin DOMAIN r,
         NEW a \in Atomic, AtOrBelow(a, p), a \in DOMAIN r
  PROVE  Credited(r, p) = r[a]
  <1> DEFINE c == CHOOSE b \in Atomic : AtOrBelow(b, p) /\ b \in DOMAIN r
  <1>1. c \in Atomic /\ AtOrBelow(c, p)
    OBVIOUS
  <1>2. c = a
    <2> HIDE DEF c
    <2> QED  BY <1>1, AtomicUnique
  <1> QED  BY <1>2 DEF Credited

-----------------------------------------------------------------------------
(* Collecting the layers. *)

\* One conjunct of a step at a time: what the loader does not touch stays.
LEMMA CollectedKept ==
  ASSUME CollectedInv, layers' = layers, visited' = visited, project' = project
  PROVE  CollectedInv'
  BY DEF CollectedInv, Parents

LEMMA FrameType ==
  ASSUME LayersTypeOK, NEW f \in Files
  PROVE  /\ StackFrame(f) \in Frames /\ StackFrame(f).file = f
         /\ ToSet(StackFrame(f).todo) = Parents(f)
  BY ProjectsAssumption DEF LayersTypeOK, StackFrame, Frames, Parents, ToSet

\* What the top of the stack is while files are visited.
LEMMA TopType ==
  ASSUME LayersTypeOK, VisitingInv, phase = "collect"
  PROVE  /\ Len(stack) \in Nat \ {0} /\ Last(stack) = stack[Len(stack)]
         /\ Last(stack) \in Frames
         /\ \A i \in DOMAIN stack : stack[i] \in Frames
         /\ DOMAIN stack = 1..Len(stack)
  <1>1. stack \in Seq(Frames) /\ stack # <<>>
    BY DEF LayersTypeOK, VisitingInv
  <1>2. DOMAIN stack = 1..Len(stack) /\ \A i \in 1..Len(stack) : stack[i] \in Frames
    BY <1>1, LenProperties, ElementOfSeq
  <1> QED  BY <1>1, <1>2, FrontLast

LEMMA InitLayers == LayersInit => LayersTypeOK /\ CollectedInv /\ VisitingInv /\ ProgressInv /\ CreditInv
  <1> SUFFICES ASSUME LayersInit  PROVE LayersTypeOK /\ CollectedInv /\ VisitingInv /\ ProgressInv /\ CreditInv
    OBVIOUS
  <1> USE DEF LayersInit
  <1>1. DOMAIN NoLeaves = {}
    BY DEF NoLeaves
  <1>2. StackFrame(Profile) \in Frames /\ StackFrame(Profile).file = Profile
        /\ ToSet(StackFrame(Profile).todo) = Parents(Profile)
    BY ProfileAssumption, ProjectsAssumption DEF StackFrame, Frames, Parents, ToSet
  <1>3. LayersTypeOK
    BY <1>1, <1>2 DEF LayersTypeOK, Phases
  <1>4. CollectedInv
    BY DEF CollectedInv
  <1>5. VisitingInv
    BY <1>2 DEF VisitingInv
  <1>6. ProgressInv
    BY DEF ProgressInv
  <1>7. CreditInv
    BY <1>1 DEF CreditInv
  <1> QED  BY <1>3, <1>4, <1>5, <1>6, <1>7

\* The next parent is dropped from the entries to do: the file above is then
\* as before, but for that parent.
LEMMA RestType ==
  ASSUME LayersTypeOK, VisitingInv, phase = "collect", Last(stack).todo # <<>>,
         NEW rest, rest = [stack EXCEPT ![Len(stack)].todo = Tail(@)]
  PROVE  /\ rest \in Seq(Frames) /\ Len(rest) = Len(stack) /\ DOMAIN rest = DOMAIN stack
         /\ \A i \in DOMAIN stack : rest[i].file = stack[i].file
         /\ \A i \in DOMAIN stack : ToSet(stack[i].todo) \subseteq
              ToSet(rest[i].todo) \cup
              (IF i = Len(stack) THEN {Head(Last(stack).todo)} ELSE {})
  <1> DEFINE n == Len(stack)
             top == stack[n]
  <1>1. /\ n \in Nat \ {0} /\ Last(stack) = top /\ top \in Frames
        /\ \A i \in DOMAIN stack : stack[i] \in Frames
        /\ DOMAIN stack = 1..n
    BY TopType
  <1>2. top.todo \in Seq(STRING) /\ top.todo # <<>> /\ top.file \in Files
    BY <1>1 DEF Frames
  <1>3. /\ Tail(top.todo) \in Seq(STRING) /\ Head(top.todo) = top.todo[1]
        /\ Len(Tail(top.todo)) = Len(top.todo) - 1
        /\ \A i \in 1..Len(Tail(top.todo)) : Tail(top.todo)[i] = top.todo[i + 1]
        /\ Len(top.todo) \in Nat \ {0} /\ DOMAIN top.todo = 1..Len(top.todo)
        /\ DOMAIN Tail(top.todo) = 1..Len(Tail(top.todo))
    <2>1. top.todo \in Seq(STRING) /\ top.todo # <<>>
      BY <1>2
    <2> HIDE DEF top
    <2>2. Len(Tail(top.todo)) = Len(top.todo) - 1
      BY <2>1, HeadTail
    <2> QED  BY <2>1, <2>2, HeadTail
  <1>4. ToSet(top.todo) \subseteq ToSet(Tail(top.todo)) \cup {Head(top.todo)}
    <2> SUFFICES ASSUME NEW i \in 1..Len(top.todo), i # 1
                 PROVE  top.todo[i] \in ToSet(Tail(top.todo))
      BY <1>3 DEF ToSet
    <2>1. i - 1 \in 1..Len(Tail(top.todo)) /\ (i - 1) + 1 = i
      BY <1>3
    <2>2. Tail(top.todo)[i - 1] = top.todo[i]
      BY <1>3, <2>1
    <2> QED  BY <1>3, <2>1, <2>2 DEF ToSet
  <1> DEFINE new == [top EXCEPT !.todo = Tail(@)]
  <1>5. new \in Frames /\ new.file = top.file /\ new.todo = Tail(top.todo)
    BY <1>1, <1>3 DEF Frames
  <1>6. rest = [stack EXCEPT ![n] = new]
    BY <1>1
  <1>7. stack \in Seq(Frames) /\ n \in 1..Len(stack)
    BY <1>1 DEF LayersTypeOK
  <1>8. /\ rest \in Seq(Frames) /\ Len(rest) = n
        /\ \A i \in 1..n : rest[i] = IF i = n THEN new ELSE stack[i]
    <2> HIDE DEF new
    <2>1. new \in Frames
      BY <1>5
    <2>2. n = Len(stack)
      OBVIOUS
    <2> HIDE DEF n
    <2> DEFINE with == [stack EXCEPT ![n] = new]
    <2>3. /\ with \in Seq(Frames) /\ Len(with) = Len(stack)
          /\ \A j \in 1..Len(stack) : with[j] = IF j = n THEN new ELSE stack[j]
      BY <1>7, <2>1, ExceptSeq
    <2> QED  BY <1>6, <2>2, <2>3
  <1>9. DOMAIN rest = 1..n
    BY <1>8, LenProperties
  <1> HIDE DEF new, top, n
  <1>10. \A i \in 1..n : rest[i].file = stack[i].file
    BY <1>5, <1>8 DEF top
  <1>11. ASSUME NEW i \in 1..n
         PROVE  ToSet(stack[i].todo) \subseteq
                  ToSet(rest[i].todo) \cup (IF i = n THEN {Head(Last(stack).todo)} ELSE {})
    <2>1. CASE i = n
      BY <1>1, <1>4, <1>5, <1>8, <2>1 DEF top
    <2>2. CASE i # n
      BY <1>8, <2>2
    <2> QED  BY <2>1, <2>2
  <1> QED  BY <1>1, <1>8, <1>9, <1>10, <1>11 DEF n

\* As long as nothing is merged, nothing is credited.
LEMMA NothingCredited ==
  ASSUME ProgressInv, phase = "collect", merged' = merged
  PROVE  CreditInv'
  <1>1. DOMAIN merged' = {}
    BY DEF ProgressInv, NoLeaves
  <1> QED  BY <1>1 DEF CreditInv

\* An error changes nothing but the phase.
LEMMA FailLayers ==
  ASSUME LayersInv, Fail
  PROVE  LayersInv'
  <1> USE DEF Fail
  <1>1. LayersTypeOK'
    BY DEF LayersInv, LayersTypeOK, Phases
  <1>2. CollectedInv'
    BY CollectedKept DEF LayersInv
  <1>3. VisitingInv' /\ ProgressInv' /\ CreditInv'
    BY DEF VisitingInv, ProgressInv, CreditInv
  <1> QED  BY <1>1, <1>2, <1>3 DEF LayersInv

\* A parent already collected is skipped, another is visited next.
LEMMA DescendStep ==
  ASSUME LayersInv, Descend
  PROVE  LayersInv'
  <1> DEFINE n == Len(stack)
             parent == Head(Last(stack).todo)
             rest == [stack EXCEPT ![n].todo = Tail(@)]
  <1>1. phase = "collect" /\ Last(stack).todo # <<>> /\ LayersTypeOK /\ VisitingInv
    BY DEF Descend, LayersInv
  <1>2. /\ n \in Nat \ {0} /\ DOMAIN stack = 1..n
        /\ \A i \in DOMAIN stack : stack[i] \in Frames
    BY <1>1, TopType
  <1>3. /\ rest \in Seq(Frames) /\ Len(rest) = n /\ DOMAIN rest = 1..n
        /\ \A i \in 1..n : rest[i].file = stack[i].file
        /\ \A i \in 1..n : ToSet(stack[i].todo) \subseteq
             ToSet(rest[i].todo) \cup (IF i = n THEN {parent} ELSE {})
    BY <1>1, <1>2, RestType
  <1>4. CASE Fail
    BY <1>4, FailLayers
  <1>5. CASE parent \in Files /\ parent \notin OnStack
             /\ stack' = (IF parent \in visited THEN rest ELSE Append(rest, StackFrame(parent)))
             /\ UNCHANGED <<project, phase, visited, layers, count, merged, prov>>
    <2>1. StackFrame(parent) \in Frames /\ StackFrame(parent).file = parent
          /\ ToSet(StackFrame(parent).todo) = Parents(parent)
      BY <1>1, <1>5, FrameType
    <2> HIDE DEF n, parent, rest
    <2>2. LayersTypeOK'
      BY <1>1, <1>3, <1>5, <2>1 DEF LayersTypeOK
    <2>3. CollectedInv'
      BY <1>5, CollectedKept DEF LayersInv
    <2>4. ProgressInv' /\ CreditInv'
      BY <1>1, <1>5, NothingCredited DEF LayersInv, ProgressInv
    <2>5. /\ stack[1].file = Profile
          /\ \A i \in 1..n : stack[i].file \notin visited
          /\ \A i, j \in 1..n : i # j => stack[i].file # stack[j].file
          /\ \A i \in 1..n : \A f \in Parents(stack[i].file) :
               \/ f \in ToSet(stack[i].todo) \/ f \in visited
               \/ i < n /\ f = stack[i + 1].file
      BY <1>1, <1>2 DEF VisitingInv, n
    <2>6. project' = project
      BY <1>5
    <2>7. ASSUME parent \in visited  PROVE VisitingInv'
      <3>1. /\ stack' = rest /\ Len(stack') = n /\ DOMAIN stack' = 1..n /\ stack' # <<>>
            /\ visited' = visited
        BY <1>2, <1>3, <1>5, <2>7
      <3>2. stack'[1].file = Profile
        BY <1>2, <1>3, <2>5, <3>1
      <3>3. /\ \A i \in 1..n : stack'[i].file \notin visited'
            /\ \A i, j \in 1..n : i # j => stack'[i].file # stack'[j].file
        BY <1>3, <2>5, <3>1
      <3>4. ASSUME NEW i \in 1..n, NEW f \in Parents(stack[i].file)'
            PROVE  \/ f \in ToSet(stack'[i].todo) \/ f \in visited'
                   \/ i < n /\ f = stack'[i + 1].file
        <4>1. f \in Parents(stack[i].file)
          BY <1>3, <2>6, <3>1 DEF Parents
        <4>2. i < n => stack'[i + 1].file = stack[i + 1].file
          BY <1>2, <1>3, <3>1
        <4> QED  BY <1>3, <2>5, <2>7, <3>1, <4>1, <4>2
      <3> QED  BY <3>1, <3>2, <3>3, <3>4 DEF VisitingInv
    <2>8. ASSUME parent \notin visited  PROVE VisitingInv'
      <3>1. /\ stack' = Append(rest, StackFrame(parent)) /\ visited' = visited
            /\ Len(stack') = n + 1 /\ DOMAIN stack' = 1..(n + 1) /\ stack' # <<>>
            /\ \A i \in 1..n : stack'[i] = rest[i]
            /\ stack'[n + 1] = StackFrame(parent)
        BY <1>2, <1>3, <1>5, <2>1, <2>8
      <3>2. stack'[1].file = Profile
        BY <1>2, <1>3, <2>5, <3>1
      <3>3. \A i \in 1..n : stack[i].file # parent
        BY <1>2, <1>5 DEF OnStack
      <3>4. \A i \in 1..(n + 1) : stack'[i].file = IF i = n + 1 THEN parent ELSE stack[i].file
        BY <1>2, <1>3, <2>1, <3>1
      <3>5. /\ \A i \in 1..(n + 1) : stack'[i].file \notin visited'
            /\ \A i, j \in 1..(n + 1) : i # j => stack'[i].file # stack'[j].file
        BY <1>2, <2>5, <2>8, <3>1, <3>3, <3>4
      <3>6. ASSUME NEW i \in 1..(n + 1), NEW f \in Parents(stack[i].file)'
            PROVE  \/ f \in ToSet(stack'[i].todo) \/ f \in visited'
                   \/ i < n + 1 /\ f = stack'[i + 1].file
        <4>1. CASE i = n + 1
          BY <2>1, <2>6, <3>1, <3>4, <4>1 DEF Parents
        <4>2. CASE i # n + 1
          <5>1. i \in 1..n /\ f \in Parents(stack[i].file)
            BY <1>2, <2>6, <3>4, <4>2 DEF Parents
          <5>2. i + 1 \in 1..(n + 1)
            BY <1>2, <5>1
          <5>3. stack'[i + 1].file = IF i = n THEN parent ELSE stack[i + 1].file
            BY <1>2, <3>4, <5>1, <5>2
          <5>4. \/ f \in ToSet(stack[i].todo) \/ f \in visited
                \/ i < n /\ f = stack[i + 1].file
            BY <2>5, <5>1
          <5>5. f \in ToSet(stack[i].todo) => f \in ToSet(stack'[i].todo) \/ (i = n /\ f = parent)
            BY <1>3, <3>1, <5>1
          <5> QED  BY <1>2, <3>1, <5>1, <5>3, <5>4, <5>5
        <4> QED  BY <4>1, <4>2
      <3> QED  BY <3>1, <3>2, <3>5, <3>6 DEF VisitingInv
    <2> QED  BY <1>1, <2>2, <2>3, <2>4, <2>7, <2>8 DEF LayersInv
  <1> QED  BY <1>4, <1>5 DEF Descend

LEMMA LayersType ==
  ASSUME LayersTypeOK
  PROVE  /\ Len(layers) \in Nat /\ DOMAIN layers = 1..Len(layers)
         /\ \A i \in DOMAIN layers : layers[i] \in Files
  <1>1. layers \in Seq(Files)
    BY DEF LayersTypeOK
  <1> QED  BY <1>1, LenProperties, ElementOfSeq

\* A file whose parents are all collected is the next layer.
LEMMA CollectedStep ==
  ASSUME LayersInv, Collected
  PROVE  LayersInv'
  <1> DEFINE n == Len(stack)
             m == Len(layers)
             file == Last(stack).file
  <1>1. /\ phase = "collect" /\ Last(stack).todo = <<>>
        /\ LayersTypeOK /\ VisitingInv /\ CollectedInv /\ ProgressInv
    BY DEF Collected, LayersInv
  <1>2. /\ n \in Nat \ {0} /\ DOMAIN stack = 1..n /\ Last(stack) = stack[n]
        /\ \A i \in DOMAIN stack : stack[i] \in Frames
        /\ file \in Files
    BY <1>1, TopType DEF Frames
  <1>3. m \in Nat /\ DOMAIN layers = 1..m
    BY <1>1, LayersType
  <1>4. /\ visited' = visited \cup {file} /\ layers' = Append(layers, file)
        /\ stack' = Front(stack) /\ phase' = (IF n = 1 THEN "merge" ELSE "collect")
        /\ project' = project /\ count' = count /\ merged' = merged /\ prov' = prov
    BY DEF Collected
  <1>5. /\ stack' \in Seq(Frames) /\ Len(stack') = n - 1 /\ DOMAIN stack' = 1..(n - 1)
        /\ \A i \in 1..(n - 1) : stack'[i] = stack[i]
    <2>1. stack \in Seq(Frames) /\ stack # <<>>
      BY <1>1 DEF LayersTypeOK, VisitingInv
    <2>2. stack' \in Seq(Frames) /\ Len(stack') = n - 1
          /\ \A i \in 1..(n - 1) : stack'[i] = stack[i]
      BY <1>4, <2>1, FrontLast
    <2> QED  BY <2>2, LenProperties
  <1>6. /\ layers' \in Seq(Files) /\ Len(layers') = m + 1 /\ DOMAIN layers' = 1..(m + 1)
        /\ layers'[m + 1] = file /\ \A i \in 1..m : layers'[i] = layers[i]
    BY <1>1, <1>2, <1>3, <1>4 DEF LayersTypeOK
  <1>7. /\ stack[1].file = Profile
        /\ \A i \in 1..n : stack[i].file \notin visited
        /\ \A i, j \in 1..n : i # j => stack[i].file # stack[j].file
        /\ \A i \in 1..n : \A f \in Parents(stack[i].file) :
             \/ f \in ToSet(stack[i].todo) \/ f \in visited
             \/ i < n /\ f = stack[i + 1].file
    BY <1>1, <1>2 DEF VisitingInv
  <1>8. /\ visited = {layers[i] : i \in 1..m}
        /\ \A i, j \in 1..m : i # j => layers[i] # layers[j]
        /\ \A i \in 1..m : \A f \in Parents(layers[i]) : \E j \in 1..(i - 1) : layers[j] = f
    BY <1>1, <1>3 DEF CollectedInv
  <1> HIDE DEF n, m, file
  <1>9. file = stack[n].file
    BY <1>2 DEF file
  <1>10. file \notin visited /\ \A f \in Parents(file) : f \in visited
    <2>1. ToSet(stack[n].todo) = {}
      BY <1>1, <1>2 DEF ToSet
    <2> QED  BY <1>2, <1>7, <1>9, <2>1
  <1>11. LayersTypeOK'
    <2>1. count' \in 0..Len(layers')
      BY <1>1, <1>3, <1>4, <1>6 DEF LayersTypeOK, m
    <2> QED  BY <1>1, <1>2, <1>4, <1>5, <1>6, <2>1 DEF LayersTypeOK, Phases
  <1>12. CollectedInv'
    <2>1. visited' = {layers'[i] : i \in 1..(m + 1)}
      <3>1. 1..(m + 1) = (1..m) \cup {m + 1}
        BY <1>3
      <3> QED  BY <1>4, <1>6, <1>8, <3>1
    <2>2. \A i, j \in 1..(m + 1) : i # j => layers'[i] # layers'[j]
      <3>1. \A i \in 1..m : layers[i] # file
        BY <1>8, <1>10
      <3>2. \A i \in 1..(m + 1) : i = m + 1 \/ i \in 1..m
        BY <1>3
      <3> QED  BY <1>6, <1>8, <3>1, <3>2
    <2>3. ASSUME NEW i \in 1..(m + 1), NEW f \in Parents(layers[i])'
          PROVE  \E j \in 1..(i - 1) : layers'[j] = f
      <3>1. CASE i = m + 1
        <4>1. f \in visited
          BY <1>4, <1>6, <1>10, <3>1 DEF Parents
        <4>2. PICK j \in 1..m : layers[j] = f
          BY <1>8, <4>1
        <4> QED  BY <1>3, <1>6, <3>1, <4>2
      <3>2. CASE i # m + 1
        <4>1. i \in 1..m /\ f \in Parents(layers[i])
          BY <1>3, <1>4, <1>6, <3>2 DEF Parents
        <4>2. PICK j \in 1..(i - 1) : layers[j] = f
          BY <1>8, <4>1
        <4>3. j \in 1..m
          BY <1>3, <4>1
        <4> QED  BY <1>6, <4>2, <4>3
      <3> QED  BY <3>1, <3>2
    <2> QED  BY <1>6, <2>1, <2>2, <2>3 DEF CollectedInv
  <1>13. VisitingInv'
    <2> SUFFICES ASSUME n # 1  PROVE VisitingInv'
      BY <1>4 DEF VisitingInv
    <2>1. /\ n - 1 \in Nat \ {0} /\ stack' # <<>> /\ stack'[1].file = Profile
      BY <1>2, <1>5, <1>7
    <2>2. \A i \in 1..(n - 1) : i \in 1..n /\ i # n
      BY <1>2
    <2>3. /\ \A i \in 1..(n - 1) : stack'[i].file \notin visited'
          /\ \A i, j \in 1..(n - 1) : i # j => stack'[i].file # stack'[j].file
      BY <1>2, <1>4, <1>5, <1>7, <1>9, <2>2
    <2>4. ASSUME NEW i \in 1..(n - 1), NEW f \in Parents(stack[i].file)'
          PROVE  \/ f \in ToSet(stack'[i].todo) \/ f \in visited'
                 \/ i < n - 1 /\ f = stack'[i + 1].file
      <3>1. f \in Parents(stack[i].file) /\ i \in 1..n
        BY <1>4, <1>5, <2>2 DEF Parents
      <3>2. \/ f \in ToSet(stack[i].todo) \/ f \in visited
            \/ i < n /\ f = stack[i + 1].file
        BY <1>7, <3>1
      <3>3. i + 1 = n \/ (i + 1 \in 1..(n - 1) /\ i < n - 1)
        BY <1>2
      <3> QED  BY <1>4, <1>5, <1>9, <3>2, <3>3
    <2> QED  BY <1>5, <2>1, <2>3, <2>4 DEF VisitingInv
  <1>14. ProgressInv'
    <2>1. count = 0 /\ merged = NoLeaves /\ prov = NoLeaves
      BY <1>1 DEF ProgressInv
    <2>2. n = 1 => file = Profile
      BY <1>7, <1>9
    <2>3. layers' # <<>> /\ Last(layers') = file
      BY <1>3, <1>6 DEF Last
    <2> QED  BY <1>3, <1>4, <1>6, <2>1, <2>2, <2>3 DEF ProgressInv
  <1>15. CreditInv'
    BY <1>1, <1>4, NothingCredited
  <1> QED  BY <1>11, <1>12, <1>13, <1>14, <1>15 DEF LayersInv

-----------------------------------------------------------------------------
(* Merging the layers. *)

\* The paths at which a merge records its source.
RecordedAt(base, overlay) ==
  Replaced(base, overlay) \cup
  {p \in WrittenLeaves(base, overlay) : \A a \in Replaced(base, overlay) : ~AtOrBelow(a, p)}

\* A record that credits a source at some paths, and drops what it held below.
IsRecord(new, r, at, origin) ==
  /\ DOMAIN new = at \cup {q \in DOMAIN r : \A s \in at : ~AtOrBelow(s, q)}
  /\ \A p \in DOMAIN new : new[p] = IF p \in at THEN origin ELSE r[p]

LEMMA RecordedIs ==
  ASSUME NEW base, NEW overlay, NEW r, NEW origin, DOMAIN overlay \subseteq Paths
  PROVE  /\ RecordedAt(base, overlay) \subseteq Paths
         /\ IsRecord(Recorded(r, base, overlay, origin), r, RecordedAt(base, overlay), origin)
  BY AtomicAssumption DEF RecordedAt, Recorded, Replaced, WrittenLeaves, IsRecord

\* A leaf the merge writes is credited to its source.
LEMMA WrittenCredited ==
  ASSUME NEW base, NEW overlay, NEW r, NEW origin, DOMAIN overlay \subseteq Paths,
         NEW p \in WrittenLeaves(base, overlay),
         NEW new, new = Recorded(r, base, overlay, origin)
  PROVE  Attributed(new, p) /\ Credited(new, p) = origin
  <1>0. PICK at : at = RecordedAt(base, overlay)
    OBVIOUS
  <1>1. /\ at \subseteq Paths
        /\ DOMAIN new = at \cup {q \in DOMAIN r : \A s \in at : ~AtOrBelow(s, q)}
        /\ \A q \in DOMAIN new : new[q] = IF q \in at THEN origin ELSE r[q]
    <2>1. at \subseteq Paths /\ IsRecord(new, r, at, origin)
      BY <1>0, RecordedIs
    <2> QED  BY <2>1 DEF IsRecord
  <1>2. p \in Paths
    BY DEF WrittenLeaves
  <1>3. CASE p \in at
    <2>1. p \in DOMAIN new /\ new[p] = origin
      BY <1>1, <1>3
    <2> QED  BY <2>1 DEF Attributed, Credited
  <1>4. CASE p \notin at
    <2>1. PICK a \in Replaced(base, overlay) : AtOrBelow(a, p)
      BY <1>0, <1>4 DEF RecordedAt
    <2>2. a \in at /\ a \in Atomic
      BY <1>0, <2>1 DEF RecordedAt, Replaced
    <2>3. a \in DOMAIN new /\ new[a] = origin /\ p \notin DOMAIN new
      BY <1>1, <1>4, <2>1, <2>2
    <2>4. Credited(new, p) = new[a]
      BY <1>2, <2>1, <2>2, <2>3, CreditedAbove
    <2> QED  BY <2>1, <2>2, <2>3, <2>4 DEF Attributed
  <1> QED  BY <1>3, <1>4

\* A leaf the merge leaves alone is credited as before.
LEMMA SurvivorCredited ==
  ASSUME NEW base, NEW overlay, NEW r, NEW origin,
         DOMAIN base \subseteq Paths, DOMAIN overlay \subseteq Paths,
         NEW p \in Survivors(base, overlay), Attributed(r, p),
         NEW new, new = Recorded(r, base, overlay, origin)
  PROVE  Attributed(new, p) /\ Credited(new, p) = Credited(r, p)
  <1>0. PICK at : at = RecordedAt(base, overlay)
    OBVIOUS
  <1>1. /\ at \subseteq Paths
        /\ DOMAIN new = at \cup {q \in DOMAIN r : \A s \in at : ~AtOrBelow(s, q)}
        /\ \A q \in DOMAIN new : new[q] = IF q \in at THEN origin ELSE r[q]
    <2>1. at \subseteq Paths /\ IsRecord(new, r, at, origin)
      BY <1>0, RecordedIs
    <2> QED  BY <2>1 DEF IsRecord
  <1>2. p \in Paths
    BY DEF Survivors
  <1>3. \A s \in at : ~AtOrBelow(s, p)
    BY <1>0 DEF Survivors, RecordedAt
  <1>4. p \notin at
    BY <1>3 DEF AtOrBelow
  <1>5. CASE p \in DOMAIN r
    <2>1. p \in DOMAIN new /\ new[p] = r[p]
      BY <1>1, <1>3, <1>4, <1>5
    <2> QED  BY <1>5, <2>1 DEF Attributed, Credited
  <1>6. CASE p \notin DOMAIN r
    <2>1. PICK a \in Atomic : AtOrBelow(a, p) /\ a \in DOMAIN r
      BY <1>6 DEF Attributed
    <2>2. a \in Paths
      BY AtomicAssumption
    <2>3. \A s \in at : ~AtOrBelow(s, a)
      BY <1>1, <1>2, <1>3, <2>1, <2>2, PrefixTransitive
    <2>4. a \notin at
      BY <1>3, <2>1
    <2>5. a \in DOMAIN new /\ new[a] = r[a] /\ p \notin DOMAIN new
      BY <1>1, <1>4, <1>6, <2>1, <2>3, <2>4
    <2>6. Credited(new, p) = new[a] /\ Credited(r, p) = r[a]
      BY <1>2, <1>6, <2>1, <2>5, CreditedAbove
    <2> QED  BY <2>1, <2>5, <2>6 DEF Attributed
  <1> QED  BY <1>5, <1>6

\* What a merge does to a leaf of the result.
LEMMA MergedLeaf ==
  ASSUME NEW base, NEW overlay, NEW p \in DOMAIN Merged(base, overlay)
  PROVE  \/ /\ p \in WrittenLeaves(base, overlay) /\ p \in DOMAIN overlay
            /\ Merged(base, overlay)[p] = overlay[p]
         \/ /\ p \in Survivors(base, overlay) /\ p \in DOMAIN base
            /\ Merged(base, overlay)[p] = base[p]
            /\ p \in DOMAIN overlay => overlay[p] = Empty
  BY DEF Merged, WrittenLeaves, Survivors

LEMMA MergedType ==
  ASSUME NEW base, NEW overlay, NEW r, NEW origin,
         DOMAIN base \subseteq Paths, DOMAIN overlay \subseteq Paths, DOMAIN r \subseteq Paths
  PROVE  /\ DOMAIN Merged(base, overlay) \subseteq Paths
         /\ DOMAIN Recorded(r, base, overlay, origin) \subseteq Paths
  <1>1. DOMAIN Merged(base, overlay) \subseteq Paths
    BY DEF Merged, WrittenLeaves, Survivors
  <1>2. DOMAIN Recorded(r, base, overlay, origin) \subseteq Paths
    <2>1. /\ RecordedAt(base, overlay) \subseteq Paths
          /\ IsRecord(Recorded(r, base, overlay, origin), r, RecordedAt(base, overlay), origin)
      BY RecordedIs
    <2> QED  BY <2>1 DEF IsRecord
  <1> QED  BY <1>1, <1>2

\* The three sources are told apart.
LEMMA SourcesDiffer == Set \notin Files /\ Universe \notin Files /\ Set # Universe
  BY SourcesAssumption DEF Set, Universe

\* Where the merge is while layers are merged: what is credited is a file.
LEMMA FilesCredited ==
  ASSUME LayersTypeOK
  PROVE  {layers[i] : i \in 1..count} \subseteq Files
  <1>1. count \in Nat /\ count <= Len(layers)
    BY LayersType DEF LayersTypeOK
  <1> QED  BY <1>1, LayersType

\* What the overrides come to has leaves like any layer's.
LEMMA OverridesType ==
  ASSUME project \in Projects
  PROVE  DOMAIN Overrides \subseteq Paths
  <1>1. \A i \in DOMAIN project.overrides : DOMAIN project.overrides[i].leaves \subseteq Paths
    BY ProjectsAssumption
  <1> QED  BY <1>1 DEF Overrides, Nested, Unreplaced

LEMMA OverridesFixed ==
  ASSUME UNCHANGED project
  PROVE  Overrides' = Overrides
  BY DEF Overrides

LEMMA MergeLayerStep ==
  ASSUME LayersInv, MergeLayer
  PROVE  LayersInv'
  <1>1. LayersTypeOK /\ CollectedInv /\ ProgressInv /\ CreditInv /\ phase = "merge"
    BY DEF LayersInv, MergeLayer
  <1>2. /\ Len(layers) \in Nat /\ DOMAIN layers = 1..Len(layers) /\ count \in Nat
        /\ count < Len(layers) /\ count + 1 \in DOMAIN layers
        /\ layers[count + 1] \in Files
    <2>1. count \in 0..Len(layers) /\ count < Len(layers)
      BY <1>1 DEF LayersTypeOK, ProgressInv
    <2> QED  BY <1>1, <2>1, LayersType
  <1> PICK file \in Files : file = layers[count + 1]
    BY <1>2
  <1> PICK body : body = project.body[file]
    OBVIOUS
  <1>3. CASE Fail
    BY <1>3, FailLayers
  <1>4. CASE /\ merged' = Merged(merged, body)
             /\ prov' = Recorded(prov, merged, body, file)
             /\ count' = count + 1
             /\ phase' = (IF count + 1 = Len(layers) THEN "overrides" ELSE "merge")
             /\ UNCHANGED <<project, stack, visited, layers>>
    <2>0. /\ count + 1 \in 0..Len(layers)
          /\ count + 1 # Len(layers) => count + 1 < Len(layers)
      <3>1. Len(layers) \in Nat /\ count \in Nat /\ count < Len(layers)
        BY <1>2
      <3> QED  BY <3>1
    <2>1. DOMAIN body \subseteq Paths /\ DOMAIN merged \subseteq Paths /\ DOMAIN prov \subseteq Paths
      BY <1>1, <1>2, ProjectsAssumption DEF LayersTypeOK
    <2>2. LayersTypeOK'
      <3>1. DOMAIN merged' \subseteq Paths /\ DOMAIN prov' \subseteq Paths
        BY <1>4, <2>1, MergedType
      <3>2. layers' = layers /\ count' \in 0..Len(layers)
        BY <1>4, <2>0
      <3> QED  BY <1>1, <1>4, <3>1, <3>2 DEF LayersTypeOK, Phases
    <2>3. CollectedInv'
      BY <1>1, <1>4, CollectedKept
    <2>4. VisitingInv'
      BY <1>4 DEF VisitingInv
    <2>5. ProgressInv'
      <3>1. layers' = layers /\ layers # <<>> /\ Last(layers) = Profile
        BY <1>1, <1>4 DEF ProgressInv
      <3>2. phase' = "merge" => count' < Len(layers)
        BY <1>4, <2>0
      <3>3. phase' = "overrides" => count' = Len(layers)
        BY <1>2, <1>4
      <3> QED  BY <1>4, <3>1, <3>2, <3>3 DEF ProgressInv
    <2>6. ASSUME NEW p \in DOMAIN merged'  PROVE Credit(p)'
      <3>1. phase' \notin {"universe", "done"} /\ Sources' = {layers[i] : i \in 1..(count + 1)}
        BY <1>4 DEF Sources
      <3>2. file = layers[count + 1] /\ body = project.body[file]
        OBVIOUS
      <3>3. Sources = {layers[i] : i \in 1..count} /\ Sources \subseteq Files
        BY <1>1, FilesCredited DEF Sources
      <3>4. \A f \in Files : Content(f) = project.body[f] /\ Content(f)' = project.body[f]
        BY <1>4, SourcesDiffer, OverridesFixed DEF Content
      <3>5. CASE /\ p \in WrittenLeaves(merged, body) /\ p \in DOMAIN body
                 /\ merged'[p] = body[p]
        <4>1. Attributed(prov', p) /\ Credited(prov', p) = file
          BY <1>4, <2>1, <3>5, WrittenCredited
        <4>2. Source(p)' = file
          BY <4>1 DEF Source
        <4>3. file \in Sources'
          BY <1>2, <3>1, <3>2
        <4>4. \A i \in 1..(count + 1) : layers[i] = file => i = count + 1
          BY <1>1, <1>2, <3>2 DEF CollectedInv
        <4>5. p \in DOMAIN Content(file)' /\ Content(file)'[p] = merged'[p]
          BY <1>2, <3>2, <3>4, <3>5
        <4>6. \A i, j \in 1..(count + 1) : layers[i] = file => ~(i < j)
          BY <1>2, <4>4
        <4> QED  BY <1>4, <3>1, <4>1, <4>2, <4>3, <4>5, <4>6 DEF Credit, Content
      <3>6. CASE /\ p \in Survivors(merged, body) /\ p \in DOMAIN merged
                 /\ merged'[p] = merged[p]
                 /\ p \in DOMAIN body => body[p] = Empty
        <4>1. Credit(p)
          BY <1>1, <3>6 DEF CreditInv
        <4>2. Attributed(prov, p) /\ Source(p) \in Sources
          BY <4>1 DEF Credit
        <4>3. Attributed(prov', p) /\ Credited(prov', p) = Credited(prov, p)
          BY <1>4, <2>1, <3>6, <4>2, SurvivorCredited
        <4>4. Source(p)' = Source(p)
          BY <4>3 DEF Source
        <4>5. Source(p) \in Sources' /\ Source(p) \in Files
          BY <1>2, <3>1, <3>3, <4>2
        <4>6. p \in DOMAIN project.body[Source(p)] /\ project.body[Source(p)][p] = merged'[p]
          BY <3>4, <3>6, <4>1, <4>5 DEF Credit
        <4>7. \A i, j \in 1..(count + 1) :
                /\ layers[i] = Source(p) /\ i < j /\ p \in DOMAIN project.body[layers[j]]
                => project.body[layers[j]][p] = Empty
          <5> SUFFICES ASSUME NEW i \in 1..(count + 1), NEW j \in 1..(count + 1),
                              layers[i] = Source(p), i < j, p \in DOMAIN project.body[layers[j]]
                       PROVE  project.body[layers[j]][p] = Empty
            OBVIOUS
          <5>1. CASE j = count + 1
            BY <3>2, <3>6, <5>1
          <5>2. CASE j # count + 1
            <6>1. i \in 1..count /\ j \in 1..count
              BY <1>2, <5>2
            <6> QED  BY <4>1, <6>1 DEF Credit
          <5> QED  BY <5>1, <5>2
        <4>8. p \in DOMAIN Content(Source(p))' /\ Content(Source(p))'[p] = merged'[p]
          BY <3>4, <4>4, <4>5, <4>6
        <4> QED  BY <1>4, <3>1, <4>3, <4>4, <4>5, <4>7, <4>8, OverridesFixed DEF Credit
      <3> QED  BY <1>4, <3>5, <3>6, MergedLeaf
    <2>7. CreditInv'
      BY <2>6 DEF CreditInv
    <2> QED  BY <2>2, <2>3, <2>4, <2>5, <2>7 DEF LayersInv
  <1> QED  BY <1>3, <1>4 DEF MergeLayer

\* The overrides and the selected bucket are merged after the files, each
\* with a source of its own that nothing was credited to before.
LEMMA LateMerge ==
  ASSUME LayersTypeOK, \A p \in DOMAIN merged : Credit(p),
         NEW overlay, DOMAIN overlay \subseteq Paths, NEW origin \in {Set, Universe},
         merged' = Merged(merged, overlay), prov' = Recorded(prov, merged, overlay, origin),
         UNCHANGED <<project, layers, count>>,
         phase' \in {"universe", "done"}, Sources' = Sources \cup {origin},
         \A p \in DOMAIN overlay :
           /\ p \in DOMAIN Content(origin)'
           /\ merged'[p] = overlay[p] => Content(origin)'[p] = merged'[p],
         \A s \in Sources : Content(s)' = Content(s),
         phase \in {"universe", "done"} \/ overlay = Overrides
  PROVE  \A p \in DOMAIN merged' : Credit(p)'
  <1> SUFFICES ASSUME NEW p \in DOMAIN merged'  PROVE Credit(p)'
    OBVIOUS
  <1>1. DOMAIN merged \subseteq Paths /\ {layers[i] : i \in 1..count} \subseteq Files
    BY FilesCredited DEF LayersTypeOK
  <1>2. CASE /\ p \in WrittenLeaves(merged, overlay) /\ p \in DOMAIN overlay
             /\ merged'[p] = overlay[p]
    <2>1. Attributed(prov', p) /\ Credited(prov', p) = origin
      BY <1>2, WrittenCredited
    <2>2. Source(p)' = origin
      BY <2>1 DEF Source
    <2>3. \A i \in 1..count : layers[i] # origin
      BY <1>1, SourcesDiffer
    <2>4. p \in DOMAIN Content(Source(p))' /\ Content(Source(p))'[p] = merged'[p]
      BY <1>2, <2>2 DEF Content
    <2> QED  BY <2>1, <2>2, <2>3, <2>4, OverridesFixed DEF Credit
  <1>3. CASE /\ p \in Survivors(merged, overlay) /\ p \in DOMAIN merged
             /\ merged'[p] = merged[p]
             /\ p \in DOMAIN overlay => overlay[p] = Empty
    <2>1. Credit(p)
      BY <1>3
    <2>2. Attributed(prov, p) /\ Source(p) \in Sources
      BY <2>1 DEF Credit
    <2>3. Attributed(prov', p) /\ Credited(prov', p) = Credited(prov, p)
      BY <1>1, <1>3, <2>2, SurvivorCredited
    <2>4. Source(p)' = Source(p)
      BY <2>3 DEF Source
    <2>5. Content(Source(p))' = Content(Source(p))
      BY <2>2, <2>4 DEF Content
    <2>6. p \in DOMAIN Overrides /\ Overrides[p] # Empty
          => Source(p) \in {Set, Universe}
      BY <1>3, <2>1 DEF Credit
    <2>7. \A i, j \in 1..count :
            /\ layers[i] = Source(p) /\ i < j /\ p \in DOMAIN project.body[layers[j]]
            => project.body[layers[j]][p] = Empty
      BY <2>1 DEF Credit
    <2>8. p \in DOMAIN Content(Source(p))' /\ Content(Source(p))'[p] = merged'[p]
      BY <1>3, <2>1, <2>5 DEF Credit
    <2> QED  BY <2>2, <2>3, <2>4, <2>6, <2>7, <2>8, OverridesFixed DEF Credit
  <1> QED  BY <1>2, <1>3, MergedLeaf

\* What a late merge leaves as it is.
LEMMA LateMergeKeeps ==
  ASSUME LayersTypeOK, CollectedInv, ProgressInv, phase \in {"overrides", "universe"},
         NEW overlay, DOMAIN overlay \subseteq Paths, NEW origin,
         merged' = Merged(merged, overlay), prov' = Recorded(prov, merged, overlay, origin),
         UNCHANGED <<project, stack, visited, layers, count>>,
         phase' \in {"universe", "done"}
  PROVE  LayersTypeOK' /\ CollectedInv' /\ VisitingInv' /\ ProgressInv'
  <1>1. DOMAIN merged' \subseteq Paths /\ DOMAIN prov' \subseteq Paths
    BY MergedType DEF LayersTypeOK
  <1>2. LayersTypeOK'
    BY <1>1 DEF LayersTypeOK, Phases
  <1>3. CollectedInv'
    BY CollectedKept
  <1>4. VisitingInv' /\ ProgressInv'
    BY DEF VisitingInv, ProgressInv
  <1> QED  BY <1>2, <1>3, <1>4

LEMMA MergeOverridesStep ==
  ASSUME LayersInv, MergeOverrides
  PROVE  LayersInv'
  <1>1. /\ LayersTypeOK /\ CollectedInv /\ ProgressInv /\ phase = "overrides"
        /\ \A p \in DOMAIN merged : Credit(p)
    BY DEF LayersInv, MergeOverrides, CreditInv
  <1>2. CASE Fail
    BY <1>2, FailLayers
  <1>3. CASE /\ merged' = Merged(merged, Overrides)
             /\ prov' = Recorded(prov, merged, Overrides, Set)
             /\ phase' = "universe"
             /\ UNCHANGED <<project, stack, visited, layers, count>>
    <2> PICK overlay : overlay = Overrides
      OBVIOUS
    <2>1. DOMAIN overlay \subseteq Paths
      BY <1>1, OverridesType DEF LayersTypeOK
    <2>2. LayersTypeOK' /\ CollectedInv' /\ VisitingInv' /\ ProgressInv'
      BY <1>1, <1>3, <2>1, LateMergeKeeps
    <2>3. Sources = {layers[i] : i \in 1..count} /\ Sources' = Sources \cup {Set}
      BY <1>1, <1>3 DEF Sources
    <2>4. \A s \in Sources : Content(s)' = Content(s)
      BY <1>1, <1>3, <2>3, FilesCredited, SourcesDiffer, OverridesFixed DEF Content
    <2>5. Content(Set)' = overlay
      BY <1>3, SourcesDiffer DEF Content, Overrides
    <2>6. \A p \in DOMAIN overlay : /\ p \in DOMAIN Content(Set)'
                                    /\ merged'[p] = overlay[p] => Content(Set)'[p] = merged'[p]
      BY <2>5
    <2>7. \A p \in DOMAIN merged' : Credit(p)'
      BY <1>1, <1>3, <2>1, <2>3, <2>4, <2>6, LateMerge
    <2> QED  BY <2>2, <2>7 DEF LayersInv, CreditInv
  <1> QED  BY <1>2, <1>3 DEF MergeOverrides

LEMMA ResolveUniverseStep ==
  ASSUME LayersInv, ResolveUniverse
  PROVE  LayersInv'
  <1>1. /\ LayersTypeOK /\ CollectedInv /\ ProgressInv /\ phase = "universe"
        /\ \A p \in DOMAIN merged : Credit(p)
    BY DEF LayersInv, ResolveUniverse, CreditInv
  <1>2. CASE Fail
    BY <1>2, FailLayers
  <1>3. ASSUME NEW overlay, DOMAIN overlay \subseteq {SymbolsPath, DerivedPath},
               merged' = Merged(merged, overlay),
               prov' = Recorded(prov, merged, overlay, Universe), phase' = "done",
               UNCHANGED <<project, stack, visited, layers, count>>
        PROVE  LayersInv'
    <2>1. DOMAIN overlay \subseteq Paths
      BY <1>3, DerivedAssumption
    <2>2. LayersTypeOK' /\ CollectedInv' /\ VisitingInv' /\ ProgressInv'
      BY <1>1, <1>3, <2>1, LateMergeKeeps
    <2>3. /\ Sources = {layers[i] : i \in 1..count} \cup {Set}
          /\ Sources' = Sources \cup {Universe}
      BY <1>1, <1>3 DEF Sources
    <2>4. \A s \in Sources : Content(s)' = Content(s)
      BY <1>1, <1>3, <2>3, FilesCredited, SourcesDiffer, OverridesFixed DEF Content
    <2>5. Content(Universe)' = [p \in {SymbolsPath, DerivedPath} |-> merged'[p]]
      BY SourcesDiffer DEF Content
    <2>6. \A p \in DOMAIN overlay :
            /\ p \in DOMAIN Content(Universe)'
            /\ merged'[p] = overlay[p] => Content(Universe)'[p] = merged'[p]
      BY <1>3, <2>5
    <2>7. \A p \in DOMAIN merged' : Credit(p)'
      BY <1>1, <1>3, <2>1, <2>3, <2>4, <2>6, LateMerge
    <2> QED  BY <2>2, <2>7 DEF LayersInv, CreditInv
  <1>4. CASE ~Fail
    <2>1. PICK overlay :
            /\ DOMAIN overlay \subseteq {SymbolsPath, DerivedPath}
            /\ merged' = Merged(merged, overlay)
            /\ prov' = Recorded(prov, merged, overlay, Universe) /\ phase' = "done"
            /\ UNCHANGED <<project, stack, visited, layers, count>>
      BY <1>4 DEF ResolveUniverse, NoLeaves, Universe
    <2> QED  BY <1>3, <2>1
  <1> QED  BY <1>2, <1>4

LEMMA StutterLayers ==
  ASSUME LayersInv, UNCHANGED layerVars
  PROVE  LayersInv'
  <1> USE DEF layerVars
  <1>1. LayersTypeOK'
    BY DEF LayersInv, LayersTypeOK
  <1>2. CollectedInv'
    BY CollectedKept DEF LayersInv
  <1>3. VisitingInv' /\ ProgressInv'
    BY DEF LayersInv, VisitingInv, ProgressInv, Parents
  <1>4. ASSUME NEW p  PROVE Credit(p)' = Credit(p)
    <2>1. Source(p)' = Source(p) /\ Sources' = Sources
      BY DEF Source, Sources
    <2>2. Content(Source(p))' = Content(Source(p))
      BY <2>1, OverridesFixed DEF Content
    <2> QED  BY <2>1, <2>2, OverridesFixed DEF Credit
  <1>5. CreditInv'
    BY <1>4 DEF LayersInv, CreditInv
  <1> QED  BY <1>1, <1>2, <1>3, <1>5 DEF LayersInv

-----------------------------------------------------------------------------
(* The theorems. *)

\* The inductive invariant of a resolution, whatever files a project has and
\* however they extend one another (_collect_layers, resolve_raw).
THEOREM LayersInductive == LayersSpec => []LayersInv
  <1>1. LayersInit => LayersInv
    BY InitLayers DEF LayersInv
  <1>2. LayersInv /\ [LayersNext]_layerVars => LayersInv'
    <2> SUFFICES ASSUME LayersInv, [LayersNext]_layerVars  PROVE LayersInv'
      OBVIOUS
    <2>1. CASE LayersNext
      BY <2>1, DescendStep, CollectedStep, MergeLayerStep, MergeOverridesStep,
         ResolveUniverseStep DEF LayersNext
    <2>2. CASE UNCHANGED layerVars
      BY <2>2, StutterLayers
    <2> QED  BY <2>1, <2>2
  <1> QED  BY <1>1, <1>2, PTL DEF LayersSpec

\* Type correctness of a resolution.
THEOREM LayersTypeCorrect == LayersSpec => []LayersTypeOK
  <1>1. LayersInv => LayersTypeOK
    BY DEF LayersInv
  <1> QED  BY <1>1, LayersInductive, PTL

\* However deep and however shared the parents are, each file is merged once,
\* after all it extends, and the profile last.
THEOREM ParentsComeFirst == LayersSpec => []ParentsFirst
  <1>1. LayersInv => ParentsFirst
    BY DEF LayersInv, CollectedInv, ProgressInv, ParentsFirst, IsInjective
  <1> QED  BY <1>1, LayersInductive, PTL

\* Every value of a resolved configuration is credited to the layer, override
\* or bucket that gives it, and to none that a later one overruled.
THEOREM ProvenanceHolds == LayersSpec => []ProvenanceTrue
  <1>1. ASSUME LayersInv, phase = "done", NEW p \in DOMAIN merged
        PROVE  /\ p \in DOMAIN Content(Source(p)) /\ Content(Source(p))[p] = merged[p]
               /\ \A i, j \in DOMAIN layers :
                    /\ layers[i] = Source(p) /\ i < j
                    /\ p \in DOMAIN project.body[layers[j]]
                    => project.body[layers[j]][p] = Empty
               /\ p \in DOMAIN Overrides /\ Overrides[p] # Empty
                  => Source(p) \in {Set, "universe"}
    <2>1. Credit(p) /\ count = Len(layers) /\ DOMAIN layers = 1..count
      BY <1>1, LayersType DEF LayersInv, CreditInv, ProgressInv
    <2> QED  BY <1>1, <2>1 DEF Credit, Universe
  <1>2. LayersInv => ProvenanceTrue
    BY <1>1 DEF ProvenanceTrue
  <1> QED  BY <1>2, LayersInductive, PTL

-----------------------------------------------------------------------------
(* The terminal front end.                                                 *)

\* A loop waits for its confirmation.
LoopModal == modal.kind = "run" /\ modal.from = "loop"

\* The worker of the preview under way is neither free nor cancelled, and
\* works on the arguments the form remembers.
JobsInv ==
  /\ DOMAIN jobs = 1..MaxJobs
  /\ \A j \in 1..MaxJobs : DOMAIN jobs[j] = DOMAIN Free
  /\ previewJob \in 0..MaxJobs
  /\ previewJob # 0 => /\ jobs[previewJob].stage # "free"
                       /\ jobs[previewJob].cancelled = "no"
                       /\ jobs[previewJob].args = pendingArgs

\* A preview is of the arguments remembered for it; it is only asked for once
\* the form is loaded, so no frame refreshes the form under it.  Where a key may
\* be taken it is of the settings there are, and nothing moves them while a
\* loop waits for its confirmation.
PreviewInv ==
  /\ preview # NoChoice => preview = previewArgs
  /\ preview # NoChoice \/ previewJob # 0 => loaded
  /\ turn = "key" /\ screen = "BacktestLoop" => loaded
  /\ turn = "key" /\ preview # NoChoice => preview = LoopArgs(form, overrides)
  /\ LoopModal => /\ preview # NoChoice /\ previewJob = 0
                  /\ modal.args = preview /\ modal.args = LoopArgs(form, overrides)

ReviewedInv == JobsInv /\ PreviewInv
-----------------------------------------------------------------------------
LEMMA InitReviewed == Init => ReviewedInv
  <1> SUFFICES ASSUME Init  PROVE ReviewedInv
    OBVIOUS
  <1>1. LoopInit /\ screen = "Commands" /\ modal = NoModal
    BY DEF Init
  <1>2. JobsInv
    BY <1>1, JobsAssumption DEF JobsInv, LoopInit
  <1>3. PreviewInv
    BY <1>1 DEF PreviewInv, LoopInit, LoopModal, NoModal
  <1> QED  BY <1>2, <1>3 DEF ReviewedInv

\* The workers' part of the invariant, and the forgetting of a preview.
LEMMA DroppedJobs ==
  ASSUME JobsInv, NEW j \in 0..MaxJobs
  PROVE  /\ DOMAIN Dropped(j) = 1..MaxJobs
         /\ \A k \in 1..MaxJobs : DOMAIN Dropped(j)[k] = DOMAIN Free
  BY JobsAssumption DEF JobsInv, Dropped

LEMMA InvalidateStep ==
  ASSUME JobsInv, Invalidate
  PROVE  JobsInv' /\ preview' = NoChoice /\ previewJob' = 0
  <1>1. previewJob \in 0..MaxJobs
    BY DEF JobsInv
  <1>2. jobs' = Dropped(previewJob) /\ previewJob' = 0 /\ preview' = NoChoice
    BY DEF Invalidate
  <1>3. /\ DOMAIN jobs' = 1..MaxJobs
        /\ \A k \in 1..MaxJobs : DOMAIN (jobs'[k]) = DOMAIN Free
    BY <1>1, <1>2, DroppedJobs
  <1> QED  BY <1>2, <1>3, JobsAssumption DEF JobsInv, Free

LEMMA CancelStep ==
  ASSUME JobsInv, CancelPreview
  PROVE  /\ JobsInv' /\ previewJob' = 0
         /\ UNCHANGED <<fieldVars, preview, previewArgs>>
  <1>1. previewJob \in 0..MaxJobs
    BY DEF JobsInv
  <1>2. jobs' = Dropped(previewJob) /\ previewJob' = 0
    BY DEF CancelPreview
  <1>3. /\ DOMAIN jobs' = 1..MaxJobs
        /\ \A k \in 1..MaxJobs : DOMAIN (jobs'[k]) = DOMAIN Free
    BY <1>1, <1>2, DroppedJobs
  <1> QED  BY <1>2, <1>3, JobsAssumption DEF JobsInv, Free, CancelPreview

LEMMA RequestStep ==
  ASSUME JobsInv, RequestPreview(overrides)
  PROVE  JobsInv' /\ preview' = NoChoice /\ UNCHANGED fieldVars
  <1>1. preview' = NoChoice /\ UNCHANGED fieldVars
    BY DEF RequestPreview
  <1>2. CASE Complete(form)
    <2> DEFINE args == LoopArgs(form, overrides)
    <2>1. PICK j \in FreeJobs :
            /\ jobs' = [jobs EXCEPT ![j] = [Free EXCEPT !.stage = "spawning", !.args = args]]
            /\ previewJob' = j /\ pendingArgs' = args
      BY <1>2 DEF RequestPreview
    <2> HIDE DEF args
    <2>2. j \in 1..MaxJobs
      BY DEF FreeJobs, JobsInv
    <2> QED  BY <1>1, <2>1, <2>2, JobsAssumption DEF JobsInv, Free
  <1>3. CASE ~Complete(form)
    BY <1>1, <1>3, JobsAssumption DEF RequestPreview, JobsInv
  <1> QED  BY <1>1, <1>2, <1>3

\* The workers go on: the one of the preview keeps its arguments.
LEMMA JobStep ==
  ASSUME JobsInv, JobNext
  PROVE  /\ JobsInv'
         /\ UNCHANGED <<fieldVars, preview, previewArgs, previewJob>>
  <1>1. UNCHANGED <<fieldVars, preview, previewArgs, pendingArgs, previewJob>>
    BY DEF JobNext
  <1>2. PICK j \in DOMAIN jobs : JobSpawns(j) \/ JobStoresPid(j) \/ JobWatches(j)
    BY DEF JobNext
  <1>3. j \in 1..MaxJobs /\ DOMAIN jobs = 1..MaxJobs
    BY DEF JobsInv
  <1>4. ASSUME jobs[j].stage \in {"spawning", "watching"}, NEW result, Finished(j, result)
        PROVE  JobsInv'
    BY <1>1, <1>3, <1>4, JobsAssumption DEF JobsInv, Finished, Free
  <1>5. CASE JobSpawns(j)
    <2>1. CASE jobs' = [jobs EXCEPT ![j].child = "alive"]
      BY <1>1, <1>3, <2>1, JobsAssumption DEF JobsInv, Free
    <2>2. CASE Finished(j, "error")
      BY <1>1, <1>4, <1>5, <2>2 DEF JobSpawns
    <2> QED  BY <1>5, <2>1, <2>2 DEF JobSpawns
  <1>6. CASE JobStoresPid(j)
    BY <1>1, <1>3, <1>6, JobsAssumption DEF JobsInv, JobStoresPid, Free
  <1>7. CASE JobWatches(j)
    BY <1>1, <1>4, <1>7 DEF JobWatches
  <1> QED  BY <1>1, <1>2, <1>5, <1>6, <1>7

\* A frame takes the answer of a preview, or drops what is no longer asked for.
LEMMA PollStep ==
  ASSUME JobsInv, PollPreview(overrides), UNCHANGED fieldVars,
         preview # NoChoice => preview = previewArgs
  PROVE  /\ JobsInv'
         /\ preview' # NoChoice => preview' = previewArgs' /\ preview' = LoopArgs(form, overrides)
         /\ preview' # NoChoice \/ previewJob' # 0 => preview # NoChoice \/ previewJob # 0
         /\ previewJob = 0 /\ preview = LoopArgs(form, overrides) =>
              preview' = preview /\ previewJob' = 0
  <1> DEFINE answered == previewJob # 0 /\ jobs[previewJob].stage = "done"
             valid == answered /\ jobs[previewJob].result = "valid"
             shown == IF valid THEN jobs[previewJob].args ELSE preview
             known == IF valid THEN pendingArgs ELSE previewArgs
             args == LoopArgs(form, overrides)
             stale == \/ shown # NoChoice /\ args # known
                      \/ previewJob # 0 /\ ~answered /\ args # pendingArgs
  <1>1. /\ preview' = IF stale THEN NoChoice ELSE shown
        /\ previewArgs' = IF stale THEN NoChoice ELSE known
        /\ previewJob' = IF stale \/ answered THEN 0 ELSE previewJob
        /\ pendingArgs' = IF stale \/ answered THEN NoChoice ELSE pendingArgs
        /\ jobs' = IF answered THEN [jobs EXCEPT ![previewJob] = Free]
                   ELSE IF stale THEN Dropped(previewJob) ELSE jobs
    BY DEF PollPreview
  <1> HIDE DEF args
  <1>2. previewJob \in 0..MaxJobs
    BY DEF JobsInv
  <1>3. previewJob # 0 => jobs[previewJob].args = pendingArgs
    BY DEF JobsInv
  <1>4. shown # NoChoice => shown = known
    BY <1>3
  <1>5. JobsInv'
    <2>1. /\ DOMAIN Dropped(previewJob) = 1..MaxJobs
          /\ \A k \in 1..MaxJobs : DOMAIN Dropped(previewJob)[k] = DOMAIN Free
      BY <1>2, DroppedJobs
    <2>2. CASE answered
      <3>1. jobs' = [jobs EXCEPT ![previewJob] = Free] /\ previewJob' = 0
        BY <1>1, <2>2
      <3> QED  BY <3>1, JobsAssumption DEF JobsInv, Free
    <2>3. CASE ~answered /\ stale
      <3>1. jobs' = Dropped(previewJob) /\ previewJob' = 0
        BY <1>1, <2>3
      <3> QED  BY <2>1, <3>1, JobsAssumption DEF JobsInv, Free
    <2>4. CASE ~answered /\ ~stale
      <3>1. jobs' = jobs /\ previewJob' = previewJob /\ pendingArgs' = pendingArgs
        BY <1>1, <2>4
      <3> QED  BY <3>1 DEF JobsInv
    <2> QED  BY <2>2, <2>3, <2>4
  <1>6. preview' # NoChoice => preview' = previewArgs' /\ preview' = args
    BY <1>1, <1>4
  <1>7. preview' # NoChoice \/ previewJob' # 0 => preview # NoChoice \/ previewJob # 0
    BY <1>1
  <1>8. previewJob = 0 /\ preview = args => preview' = preview /\ previewJob' = 0
    BY <1>1
  <1> QED  BY <1>5, <1>6, <1>7, <1>8 DEF args

-----------------------------------------------------------------------------
(* The steps of the front end. *)

\* What leaves the form alone, is no frame's end, and asks for no confirmation
\* of a loop.
LEMMA FormAlone ==
  ASSUME ReviewedInv, UNCHANGED loopVars, turn' = "tick",
         LoopModal' => modal' = modal /\ overrides' = overrides
  PROVE  ReviewedInv'
  <1>1. JobsInv'
    BY DEF ReviewedInv, JobsInv, loopVars, previewVars
  <1>2. form' = form /\ loaded' = loaded /\ preview' = preview /\ previewArgs' = previewArgs
        /\ previewJob' = previewJob
    BY DEF loopVars, fieldVars, previewVars
  <1>3. LoopModal' => LoopModal
    BY DEF LoopModal
  <1>4. LoopModal' => LoopArgs(form, overrides)' = LoopArgs(form, overrides)
    BY <1>2
  <1>5. PreviewInv'
    BY <1>2, <1>3, <1>4 DEF ReviewedInv, PreviewInv
  <1> QED  BY <1>1, <1>5 DEF ReviewedInv

\* A key of the loop screen.
LEMMA LoopKeyStep ==
  ASSUME ReviewedInv, LoopKey
  PROVE  ReviewedInv'
  <1>1. /\ turn = "key" /\ turn' = "tick" /\ screen = "BacktestLoop"
        /\ modal = NoModal /\ modal' = modal
    BY DEF LoopKey, Key, LoopRest
  <1>2. ~LoopModal' /\ loaded /\ JobsInv /\ PreviewInv
    BY <1>1 DEF LoopModal, NoModal, ReviewedInv, PreviewInv
  <1>3. ASSUME JobsInv', preview' = NoChoice, loaded'
        PROVE  ReviewedInv'
    BY <1>1, <1>2, <1>3 DEF ReviewedInv, PreviewInv
  <1>4. CASE CancelPreview
    <2>1. JobsInv' /\ previewJob' = 0 /\ UNCHANGED <<fieldVars, preview, previewArgs>>
      BY <1>2, <1>4, CancelStep
    <2>2. loaded' = loaded
      BY <2>1 DEF fieldVars
    <2> QED  BY <1>1, <1>2, <2>1, <2>2 DEF ReviewedInv, PreviewInv
  <1>5. CASE Refresh(tour.found)
    BY <1>2, <1>3, <1>5, InvalidateStep DEF Refresh
  <1>6. CASE Edit(tour.fields)
    <2>1. Invalidate /\ loaded' = loaded
      BY <1>6 DEF Edit
    <2> QED  BY <1>2, <1>3, <2>1, InvalidateStep
  <1>7. CASE RequestPreview(overrides)
    <2>1. JobsInv' /\ preview' = NoChoice /\ UNCHANGED fieldVars
      BY <1>2, <1>7, RequestStep
    <2> QED  BY <1>2, <1>3, <2>1 DEF fieldVars
  <1>8. CASE MoveCursor(tour.fields)
    <2>1. UNCHANGED <<previewVars, loaded>>
      BY <1>8 DEF MoveCursor
    <2>2. JobsInv'
      BY <1>2, <2>1 DEF previewVars, JobsInv
    <2> QED  BY <1>1, <1>2, <2>1, <2>2 DEF ReviewedInv, PreviewInv, previewVars
  <1>9. CASE UNCHANGED loopVars
    BY <1>1, <1>2, <1>9, FormAlone
  <1> QED  BY <1>4, <1>5, <1>6, <1>7, <1>8, <1>9 DEF LoopKey

\* Enter: the confirmation shows what was reviewed.
LEMMA LoopStartStep ==
  ASSUME ReviewedInv, LoopStart
  PROVE  ReviewedInv'
  <1>1. /\ turn = "key" /\ turn' = "tick" /\ screen = "BacktestLoop" /\ previewJob = 0
        /\ preview # NoChoice
        /\ modal' = [kind |-> "run", from |-> "loop", args |-> LoopArgs(form, overrides)]
        /\ UNCHANGED <<loopVars, overrides>>
    BY DEF LoopStart, Key, Ready, cfgVars
  <1>2. JobsInv /\ PreviewInv
    BY DEF ReviewedInv
  <1>3. JobsInv' /\ form' = form /\ loaded' = loaded /\ preview' = preview
        /\ previewArgs' = previewArgs /\ previewJob' = previewJob
    BY <1>1, <1>2 DEF JobsInv, loopVars, fieldVars, previewVars
  <1>4. LoopArgs(form, overrides)' = LoopArgs(form, overrides)
    BY <1>1, <1>3
  <1> QED  BY <1>1, <1>2, <1>3, <1>4 DEF ReviewedInv, PreviewInv

\* Any other key.
LEMMA KeyStep ==
  ASSUME ReviewedInv, Keys
  PROVE  ReviewedInv'
  <1>1. CASE Tab \/ Quit \/ Dismiss \/ AcceptRun
    <2>1. UNCHANGED <<loopVars, overrides>> /\ turn' = "tick"
      BY <1>1 DEF Tab, Quit, Dismiss, AcceptRun, Key, cfgVars
    <2>2. modal' = modal \/ modal' = NoModal
      BY <1>1 DEF Tab, Quit, Dismiss, AcceptRun
    <2>3. LoopModal' => modal' = modal
      BY <2>2 DEF LoopModal, NoModal
    <2> QED  BY <2>1, <2>3, FormAlone
  <1>2. CASE MoveCommand \/ Filter \/ EnterForm \/ EditForm \/ SubmitForm
    <2>1. UNCHANGED loopVars /\ turn' = "tick" /\ modal = NoModal
      BY <1>2 DEF MoveCommand, Filter, EnterForm, EditForm, SubmitForm, CommandsRest, Key
    <2>2. modal' = modal \/ modal' = [kind |-> "run", from |-> "form", args |-> FormArgs]
      BY <1>2 DEF MoveCommand, Filter, EnterForm, EditForm, SubmitForm
    <2>3. ~LoopModal'
      BY <2>1, <2>2 DEF LoopModal, NoModal
    <2> QED  BY <2>1, <2>3, FormAlone
  <1>3. CASE LoopKey
    BY <1>3, LoopKeyStep
  <1>4. CASE LoopStart
    BY <1>4, LoopStartStep
  <1>5. CASE ReloadConfig \/ OpenPrompt \/ SwitchProfile \/ ApplyOverride \/ DropOverrides
    <2>1. UNCHANGED loopVars /\ turn' = "tick"
      BY <1>5 DEF ReloadConfig, OpenPrompt, SwitchProfile, ApplyOverride, DropOverrides,
                  ConfigKey, ConfigRest, Prompted, Key
    <2>2. CASE ReloadConfig \/ DropOverrides
      <3>1. modal' = NoModal
        BY <2>2 DEF ReloadConfig, DropOverrides, ConfigKey, Key
      <3> QED  BY <2>1, <3>1, FormAlone DEF LoopModal, NoModal
    <2>3. CASE OpenPrompt
      <3>1. modal'.kind \in {"profile", "leaf", "source"}
        BY <2>3 DEF OpenPrompt
      <3> QED  BY <2>1, <3>1, FormAlone DEF LoopModal
    <2>4. CASE SwitchProfile
      <3>1. modal' = NoModal
        BY <2>4 DEF SwitchProfile
      <3> QED  BY <2>1, <3>1, FormAlone DEF LoopModal, NoModal
    <2>5. CASE ApplyOverride
      <3>1. modal.kind = "leaf" /\ (modal' = NoModal \/ modal' = modal)
        BY <2>5 DEF ApplyOverride, Prompted
      <3> QED  BY <2>1, <3>1, FormAlone DEF LoopModal, NoModal
    <2> QED  BY <1>5, <2>2, <2>3, <2>4, <2>5
  <1>6. CASE ReloadPromotion \/ SwitchSource \/ Select \/ ConfirmPromotion \/ ApplyPromotion
    <2>1. UNCHANGED loopVars /\ turn' = "tick"
      BY <1>6 DEF ReloadPromotion, SwitchSource, Select, ConfirmPromotion, ApplyPromotion,
                  PromoteRest, Prompted, Key
    <2>2. modal' = NoModal \/ modal' = [kind |-> "promote"]
      BY <1>6 DEF ReloadPromotion, SwitchSource, Select, ConfirmPromotion, ApplyPromotion, Key
    <2> QED  BY <2>1, <2>2, FormAlone DEF LoopModal, NoModal
  <1>7. CASE OutputKey
    <2>1. UNCHANGED loopVars /\ turn' = "tick" /\ modal' = NoModal
      BY <1>7 DEF OutputKey, Key
    <2> QED  BY <2>1, FormAlone DEF LoopModal, NoModal
  <1> QED  BY <1>1, <1>2, <1>3, <1>4, <1>5, <1>6, <1>7 DEF Keys

\* The end of a frame: the form is refreshed before there is any preview, or the
\* preview is polled, and dropped if it is no longer of the settings.
LEMMA TickStep ==
  ASSUME ReviewedInv, Tick
  PROVE  ReviewedInv'
  <1>1. turn' = "key" /\ screen' = screen /\ modal' = modal /\ overrides' = overrides
    BY DEF Tick, uiVars
  <1>2. JobsInv /\ PreviewInv
    BY DEF ReviewedInv
  <1>3. CASE screen = "BacktestLoop" /\ ~loaded
    <2>1. Invalidate /\ loaded'
      BY <1>3 DEF Tick, Refresh
    <2>2. JobsInv' /\ preview' = NoChoice /\ previewJob' = 0
      BY <1>2, <2>1, InvalidateStep
    <2>3. ~LoopModal
      BY <1>2, <1>3 DEF PreviewInv
    <2> QED  BY <1>1, <2>1, <2>2, <2>3 DEF ReviewedInv, PreviewInv, LoopModal
  <1>4. CASE ~(screen = "BacktestLoop" /\ ~loaded)
    <2>1. PollPreview(overrides) /\ UNCHANGED fieldVars
      BY <1>4 DEF Tick
    <2>2. preview # NoChoice => preview = previewArgs
      BY <1>2 DEF PreviewInv
    <2>3. /\ JobsInv'
          /\ preview' # NoChoice =>
               preview' = previewArgs' /\ preview' = LoopArgs(form, overrides)
          /\ preview' # NoChoice \/ previewJob' # 0 => preview # NoChoice \/ previewJob # 0
          /\ previewJob = 0 /\ preview = LoopArgs(form, overrides) =>
               preview' = preview /\ previewJob' = 0
      BY <1>2, <2>1, <2>2, PollStep
    <2>4. form' = form /\ loaded' = loaded
      BY <2>1 DEF fieldVars
    <2>5. LoopArgs(form, overrides)' = LoopArgs(form, overrides)
      BY <1>1, <2>4
    <2>6. LoopModal' => LoopModal
      BY <1>1 DEF LoopModal
    <2> HIDE DEF LoopModal
    <2>7. PreviewInv'
      BY <1>1, <1>2, <1>4, <2>3, <2>4, <2>5, <2>6 DEF PreviewInv
    <2> QED  BY <2>3, <2>7 DEF ReviewedInv
  <1> QED  BY <1>3, <1>4

LEMMA NextReviewed == ReviewedInv /\ [Next]_vars => ReviewedInv'
  <1> SUFFICES ASSUME ReviewedInv, [Next]_vars  PROVE ReviewedInv'
    OBVIOUS
  <1>1. CASE Keys
    BY <1>1, KeyStep
  <1>2. CASE Tick
    BY <1>2, TickStep
  <1>3. ASSUME UNCHANGED <<turn, screen, modal, overrides, loopVars>>
        PROVE  ReviewedInv'
    <2>1. LoopArgs(form, overrides)' = LoopArgs(form, overrides) /\ LoopModal' = LoopModal
      BY <1>3 DEF loopVars, fieldVars, LoopModal
    <2>2. JobsInv' = JobsInv
      BY <1>3 DEF JobsInv, loopVars, previewVars
    <2>3. PreviewInv' = PreviewInv
      BY <1>3, <2>1 DEF PreviewInv, loopVars, fieldVars, previewVars
    <2> QED  BY <2>2, <2>3 DEF ReviewedInv
  <1>4. CASE Leave
    <2>1. turn' = "tick" /\ UNCHANGED <<screen, modal, overrides>>
      BY <1>4 DEF Leave, cfgVars
    <2>2. CASE UNCHANGED loopVars
      BY <2>1, <2>2, FormAlone
    <2>3. CASE CancelPreview
      <3>1. JobsInv /\ PreviewInv
        BY DEF ReviewedInv
      <3>2. JobsInv' /\ previewJob' = 0 /\ UNCHANGED <<fieldVars, preview, previewArgs>>
        BY <2>3, <3>1, CancelStep
      <3>3. form' = form /\ loaded' = loaded
        BY <3>2 DEF fieldVars
      <3>4. LoopArgs(form, overrides)' = LoopArgs(form, overrides) /\ LoopModal' = LoopModal
        BY <2>1, <3>3 DEF LoopModal
      <3>5. PreviewInv'
        BY <2>1, <3>1, <3>2, <3>3, <3>4 DEF PreviewInv
      <3> QED  BY <3>2, <3>5 DEF ReviewedInv
    <2> QED  BY <1>4, <2>2, <2>3 DEF Leave
  <1>5. CASE Left
    BY <1>3, <1>5 DEF Left, cfgVars
  <1>6. CASE Background /\ UNCHANGED <<turn, uiVars, cmdVars, startVars, cfgVars, promVars, tour>>
    <2>1. UNCHANGED <<turn, screen, modal, overrides>>
      BY <1>6 DEF uiVars, cfgVars
    <2>2. CASE UNCHANGED loopVars
      BY <1>3, <2>1, <2>2
    <2>3. CASE JobNext
      <3>1. JobsInv /\ PreviewInv
        BY DEF ReviewedInv
      <3>2. JobsInv' /\ UNCHANGED <<fieldVars, preview, previewArgs, previewJob>>
        BY <2>3, <3>1, JobStep
      <3>3. form' = form /\ loaded' = loaded
        BY <3>2 DEF fieldVars
      <3>4. LoopArgs(form, overrides)' = LoopArgs(form, overrides) /\ LoopModal' = LoopModal
        BY <2>1, <3>3 DEF LoopModal
      <3>5. PreviewInv'
        BY <2>1, <3>1, <3>2, <3>3, <3>4 DEF PreviewInv
      <3> QED  BY <3>2, <3>5 DEF ReviewedInv
    <2> QED  BY <1>6, <2>2, <2>3 DEF Background
  <1>7. CASE UNCHANGED vars
    BY <1>3, <1>7 DEF vars, uiVars, cfgVars
  <1> QED  BY <1>1, <1>2, <1>4, <1>5, <1>6, <1>7 DEF Next, Frame

\* However edits, refreshes, overrides, frames and the answers of previews
\* interleave, the loop a user confirms runs the arguments of the preview on
\* show, which are those of the settings as they are (app.rs loop_key,
\* loop_form.rs poll_preview and invalidate_if_changed).
THEOREM StartedAsReviewedHolds == Spec => []StartedAsReviewed
  <1>1. ReviewedInv => StartedAsReviewed
    BY DEF ReviewedInv, PreviewInv, LoopModal, StartedAsReviewed
  <1> QED  BY <1>1, InitReviewed, NextReviewed, PTL DEF Spec

-----------------------------------------------------------------------------
(* What is received of a channel: the fold of the community modules, as the  *)
(* recursion over sets of positions it is defined by.                        *)

Messages == (Streams \X Nat) \cup {Eof}

\* Induction over the numbers, where the statement is the set of those it holds of.
LEMMA NumberInduction ==
  ASSUME NEW S, 0 \in S, \A n \in Nat : n \in S => n + 1 \in S
  PROVE  Nat \subseteq S
  <1> SUFFICES ASSUME NEW T, T = Nat \ S, T # {}  PROVE FALSE
    OBVIOUS
  <1>1. PICK n \in T : \A m \in T : ~(<<m, n>> \in OpToRel(<, Nat))
    <2>1. T \subseteq Nat
      OBVIOUS
    <2> QED  BY <2>1, NatLessThanWellFounded, WFMin, Zenon
  <1>2. \A m \in T : ~(m < n)
    BY <1>1, Zenon DEF OpToRel
  <1> QED  BY <1>2

\* f is what is received of the first n messages, and of any part of them.
Receives(f, messages, n) ==
  f = [T \in SUBSET (1..n) |->
        IF T = {} THEN <<>>
        ELSE LET i == Max(T)
             IN IF messages[i] = Eof THEN f[T \ {i}] ELSE Append(f[T \ {i}], messages[i])]

\* The last of some positions.
LEMMA MaxOf ==
  ASSUME NEW n \in Nat, NEW T \in SUBSET (1..n), T # {}
  PROVE  Max(T) \in T /\ \A i \in T : i <= Max(T)
  <1> DEFINE P == {k \in Nat : T \cap (1..k) # {} => \E x \in T : x <= k /\ \A y \in T \cap (1..k) : y <= x}
  <1>1. 0 \in P
    OBVIOUS
  <1>2. ASSUME NEW k \in Nat, k \in P  PROVE k + 1 \in P
    <2>1. CASE k + 1 \in T
      BY <2>1
    <2>2. CASE k + 1 \notin T
      <3>1. T \cap (1..(k + 1)) = T \cap (1..k)
        BY <2>2
      <3> QED  BY <1>2, <3>1
    <2> QED  BY <2>1, <2>2
  <1>3. n \in P
    <2> HIDE DEF P
    <2> QED  BY <1>1, <1>2, NumberInduction
  <1>4. \E x \in T : \A y \in T : x >= y
    <2>1. T \cap (1..n) = T
      OBVIOUS
    <2> QED  BY <1>3, <2>1
  <1>5. Max(T) \in T /\ \A y \in T : Max(T) >= y
    BY <1>4 DEF Max
  <1> QED  BY <1>5

\* What Receives says of one set.
LEMMA ReceivesStep ==
  ASSUME NEW c, NEW n \in Nat, NEW f, Receives(f, c, n)
  PROVE  \A T \in SUBSET (1..n) :
           /\ T = {} => f[T] = <<>>
           /\ T # {} => f[T] = IF c[Max(T)] = Eof THEN f[T \ {Max(T)}]
                               ELSE Append(f[T \ {Max(T)}], c[Max(T)])
  BY DEF Receives

\* Two of them say the same of every set of the first n numbers.
Agree(f, g, n) == \A T \in SUBSET (1..n) : f[T] = g[T]
SameUpTo(c, d, n) == \A i \in 1..n : c[i] = d[i]

\* There is one such function, as far as it is applied.
LEMMA ReceivesUnique ==
  ASSUME NEW c, NEW n \in Nat, NEW f, Receives(f, c, n), NEW g, Receives(g, c, n)
  PROVE  Agree(f, g, n)
  <1> DEFINE P == {j \in Nat : j <= n => \A T \in SUBSET (1..j) : f[T] = g[T]}
  <1>a. \A T \in SUBSET (1..n) :
           /\ T = {} => f[T] = <<>>
           /\ T # {} => f[T] = IF c[Max(T)] = Eof THEN f[T \ {Max(T)}]
                               ELSE Append(f[T \ {Max(T)}], c[Max(T)])
    BY ReceivesStep
  <1>b. \A T \in SUBSET (1..n) :
           /\ T = {} => g[T] = <<>>
           /\ T # {} => g[T] = IF c[Max(T)] = Eof THEN g[T \ {Max(T)}]
                               ELSE Append(g[T \ {Max(T)}], c[Max(T)])
    BY ReceivesStep
  <1>1. 0 \in P
    <2>1. \A T \in SUBSET (1..0) : T = {}
      OBVIOUS
    <2>2. f[{}] = <<>> /\ g[{}] = <<>>
      BY <1>a, <1>b
    <2> QED  BY <2>1, <2>2
  <1>2. ASSUME NEW j \in Nat, j \in P  PROVE j + 1 \in P
    <2>a. ASSUME j + 1 <= n, NEW T \in SUBSET (1..(j + 1))  PROVE f[T] = g[T]
      <3>1. CASE T = {}
        BY <1>a, <1>b, <3>1
      <3>2. CASE T # {}
        <4>1. T \in SUBSET (1..n)
          BY <2>a
        <4>2. Max(T) \in T /\ \A i \in T : i <= Max(T)
          BY <3>2, <4>1, MaxOf
        <4>3. PICK x \in T : x = Max(T) /\ \A i \in T : i <= x
          BY <4>2
        <4>4. T \ {x} \in SUBSET (1..j)
          <5>1. ASSUME NEW i \in T \ {x}  PROVE i \in 1..j
            <6>1. i \in 1..(j + 1) /\ x \in 1..(j + 1) /\ i <= x /\ i # x
              BY <4>3
            <6> QED  BY <6>1
          <5> QED  BY <5>1
        <4>5. f[T \ {x}] = g[T \ {x}]
          BY <1>2, <2>a, <4>4
        <4>6. f[T] = IF c[x] = Eof THEN f[T \ {x}] ELSE Append(f[T \ {x}], c[x])
          BY <1>a, <3>2, <4>1, <4>3
        <4>7. g[T] = IF c[x] = Eof THEN g[T \ {x}] ELSE Append(g[T \ {x}], c[x])
          BY <1>b, <3>2, <4>1, <4>3
        <4> QED  BY <4>5, <4>6, <4>7
      <3> QED  BY <3>1, <3>2
    <2> QED  BY <2>a
  <1>3. n \in P
    <2> HIDE DEF P
    <2> QED  BY <1>1, <1>2, NumberInduction
  <1> QED  BY <1>3 DEF Agree

\* One message more.
LEMMA ReceivesMore ==
  ASSUME NEW c, NEW n \in Nat, NEW f, Receives(f, c, n),
         NEW d, SameUpTo(c, d, n)
  PROVE  \E g : Receives(g, d, n + 1) /\ Agree(g, f, n)
  <1> DEFINE rest(T) == f[T \ {n + 1}]
             g == [T \in SUBSET (1..(n + 1)) |->
                    IF n + 1 \in T
                    THEN IF d[n + 1] = Eof THEN rest(T) ELSE Append(rest(T), d[n + 1])
                    ELSE f[T]]
  <1>a. \A T \in SUBSET (1..n) :
           /\ T = {} => f[T] = <<>>
           /\ T # {} => f[T] = IF c[Max(T)] = Eof THEN f[T \ {Max(T)}]
                               ELSE Append(f[T \ {Max(T)}], c[Max(T)])
    BY ReceivesStep
  <1>1. ASSUME NEW T \in SUBSET (1..(n + 1)), T # {}
        PROVE  g[T] = IF d[Max(T)] = Eof THEN g[T \ {Max(T)}]
                      ELSE Append(g[T \ {Max(T)}], d[Max(T)])
    <2>1. PICK x \in T : x = Max(T) /\ \A i \in T : i <= x
      <3>1. n + 1 \in Nat
        OBVIOUS
      <3> QED  BY <1>1, <3>1, MaxOf
    <2>2. CASE n + 1 \in T
      <3>1. x = n + 1
        BY <2>1, <2>2
      <3>2. g[T \ {x}] = f[T \ {x}]
        BY <3>1
      <3>3. g[T] = IF d[x] = Eof THEN f[T \ {x}] ELSE Append(f[T \ {x}], d[x])
        BY <2>2, <3>1
      <3> QED  BY <2>1, <3>2, <3>3
    <2>3. CASE n + 1 \notin T
      <3>1. T \in SUBSET (1..n)
        BY <2>3
      <3>2. f[T] = IF c[x] = Eof THEN f[T \ {x}] ELSE Append(f[T \ {x}], c[x])
        <4> HIDE DEF g, rest
        <4> QED  BY <1>a, <1>1, <2>1, <3>1
      <3>3. g[T] = f[T] /\ g[T \ {x}] = f[T \ {x}]
        BY <2>3
      <3>4. c[x] = d[x]
        BY <3>1 DEF SameUpTo
      <3> QED  BY <2>1, <3>2, <3>3, <3>4
    <2> QED  BY <2>2, <2>3
  <1>2. g[{}] = <<>>
    <2>1. f[{}] = <<>>
      BY <1>a
    <2> QED  BY <2>1
  <1>3. g = [T \in SUBSET (1..(n + 1)) |-> g[T]]
    OBVIOUS
  <1>4. Agree(g, f, n)
    BY DEF Agree
  <1> HIDE DEF g
  <1>5. Receives(g, d, n + 1)
    BY <1>1, <1>2, <1>3 DEF Receives
  <1> QED  BY <1>4, <1>5

LEMMA ReceivesExists ==
  ASSUME NEW c, NEW n \in Nat
  PROVE  \E f : Receives(f, c, n)
  <1> DEFINE P == {k \in Nat : \E f : Receives(f, c, k)}
  <1>1. 0 \in P
    <2> DEFINE f == [T \in SUBSET (1..0) |-> <<>>]
    <2>1. \A T \in SUBSET (1..0) : T = {}
      OBVIOUS
    <2>2. Receives(f, c, 0)
      BY <2>1 DEF Receives
    <2> QED  BY <2>2
  <1>2. ASSUME NEW k \in Nat, k \in P  PROVE k + 1 \in P
    <2>1. PICK f : Receives(f, c, k)
      BY <1>2
    <2>2. SameUpTo(c, c, k)
      BY DEF SameUpTo
    <2>3. \E g : Receives(g, c, k + 1) /\ Agree(g, f, k)
      BY <2>1, <2>2, ReceivesMore
    <2> QED  BY <2>3
  <1> QED
    <2> HIDE DEF P
    <2>1. n \in P
      BY <1>1, <1>2, NumberInduction
    <2> QED  BY <2>1 DEF P

LEMMA ReceivedIs ==
  ASSUME NEW c \in Seq(Messages), NEW f, Receives(f, c, Len(c))
  PROVE  Received(c) = f[1..Len(c)]
  <1> DEFINE Is(g) == g = [T \in SUBSET DOMAIN c |->
                            IF T = {} THEN <<>>
                            ELSE LET i == Max(T)
                                 IN IF c[i] = Eof THEN g[T \ {i}] ELSE Append(g[T \ {i}], c[i])]
             g == CHOOSE g : Is(g)
  <1>1. DOMAIN c = 1..Len(c) /\ Len(c) \in Nat
    OBVIOUS
  <1>2. \A h : Is(h) <=> Receives(h, c, Len(c))
    BY <1>1 DEF Receives
  <1>3. Is(g)
    <2> HIDE DEF Is
    <2> QED  BY <1>2
  <1>4. Received(c) = g[DOMAIN c]
    BY Zenon DEF Received, FoldLeft, MapThenFoldSet
  <1>5. Receives(g, c, Len(c))
    BY <1>2, <1>3
  <1> HIDE DEF g, Is
  <1>6. PICK n \in Nat : n = Len(c)
    BY <1>1
  <1>7. PICK h : Receives(h, c, n) /\ Received(c) = h[1..n]
    BY <1>1, <1>4, <1>5, <1>6
  <1>8. \A T \in SUBSET (1..n) : h[T] = f[T]
    <2>1. Receives(f, c, n)
      BY <1>6
    <2>2. Agree(h, f, n)
      BY <1>7, <2>1, ReceivesUnique
    <2> QED  BY <2>2 DEF Agree
  <1>9. 1..n \in SUBSET (1..n)
    OBVIOUS
  <1> QED  BY <1>6, <1>7, <1>8, <1>9

\* All that a proof needs to know of what is received.
LEMMA ReceivedNothing ==
  ASSUME NEW c \in Seq(Messages), Len(c) = 0
  PROVE  Received(c) = <<>>
  <1>1. PICK n \in Nat : n = Len(c)
    OBVIOUS
  <1>2. PICK f : Receives(f, c, n)
    BY ReceivesExists
  <1>3. \A T \in SUBSET (1..n) :
           /\ T = {} => f[T] = <<>>
           /\ T # {} => f[T] = IF c[Max(T)] = Eof THEN f[T \ {Max(T)}]
                               ELSE Append(f[T \ {Max(T)}], c[Max(T)])
    BY <1>2, ReceivesStep
  <1>4. 1..n = {} /\ 1..n \in SUBSET (1..n)
    BY <1>1
  <1>5. f[1..n] = <<>>
    BY <1>3, <1>4
  <1>6. Received(c) = f[1..Len(c)]
    BY <1>1, <1>2, ReceivedIs
  <1> QED  BY <1>1, <1>5, <1>6

LEMMA ReceivedAppend ==
  ASSUME NEW c \in Seq(Messages), NEW m \in Messages
  PROVE  Received(Append(c, m)) = IF m = Eof THEN Received(c) ELSE Append(Received(c), m)
  <1>1. PICK n \in Nat : n = Len(c)
    OBVIOUS
  <1>2. PICK d : d = Append(c, m)
    OBVIOUS
  <1>a. d \in Seq(Messages)
    BY <1>2
  <1>3. Len(d) = n + 1 /\ d[n + 1] = m /\ \A i \in 1..n : c[i] = d[i]
    BY <1>1, <1>2
  <1>4. PICK f : Receives(f, c, n)
    BY ReceivesExists
  <1>5. PICK g : Receives(g, d, n + 1) /\ \A T \in SUBSET (1..n) : g[T] = f[T]
    <2>1. SameUpTo(c, d, n)
      BY <1>3 DEF SameUpTo
    <2>2. \E g : Receives(g, d, n + 1) /\ Agree(g, f, n)
      BY <1>4, <2>1, ReceivesMore
    <2> QED  BY <2>2 DEF Agree
  <1>6. PICK k \in Nat : k = n + 1
    OBVIOUS
  <1>7. Received(c) = f[1..n] /\ Received(d) = g[1..k]
    BY <1>a, <1>1, <1>3, <1>4, <1>5, <1>6, ReceivedIs
  <1>8. 1..k \in SUBSET (1..k) /\ 1..k # {} /\ k \in 1..k /\ (1..k) \ {k} = 1..n
    <2>1. k \in 1..k
      BY <1>6
    <2>2. (1..k) \ {k} = 1..n
      BY <1>6
    <2> QED  BY <2>1, <2>2
  <1>9. Max(1..k) = k
    <2>1. Max(1..k) \in 1..k /\ \A i \in 1..k : i <= Max(1..k)
      BY <1>8, MaxOf
    <2>2. PICK x \in 1..k : x = Max(1..k) /\ \A i \in 1..k : i <= x
      BY <2>1
    <2> QED  BY <1>8, <2>2
  <1>10. g[1..k] = IF d[k] = Eof THEN g[1..n] ELSE Append(g[1..n], d[k])
    <2>1. \A T \in SUBSET (1..k) :
            /\ T = {} => g[T] = <<>>
            /\ T # {} => g[T] = IF d[Max(T)] = Eof THEN g[T \ {Max(T)}]
                                ELSE Append(g[T \ {Max(T)}], d[Max(T)])
      <3>1. Receives(g, d, k)
        BY <1>5, <1>6
      <3> QED  BY <3>1, ReceivesStep
    <2> QED  BY <1>8, <1>9, <2>1
  <1>11. g[1..n] = f[1..n]
    <2>1. 1..n \in SUBSET (1..n)
      OBVIOUS
    <2> QED  BY <1>5, <2>1
  <1> QED  BY <1>2, <1>3, <1>6, <1>7, <1>10, <1>11

LEMMA ReceivedType ==
  ASSUME NEW c \in Seq(Messages)
  PROVE  Received(c) \in Seq(Streams \X Nat)
  <1> DEFINE P == {n \in Nat : \A d \in Seq(Messages) : Len(d) = n => Received(d) \in Seq(Streams \X Nat)}
  <1>1. 0 \in P
    <2> SUFFICES ASSUME NEW d \in Seq(Messages), Len(d) = 0  PROVE Received(d) \in Seq(Streams \X Nat)
      OBVIOUS
    <2>1. d = <<>>
      BY EmptySeq
    <2>2. Received(d) = <<>>
      BY <2>1, ReceivedNothing
    <2> QED  BY <2>2
  <1>2. ASSUME NEW n \in Nat, n \in P  PROVE n + 1 \in P
    <2> SUFFICES ASSUME NEW d \in Seq(Messages), Len(d) = n + 1
                 PROVE  Received(d) \in Seq(Streams \X Nat)
      OBVIOUS
    <2> DEFINE e == SubSeq(d, 1, n)
               m == d[n + 1]
    <2>1. e \in Seq(Messages) /\ Len(e) = n /\ m \in Messages /\ d = Append(e, m)
      OBVIOUS
    <2> HIDE DEF e, m
    <2>2. Received(e) \in Seq(Streams \X Nat)
      BY <1>2, <2>1
    <2>3. Received(d) = IF m = Eof THEN Received(e) ELSE Append(Received(e), m)
      BY <2>1, ReceivedAppend
    <2>4. m # Eof => m \in Streams \X Nat
      BY <2>1 DEF Messages
    <2> QED  BY <2>2, <2>3, <2>4
  <1>3. Len(c) \in P
    <2> HIDE DEF P
    <2>1. Len(c) \in Nat
      OBVIOUS
    <2> QED  BY <1>1, <1>2, <2>1, NumberInduction
  <1> QED  BY <1>3

-----------------------------------------------------------------------------
(* The invariant behind OutputKept.                                          *)

Rows == (Streams \cup Ended \cup {"cmd"}) \X Nat

\* Of each stream the rows are numbered upwards, nothing is missing after the
\* first one shown, and nothing is shown that was not pumped.
Numbered(rows) ==
  \A i, j \in DOMAIN rows :
    rows[i][1] \in Streams /\ rows[j][1] = rows[i][1] /\ i < j => rows[i][2] < rows[j][2]

Unbroken(rows, sent) ==
  \A i \in DOMAIN rows : rows[i][1] \in Streams =>
    /\ rows[i][2] \in 1..sent[rows[i][1]]
    /\ \A n \in (rows[i][2] + 1)..sent[rows[i][1]] :
         \E j \in DOMAIN rows : rows[j] = Line(rows[i][1], n)

AtMost(n, bound) == IF n > bound THEN bound ELSE n
Reported(s) == IF s \in eof THEN 1 ELSE 0

RunnerType ==
  /\ uv \in {"none", "alive", "closing", "gone"} /\ python \in {"none", "alive", "gone"}
  /\ exit \in {"none", "ok", "bad", "signal"}
  /\ written \in [Streams -> Nat] /\ pumped \in [Streams -> Nat]
  /\ eof \subseteq Streams /\ channel \in Seq(Messages)
  /\ running \in BOOLEAN /\ openStreams \in Int /\ lines \in Seq(Rows)
  /\ status \in {"Idle", "Running"} \cup Ended

\* A process that is over was told how; a stream ends once its writers have
\* ended and its pump has sent the rest.
ProcessesInv ==
  /\ python = "gone" => exit # "none"
  /\ uv \in {"closing", "gone"} => python = "gone"
  /\ \A s \in Streams :
       /\ pumped[s] <= written[s]
       /\ s \in eof => uv \in {"closing", "gone"} /\ python = "gone" /\ pumped[s] = written[s]

\* While the command runs, the pane and what the channel still holds.
RunningInv ==
  running =>
    LET fresh == Received(channel)
        sent == pumped["out"] + pumped["err"]
    IN /\ uv # "none" /\ status \in {"Running", "Cancelled"}
       /\ openStreams = 2 - Reported("out") - Reported("err") + (Len(channel) - Len(fresh))
       /\ Numbered(lines \o fresh) /\ Unbroken(lines \o fresh, pumped)
       /\ Len(fresh) <= sent /\ Len(lines) = AtMost(1 + sent - Len(fresh), Capacity)

\* Once it has ended nothing moves any more.
EndedInv ==
  status \in Ended /\ ~running =>
    /\ eof = Streams /\ uv = "gone"
    /\ lines # <<>> /\ lines[Len(lines)] = Footer(status)
    /\ Len(lines) = AtMost(Total, Capacity)
    /\ Numbered(lines) /\ Unbroken(lines, written)
    /\ status = "Succeeded" => exit = "ok"
    /\ status = "Failed" => exit \in {"bad", "signal"}

RunnerInv == RunnerType /\ ProcessesInv /\ RunningInv /\ EndedInv
OutputInv == over = "no" => RunnerInv

\* rows are what is left of ls without its first ones.
EndOf(rows, ls, gone) ==
  /\ gone \in Nat /\ gone + Len(rows) = Len(ls)
  /\ \A i \in 1..Len(rows) : rows[i] = ls[gone + i]

LEMMA KeptRows ==
  ASSUME NEW ls \in Seq(Rows)
  PROVE  /\ Kept(ls) \in Seq(Rows) /\ Len(Kept(ls)) = AtMost(Len(ls), Capacity)
         /\ EndOf(Kept(ls), ls, Excess(ls))
         /\ ls # <<>> => Kept(ls) # <<>> /\ Kept(ls)[Len(Kept(ls))] = ls[Len(ls)]
  <1>1. PICK n \in Nat : n = Len(ls)
    OBVIOUS
  <1>2. PICK e \in Nat : e = Excess(ls) /\ e <= n /\ n - e = AtMost(n, Capacity)
    <2>1. Capacity \in Nat
      BY CapacityAssumption
    <2>2. CASE n > Capacity
      <3>1. n - Capacity \in Nat /\ n - Capacity <= n /\ n - (n - Capacity) = Capacity
        BY <2>1, <2>2
      <3>2. Excess(ls) = n - Capacity /\ AtMost(n, Capacity) = Capacity
        BY <1>1, <2>2 DEF Excess, AtMost
      <3> QED  BY <3>1, <3>2
    <2>3. CASE ~(n > Capacity)
      <3>1. Excess(ls) = 0 /\ AtMost(n, Capacity) = n /\ 0 <= n /\ n - 0 = n
        BY <1>1, <2>3 DEF Excess, AtMost
      <3> QED  BY <3>1
    <2> QED  BY <2>2, <2>3
  <1>3. PICK rows : rows = SubSeq(ls, e + 1, n)
    OBVIOUS
  <1>4. rows \in Seq(Rows) /\ Len(rows) = n - e
    BY <1>1, <1>2, <1>3
  <1>5. \A i \in 1..(n - e) : rows[i] = ls[e + i]
    BY <1>1, <1>2, <1>3
  <1>6. Kept(ls) = rows
    BY <1>1, <1>2, <1>3 DEF Kept
  <1>7. ls # <<>> => rows # <<>> /\ rows[Len(rows)] = ls[Len(ls)]
    <2>1. ls # <<>> => n > 0
      BY <1>1
    <2>2. n > 0 => n - e > 0
      BY <1>2, CapacityAssumption DEF AtMost
    <2>3. n - e > 0 => rows[n - e] = ls[e + (n - e)]
      <3>1. n - e > 0 => n - e \in 1..(n - e)
        BY <1>2
      <3> QED  BY <1>5, <3>1
    <2>4. e + (n - e) = n
      BY <1>2
    <2> QED  BY <1>1, <1>4, <2>1, <2>2, <2>3, <2>4
  <1> QED  BY <1>1, <1>2, <1>4, <1>5, <1>6, <1>7 DEF EndOf

\* Dropping the first rows leaves no gap.
LEMMA EndOfPane ==
  ASSUME NEW ls \in Seq(Rows), NEW rows \in Seq(Rows), NEW e, EndOf(rows, ls, e),
         Numbered(ls), NEW sent \in [Streams -> Nat], Unbroken(ls, sent)
  PROVE  Numbered(rows) /\ Unbroken(rows, sent)
  <1>1. PICK n \in Nat : n = Len(rows) /\ e \in Nat /\ Len(ls) = e + n
    BY DEF EndOf
  <1>2. \A i \in 1..n : e + i \in 1..(e + n) /\ rows[i] = ls[e + i]
    BY <1>1 DEF EndOf
  <1>3. DOMAIN rows = 1..n /\ DOMAIN ls = 1..(e + n)
    BY <1>1
  <1>4. Numbered(rows)
    <2> SUFFICES ASSUME NEW i \in 1..n, NEW j \in 1..n,
                        rows[i][1] \in Streams, rows[j][1] = rows[i][1], i < j
                 PROVE  rows[i][2] < rows[j][2]
      BY <1>3 DEF Numbered
    <2>1. PICK x \in 1..(e + n) : x = e + i /\ ls[x] = rows[i]
      BY <1>2
    <2>2. PICK y \in 1..(e + n) : y = e + j /\ ls[y] = rows[j]
      BY <1>2
    <2>3. x < y
      BY <1>1, <2>1, <2>2
    <2> QED  BY <1>3, <2>1, <2>2, <2>3 DEF Numbered
  <1>5. Unbroken(rows, sent)
    <2> SUFFICES ASSUME NEW i \in 1..n, rows[i][1] \in Streams
                 PROVE  /\ rows[i][2] \in 1..sent[rows[i][1]]
                        /\ \A m \in (rows[i][2] + 1)..sent[rows[i][1]] :
                             \E j \in 1..n : rows[j] = Line(rows[i][1], m)
      BY <1>3 DEF Unbroken
    <2>1. PICK x \in 1..(e + n) : x = e + i /\ ls[x] = rows[i]
      BY <1>2
    <2>2. /\ rows[i][2] \in 1..sent[rows[i][1]]
          /\ \A m \in (rows[i][2] + 1)..sent[rows[i][1]] :
               \E j \in 1..(e + n) : ls[j] = Line(rows[i][1], m)
      BY <1>3, <2>1 DEF Unbroken
    <2>3. ASSUME NEW m \in (rows[i][2] + 1)..sent[rows[i][1]]
          PROVE  \E j \in 1..n : rows[j] = Line(rows[i][1], m)
      <3>1. PICK y \in 1..(e + n) : ls[y] = Line(rows[i][1], m)
        BY <2>2
      <3>2. ls[y][1] = ls[x][1] /\ ls[y][2] = m /\ ls[x][1] \in Streams
        BY <2>1, <3>1 DEF Line
      <3>3. rows[i][2] \in Int /\ sent[rows[i][1]] \in Int /\ m > ls[x][2]
        BY <2>1, <2>2
      <3>4. ~(y < x)
        <4>1. y < x => ls[y][2] < ls[x][2]
          BY <1>3, <3>2 DEF Numbered
        <4> QED  BY <2>1, <3>2, <3>3, <4>1
      <3>5. PICK j \in 1..n : y = e + j
        <4>1. y >= e + i /\ y <= e + n /\ y \in Int /\ i >= 1
          BY <1>1, <2>1, <3>4
        <4>2. y - e \in 1..n /\ y = e + (y - e)
          BY <1>1, <4>1
        <4> QED  BY <4>2
      <3>6. rows[j] = ls[y]
        BY <1>2, <3>5
      <3> QED  BY <3>1, <3>6
    <2> QED  BY <2>2, <2>3
  <1> QED  BY <1>4, <1>5

\* A header or footer changes neither.
LEMMA OtherRow ==
  ASSUME NEW rows \in Seq(Rows), NEW row \in Rows, row[1] \notin Streams,
         Numbered(rows), NEW sent \in [Streams -> Nat], Unbroken(rows, sent)
  PROVE  Numbered(Append(rows, row)) /\ Unbroken(Append(rows, row), sent)
  <1>1. PICK n \in Nat : n = Len(rows)
    OBVIOUS
  <1>2. PICK more : more = Append(rows, row)
    OBVIOUS
  <1>3. /\ DOMAIN rows = 1..n /\ DOMAIN more = 1..(n + 1)
        /\ more[n + 1] = row /\ \A i \in 1..n : more[i] = rows[i]
    BY <1>1, <1>2
  <1>4. \A i \in 1..(n + 1) : more[i][1] \in Streams => i \in 1..n
    BY <1>3
  <1>5. Numbered(more)
    <2> SUFFICES ASSUME NEW i \in 1..(n + 1), NEW j \in 1..(n + 1),
                        more[i][1] \in Streams, more[j][1] = more[i][1], i < j
                 PROVE  more[i][2] < more[j][2]
      BY <1>3 DEF Numbered
    <2>1. i \in 1..n /\ j \in 1..n
      BY <1>4
    <2> QED  BY <1>3, <2>1 DEF Numbered
  <1>6. Unbroken(more, sent)
    <2> SUFFICES ASSUME NEW i \in 1..(n + 1), more[i][1] \in Streams
                 PROVE  /\ more[i][2] \in 1..sent[more[i][1]]
                        /\ \A m \in (more[i][2] + 1)..sent[more[i][1]] :
                             \E j \in 1..(n + 1) : more[j] = Line(more[i][1], m)
      BY <1>3 DEF Unbroken
    <2>1. i \in 1..n /\ more[i] = rows[i]
      BY <1>3, <1>4
    <2>2. /\ rows[i][2] \in 1..sent[rows[i][1]]
          /\ \A m \in (rows[i][2] + 1)..sent[rows[i][1]] :
               \E j \in 1..n : rows[j] = Line(rows[i][1], m)
      BY <1>3, <2>1 DEF Unbroken
    <2>3. ASSUME NEW j \in 1..n
          PROVE  j \in 1..(n + 1) /\ more[j] = rows[j]
      BY <1>3
    <2> QED  BY <2>1, <2>2, <2>3
  <1> QED  BY <1>2, <1>5, <1>6

\* The next line of a stream.
LEMMA NextLine ==
  ASSUME NEW rows \in Seq(Rows), Numbered(rows),
         NEW sent \in [Streams -> Nat], Unbroken(rows, sent), NEW s \in Streams,
         NEW row, row = Line(s, sent[s] + 1)
  PROVE  /\ Numbered(Append(rows, row))
         /\ Unbroken(Append(rows, row), [sent EXCEPT ![s] = @ + 1])
  <1>1. PICK n \in Nat : n = Len(rows)
    OBVIOUS
  <1>2. PICK more : more = Append(rows, row)
    OBVIOUS
  <1>3. /\ DOMAIN rows = 1..n /\ DOMAIN more = 1..(n + 1)
        /\ more[n + 1] = row /\ \A i \in 1..n : more[i] = rows[i]
    BY <1>1, <1>2
  <1>4. \A i \in 1..n : rows[i] \in Rows
    BY <1>1
  <1>5. PICK k \in Nat : k = sent[s] /\ row[1] = s /\ row[2] = k + 1
    BY DEF Line
  <1>6. PICK then : then = [sent EXCEPT ![s] = @ + 1]
    OBVIOUS
  <1>7. then[s] = k + 1 /\ \A r \in Streams : r # s => then[r] = sent[r]
    BY <1>5, <1>6
  <1>8. \A i \in 1..n : rows[i][1] = s => rows[i][2] \in 1..k
    BY <1>3, <1>5 DEF Unbroken
  <1>9. Numbered(more)
    <2> SUFFICES ASSUME NEW i \in 1..(n + 1), NEW j \in 1..(n + 1),
                        more[i][1] \in Streams, more[j][1] = more[i][1], i < j
                 PROVE  more[i][2] < more[j][2]
      BY <1>3 DEF Numbered
    <2>1. i \in 1..n /\ more[i] = rows[i]
      BY <1>3
    <2>2. CASE j \in 1..n
      BY <1>3, <2>1, <2>2 DEF Numbered
    <2>3. CASE j = n + 1
      <3>1. rows[i][1] = s /\ more[j][2] = k + 1
        BY <1>3, <1>5, <2>1, <2>3
      <3>2. rows[i][2] \in 1..k
        BY <1>8, <2>1, <3>1
      <3> QED  BY <2>1, <3>1, <3>2
    <2> QED  BY <2>2, <2>3
  <1>10. Unbroken(more, then)
    <2> SUFFICES ASSUME NEW i \in 1..(n + 1), more[i][1] \in Streams
                 PROVE  /\ more[i][2] \in 1..then[more[i][1]]
                        /\ \A m \in (more[i][2] + 1)..then[more[i][1]] :
                             \E j \in 1..(n + 1) : more[j] = Line(more[i][1], m)
      BY <1>3 DEF Unbroken
    <2>1. CASE i = n + 1
      <3>1. more[i][1] = s /\ more[i][2] = k + 1 /\ then[more[i][1]] = k + 1
        BY <1>3, <1>5, <1>7, <2>1
      <3>2. k + 1 \in 1..(k + 1) /\ (k + 1 + 1)..(k + 1) = {}
        OBVIOUS
      <3> QED  BY <3>1, <3>2
    <2>2. CASE i # n + 1
      <3>1. i \in 1..n /\ more[i] = rows[i]
        BY <1>3, <2>2
      <3>2. /\ rows[i][2] \in 1..sent[rows[i][1]]
            /\ \A m \in (rows[i][2] + 1)..sent[rows[i][1]] :
                 \E j \in 1..n : rows[j] = Line(rows[i][1], m)
        BY <1>3, <3>1 DEF Unbroken
      <3>3. ASSUME NEW j \in 1..n
            PROVE  j \in 1..(n + 1) /\ more[j] = rows[j]
        BY <1>3
      <3>4. CASE rows[i][1] # s
        <4>1. then[rows[i][1]] = sent[rows[i][1]]
          BY <1>7, <3>1, <3>4
        <4> QED  BY <3>1, <3>2, <3>3, <4>1
      <3>5. CASE rows[i][1] = s
        <4>1. PICK x \in 1..k : x = rows[i][2]
          BY <1>8, <3>1, <3>5
        <4>2. \A m \in (x + 1)..k : \E j \in 1..n : rows[j] = Line(s, m)
          BY <1>5, <3>2, <3>5, <4>1
        <4>3. ASSUME NEW m \in (x + 1)..(k + 1)
              PROVE  \E j \in 1..(n + 1) : more[j] = Line(s, m)
          <5>1. CASE m = k + 1
            <6>1. n + 1 \in 1..(n + 1) /\ more[n + 1] = Line(s, m)
              BY <1>3, <1>5, <5>1
            <6> QED  BY <6>1
          <5>2. CASE m # k + 1
            <6>1. m \in (x + 1)..k
              BY <5>2
            <6> QED  BY <3>3, <4>2, <6>1
          <5> QED  BY <5>1, <5>2
        <4>4. x \in 1..(k + 1)
          OBVIOUS
        <4> QED  BY <1>7, <3>1, <3>5, <4>1, <4>3, <4>4
      <3> QED  BY <3>4, <3>5
    <2> QED  BY <2>1, <2>2
  <1> QED  BY <1>2, <1>6, <1>9, <1>10

\* The messages a pump sends, and the rows they make.
LEMMA Typing ==
  /\ \A s \in Streams : \A n \in Nat : Line(s, n) \in Rows /\ Line(s, n) \in Messages
                                       /\ Line(s, n) # Eof
  /\ Eof \in Messages /\ Header \in Rows /\ Header[1] \notin Streams
  /\ \A s \in Ended : Footer(s) \in Rows /\ Footer(s)[1] \notin Streams
  BY DEF Streams, Ended, Line, Footer, Header, Eof, Rows, Messages

LEMMA ReceivedRows ==
  ASSUME NEW c \in Seq(Messages)
  PROVE  Received(c) \in Seq(Streams \X Nat) /\ Received(c) \in Seq(Rows)
  <1>1. Received(c) \in Seq(Streams \X Nat)
    BY ReceivedType
  <1>2. Streams \X Nat \subseteq Rows
    BY DEF Rows
  <1> QED  BY <1>1, <1>2

LEMMA StartKeeps == StartOk => RunnerInv'
  <1> SUFFICES ASSUME StartOk  PROVE RunnerInv'
    OBVIOUS
  <1>1. channel' \in Seq(Messages) /\ Len(channel') = 0
    BY DEF StartOk
  <1>2. Received(channel') = <<>>
    BY <1>1, ReceivedNothing
  <1>3. /\ lines' = <<Header>> /\ lines' \in Seq(Rows) /\ Len(lines') = 1
        /\ DOMAIN lines' = 1..1 /\ lines'[1] = Header
    BY Typing DEF StartOk
  <1>4. lines' \o <<>> = lines'
    BY <1>3
  <1>5. RunnerType'
    BY <1>1, <1>3 DEF StartOk, RunnerType
  <1>6. ProcessesInv'
    BY DEF StartOk, ProcessesInv
  <1>7. Numbered(lines') /\ Unbroken(lines', pumped')
    BY <1>3, Typing DEF Numbered, Unbroken
  <1>8. openStreams' = 2 - Reported("out")' - Reported("err")' + (0 - 0)
    BY DEF StartOk, Reported
  <1>9. Len(lines') = AtMost(1 + (0 + 0) - 0, Capacity)
    BY <1>3, CapacityAssumption DEF AtMost
  <1>10. /\ uv' # "none" /\ status' = "Running" /\ running'
         /\ pumped'["out"] = 0 /\ pumped'["err"] = 0
    BY DEF StartOk, Streams
  <1>11. RunningInv'
    BY <1>1, <1>2, <1>4, <1>7, <1>8, <1>9, <1>10 DEF RunningInv
  <1>12. EndedInv'
    BY <1>10 DEF EndedInv
  <1> QED  BY <1>5, <1>6, <1>11, <1>12 DEF RunnerInv

\* The pane's part of the invariant depends on nothing else.
LEMMA PaneKept ==
  ASSUME RunnerInv, UNCHANGED <<pumpVars, channel, running, openStreams, lines, written>>,
         running => uv' # "none" /\ status' \in {"Running", "Cancelled"},
         ~running => UNCHANGED <<uv, exit, status>>
  PROVE  RunningInv' /\ EndedInv'
  <1>1. /\ pumped' = pumped /\ eof' = eof /\ channel' = channel /\ running' = running
        /\ openStreams' = openStreams /\ lines' = lines /\ written' = written
    BY DEF pumpVars
  <1>2. Reported("out")' = Reported("out") /\ Reported("err")' = Reported("err") /\ Total' = Total
    BY <1>1 DEF Reported, Total
  <1>3. RunningInv'
    BY <1>1, <1>2 DEF RunnerInv, RunningInv
  <1>4. EndedInv'
    BY <1>1, <1>2 DEF RunnerInv, EndedInv
  <1> QED  BY <1>3, <1>4

LEMMA CancelKeeps == RunnerInv /\ Cancel => RunnerInv'
  <1> SUFFICES ASSUME RunnerInv, Cancel  PROVE RunnerInv'
    OBVIOUS
  <1>1. /\ UNCHANGED <<pumpVars, channel, running, openStreams, lines, written>>
        /\ running /\ uv # "none" /\ uv' # "none" /\ status' \in {"Running", "Cancelled"}
    BY DEF Cancel, Kill, KillFails, procVars, RunnerInv, RunningInv
  <1>2. RunningInv' /\ EndedInv'
    BY <1>1, PaneKept
  <1>3. RunnerType'
    BY DEF Cancel, Kill, KillFails, procVars, pumpVars, RunnerInv, RunnerType, Ended
  <1>4. ProcessesInv'
    BY DEF Cancel, Kill, KillFails, procVars, pumpVars, RunnerInv, RunnerType, RunningInv, ProcessesInv
  <1> QED  BY <1>2, <1>3, <1>4 DEF RunnerInv

LEMMA RestKeeps ==
  RunnerInv /\ UNCHANGED <<procVars, pumpVars, channel, running, openStreams, lines, status>>
    => RunnerInv'
  <1> SUFFICES ASSUME RunnerInv,
                      UNCHANGED <<procVars, pumpVars, channel, running, openStreams, lines, status>>
               PROVE  RunnerInv'
    OBVIOUS
  <1>1. RunnerType' /\ ProcessesInv'
    BY DEF RunnerInv, RunnerType, ProcessesInv, procVars, pumpVars
  <1>2. RunningInv' /\ EndedInv'
    <2>1. UNCHANGED <<pumpVars, channel, running, openStreams, lines, written, uv, exit, status>>
      BY DEF procVars
    <2>2. running => uv' # "none" /\ status' \in {"Running", "Cancelled"}
      BY <2>1 DEF RunnerInv, RunningInv
    <2> QED  BY <2>1, <2>2, PaneKept
  <1> QED  BY <1>1, <1>2 DEF RunnerInv

LEMMA ProcessesKeep == RunnerInv /\ Processes => RunnerInv'
  <1> SUFFICES ASSUME RunnerInv, Processes  PROVE RunnerInv'
    OBVIOUS
  <1>1. ASSUME NEW s \in Streams, Writes(s)  PROVE RunnerInv'
    <2>1. /\ UNCHANGED <<uv, python, exit, pumped, eof, channel, running, openStreams, lines, status>>
          /\ python = "alive" /\ written' = [written EXCEPT ![s] = @ + 1]
      BY <1>1 DEF Writes, pumpVars, paneVars
    <2>2. RunnerType'
      BY <2>1 DEF RunnerInv, RunnerType
    <2>3. ProcessesInv'
      BY <2>1 DEF RunnerInv, RunnerType, ProcessesInv
    <2>4. Reported("out")' = Reported("out") /\ Reported("err")' = Reported("err")
      BY <2>1 DEF Reported
    <2>5. RunningInv'
      BY <2>1, <2>4 DEF RunnerInv, RunningInv
    <2>6. EndedInv'
      BY <2>1 DEF RunnerInv, ProcessesInv, EndedInv
    <2> QED  BY <2>2, <2>3, <2>5, <2>6 DEF RunnerInv
  <1>2. ASSUME NEW code \in {"ok", "bad"}, PythonEnds(code)  PROVE RunnerInv'
    <2>1. /\ UNCHANGED <<uv, written, pumpVars, channel, running, openStreams, lines, status>>
          /\ python = "alive" /\ python' = "gone" /\ exit' = code
      BY <1>2 DEF PythonEnds, paneVars
    <2>2. RunnerType'
      BY <2>1 DEF RunnerInv, RunnerType, pumpVars
    <2>3. ProcessesInv'
      BY <2>1 DEF RunnerInv, RunnerType, ProcessesInv, pumpVars
    <2>4. RunningInv'
      BY <2>1 DEF RunnerInv, RunningInv, Reported, pumpVars
    <2>5. EndedInv'
      BY <2>1 DEF RunnerInv, ProcessesInv, EndedInv
    <2> QED  BY <2>2, <2>3, <2>4, <2>5 DEF RunnerInv
  <1>3. CASE UvEnds
    <2>1. /\ UNCHANGED <<python, exit, written, pumpVars, channel, running, openStreams, lines, status>>
          /\ uv # "gone" /\ uv' \in {"closing", "gone"} /\ python = "gone"
      BY <1>3 DEF UvEnds, paneVars, RunnerInv, ProcessesInv
    <2>2. RunnerType'
      BY <2>1 DEF RunnerInv, RunnerType, pumpVars
    <2>3. ProcessesInv'
      BY <2>1 DEF RunnerInv, RunnerType, ProcessesInv, pumpVars
    <2>4. RunningInv'
      BY <2>1 DEF RunnerInv, RunningInv, Reported, pumpVars
    <2>5. EndedInv'
      BY <2>1 DEF RunnerInv, EndedInv
    <2> QED  BY <2>2, <2>3, <2>4, <2>5 DEF RunnerInv
  <1> QED  BY <1>1, <1>2, <1>3 DEF Processes

LEMMA ConcatenateAppend ==
  ASSUME NEW a \in Seq(Rows), NEW b \in Seq(Rows), NEW row \in Rows
  PROVE  a \o Append(b, row) = Append(a \o b, row)
  <1>1. a \o b \in Seq(Rows) /\ <<row>> \in Seq(Rows)
    OBVIOUS
  <1>2. Append(b, row) = b \o <<row>>
    BY AppendIsConcat
  <1>3. Append(a \o b, row) = (a \o b) \o <<row>>
    <2>1. \A c \in Seq(Rows) : Append(c, row) = c \o <<row>>
      BY AppendIsConcat
    <2> QED  BY <1>1, <2>1
  <1>4. (a \o b) \o <<row>> = a \o (b \o <<row>>)
    <2>1. \A c \in Seq(Rows) : (a \o b) \o c = a \o (b \o c)
      BY ConcatAssociative
    <2> QED  BY <1>1, <2>1
  <1> QED  BY <1>2, <1>3, <1>4

LEMMA PumpLineKeeps ==
  ASSUME RunnerInv, NEW s \in Streams, PumpLine(s)
  PROVE  RunnerInv'
  <1>1. /\ UNCHANGED <<uv, python, exit, written, eof, running, openStreams, lines, status>>
        /\ pumped[s] < written[s] /\ pumped' = [pumped EXCEPT ![s] = @ + 1]
        /\ channel' = Append(channel, Line(s, pumped[s] + 1))
    BY DEF PumpLine, procVars, paneVars
  <1>2. pumped \in [Streams -> Nat] /\ channel \in Seq(Messages) /\ lines \in Seq(Rows)
    BY DEF RunnerInv, RunnerType
  <1>3. PICK row : row = Line(s, pumped[s] + 1)
    OBVIOUS
  <1>4. row \in Messages /\ row \in Rows /\ row # Eof
    <2>1. pumped[s] + 1 \in Nat
      BY <1>2
    <2> QED  BY <1>3, <2>1, Typing
  <1>5. PICK fresh : fresh = Received(channel)
    OBVIOUS
  <1>6. fresh \in Seq(Rows)
    BY <1>2, <1>5, ReceivedRows
  <1>7. Received(channel') = Append(fresh, row)
    BY <1>1, <1>2, <1>3, <1>4, <1>5, ReceivedAppend
  <1>8. RunnerType'
    <2>1. channel' \in Seq(Messages)
      BY <1>1, <1>2, <1>3, <1>4
    <2> QED  BY <1>1, <1>2, <2>1 DEF RunnerInv, RunnerType
  <1>9. ProcessesInv'
    BY <1>1, <1>2 DEF RunnerInv, RunnerType, ProcessesInv
  <1>10. RunningInv'
    <2> SUFFICES ASSUME running  PROVE RunningInv'
      BY <1>1 DEF RunningInv
    <2>1. /\ uv # "none" /\ status \in {"Running", "Cancelled"}
          /\ openStreams = 2 - Reported("out") - Reported("err") + (Len(channel) - Len(fresh))
          /\ Numbered(lines \o fresh) /\ Unbroken(lines \o fresh, pumped)
          /\ Len(fresh) <= pumped["out"] + pumped["err"]
          /\ Len(lines) = AtMost(1 + (pumped["out"] + pumped["err"]) - Len(fresh), Capacity)
      BY <1>5 DEF RunnerInv, RunningInv
    <2>2. Reported("out")' = Reported("out") /\ Reported("err")' = Reported("err")
      BY <1>1 DEF Reported
    <2>3. lines' \o Received(channel') = Append(lines \o fresh, row)
      <3>1. lines \o Append(fresh, row) = Append(lines \o fresh, row)
        BY <1>2, <1>4, <1>6, ConcatenateAppend
      <3> QED  BY <1>1, <1>7, <3>1
    <2>4. lines \o fresh \in Seq(Rows)
      BY <1>2, <1>6
    <2>5. Numbered(lines' \o Received(channel')) /\ Unbroken(lines' \o Received(channel'), pumped')
      <3>1. PICK rows \in Seq(Rows) : rows = lines \o fresh
        BY <2>4
      <3>2. Numbered(Append(rows, row))
            /\ Unbroken(Append(rows, row), [pumped EXCEPT ![s] = @ + 1])
        BY <1>2, <1>3, <2>1, <3>1, NextLine
      <3> QED  BY <1>1, <2>3, <3>1, <3>2
    <2>6. Len(channel') - Len(Received(channel')) = Len(channel) - Len(fresh)
      <3>1. Len(channel') = Len(channel) + 1 /\ Len(Received(channel')) = Len(fresh) + 1
        BY <1>1, <1>2, <1>3, <1>4, <1>6, <1>7
      <3>2. Len(channel) \in Nat /\ Len(fresh) \in Nat
        BY <1>2, <1>6
      <3> QED  BY <3>1, <3>2
    <2>7. PICK p \in Nat, q \in Nat, l \in Nat :
            p = pumped["out"] /\ q = pumped["err"] /\ l = Len(fresh)
      BY <1>2, <1>6 DEF Streams
    <2>8. /\ Len(Received(channel')) = l + 1
          /\ pumped'["out"] + pumped'["err"] = p + q + 1
      BY <1>1, <1>2, <1>4, <1>6, <1>7, <2>7 DEF Streams
    <2>9. l + 1 <= p + q + 1 /\ 1 + (p + q + 1) - (l + 1) = 1 + (p + q) - l
      <3>1. l <= p + q
        BY <2>1, <2>7
      <3> QED  BY <3>1
    <2>10. /\ Len(Received(channel')) <= pumped'["out"] + pumped'["err"]
           /\ Len(lines') = AtMost(1 + (pumped'["out"] + pumped'["err"]) - Len(Received(channel')),
                                   Capacity)
      BY <1>1, <2>1, <2>7, <2>8, <2>9
    <2> QED  BY <1>1, <2>1, <2>2, <2>5, <2>6, <2>10 DEF RunningInv
  <1>11. EndedInv'
    BY <1>1, <1>2 DEF RunnerInv, ProcessesInv, EndedInv
  <1> QED  BY <1>8, <1>9, <1>10, <1>11 DEF RunnerInv

LEMMA PumpEofKeeps ==
  ASSUME RunnerInv, NEW s \in Streams, PumpEof(s)
  PROVE  RunnerInv'
  <1>1. /\ UNCHANGED <<uv, python, exit, written, pumped, running, openStreams, lines, status>>
        /\ uv \in {"closing", "gone"} /\ python = "gone" /\ s \notin eof /\ pumped[s] = written[s]
        /\ eof' = eof \cup {s} /\ channel' = Append(channel, Eof)
    BY DEF PumpEof, procVars, paneVars
  <1>2. channel \in Seq(Messages) /\ Eof \in Messages
    BY Typing DEF RunnerInv, RunnerType
  <1>3. Received(channel') = Received(channel)
    BY <1>1, <1>2, ReceivedAppend
  <1>4. RunnerType'
    BY <1>1, <1>2 DEF RunnerInv, RunnerType
  <1>5. ProcessesInv'
    BY <1>1 DEF RunnerInv, ProcessesInv
  <1>6. RunningInv'
    <2>1. Len(channel') = Len(channel) + 1 /\ Len(channel) \in Nat
      BY <1>1, <1>2
    <2>2. Len(Received(channel)) \in Nat
      BY <1>2, ReceivedRows
    <2>3. Reported("out")' + Reported("err")' = Reported("out") + Reported("err") + 1
      BY <1>1 DEF Reported, Streams
    <2>4. 2 - Reported("out") - Reported("err") + (Len(channel) - Len(Received(channel)))
          = 2 - Reported("out")' - Reported("err")' + (Len(channel') - Len(Received(channel)))
      BY <2>1, <2>2, <2>3 DEF Reported
    <2> QED  BY <1>1, <1>3, <2>4 DEF RunnerInv, RunningInv
  <1>7. EndedInv'
    BY <1>1 DEF RunnerInv, EndedInv
  <1> QED  BY <1>4, <1>5, <1>6, <1>7 DEF RunnerInv

\* A bound applied again, and added to.
LEMMA AtMostTwice ==
  ASSUME NEW n \in Nat, NEW m \in Nat
  PROVE  AtMost(AtMost(n, Capacity) + m, Capacity) = AtMost(n + m, Capacity)
  BY CapacityAssumption DEF AtMost

LEMMA PollKeeps ==
  ASSUME RunnerInv, Poll, running
  PROVE  RunnerInv'
  <1> DEFINE fresh == Received(channel)
             open == openStreams - (Len(channel) - Len(fresh))
             finished == open = 0 /\ uv = "gone"
             final == IF status = "Cancelled" THEN status ELSE EndStatus
             all == lines \o fresh
             shown == Kept(all)
             sent == pumped["out"] + pumped["err"]
  <1>1. /\ UNCHANGED <<uv, python, exit, written, pumped, eof>>
        /\ channel' = <<>> /\ openStreams' = open /\ running' = ~finished
        /\ status' = IF finished THEN final ELSE status
        /\ lines' = IF finished THEN Kept(Append(shown, Footer(final))) ELSE shown
    BY DEF Poll, procVars, pumpVars
  <1>2. /\ pumped \in [Streams -> Nat] /\ channel \in Seq(Messages) /\ lines \in Seq(Rows)
        /\ fresh \in Seq(Rows) /\ all \in Seq(Rows) /\ sent \in Nat
    <2>1. pumped \in [Streams -> Nat] /\ channel \in Seq(Messages) /\ lines \in Seq(Rows)
      BY DEF RunnerInv, RunnerType
    <2>2. fresh \in Seq(Rows)
      BY <2>1, ReceivedRows
    <2> QED  BY <2>1, <2>2 DEF Streams
  <1>3. /\ uv # "none" /\ status \in {"Running", "Cancelled"}
        /\ openStreams = 2 - Reported("out") - Reported("err") + (Len(channel) - Len(fresh))
        /\ Numbered(all) /\ Unbroken(all, pumped)
        /\ Len(fresh) <= sent /\ Len(lines) = AtMost(1 + sent - Len(fresh), Capacity)
    BY DEF RunnerInv, RunningInv
  <1>4. /\ shown \in Seq(Rows) /\ Len(shown) = AtMost(Len(all), Capacity)
        /\ Numbered(shown) /\ Unbroken(shown, pumped)
    <2>1. shown \in Seq(Rows) /\ Len(shown) = AtMost(Len(all), Capacity)
          /\ EndOf(shown, all, Excess(all))
      BY <1>2, KeptRows
    <2>2. Numbered(shown) /\ Unbroken(shown, pumped)
      <3> HIDE DEF all, shown
      <3> QED  BY <1>2, <1>3, <2>1, EndOfPane
    <2> QED  BY <2>1, <2>2
  <1>5. Len(shown) = AtMost(1 + sent, Capacity)
    <2>1. PICK l \in Nat, c \in Nat : l = Len(fresh) /\ c = 1 + sent - l /\ c + l = 1 + sent
      <3>1. Len(fresh) \in Nat
        BY <1>2
      <3>2. 1 + sent - Len(fresh) \in Nat /\ (1 + sent - Len(fresh)) + Len(fresh) = 1 + sent
        BY <1>2, <1>3, <3>1
      <3> QED  BY <3>1, <3>2
    <2>2. Len(all) = AtMost(c, Capacity) + l
      <3>1. Len(all) = Len(lines) + Len(fresh)
        <4>1. lines \in Seq(Rows) /\ fresh \in Seq(Rows)
          BY <1>2
        <4> HIDE DEF fresh
        <4> QED  BY <4>1
      <3>2. Len(lines) = AtMost(c, Capacity)
        BY <1>3, <2>1
      <3> QED  BY <2>1, <3>1, <3>2
    <2> QED  BY <1>4, <2>1, <2>2, AtMostTwice
  <1>6. open = 2 - Reported("out") - Reported("err")
    <2>1. Len(channel) \in Nat /\ Len(fresh) \in Nat
      BY <1>2
    <2> QED  BY <1>3, <2>1 DEF Reported
  <1>7. /\ Received(channel') = <<>> /\ Len(Received(channel')) = 0
        /\ channel' \in Seq(Messages) /\ Len(channel') = 0
    <2>1. channel' \in Seq(Messages) /\ Len(channel') = 0
      BY <1>1
    <2>2. Received(channel') = <<>>
      BY <2>1, ReceivedNothing
    <2>3. Len(Received(channel')) = 0
      BY <2>2
    <2> QED  BY <2>1, <2>2, <2>3
  <1>8. Reported("out")' = Reported("out") /\ Reported("err")' = Reported("err")
    BY <1>1 DEF Reported
  <1>9. ProcessesInv'
    BY <1>1 DEF RunnerInv, ProcessesInv
  <1>10. open \in Int
    BY <1>6 DEF Reported
  <1>11. CASE ~finished
    <2>1. lines' = shown /\ status' = status /\ running' = TRUE /\ openStreams' = open
      BY <1>1, <1>11
    <2>2. lines' \o Received(channel') = shown
      BY <1>4, <1>7, <2>1
    <2>3. RunnerType'
      <3> HIDE DEF open, shown
      <3> QED  BY <1>1, <1>4, <1>7, <1>10, <2>1 DEF RunnerInv, RunnerType
    <2>4. 1 + (pumped["out"] + pumped["err"]) - 0 = 1 + sent /\ 0 <= sent
      BY <1>2
    <2>5. openStreams' = 2 - Reported("out")' - Reported("err")' + (Len(channel') - Len(Received(channel')))
      <3>1. Len(channel') - Len(Received(channel')) = 0
        <4>1. Len(channel') = 0 /\ Len(Received(channel')) = 0
          BY <1>7
        <4> QED  BY <4>1
      <3>2. 2 - Reported("out") - Reported("err") + 0 = 2 - Reported("out") - Reported("err")
        BY DEF Reported
      <3> QED  BY <1>6, <1>8, <2>1, <3>1, <3>2
    <2>6. RunningInv'
      <3> HIDE DEF open, shown, finished
      <3> QED  BY <1>1, <1>3, <1>4, <1>5, <1>7, <2>1, <2>2, <2>4, <2>5 DEF RunningInv
    <2>7. EndedInv'
      BY <2>1 DEF EndedInv
    <2> QED  BY <1>9, <2>3, <2>6, <2>7 DEF RunnerInv
  <1>12. CASE finished
    <2>1. PICK ended : ended = Append(shown, Footer(final))
      OBVIOUS
    <2>2. lines' = Kept(ended) /\ status' = final /\ running' = FALSE /\ uv = "gone"
      BY <1>1, <1>12, <2>1
    <2>3. eof = Streams /\ python = "gone" /\ \A s \in Streams : pumped[s] = written[s]
      <3>1. Reported("out") = 1 /\ Reported("err") = 1
        BY <1>6, <1>12 DEF Reported
      <3>2. "out" \in eof /\ "err" \in eof /\ eof \subseteq Streams
        BY <3>1 DEF Reported, RunnerInv, RunnerType
      <3>3. eof = Streams
        BY <3>2 DEF Streams
      <3>4. /\ "out" \in Streams
            /\ \A s \in Streams : s \in eof => python = "gone" /\ pumped[s] = written[s]
        BY DEF RunnerInv, ProcessesInv, Streams
      <3> QED  BY <3>3, <3>4
    <2>4. pumped = written
      BY <1>2, <2>3 DEF RunnerInv, RunnerType
    <2>5. final \in Ended /\ (final = "Succeeded" => exit = "ok")
          /\ (final = "Failed" => exit \in {"bad", "signal"})
      BY <2>3 DEF EndStatus, Ended, RunnerInv, RunnerType, ProcessesInv
    <2>6. Footer(final) \in Rows /\ Footer(final)[1] \notin Streams
      BY <2>5, Typing
    <2>7. ended \in Seq(Rows) /\ ended # <<>> /\ ended[Len(ended)] = Footer(final)
          /\ Len(ended) = Len(shown) + 1
      <3> HIDE DEF shown, final
      <3> QED  BY <1>4, <2>1, <2>6
    <2>8. Numbered(ended) /\ Unbroken(ended, pumped)
      <3> HIDE DEF shown, final
      <3>1. PICK row \in Rows : row = Footer(final) /\ row[1] \notin Streams
        BY <2>6
      <3> QED  BY <1>2, <1>4, <2>1, <3>1, OtherRow
    <2>9. /\ lines' \in Seq(Rows) /\ Len(lines') = AtMost(Len(ended), Capacity)
          /\ Numbered(lines') /\ Unbroken(lines', pumped)
          /\ lines' # <<>> /\ lines'[Len(lines')] = Footer(final)
      <3>1. PICK kept : kept = Kept(ended)
        OBVIOUS
      <3>2. /\ kept \in Seq(Rows) /\ Len(kept) = AtMost(Len(ended), Capacity)
            /\ EndOf(kept, ended, Excess(ended))
            /\ kept # <<>> /\ kept[Len(kept)] = ended[Len(ended)]
        BY <2>7, <3>1, KeptRows
      <3>3. Numbered(kept) /\ Unbroken(kept, pumped)
        BY <1>2, <2>7, <2>8, <3>2, EndOfPane
      <3> HIDE DEF final
      <3> QED  BY <2>2, <2>7, <3>1, <3>2, <3>3
    <2>10. Len(lines') = AtMost(Total', Capacity)
      <3>1. AtMost(1 + sent, Capacity) + 1 = Len(ended) /\ 1 + sent \in Nat
        BY <1>2, <1>5, <2>7
      <3>2. AtMost(Len(ended), Capacity) = AtMost((1 + sent) + 1, Capacity)
        <4> HIDE DEF sent
        <4> QED  BY <3>1, AtMostTwice
      <3>3. Total' = 2 + pumped["out"] + pumped["err"]
        BY <1>1, <2>4 DEF Total
      <3>4. Total' = (1 + sent) + 1
        BY <1>2, <3>3 DEF Streams
      <3> QED  BY <2>9, <3>2, <3>4
    <2>11. RunnerType'
      <3>1. status' \in {"Idle", "Running"} \cup Ended /\ running' \in BOOLEAN
        BY <2>2, <2>5
      <3> HIDE DEF open
      <3> QED  BY <1>1, <1>7, <1>10, <2>9, <3>1 DEF RunnerInv, RunnerType
    <2>12. EndedInv'
      <3> HIDE DEF final
      <3> QED  BY <1>1, <2>2, <2>3, <2>4, <2>5, <2>9, <2>10 DEF EndedInv
    <2>13. RunningInv'
      BY <2>2 DEF RunningInv
    <2> QED  BY <1>9, <2>11, <2>12, <2>13 DEF RunnerInv
  <1> QED  BY <1>11, <1>12

\* What a key does to the runner.
Runs ==
  over = "no" /\ (UNCHANGED runnerVars \/ StartOk \/ Cancel \/ \E delta \in Int : ScrollBy(delta))

LEMMA KeysRun == Keys => Runs
  <1> SUFFICES ASSUME Keys  PROVE Runs
    OBVIOUS
  <1>1. \A args : Start(args) => UNCHANGED runnerVars \/ StartOk
    BY DEF Start, NoStart
  <1>2. CASE Tab
    BY <1>2 DEF Tab, Key, NoStart, Runs
  <1>3. CASE Quit
    BY <1>3 DEF Quit, NoStart, Runs
  <1>4. CASE Dismiss
    BY <1>4 DEF Dismiss, NoStart, Runs
  <1>5. CASE AcceptRun
    BY <1>1, <1>5 DEF AcceptRun, Runs
  <1>6. CASE MoveCommand
    BY <1>6 DEF MoveCommand, Key, NoStart, Runs
  <1>7. CASE Filter
    BY <1>7 DEF Filter, Key, NoStart, Runs
  <1>8. CASE EnterForm
    BY <1>8 DEF EnterForm, Key, NoStart, Runs
  <1>9. CASE EditForm
    BY <1>9 DEF EditForm, Key, NoStart, Runs
  <1>10. CASE SubmitForm
    BY <1>1, <1>10 DEF SubmitForm, Key, NoStart, Runs
  <1>11. CASE LoopKey
    BY <1>11 DEF LoopKey, Key, NoStart, Runs
  <1>12. CASE LoopStart
    BY <1>12 DEF LoopStart, Key, NoStart, Runs
  <1>13. CASE ReloadConfig
    BY <1>13 DEF ReloadConfig, ConfigKey, ConfigRest, Key, NoStart, Runs
  <1>14. CASE OpenPrompt
    BY <1>14 DEF OpenPrompt, ConfigKey, ConfigRest, Key, NoStart, Runs
  <1>15. CASE SwitchProfile
    BY <1>15 DEF SwitchProfile, Prompted, NoStart, Runs
  <1>16. CASE ApplyOverride
    BY <1>16 DEF ApplyOverride, Prompted, NoStart, Runs
  <1>17. CASE DropOverrides
    BY <1>17 DEF DropOverrides, ConfigKey, ConfigRest, Key, NoStart, Runs
  <1>18. CASE ReloadPromotion
    BY <1>18 DEF ReloadPromotion, PromoteRest, Key, NoStart, Runs
  <1>19. CASE SwitchSource
    BY <1>19 DEF SwitchSource, Prompted, NoStart, Runs
  <1>20. CASE Select
    BY <1>20 DEF Select, PromoteRest, Key, NoStart, Runs
  <1>21. CASE ConfirmPromotion
    BY <1>21 DEF ConfirmPromotion, PromoteRest, Key, NoStart, Runs
  <1>22. CASE ApplyPromotion
    BY <1>22 DEF ApplyPromotion, PromoteRest, NoStart, Runs
  <1>23. CASE OutputKey
    BY <1>23, ViewportAssumption DEF OutputKey, Key, Runs
  <1> QED  BY <1>2, <1>3, <1>4, <1>5, <1>6, <1>7, <1>8, <1>9, <1>10, <1>11, <1>12, <1>13, <1>14,
              <1>15, <1>16, <1>17, <1>18, <1>19, <1>20, <1>21, <1>22, <1>23 DEF Keys

LEMMA NothingKeeps == RunnerInv /\ UNCHANGED runnerVars => RunnerInv'
  BY RestKeeps DEF runnerVars, paneVars

LEMMA InitOutput == Init => OutputInv
  <1> SUFFICES ASSUME Init  PROVE RunnerInv
    BY DEF OutputInv
  <1>1. RunnerInit
    BY DEF Init
  <1>2. /\ uv = "none" /\ python = "none" /\ exit = "none" /\ running = FALSE /\ status = "Idle"
        /\ eof = {} /\ channel = <<>> /\ openStreams = 0 /\ lines = <<>>
        /\ written = [s \in Streams |-> 0] /\ pumped = [s \in Streams |-> 0]
    BY <1>1 DEF RunnerInit
  <1>3. RunnerType
    <2>1. written \in [Streams -> Nat] /\ pumped \in [Streams -> Nat]
      BY <1>2
    <2>2. channel \in Seq(Messages) /\ lines \in Seq(Rows)
      BY <1>2
    <2>3. /\ uv = "none" /\ python = "none" /\ exit = "none" /\ running = FALSE
          /\ status = "Idle" /\ eof = {} /\ openStreams = 0
      BY <1>2
    <2>4. eof \subseteq Streams /\ openStreams \in Int
      BY <2>3
    <2>7. running \in BOOLEAN
      BY <2>3, Zenon
    <2>5. uv \in {"none", "alive", "closing", "gone"} /\ python \in {"none", "alive", "gone"}
      BY <2>3
    <2>6. exit \in {"none", "ok", "bad", "signal"} /\ status \in {"Idle", "Running"} \cup Ended
      BY <2>3
    <2> QED  BY <2>1, <2>2, <2>4, <2>5, <2>6, <2>7 DEF RunnerType
  <1>4. ProcessesInv
    BY <1>2 DEF ProcessesInv
  <1>5. RunningInv /\ EndedInv
    BY <1>2 DEF RunningInv, EndedInv, Ended
  <1> QED  BY <1>3, <1>4, <1>5 DEF RunnerInv

LEMMA NextOutput == OutputInv /\ [Next]_vars => OutputInv'
  <1> SUFFICES ASSUME OutputInv, [Next]_vars, over' = "no"  PROVE RunnerInv'
    BY DEF OutputInv
  <1>1. CASE Keys
    <2>1. Runs /\ RunnerInv
      BY <1>1, KeysRun DEF OutputInv, Runs
    <2>2. ASSUME NEW delta \in Int, ScrollBy(delta)
          PROVE  UNCHANGED <<procVars, pumpVars, channel, running, openStreams, lines, status>>
      BY <2>2 DEF ScrollBy
    <2> QED  BY <2>1, <2>2, NothingKeeps, StartKeeps, CancelKeeps, RestKeeps DEF Runs
  <1>2. CASE Tick
    <2>1. Poll /\ RunnerInv
      BY <1>2 DEF Tick, OutputInv
    <2>2. CASE running
      BY <2>1, <2>2, PollKeeps
    <2>3. CASE ~running
      <3>1. UNCHANGED runnerVars
        BY <2>1, <2>3 DEF Poll
      <3> QED  BY <2>1, <3>1, NothingKeeps
    <2> QED  BY <2>2, <2>3
  <1>3. CASE Leave \/ Left
    BY <1>3 DEF Leave, Left
  <1>4. CASE Background /\ UNCHANGED <<turn, uiVars, cmdVars, startVars, cfgVars, promVars, tour>>
    <2>1. RunnerInv
      BY <1>4 DEF OutputInv, uiVars
    <2>2. CASE Processes
      BY <2>1, <2>2, ProcessesKeep
    <2>3. CASE Pumps
      BY <2>1, <2>3, PumpLineKeeps, PumpEofKeeps DEF Pumps
    <2>4. CASE UNCHANGED runnerVars
      BY <2>1, <2>4, NothingKeeps
    <2> QED  BY <1>4, <2>2, <2>3, <2>4 DEF Background
  <1>5. CASE UNCHANGED vars
    <2>1. RunnerInv /\ UNCHANGED runnerVars
      BY <1>5 DEF OutputInv, vars, uiVars
    <2> QED  BY <2>1, NothingKeeps
  <1> QED  BY <1>1, <1>2, <1>3, <1>4, <1>5 DEF Next, Frame

\* What the pane shows of one stream, once nothing moves any more.
LEMMA ShownIsEnd ==
  ASSUME RunnerType, Numbered(lines), Unbroken(lines, written), NEW s \in Streams
  PROVE  /\ \E first \in 1..(written[s] + 1) :
              {lines[i][2] : i \in OfStream(s)} = first..written[s]
         /\ \A i, j \in OfStream(s) : i < j => lines[i][2] < lines[j][2]
  <1>1. \A i, j \in OfStream(s) : i < j => lines[i][2] < lines[j][2]
    BY DEF OfStream, Numbered
  <1>2. PICK w \in Nat : w = written[s]
    BY DEF RunnerType
  <1>3. PICK N : N = {lines[i][2] : i \in OfStream(s)}
    OBVIOUS
  <1>4. N \subseteq 1..w
    BY <1>2, <1>3 DEF OfStream, Unbroken
  <1>5. \A m \in N : \A n \in (m + 1)..w : n \in N
    <2> SUFFICES ASSUME NEW m \in N, NEW n \in (m + 1)..w  PROVE n \in N
      OBVIOUS
    <2>1. PICK i \in DOMAIN lines : lines[i][1] = s /\ lines[i][2] = m
      BY <1>3 DEF OfStream
    <2>2. PICK j \in DOMAIN lines : lines[j] = Line(s, n)
      BY <1>2, <2>1 DEF Unbroken
    <2>3. lines[j][1] = s /\ lines[j][2] = n
      BY <2>2 DEF Line
    <2>4. j \in OfStream(s)
      BY <2>3 DEF OfStream
    <2> QED  BY <1>3, <2>3, <2>4
  <1>6. \E first \in 1..(w + 1) : N = first..w
    <2>1. CASE N = {}
      <3>1. w + 1 \in 1..(w + 1) /\ (w + 1)..w = {}
        OBVIOUS
      <3> QED  BY <2>1, <3>1
    <2>2. CASE N # {}
      <3>1. N \subseteq Nat
        BY <1>4
      <3>2. PICK m \in N : \A n \in N : ~(<<n, m>> \in OpToRel(<, Nat))
        BY <2>2, <3>1, NatLessThanWellFounded, WFMin, Zenon
      <3>3. \A n \in N : ~(n < m)
        BY <3>1, <3>2, Zenon DEF OpToRel
      <3>4. m \in 1..w
        BY <1>4
      <3>5. N = m..w
        <4>1. ASSUME NEW n \in N  PROVE n \in m..w
          BY <1>4, <3>3, <3>4
        <4>2. ASSUME NEW n \in m..w  PROVE n \in N
          <5>1. CASE n = m
            BY <5>1
          <5>2. CASE n # m
            <6>1. n \in (m + 1)..w
              BY <3>4, <5>2
            <6> QED  BY <1>5, <6>1
          <5> QED  BY <5>1, <5>2
        <4> QED  BY <4>1, <4>2
      <3> QED  BY <3>4, <3>5
    <2> QED  BY <2>1, <2>2
  <1> QED  BY <1>1, <1>2, <1>3, <1>6

\* However the command's exit, its two pumps, the frames that poll it and the
\* user who cancels it interleave: once it is over, and until the front end is
\* left, the pane ends with how it ended and holds, up to its capacity, all it
\* wrote (runner.rs poll, cancel and push_lines).
THEOREM OutputKeptHolds == Spec => []OutputKept
  <1>1. OutputInv => OutputKept
    <2> SUFFICES ASSUME RunnerInv, status \in Ended /\ ~running
                 PROVE  /\ Last(lines) = Footer(status)
                        /\ Len(lines) = IF Total > Capacity THEN Capacity ELSE Total
                        /\ \A s \in Streams :
                             /\ \E first \in 1..(written[s] + 1) :
                                  {lines[i][2] : i \in OfStream(s)} = first..written[s]
                             /\ \A i, j \in OfStream(s) : i < j => lines[i][2] < lines[j][2]
                        /\ status = "Succeeded" => exit = "ok"
                        /\ status = "Failed" => exit \in {"bad", "signal"}
      BY DEF OutputInv, OutputKept, OutputComplete
    <2>1. RunnerType /\ EndedInv
      BY DEF RunnerInv
    <2>2. Last(lines) = Footer(status) /\ Len(lines) = IF Total > Capacity THEN Capacity ELSE Total
      BY <2>1 DEF EndedInv, AtMost, Last
    <2>3. Numbered(lines) /\ Unbroken(lines, written)
      BY <2>1 DEF EndedInv
    <2>4. (status = "Succeeded" => exit = "ok") /\ (status = "Failed" => exit \in {"bad", "signal"})
      BY <2>1 DEF EndedInv
    <2> QED  BY <2>1, <2>2, <2>3, <2>4, ShownIsEnd
  <1> QED  BY <1>1, InitOutput, NextOutput, PTL DEF Spec

-----------------------------------------------------------------------------
(* What is validated and what is written, for PromotionSafe.  The promoted   *)
(* values are validated on top of the layer they replace; these lemmas show  *)
(* that this layer makes no difference.                                      *)

\* Nothing survives of an atomic mapping that an overlay defines.
Overruled(overlay, q) == \E a \in Atomic : AtOrBelow(a, q) /\ IsMapping(overlay, a)

LEMMA StrictlyBelow ==
  ASSUME NEW p \in Paths, NEW q \in Paths, NEW r \in Paths,
         \/ AtOrBelow(p, q) /\ Below(q, r)
         \/ Below(p, q) /\ AtOrBelow(q, r)
  PROVE  Below(p, r)
  <1>1. AtOrBelow(p, q) /\ AtOrBelow(q, r) /\ (p # q \/ q # r)
    BY DEF AtOrBelow, Below, IsStrictPrefix
  <1>2. AtOrBelow(p, r)
    BY <1>1, PrefixTransitive
  <1>3. p # r
    <2> SUFFICES ASSUME p = r  PROVE FALSE
      OBVIOUS
    <2>1. /\ Len(p) <= Len(q) /\ \A i \in 1..Len(p) : p[i] = q[i]
          /\ Len(q) <= Len(p)
      BY <1>1, PrefixElements
    <2>2. Len(p) \in Nat /\ Len(q) \in Nat
      BY DEF Paths
    <2>3. Len(p) = Len(q)
      BY <2>1, <2>2
    <2>4. p = q
      BY <2>1, <2>3, SeqEqual DEF Paths
    <2> QED  BY <1>1, <2>4
  <1> QED  BY <1>2, <1>3 DEF AtOrBelow

\* A merge gets to the atomic mapping a leaf of its base lies in.
LEMMA Reached ==
  ASSUME NEW base, DOMAIN base \subseteq Paths, NEW overlay,
         NEW a \in Atomic, IsMapping(overlay, a),
         NEW q \in DOMAIN base, AtOrBelow(a, q)
  PROVE  a \in Replaced(base, overlay)
  <1>1. a \in Paths /\ a # <<>> /\ q \in Paths
    BY AtomicAssumption
  <1>2. ASSUME Len(a) # 1  PROVE IsMapping(base, Front(a))
    <2>1. Len(a) \in Nat \ {0}
      BY <1>1 DEF Paths
    <2>2. PICK n \in Nat : n = Len(a) - 1
      BY <2>1
    <2>3. PICK b : b = Front(a)
      OBVIOUS
    <2>4. b \in Paths /\ Len(b) = n /\ \A i \in 1..n : b[i] = a[i]
      BY <1>1, <2>1, <2>2, <2>3, FrontLast DEF Paths
    <2>5. AtOrBelow(b, a)
      BY <1>1, <2>1, <2>2, <2>4, PrefixElements
    <2>6. b # a
      BY <2>1, <2>2, <2>4
    <2>7. Below(b, a)
      BY <2>5, <2>6 DEF AtOrBelow
    <2>8. Below(b, q)
      BY <1>1, <2>4, <2>7, StrictlyBelow
    <2> QED  BY <2>3, <2>8 DEF IsMapping
  <1> QED  BY <1>2 DEF Replaced

\* A leaf below a leaf of an overlay lies in an atomic mapping it defines.
LEMMA NestedInAtomic ==
  ASSUME NEW overlay, NEW p \in Leaves, NEW q \in Leaves, Below(p, q),
         \/ q \in DOMAIN overlay
         \/ p \in DOMAIN overlay /\ overlay[p] = Empty
  PROVE  \E a \in Atomic : AtOrBelow(a, p) /\ AtOrBelow(a, q) /\ IsMapping(overlay, a)
  <1>1. PICK a \in Atomic : AtOrBelow(a, p)
    BY LeavesAssumption
  <1>2. a \in Paths /\ p \in Paths /\ q \in Paths
    BY AtomicAssumption, LeavesAssumption
  <1>3. Below(a, q)
    BY <1>1, <1>2, StrictlyBelow
  <1>4. IsMapping(overlay, a)
    BY <1>1, <1>3 DEF IsMapping, AtOrBelow
  <1> QED  BY <1>1, <1>3, <1>4 DEF AtOrBelow

\* What an overlay writes is what the result holds.
LEMMA OverlayWins ==
  ASSUME NEW base, DOMAIN base \subseteq Leaves,
         NEW overlay, DOMAIN overlay \subseteq Leaves, Nestable(overlay),
         NEW p \in DOMAIN overlay
  PROVE  p \in DOMAIN Merged(base, overlay) /\ Merged(base, overlay)[p] = overlay[p]
  <1>1. CASE p \in WrittenLeaves(base, overlay)
    BY <1>1 DEF Merged
  <1>2. CASE p \notin WrittenLeaves(base, overlay)
    <2>1. /\ overlay[p] = Empty /\ IsMapping(base, p)
          /\ \A a \in Replaced(base, overlay) : ~AtOrBelow(a, p)
      BY <1>2 DEF WrittenLeaves
    <2>2. ASSUME NEW q \in DOMAIN base, Below(p, q)  PROVE FALSE
      <3>1. p \in Leaves /\ q \in Leaves
        OBVIOUS
      <3>2. PICK a \in Atomic : AtOrBelow(a, p) /\ AtOrBelow(a, q) /\ IsMapping(overlay, a)
        BY <2>1, <2>2, <3>1, NestedInAtomic
      <3>3. DOMAIN base \subseteq Paths
        BY LeavesAssumption
      <3>4. a \in Replaced(base, overlay)
        BY <3>2, <3>3, Reached
      <3> QED  BY <2>1, <3>2, <3>4
    <2>3. p \in DOMAIN base /\ base[p] = Empty
      BY <2>1, <2>2 DEF IsMapping
    <2>4. ASSUME NEW w \in WrittenLeaves(base, overlay)
          PROVE  ~AtOrBelow(w, p) /\ ~Below(p, w)
      <3>1. w \in DOMAIN overlay /\ w # p
        BY <1>2 DEF WrittenLeaves
      <3>2. ~Below(w, p) /\ ~Below(p, w)
        BY <3>1 DEF Nestable
      <3> QED  BY <3>1, <3>2 DEF AtOrBelow
    <2>5. p \in Survivors(base, overlay)
      BY <2>1, <2>3, <2>4 DEF Survivors
    <2> QED  BY <1>2, <2>1, <2>3, <2>5 DEF Merged
  <1> QED  BY <1>1, <1>2

\* A leaf of the paper profile that the overlay does not write survives unless
\* it lies in an atomic mapping of the overlay.
LEMMA BaseSurvives ==
  ASSUME NEW base, DOMAIN base \subseteq Leaves, NEW overlay, DOMAIN overlay \subseteq Leaves,
         NEW q \in DOMAIN base, q \in DOMAIN Lower[Paper], q \notin DOMAIN overlay
  PROVE  /\ q \in DOMAIN Merged(base, overlay) <=> ~Overruled(overlay, q)
         /\ q \in DOMAIN Merged(base, overlay) => Merged(base, overlay)[q] = base[q]
  <1>1. q \notin WrittenLeaves(base, overlay)
    BY DEF WrittenLeaves
  <1>2. q \in DOMAIN Merged(base, overlay) <=> q \in Survivors(base, overlay)
    BY <1>1 DEF Merged
  <1>3. q \in DOMAIN Merged(base, overlay) => Merged(base, overlay)[q] = base[q]
    BY <1>1 DEF Merged
  <1>4. ASSUME Overruled(overlay, q)  PROVE q \notin Survivors(base, overlay)
    <2>1. PICK a \in Atomic : AtOrBelow(a, q) /\ IsMapping(overlay, a)
      BY <1>4 DEF Overruled
    <2>2. DOMAIN base \subseteq Paths
      BY LeavesAssumption
    <2>3. a \in Replaced(base, overlay)
      BY <2>1, <2>2, Reached
    <2> QED  BY <2>1, <2>3 DEF Survivors
  <1>5. ASSUME ~Overruled(overlay, q)  PROVE q \in Survivors(base, overlay)
    <2>1. ASSUME NEW w \in WrittenLeaves(base, overlay)
          PROVE  ~AtOrBelow(w, q) /\ ~Below(q, w)
      <3>1. w \in DOMAIN overlay /\ w \in Leaves /\ q \in Leaves /\ w # q
        BY <1>1 DEF WrittenLeaves
      <3>2. ~Below(w, q)
        BY <3>1, LeavesAssumption
      <3>3. ASSUME Below(q, w)  PROVE FALSE
        <4>1. \E a \in Atomic : AtOrBelow(a, q) /\ AtOrBelow(a, w) /\ IsMapping(overlay, a)
          BY <3>1, <3>3, NestedInAtomic
        <4> QED  BY <1>5, <4>1 DEF Overruled
      <3> QED  BY <3>1, <3>2, <3>3 DEF AtOrBelow
    <2>2. \A a \in Replaced(base, overlay) : ~AtOrBelow(a, q)
      BY <1>5 DEF Replaced, Overruled
    <2> QED  BY <2>1, <2>2 DEF Survivors
  <1> QED  BY <1>2, <1>3, <1>4, <1>5

\* A leaf above or below one of the overlay does not survive.
LEMMA Outranked ==
  ASSUME NEW base, DOMAIN base \subseteq Leaves, NEW overlay, DOMAIN overlay \subseteq Leaves,
         NEW q \in DOMAIN base, q \notin DOMAIN overlay,
         NEW s \in DOMAIN overlay, Below(q, s) \/ Below(s, q)
  PROVE  q \notin DOMAIN Merged(base, overlay)
  <1>0. /\ s \in Leaves /\ q \in Leaves /\ q \notin WrittenLeaves(base, overlay)
        /\ DOMAIN base \subseteq Paths
    BY LeavesAssumption DEF WrittenLeaves
  <1>1. CASE Below(q, s)
    <2>1. PICK a \in Atomic : AtOrBelow(a, q) /\ AtOrBelow(a, s) /\ IsMapping(overlay, a)
      BY <1>0, <1>1, NestedInAtomic
    <2>2. a \in Replaced(base, overlay)
      BY <1>0, <2>1, Reached
    <2> QED  BY <1>0, <2>1, <2>2 DEF Merged, Survivors
  <1>2. CASE Below(s, q)
    <2>1. CASE s \in WrittenLeaves(base, overlay)
      BY <1>0, <1>2, <2>1 DEF Merged, Survivors, AtOrBelow
    <2>2. CASE s \notin WrittenLeaves(base, overlay)
      <3>1. overlay[s] = Empty
        BY <2>2 DEF WrittenLeaves
      <3>2. PICK a \in Atomic : AtOrBelow(a, s) /\ AtOrBelow(a, q) /\ IsMapping(overlay, a)
        BY <1>0, <1>2, <3>1, NestedInAtomic
      <3>3. a \in Replaced(base, overlay)
        BY <1>0, <3>2, Reached
      <3> QED  BY <1>0, <3>2, <3>3 DEF Merged, Survivors
    <2> QED  BY <2>1, <2>2
  <1> QED  BY <1>1, <1>2

\* A layer that its successor keeps, but for leaves above or below others of the
\* successor, does not touch what the successor leaves of the paper profile.
Succeeds(new, old) ==
  \A p \in DOMAIN old :
    p \in DOMAIN new \/ \E s \in DOMAIN new : Below(p, s) \/ Below(s, p)

LEMMA Untouched ==
  ASSUME NEW old, DOMAIN old \subseteq Leaves, NEW new, DOMAIN new \subseteq Leaves,
         Succeeds(new, old),
         NEW q \in DOMAIN Lower[Paper], q \notin DOMAIN new, ~Overruled(new, q)
  PROVE  q \notin DOMAIN old /\ ~Overruled(old, q)
  <1>0. q \in Leaves /\ q \in Paths
    BY PaperAssumption, LeavesAssumption DEF Leaves
  <1>1. ASSUME q \in DOMAIN old  PROVE FALSE
    <2>1. PICK s \in DOMAIN new : Below(q, s) \/ Below(s, q)
      BY <1>1 DEF Succeeds
    <2>2. s \in Leaves
      OBVIOUS
    <2>3. Below(q, s)
      BY <1>0, <2>1, <2>2, LeavesAssumption
    <2>4. \E a \in Atomic : AtOrBelow(a, q) /\ AtOrBelow(a, s) /\ IsMapping(new, a)
      BY <1>0, <2>2, <2>3, NestedInAtomic
    <2> QED  BY <2>4 DEF Overruled
  <1>2. ASSUME NEW a \in Atomic, AtOrBelow(a, q), IsMapping(old, a)  PROVE FALSE
    <2>0. a \in Paths /\ ~IsMapping(new, a)
      BY <1>2, AtomicAssumption DEF Overruled
    <2>1. PICK r \in DOMAIN old : AtOrBelow(a, r)
      BY <1>2 DEF IsMapping, AtOrBelow
    <2>2. r \in Leaves /\ r \in Paths
      BY LeavesAssumption
    \* No leaf of new is the mapping itself: q would be it or lie below it.
    <2>3. a \notin DOMAIN new
      <3> SUFFICES ASSUME a \in DOMAIN new  PROVE FALSE
        OBVIOUS
      <3>1. a # q /\ a \in Leaves
        OBVIOUS
      <3>2. Below(a, q)
        BY <1>2, <3>1 DEF AtOrBelow
      <3> QED  BY <1>0, <3>1, <3>2, LeavesAssumption
    <2>4. \A s \in DOMAIN new : ~AtOrBelow(a, s)
      BY <2>0, <2>3 DEF IsMapping, AtOrBelow
    <2>5. r \notin DOMAIN new
      BY <2>1, <2>4
    <2>6. PICK s \in DOMAIN new : Below(r, s) \/ Below(s, r)
      BY <2>5 DEF Succeeds
    <2>7. s \in Leaves /\ s \in Paths
      BY LeavesAssumption
    <2>8. CASE Below(r, s)
      <3>1. Below(a, s)
        BY <2>0, <2>1, <2>2, <2>7, <2>8, StrictlyBelow
      <3> QED  BY <2>4, <3>1 DEF AtOrBelow
    <2>9. CASE Below(s, r)
      <3>1. PICK b \in Atomic : AtOrBelow(b, s)
        BY <2>2, <2>7, <2>9, LeavesAssumption
      <3>2. AtOrBelow(s, r) /\ b \in Paths
        BY <2>9, AtomicAssumption DEF AtOrBelow
      <3>3. AtOrBelow(b, r)
        BY <2>2, <2>7, <3>1, <3>2, PrefixTransitive
      <3>4. a = b
        BY <2>1, <2>2, <3>3, AtomicUnique
      <3> QED  BY <2>4, <3>1, <3>4
    <2> QED  BY <2>6, <2>8, <2>9
  <1> QED  BY <1>1, <1>2 DEF Overruled

\* So the successor gives the same profile on top of the layer and without it.
LEMMA ValidatedIsWritten ==
  ASSUME NEW old, DOMAIN old \subseteq Leaves,
         NEW new, DOMAIN new \subseteq Leaves, Nestable(new), Succeeds(new, old)
  PROVE  Merged(Merged(Lower[Paper], old), new) = Merged(Lower[Paper], new)
  <1>1. PICK low : low = Lower[Paper]
    OBVIOUS
  <1>2. DOMAIN low \subseteq Leaves
    BY <1>1, PaperAssumption DEF Leaves
  <1>3. PICK base : base = Merged(low, old)
    OBVIOUS
  <1>4. DOMAIN base \subseteq DOMAIN low \cup DOMAIN old
    BY <1>3 DEF Merged, WrittenLeaves, Survivors
  <1>5. DOMAIN base \subseteq Leaves
    BY <1>2, <1>4
  <1>6. PICK f, g : f = Merged(base, new) /\ g = Merged(low, new)
    OBVIOUS
  <1>7. f = [p \in DOMAIN f |-> f[p]] /\ g = [p \in DOMAIN g |-> g[p]]
    BY <1>6 DEF Merged
  <1>8. DOMAIN f \subseteq DOMAIN base \cup DOMAIN new /\ DOMAIN g \subseteq DOMAIN low \cup DOMAIN new
    BY <1>6 DEF Merged, WrittenLeaves, Survivors
  <1>9. \A p \in DOMAIN new : p \in DOMAIN f /\ f[p] = new[p] /\ p \in DOMAIN g /\ g[p] = new[p]
    BY <1>2, <1>5, <1>6, OverlayWins
  <1>10. ASSUME NEW p, p \notin DOMAIN new, p \in DOMAIN g
         PROVE  p \in DOMAIN f /\ f[p] = g[p]
    <2>1. p \in DOMAIN low
      BY <1>8, <1>10
    <2>2. ~Overruled(new, p) /\ g[p] = low[p]
      BY <1>1, <1>2, <1>6, <1>10, <2>1, BaseSurvives
    <2>3. p \notin DOMAIN old /\ ~Overruled(old, p)
      BY <1>1, <1>10, <2>1, <2>2, Untouched
    <2>4. p \in DOMAIN base /\ base[p] = low[p]
      BY <1>1, <1>2, <1>3, <2>1, <2>3, BaseSurvives
    <2>5. p \in DOMAIN f /\ f[p] = base[p]
      BY <1>1, <1>5, <1>6, <1>10, <2>1, <2>2, <2>4, BaseSurvives
    <2> QED  BY <2>2, <2>4, <2>5
  <1>11. ASSUME NEW p, p \notin DOMAIN new, p \in DOMAIN f
         PROVE  p \in DOMAIN g
    <2>1. p \in DOMAIN base
      BY <1>8, <1>11
    <2>2. p \in DOMAIN low
      <3> SUFFICES ASSUME p \notin DOMAIN low  PROVE FALSE
        OBVIOUS
      <3>1. p \in DOMAIN old
        BY <1>4, <2>1
      <3>2. PICK s \in DOMAIN new : Below(p, s) \/ Below(s, p)
        BY <1>11, <3>1 DEF Succeeds
      <3>3. p \notin DOMAIN f
        BY <1>5, <1>6, <1>11, <2>1, <3>2, Outranked
      <3> QED  BY <1>11, <3>3
    <2>3. ~Overruled(new, p)
      BY <1>1, <1>5, <1>6, <1>11, <2>1, <2>2, BaseSurvives
    <2> QED  BY <1>1, <1>2, <1>6, <1>11, <2>2, <2>3, BaseSurvives
  <1>12. DOMAIN f = DOMAIN g
    BY <1>9, <1>10, <1>11
  <1>13. \A p \in DOMAIN f : f[p] = g[p]
    BY <1>9, <1>10, <1>12
  <1>14. f = g
    BY <1>7, <1>12, <1>13
  <1> QED  BY <1>1, <1>3, <1>6, <1>14

-----------------------------------------------------------------------------
(* The invariant behind PromotionSafe.                                       *)

\* All leaves come from the profiles; a configuration is shown of a profile that
\* exists; changes are on offer only against the layer as it is, of which all is
\* known or nothing, and a promotion is confirmed of some of them.
LeavesInv ==
  /\ DOMAIN layer \subseteq Leaves /\ DOMAIN promoted \subseteq Leaves
  /\ DOMAIN overrides \subseteq Leaves /\ DOMAIN config.leaves \subseteq Leaves
  /\ DOMAIN changes \subseteq Leaves
  /\ modal.kind = "leaf" => modal.path \in Leaves

OffersInv ==
  /\ config # NoConfig => configProfile \in DOMAIN Lower
  /\ selected \subseteq DOMAIN changes
  /\ DOMAIN changes # {} => promLoaded /\ promoted \in Loaded(layer)
  /\ modal.kind = "promote" => selected # {}

PromotionInv == LeavesInv /\ OffersInv

LEMMA InitPromotion == Init => PromotionInv
  <1> SUFFICES ASSUME Init  PROVE PromotionInv
    OBVIOUS
  <1>1. /\ modal = NoModal /\ config = NoConfig /\ overrides = NoLeaves
        /\ changes = NoLeaves /\ selected = {} /\ promoted = NoLeaves /\ layer = NoLeaves
    BY DEF Init
  <1>2. DOMAIN NoLeaves = {} /\ NoConfig.leaves = NoLeaves /\ NoModal.kind = "none"
    BY DEF NoLeaves, NoConfig, NoModal
  <1>3. LeavesInv
    BY <1>1, <1>2 DEF LeavesInv
  <1>4. OffersInv
    BY <1>1, <1>2 DEF OffersInv
  <1> QED  BY <1>3, <1>4 DEF PromotionInv

\* Merging gives no leaf that neither part has.
LEMMA MergedLeaves ==
  ASSUME NEW base, DOMAIN base \subseteq Leaves, NEW overlay, DOMAIN overlay \subseteq Leaves
  PROVE  DOMAIN Merged(base, overlay) \subseteq Leaves
  BY DEF Merged, WrittenLeaves, Survivors

LEMMA ConfigLeaves ==
  ASSUME DOMAIN layer \subseteq Leaves, NEW set, DOMAIN set \subseteq Leaves,
         NEW profile \in DOMAIN Lower
  PROVE  DOMAIN Config(profile, set) \subseteq Leaves
  <1>1. DOMAIN Lower[profile] \subseteq Leaves /\ DOMAIN Lower[Paper] \subseteq Leaves
    BY PaperAssumption DEF Leaves
  <1>2. DOMAIN Merged(Lower[Paper], layer) \subseteq Leaves
    BY <1>1, MergedLeaves
  <1>3. PICK base : base = IF profile = Paper THEN Merged(Lower[Paper], layer) ELSE Lower[profile]
    OBVIOUS
  <1>4. DOMAIN base \subseteq Leaves
    BY <1>1, <1>2, <1>3
  <1>5. DOMAIN Merged(base, set) \subseteq Leaves
    BY <1>4, MergedLeaves
  <1> QED  BY <1>3, <1>5 DEF Config

LEMMA LoadConfigKeeps ==
  ASSUME DOMAIN layer \subseteq Leaves, NEW set, DOMAIN set \subseteq Leaves,
         NEW profile, LoadConfig(profile, set)
  PROVE  /\ DOMAIN config'.leaves \subseteq Leaves
         /\ config' # NoConfig => profile \in DOMAIN Lower
  <1>1. CASE config' = NoConfig
    BY <1>1 DEF NoConfig, NoLeaves
  <1>2. CASE config' # NoConfig
    <2>1. /\ profile \in DOMAIN Lower
          /\ config' = [profile |-> profile, leaves |-> Config(profile, set)]
      BY <1>2 DEF LoadConfig, Resolves
    <2>2. DOMAIN Config(profile, set) \subseteq Leaves
      BY <2>1, ConfigLeaves
    <2> QED  BY <2>1, <2>2
  <1> QED  BY <1>1, <1>2

LEMMA ReloadKeeps ==
  ASSUME LeavesInv, NEW from, NEW file, DOMAIN file \subseteq Leaves, Reload(from, file)
  PROVE  /\ promLoaded' /\ selected' = {}
         /\ DOMAIN promoted' \subseteq Leaves /\ DOMAIN changes' \subseteq Leaves
         /\ DOMAIN changes' # {} => promoted' \in Loaded(file)
  <1>1. promLoaded' = TRUE /\ selected' = {}
    BY DEF Reload
  <1>2. CASE changes' = NoLeaves /\ UNCHANGED promoted
    BY <1>1, <1>2 DEF NoLeaves, LeavesInv
  <1>3. CASE ~(changes' = NoLeaves /\ UNCHANGED promoted)
    <2>1. PICK paper : paper = Merged(Lower[Paper], file)
      OBVIOUS
    <2>2. PICK left : left = IF from = Paper THEN Merged(paper, overrides)
                             ELSE Config(from, overrides)
      OBVIOUS
    <2>3. from \in DOMAIN Lower /\ changes' = Changes(left, paper) /\ promoted' \in Loaded(file)
      BY <1>3, <2>1, <2>2 DEF Reload
    <2>4. DOMAIN Lower[Paper] \subseteq Leaves
      BY PaperAssumption DEF Leaves
    <2>5. DOMAIN paper \subseteq Leaves
      BY <2>1, <2>4, MergedLeaves
    <2>6. /\ DOMAIN Merged(paper, overrides) \subseteq Leaves
          /\ DOMAIN Config(from, overrides) \subseteq Leaves
      BY <2>3, <2>5, MergedLeaves, ConfigLeaves DEF LeavesInv
    <2>7. DOMAIN left \subseteq Leaves
      BY <2>2, <2>6
    <2>8. DOMAIN changes' \subseteq Leaves
      BY <2>3, <2>7 DEF Changes
    <2>9. DOMAIN promoted' \subseteq Leaves
      BY <2>3 DEF Loaded, NoLeaves
    <2> QED  BY <1>1, <2>3, <2>8, <2>9
  <1> QED  BY <1>2, <1>3

\* What the other keys and frames leave alone.
Elsewhere ==
  /\ UNCHANGED <<cfgVars, promVars>>
  /\ modal' = modal \/ modal'.kind \notin {"leaf", "promote"}

LEMMA ElsewhereKeeps ==
  ASSUME PromotionInv, Elsewhere
  PROVE  PromotionInv'
  <1>1. /\ UNCHANGED <<layer, promoted, overrides, config, configProfile>>
        /\ UNCHANGED <<changes, selected, promLoaded>>
    BY DEF Elsewhere, cfgVars, promVars
  <1>2. modal' = modal \/ (modal'.kind # "leaf" /\ modal'.kind # "promote")
    BY DEF Elsewhere
  <1>3. LeavesInv'
    BY <1>1, <1>2 DEF PromotionInv, LeavesInv
  <1>4. OffersInv'
    BY <1>1, <1>2 DEF PromotionInv, OffersInv
  <1> QED  BY <1>3, <1>4 DEF PromotionInv

LEMMA OtherKeys ==
  ASSUME \/ Tab \/ Quit \/ Dismiss \/ AcceptRun
         \/ MoveCommand \/ Filter \/ EnterForm \/ EditForm \/ SubmitForm
         \/ LoopKey \/ LoopStart \/ OutputKey
  PROVE  Elsewhere
  <1>0. NoModal.kind = "none"
    BY DEF NoModal
  <1>1. CASE Tab
    BY <1>1 DEF Tab, Elsewhere
  <1>2. CASE Quit
    BY <1>2 DEF Quit, Elsewhere
  <1>3. CASE Dismiss
    BY <1>0, <1>3 DEF Dismiss, Elsewhere
  <1>4. CASE AcceptRun
    BY <1>0, <1>4 DEF AcceptRun, Elsewhere
  <1>5. CASE MoveCommand
    BY <1>5 DEF MoveCommand, CommandsRest, Elsewhere
  <1>6. CASE Filter
    BY <1>6 DEF Filter, CommandsRest, Elsewhere
  <1>7. CASE EnterForm
    BY <1>7 DEF EnterForm, CommandsRest, Elsewhere
  <1>8. CASE EditForm
    BY <1>8 DEF EditForm, CommandsRest, Elsewhere
  <1>9. CASE SubmitForm
    <2>1. modal' = modal \/ modal' = [kind |-> "run", from |-> "form", args |-> FormArgs]
      BY <1>9 DEF SubmitForm
    <2>2. modal' = modal \/ modal'.kind = "run"
      BY <2>1
    <2> QED  BY <1>9, <2>2 DEF SubmitForm, CommandsRest, Elsewhere
  <1>10. CASE LoopKey
    BY <1>10 DEF LoopKey, LoopRest, Elsewhere
  <1>11. CASE LoopStart
    <2>1. modal'.kind = "run"
      BY <1>11 DEF LoopStart
    <2> QED  BY <1>11, <2>1 DEF LoopStart, Elsewhere
  <1>12. CASE OutputKey
    BY <1>12 DEF OutputKey, Elsewhere
  <1> QED  BY <1>1, <1>2, <1>3, <1>4, <1>5, <1>6, <1>7, <1>8, <1>9, <1>10, <1>11, <1>12

\* A configuration loaded anew.
LEMMA LoadKeepsPromotion ==
  ASSUME PromotionInv, UNCHANGED promVars,
         NEW set, DOMAIN set \subseteq Leaves, overrides' = set,
         NEW profile, configProfile' = profile, LoadConfig(profile, set),
         modal' = modal \/ modal' = NoModal
  PROVE  PromotionInv'
  <1>1. /\ UNCHANGED <<layer, promoted, changes, selected, promLoaded>>
        /\ LeavesInv /\ OffersInv
    BY DEF promVars, PromotionInv
  <1>2. modal' = modal \/ modal'.kind = "none"
    BY DEF NoModal
  <1>3. DOMAIN layer \subseteq Leaves
    BY <1>1 DEF LeavesInv
  <1>4. DOMAIN config'.leaves \subseteq Leaves /\ (config' # NoConfig => profile \in DOMAIN Lower)
    BY <1>3, LoadConfigKeeps
  <1>5. LeavesInv'
    BY <1>1, <1>2, <1>4 DEF LeavesInv
  <1>6. OffersInv'
    BY <1>1, <1>2, <1>4 DEF OffersInv
  <1> QED  BY <1>5, <1>6 DEF PromotionInv

\* The changes computed anew.
LEMMA ReloadKeepsPromotion ==
  ASSUME PromotionInv, UNCHANGED cfgVars,
         NEW from, NEW file, DOMAIN file \subseteq Leaves, layer' = file, Reload(from, file),
         modal' = modal \/ modal' = NoModal, modal'.kind # "promote"
  PROVE  PromotionInv'
  <1>1. UNCHANGED <<overrides, config, configProfile>> /\ LeavesInv /\ OffersInv
    BY DEF cfgVars, PromotionInv
  <1>2. modal' = modal \/ modal'.kind = "none"
    BY DEF NoModal
  <1>3. /\ promLoaded' /\ selected' = {}
        /\ DOMAIN promoted' \subseteq Leaves /\ DOMAIN changes' \subseteq Leaves
        /\ DOMAIN changes' # {} => promoted' \in Loaded(file)
    BY <1>1, ReloadKeeps
  <1>4. LeavesInv'
    BY <1>1, <1>2, <1>3 DEF LeavesInv
  <1>5. OffersInv'
    BY <1>1, <1>2, <1>3 DEF OffersInv
  <1> QED  BY <1>4, <1>5 DEF PromotionInv

LEMMA ConfigKeysKeep ==
  ASSUME PromotionInv, ReloadConfig \/ OpenPrompt \/ SwitchProfile \/ ApplyOverride \/ DropOverrides
  PROVE  PromotionInv'
  <1>0. LeavesInv /\ OffersInv
    BY DEF PromotionInv
  <1>1. CASE ReloadConfig
    <2>1. /\ LoadConfig(configProfile, overrides) /\ UNCHANGED <<modal, configProfile, overrides>>
          /\ UNCHANGED promVars
      BY <1>1 DEF ReloadConfig, ConfigRest
    <2>2. PICK set, profile : set = overrides /\ profile = configProfile
      OBVIOUS
    <2>3. LoadConfig(profile, set) /\ DOMAIN set \subseteq Leaves
      BY <1>0, <2>1, <2>2 DEF LeavesInv
    <2> QED  BY <2>1, <2>2, <2>3, LoadKeepsPromotion
  <1>2. CASE OpenPrompt
    <2>1. UNCHANGED <<cfgVars, promVars>>
      BY <1>2 DEF OpenPrompt, ConfigRest
    <2>2. \/ modal' = [kind |-> "profile"] \/ modal' = [kind |-> "source"]
          \/ \E p \in DOMAIN config.leaves : modal' = [kind |-> "leaf", path |-> p]
      BY <1>2 DEF OpenPrompt
    <2>3. /\ modal'.kind \in {"profile", "source", "leaf"}
          /\ modal'.kind = "leaf" => modal'.path \in DOMAIN config.leaves
      BY <2>2
    <2>4. /\ UNCHANGED <<layer, promoted, overrides, config, configProfile>>
          /\ UNCHANGED <<changes, selected, promLoaded>>
      BY <2>1 DEF cfgVars, promVars
    <2>5. LeavesInv'
      BY <1>0, <2>3, <2>4 DEF LeavesInv
    <2>6. OffersInv'
      BY <1>0, <2>3, <2>4 DEF OffersInv
    <2> QED  BY <2>5, <2>6 DEF PromotionInv
  <1>3. CASE SwitchProfile
    <2>1. PICK profile \in Profiles : configProfile' = profile /\ LoadConfig(profile, overrides)
      BY <1>3 DEF SwitchProfile
    <2>2. PICK set : set = overrides
      OBVIOUS
    <2>3. LoadConfig(profile, set) /\ DOMAIN set \subseteq Leaves
      BY <1>0, <2>1, <2>2 DEF LeavesInv
    <2>4. UNCHANGED promVars /\ overrides' = set /\ modal' = NoModal
      BY <1>3, <2>2 DEF SwitchProfile
    <2> QED  BY <2>1, <2>3, <2>4, LoadKeepsPromotion
  <1>4. CASE ApplyOverride
    <2>1. PICK value \in Values :
            LET candidate == [p \in DOMAIN overrides \cup {modal.path} |->
                                IF p = modal.path THEN value ELSE overrides[p]]
            IN \/ /\ overrides' = candidate /\ modal' = NoModal
                  /\ LoadConfig(configProfile, candidate)
               \/ UNCHANGED <<overrides, modal, config>>
      BY <1>4 DEF ApplyOverride
    <2>2. UNCHANGED <<configProfile, promVars>> /\ modal.kind = "leaf"
      BY <1>4 DEF ApplyOverride, Prompted
    <2>3. CASE UNCHANGED <<overrides, modal, config>>
      <3>1. Elsewhere
        BY <2>2, <2>3 DEF Elsewhere, cfgVars
      <3> QED  BY <3>1, ElsewhereKeeps
    <2>4. CASE ~UNCHANGED <<overrides, modal, config>>
      <3>1. PICK set, profile : /\ set = [p \in DOMAIN overrides \cup {modal.path} |->
                                           IF p = modal.path THEN value ELSE overrides[p]]
                                /\ profile = configProfile
        OBVIOUS
      <3>2. overrides' = set /\ modal' = NoModal /\ LoadConfig(profile, set)
        BY <2>1, <2>4, <3>1
      <3>3. DOMAIN set = {modal.path} \cup DOMAIN overrides
        BY <3>1
      <3>4. DOMAIN set \subseteq Leaves
        BY <1>0, <2>2, <3>3 DEF LeavesInv
      <3> QED  BY <2>2, <3>1, <3>2, <3>4, LoadKeepsPromotion
    <2> QED  BY <2>3, <2>4
  <1>5. CASE DropOverrides
    <2>1. /\ LoadConfig(configProfile, overrides') /\ UNCHANGED <<modal, configProfile>>
          /\ UNCHANGED promVars
      BY <1>5 DEF DropOverrides, ConfigRest
    <2>2. PICK set, profile : set = overrides' /\ profile = configProfile
      OBVIOUS
    <2>3. LoadConfig(profile, set)
      BY <2>1, <2>2
    <2>4. DOMAIN overrides' \subseteq DOMAIN overrides
      BY <1>5 DEF DropOverrides, NoLeaves
    <2>5. DOMAIN set \subseteq Leaves
      BY <1>0, <2>2, <2>4 DEF LeavesInv
    <2> QED  BY <2>1, <2>2, <2>3, <2>5, LoadKeepsPromotion
  <1> QED  BY <1>1, <1>2, <1>3, <1>4, <1>5

LEMMA PromoteKeysKeep ==
  ASSUME PromotionInv, ReloadPromotion \/ SwitchSource \/ Select \/ ConfirmPromotion
  PROVE  PromotionInv'
  <1>0. LeavesInv /\ OffersInv /\ NoModal.kind = "none"
    BY DEF PromotionInv, NoModal
  <1>1. CASE ReloadPromotion
    <2>1. /\ Reload(source, layer) /\ UNCHANGED <<modal, cfgVars, layer>> /\ modal = NoModal
      BY <1>1 DEF ReloadPromotion, Key
    <2>2. PICK from, file : from = source /\ file = layer
      OBVIOUS
    <2>3. Reload(from, file) /\ layer' = file /\ DOMAIN file \subseteq Leaves
      BY <1>0, <2>1, <2>2 DEF LeavesInv
    <2>4. UNCHANGED cfgVars /\ modal' = NoModal /\ modal'.kind # "promote"
      BY <1>0, <2>1
    <2> QED  BY <2>3, <2>4, ReloadKeepsPromotion
  <1>2. CASE SwitchSource
    <2>1. PICK from \in Profiles : Reload(from, layer)
      BY <1>2 DEF SwitchSource
    <2>2. PICK file : file = layer
      OBVIOUS
    <2>3. Reload(from, file) /\ layer' = file /\ DOMAIN file \subseteq Leaves
      BY <1>0, <1>2, <2>1, <2>2 DEF LeavesInv, SwitchSource
    <2>4. UNCHANGED cfgVars /\ modal' = NoModal /\ modal'.kind # "promote"
      BY <1>0, <1>2 DEF SwitchSource
    <2> QED  BY <2>3, <2>4, ReloadKeepsPromotion
  <1>3. CASE Select
    <2>1. /\ UNCHANGED <<modal, cfgVars, changes, promoted, promLoaded, layer>>
          /\ modal = NoModal
      BY <1>3 DEF Select, Key
    <2>2. selected' \subseteq DOMAIN changes
      BY <1>0, <1>3 DEF Select, OffersInv
    <2>3. UNCHANGED <<overrides, config, configProfile>>
      BY <2>1 DEF cfgVars
    <2>4. LeavesInv'
      BY <1>0, <2>1, <2>3 DEF LeavesInv
    <2>5. OffersInv'
      BY <1>0, <2>1, <2>2, <2>3 DEF OffersInv
    <2> QED  BY <2>4, <2>5 DEF PromotionInv
  <1>4. CASE ConfirmPromotion
    <2>1. UNCHANGED <<cfgVars, promVars>> /\ selected # {} /\ modal' = [kind |-> "promote"]
      BY <1>4 DEF ConfirmPromotion
    <2>2. modal'.kind = "promote" /\ modal'.kind # "leaf"
      BY <2>1
    <2>3. /\ UNCHANGED <<layer, promoted, overrides, config, configProfile>>
          /\ UNCHANGED <<changes, selected, promLoaded>>
      BY <2>1 DEF cfgVars, promVars
    <2>4. LeavesInv'
      BY <1>0, <2>2, <2>3 DEF LeavesInv
    <2>5. OffersInv'
      BY <1>0, <2>1, <2>2, <2>3 DEF OffersInv
    <2> QED  BY <2>4, <2>5 DEF PromotionInv
  <1> QED  BY <1>1, <1>2, <1>3, <1>4

\* What a promotion writes: the selection and, if the layer was read, all of it
\* but what lies above or below the selection.
LEMMA PromotionMerged ==
  ASSUME PromotionInv, modal.kind = "promote"
  PROVE  /\ DOMAIN MergedPromotion \subseteq Leaves
         /\ \A p \in selected : p \in DOMAIN MergedPromotion /\ MergedPromotion[p] = changes[p]
         /\ promoted = layer =>
              /\ \A p \in DOMAIN layer :
                   \/ p \in DOMAIN MergedPromotion /\ (p \notin selected => MergedPromotion[p] = layer[p])
                   \/ \E s \in selected : Below(p, s) \/ Below(s, p)
              /\ Succeeds(MergedPromotion, layer)
  <1>1. selected \subseteq DOMAIN changes
    BY DEF PromotionInv, OffersInv
  <1>2. DOMAIN MergedPromotion \subseteq Leaves
    BY <1>1 DEF MergedPromotion, PromotionInv, LeavesInv
  <1>3. \A p \in selected : p \in DOMAIN MergedPromotion /\ MergedPromotion[p] = changes[p]
    BY DEF MergedPromotion
  <1>4. ASSUME promoted = layer, NEW p \in DOMAIN layer
        PROVE  \/ p \in DOMAIN MergedPromotion /\ (p \notin selected => MergedPromotion[p] = layer[p])
               \/ \E s \in selected : Below(p, s) \/ Below(s, p)
    BY <1>4 DEF MergedPromotion
  <1>5. promoted = layer => Succeeds(MergedPromotion, layer)
    BY <1>3, <1>4 DEF Succeeds
  <1> QED  BY <1>2, <1>3, <1>4, <1>5

LEMMA ApplyKeeps ==
  ASSUME PromotionInv, ApplyPromotion
  PROVE  PromotionInv'
  <1>0. LeavesInv /\ OffersInv /\ NoModal.kind = "none"
    BY DEF PromotionInv, NoModal
  <1>1. /\ modal.kind = "promote" /\ modal' = NoModal
        /\ UNCHANGED <<configProfile, overrides, source>>
    BY DEF ApplyPromotion
  <1>2. CASE UNCHANGED <<layer, config, changes, selected, promoted, promLoaded>>
    <2>1. Elsewhere
      BY <1>0, <1>1, <1>2 DEF Elsewhere, cfgVars, promVars
    <2> QED  BY <2>1, ElsewhereKeeps
  <1>3. CASE ~UNCHANGED <<layer, config, changes, selected, promoted, promLoaded>>
    <2>1. PICK file, from : file = layer' /\ from = source
      OBVIOUS
    <2>2. layer' = MergedPromotion /\ Reload(from, file)
      BY <1>3, <2>1 DEF ApplyPromotion
    <2>3. DOMAIN file \subseteq Leaves
      BY <1>1, <2>1, <2>2, PromotionMerged
    <2>4. /\ promLoaded' /\ selected' = {}
          /\ DOMAIN promoted' \subseteq Leaves /\ DOMAIN changes' \subseteq Leaves
          /\ DOMAIN changes' # {} => promoted' \in Loaded(file)
      BY <1>0, <2>2, <2>3, ReloadKeeps
    <2>5. /\ DOMAIN config'.leaves \subseteq Leaves
          /\ config' # NoConfig => config # NoConfig
      <3>1. CASE config' = NoConfig
        BY <3>1 DEF NoConfig, NoLeaves
      <3>2. CASE config = NoConfig
        <4>1. config' = config
          BY <1>3, <3>2 DEF ApplyPromotion
        <4> QED  BY <3>2, <4>1 DEF NoConfig, NoLeaves
      <3>3. CASE config' # NoConfig /\ config # NoConfig
        <4>1. PICK at : at = [p \in DOMAIN Lower |->
                                IF p = Paper THEN Merged(Lower[p], layer') ELSE Lower[p]]
          OBVIOUS
        <4>2. config' = [profile |-> configProfile, leaves |-> Merged(at[configProfile], overrides)]
          BY <1>3, <3>3, <4>1 DEF ApplyPromotion
        <4>3. configProfile \in DOMAIN Lower
          BY <1>0, <3>3 DEF OffersInv
        <4>4. DOMAIN Lower[configProfile] \subseteq Leaves
          BY <4>3 DEF Leaves
        <4>5. DOMAIN Merged(Lower[configProfile], file) \subseteq Leaves
          BY <2>3, <4>4, MergedLeaves
        <4>6. DOMAIN at[configProfile] \subseteq Leaves
          BY <2>1, <4>1, <4>3, <4>4, <4>5
        <4>7. DOMAIN Merged(at[configProfile], overrides) \subseteq Leaves
          BY <1>0, <4>6, MergedLeaves DEF LeavesInv
        <4> QED  BY <3>3, <4>2, <4>7
      <3> QED  BY <3>1, <3>2, <3>3
    <2>6. LeavesInv'
      BY <1>0, <1>1, <2>1, <2>3, <2>4, <2>5 DEF LeavesInv
    <2>7. OffersInv'
      BY <1>0, <1>1, <2>1, <2>4, <2>5 DEF OffersInv
    <2> QED  BY <2>6, <2>7 DEF PromotionInv
  <1> QED  BY <1>2, <1>3

LEMMA FramesKeep ==
  ASSUME PromotionInv, Frame
  PROVE  PromotionInv'
  <1>1. CASE Leave
    <2>1. Elsewhere
      BY <1>1 DEF Leave, Elsewhere
    <2> QED  BY <2>1, ElsewhereKeeps
  <1>2. CASE Left
    <2>1. Elsewhere
      BY <1>2 DEF Left, Elsewhere
    <2> QED  BY <2>1, ElsewhereKeeps
  <1>3. CASE Tick
    <2>0. LeavesInv /\ OffersInv
      BY DEF PromotionInv
    <2>1. UNCHANGED <<modal, configProfile, overrides>>
      BY <1>3 DEF Tick, uiVars
    <2>2. LoadConfig(configProfile, overrides) \/ UNCHANGED config
      BY <1>3 DEF Tick
    <2>3. \/ ~promLoaded /\ Reload(source, layer) /\ UNCHANGED layer
          \/ UNCHANGED promVars
      BY <1>3 DEF Tick
    <2>4. PICK set, profile, from, file :
            set = overrides /\ profile = configProfile /\ from = source /\ file = layer
      OBVIOUS
    <2>5. /\ DOMAIN config'.leaves \subseteq Leaves
          /\ config' # NoConfig => configProfile \in DOMAIN Lower
      <3>1. CASE UNCHANGED config
        BY <2>0, <3>1 DEF LeavesInv, OffersInv
      <3>2. CASE ~UNCHANGED config
        <4>1. LoadConfig(profile, set) /\ DOMAIN set \subseteq Leaves /\ DOMAIN layer \subseteq Leaves
          BY <2>0, <2>2, <2>4, <3>2 DEF LeavesInv
        <4>2. DOMAIN config'.leaves \subseteq Leaves /\ (config' # NoConfig => profile \in DOMAIN Lower)
          BY <4>1, LoadConfigKeeps
        <4> QED  BY <2>4, <4>2
      <3> QED  BY <3>1, <3>2
    <2>6. /\ layer' = layer /\ selected' \subseteq DOMAIN changes'
          /\ DOMAIN promoted' \subseteq Leaves /\ DOMAIN changes' \subseteq Leaves
          /\ DOMAIN changes' # {} => promLoaded' /\ promoted' \in Loaded(layer')
          /\ modal.kind = "promote" => selected' # {}
      <3>1. CASE UNCHANGED promVars
        BY <2>0, <3>1 DEF promVars, LeavesInv, OffersInv
      <3>2. CASE ~UNCHANGED promVars
        <4>1. ~promLoaded /\ Reload(from, file) /\ layer' = layer /\ DOMAIN file \subseteq Leaves
          BY <2>0, <2>3, <2>4, <3>2 DEF LeavesInv
        <4>2. /\ promLoaded' /\ selected' = {}
              /\ DOMAIN promoted' \subseteq Leaves /\ DOMAIN changes' \subseteq Leaves
              /\ DOMAIN changes' # {} => promoted' \in Loaded(file)
          BY <2>0, <4>1, ReloadKeeps
        <4>3. modal.kind # "promote"
          BY <2>0, <4>1 DEF OffersInv
        <4> QED  BY <2>4, <4>1, <4>2, <4>3
      <3> QED  BY <3>1, <3>2
    <2>7. LeavesInv'
      BY <2>0, <2>1, <2>5, <2>6 DEF LeavesInv
    <2>8. OffersInv'
      BY <2>0, <2>1, <2>5, <2>6 DEF OffersInv
    <2> QED  BY <2>7, <2>8 DEF PromotionInv
  <1> QED  BY <1>1, <1>2, <1>3 DEF Frame

LEMMA NextPromotion == PromotionInv /\ [Next]_vars => PromotionInv'
  <1> SUFFICES ASSUME PromotionInv, [Next]_vars  PROVE PromotionInv'
    OBVIOUS
  <1>1. CASE UNCHANGED vars
    <2>1. Elsewhere
      BY <1>1 DEF vars, uiVars, Elsewhere
    <2> QED  BY <2>1, ElsewhereKeeps
  <1>2. CASE Frame
    BY <1>2, FramesKeep
  <1>3. CASE Background /\ UNCHANGED <<turn, uiVars, cmdVars, startVars, cfgVars, promVars, tour>>
    <2>1. Elsewhere
      BY <1>3 DEF uiVars, Elsewhere
    <2> QED  BY <2>1, ElsewhereKeeps
  <1>4. CASE ReloadConfig \/ OpenPrompt \/ SwitchProfile \/ ApplyOverride \/ DropOverrides
    BY <1>4, ConfigKeysKeep
  <1>5. CASE ReloadPromotion \/ SwitchSource \/ Select \/ ConfirmPromotion
    BY <1>5, PromoteKeysKeep
  <1>6. CASE ApplyPromotion
    BY <1>6, ApplyKeeps
  <1>7. CASE \/ Tab \/ Quit \/ Dismiss \/ AcceptRun
             \/ MoveCommand \/ Filter \/ EnterForm \/ EditForm \/ SubmitForm
             \/ LoopKey \/ LoopStart \/ OutputKey
    <2>1. Elsewhere
      BY <1>7, OtherKeys
    <2> QED  BY <2>1, ElsewhereKeeps
  <1> QED  BY <1>1, <1>2, <1>3, <1>4, <1>5, <1>6, <1>7 DEF Next, Keys

\* Only a promotion replaces the layer.
LEMMA LayerReplaced ==
  ASSUME PromotionInv, [Next]_vars, layer' # layer
  PROVE  /\ modal.kind = "promote" /\ layer' = MergedPromotion
         /\ Nestable(MergedPromotion) /\ Resolves(Paper, MergedPromotion)
  <1>1. ~UNCHANGED promVars
    BY DEF promVars
  <1>2. ~Elsewhere
    BY <1>1 DEF Elsewhere
  <1>3. ~UNCHANGED vars
    BY <1>1 DEF vars
  <1>4. ~Frame
    <2>1. ~Leave /\ ~Left
      BY <1>1 DEF Leave, Left
    <2>2. ~Tick
      BY <1>1 DEF Tick
    <2> QED  BY <2>1, <2>2 DEF Frame
  <1>5. ~(ReloadConfig \/ OpenPrompt \/ SwitchProfile \/ ApplyOverride \/ DropOverrides)
    BY <1>1 DEF ReloadConfig, OpenPrompt, SwitchProfile, ApplyOverride, DropOverrides, ConfigRest
  <1>6. ~(ReloadPromotion \/ SwitchSource \/ Select \/ ConfirmPromotion)
    BY <1>1 DEF ReloadPromotion, SwitchSource, Select, ConfirmPromotion
  <1>7. ApplyPromotion
    BY <1>1, <1>2, <1>3, <1>4, <1>5, <1>6, OtherKeys DEF Next, Keys
  <1> QED  BY <1>7 DEF ApplyPromotion

LEMMA PromotionStep ==
  ASSUME PromotionInv, [Next]_vars, layer' # layer
  PROVE  LET paper == Merged(Lower[Paper], layer')
         IN /\ \A p \in selected : paper[p] = changes[p]
            /\ promoted # NoLeaves \/ layer = NoLeaves =>
                 /\ Valid(paper)
                 /\ \A p \in DOMAIN layer :
                      \/ p \in DOMAIN layer' /\ (p \notin selected => layer'[p] = layer[p])
                      \/ \E s \in selected : Below(p, s) \/ Below(s, p)
  <1>1. /\ modal.kind = "promote" /\ layer' = MergedPromotion
        /\ Nestable(MergedPromotion) /\ Resolves(Paper, MergedPromotion)
    BY LayerReplaced
  <1>2. PICK old, new : old = layer /\ new = MergedPromotion
    OBVIOUS
  <1>3. /\ DOMAIN old \subseteq Leaves /\ DOMAIN new \subseteq Leaves /\ Nestable(new)
        /\ \A p \in selected : p \in DOMAIN new /\ new[p] = changes[p]
    BY <1>1, <1>2, PromotionMerged DEF PromotionInv, LeavesInv
  <1>4. PICK paper : paper = Merged(Lower[Paper], new)
    OBVIOUS
  <1>5. DOMAIN Lower[Paper] \subseteq Leaves
    BY PaperAssumption DEF Leaves
  <1>6. \A p \in DOMAIN new : paper[p] = new[p]
    BY <1>3, <1>4, <1>5, OverlayWins
  <1>7. \A p \in selected : paper[p] = changes[p]
    BY <1>3, <1>6
  <1>8. ASSUME promoted # NoLeaves \/ layer = NoLeaves
        PROVE  /\ Valid(paper)
               /\ \A p \in DOMAIN old :
                    \/ p \in DOMAIN new /\ (p \notin selected => new[p] = old[p])
                    \/ \E s \in selected : Below(p, s) \/ Below(s, p)
    <2>1. promoted = layer
      <3>1. selected \subseteq DOMAIN changes /\ selected # {}
        BY <1>1 DEF PromotionInv, OffersInv
      <3>2. promoted \in Loaded(layer)
        BY <3>1 DEF PromotionInv, OffersInv
      <3> QED  BY <1>8, <3>2 DEF Loaded
    <2>2. /\ Succeeds(new, old)
          /\ \A p \in DOMAIN old :
               \/ p \in DOMAIN new /\ (p \notin selected => new[p] = old[p])
               \/ \E s \in selected : Below(p, s) \/ Below(s, p)
      BY <1>1, <1>2, <2>1, PromotionMerged
    <2>3. Merged(Merged(Lower[Paper], old), new) = paper
      BY <1>3, <1>4, <2>2, ValidatedIsWritten
    <2>4. Config(Paper, new) = paper
      BY <1>2, <2>3 DEF Config
    <2>5. Valid(paper)
      BY <1>1, <1>2, <2>4 DEF Resolves
    <2> QED  BY <2>2, <2>5
  <1> QED  BY <1>1, <1>2, <1>4, <1>7, <1>8

-----------------------------------------------------------------------------
\* A promotion makes every selected value the paper profile's and, if the layer
\* it replaces was read, leaves the profile valid as a whole (the complete
\* candidate that apply validates is what the file then gives) and keeps what
\* was promoted before: for all profiles that are laid out alike, all conflicts
\* between values, overrides, sources and edits of the file's promotions.
THEOREM PromotionHolds == Spec => PromotionSafe
  <1>1. PromotionInv /\ [Next]_vars =>
          [layer' # layer =>
             LET paper == Merged(Lower[Paper], layer')
             IN /\ \A p \in selected : paper[p] = changes[p]
                /\ promoted # NoLeaves \/ layer = NoLeaves =>
                     /\ Valid(paper)
                     /\ \A p \in DOMAIN layer :
                          \/ p \in DOMAIN layer' /\ (p \notin selected => layer'[p] = layer[p])
                          \/ \E s \in selected : Below(p, s) \/ Below(s, p)]_vars
    BY PromotionStep
  <1> QED  BY <1>1, InitPromotion, NextPromotion, PTL DEF Spec, PromotionSafe
=============================================================================
