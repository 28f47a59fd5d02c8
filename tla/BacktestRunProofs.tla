------------------------- MODULE BacktestRunProofs -------------------------
(* Proofs about BacktestRun, for any number of ticks, buffer size, number of *)
(* `analyze` commands and of failures.                                       *)
EXTENDS BacktestRun, TLAPS

Row == 1..Ticks

-----------------------------------------------------------------------------
(* Sequences of rows.                                                        *)

LEMMA AppendElems ==
  ASSUME NEW q \in Seq(Row), NEW t \in Row
  PROVE  Append(q, t) \in Seq(Row) /\ Elems(Append(q, t)) = Elems(q) \cup {t}
  <1>1. /\ Append(q, t) \in Seq(Row)
        /\ DOMAIN q = 1..Len(q) /\ Len(q) \in Nat
        /\ DOMAIN Append(q, t) = 1..(Len(q) + 1)
        /\ \A i \in 1..Len(q) : Append(q, t)[i] = q[i]
        /\ Append(q, t)[Len(q) + 1] = t
    OBVIOUS
  <1>2. Elems(Append(q, t)) \subseteq Elems(q) \cup {t}
    <2>1. ASSUME NEW i \in 1..(Len(q) + 1)  PROVE Append(q, t)[i] \in Elems(q) \cup {t}
      <3>1. i \in 1..Len(q) \/ i = Len(q) + 1
        BY <1>1
      <3> QED  BY <1>1, <3>1 DEF Elems
    <2> QED  BY <1>1, <2>1 DEF Elems
  <1>3. Elems(q) \cup {t} \subseteq Elems(Append(q, t))
    <2>1. ASSUME NEW i \in 1..Len(q)  PROVE q[i] \in Elems(Append(q, t))
      <3>1. i \in 1..(Len(q) + 1)
        BY <1>1
      <3> QED  BY <1>1, <3>1 DEF Elems
    <2>2. Len(q) + 1 \in 1..(Len(q) + 1)
      BY <1>1
    <2> QED  BY <1>1, <2>1, <2>2 DEF Elems
  <1> QED  BY <1>1, <1>2, <1>3

LEMMA ConcatElems ==
  ASSUME NEW q \in Seq(Row), NEW p \in Seq(Row)
  PROVE  q \o p \in Seq(Row) /\ Elems(q \o p) = Elems(q) \cup Elems(p)
  <1>1. /\ q \o p \in Seq(Row)
        /\ DOMAIN q = 1..Len(q) /\ Len(q) \in Nat
        /\ DOMAIN p = 1..Len(p) /\ Len(p) \in Nat
        /\ DOMAIN (q \o p) = 1..(Len(q) + Len(p))
        /\ \A i \in 1..Len(q) : (q \o p)[i] = q[i]
        /\ \A i \in (Len(q) + 1)..(Len(q) + Len(p)) : (q \o p)[i] = p[i - Len(q)]
    OBVIOUS
  <1>2. Elems(q \o p) \subseteq Elems(q) \cup Elems(p)
    <2>1. ASSUME NEW i \in 1..(Len(q) + Len(p))  PROVE (q \o p)[i] \in Elems(q) \cup Elems(p)
      <3>1. CASE i \in 1..Len(q)
        BY <1>1, <3>1 DEF Elems
      <3>2. CASE i \in (Len(q) + 1)..(Len(q) + Len(p))
        <4>1. i - Len(q) \in 1..Len(p) /\ (q \o p)[i] = p[i - Len(q)]
          BY <1>1, <3>2
        <4> QED  BY <1>1, <4>1 DEF Elems
      <3> QED  BY <1>1, <3>1, <3>2
    <2> QED  BY <1>1, <2>1 DEF Elems
  <1>3. ASSUME NEW i \in 1..Len(q)  PROVE q[i] \in Elems(q \o p)
    <2>1. i \in 1..(Len(q) + Len(p))
      BY <1>1
    <2> QED  BY <1>1, <2>1 DEF Elems
  <1>4. ASSUME NEW i \in 1..Len(p)  PROVE p[i] \in Elems(q \o p)
    <2>1. /\ i + Len(q) \in 1..(Len(q) + Len(p))
          /\ i + Len(q) \in (Len(q) + 1)..(Len(q) + Len(p))
          /\ (i + Len(q)) - Len(q) = i
      BY <1>1
    <2> QED  BY <1>1, <2>1 DEF Elems
  <1> QED  BY <1>1, <1>2, <1>3, <1>4 DEF Elems

LEMMA ConcatAppend ==
  ASSUME NEW q \in Seq(Row), NEW p \in Seq(Row), NEW t \in Row
  PROVE  q \o Append(p, t) = Append(q \o p, t)
  OBVIOUS

LEMMA ConcatNothing ==
  ASSUME NEW q \in Seq(Row)
  PROVE  q \o <<>> = q
  OBVIOUS

LEMMA AppendIncreasing ==
  ASSUME NEW q \in Seq(Row), NEW t \in Row, NEW n \in Int,
         Increasing(q), Below(q, n), n < t
  PROVE  Increasing(Append(q, t)) /\ Below(Append(q, t), t)
  <1>1. /\ DOMAIN q = 1..Len(q) /\ Len(q) \in Nat
        /\ DOMAIN Append(q, t) = 1..(Len(q) + 1)
        /\ \A i \in 1..Len(q) : Append(q, t)[i] = q[i]
        /\ Append(q, t)[Len(q) + 1] = t
    OBVIOUS
  <1>0. Row \subseteq Int /\ t \in Int /\ \A i \in 1..Len(q) : q[i] \in Int
    <2>1. \A i \in 1..Len(q) : q[i] \in Row
      BY <1>1
    <2> QED  BY <2>1, RunAssumption DEF Row
  <1>2. ASSUME NEW i \in 1..(Len(q) + 1), NEW j \in 1..(Len(q) + 1), i < j
        PROVE  Append(q, t)[i] < Append(q, t)[j]
    <2>1. i \in 1..Len(q) /\ (j \in 1..Len(q) \/ j = Len(q) + 1)
      BY <1>1, <1>2
    <2>2. CASE j \in 1..Len(q)
      BY <1>1, <1>2, <2>1, <2>2 DEF Increasing
    <2>3. CASE j = Len(q) + 1
      <3>1. q[i] <= n /\ q[i] \in Int
        BY <1>0, <1>1, <2>1 DEF Below
      <3> QED  BY <1>0, <1>1, <2>1, <2>3, <3>1
    <2> QED  BY <2>1, <2>2, <2>3
  <1>3. ASSUME NEW i \in 1..(Len(q) + 1)  PROVE Append(q, t)[i] <= t
    <2>1. i \in 1..Len(q) \/ i = Len(q) + 1
      BY <1>1
    <2>2. CASE i \in 1..Len(q)
      <3>1. q[i] <= n /\ q[i] \in Int
        BY <1>0, <1>1, <2>2 DEF Below
      <3> QED  BY <1>0, <1>1, <2>2, <3>1
    <2> QED  BY <1>0, <1>1, <2>1, <2>2
  <1> QED  BY <1>1, <1>2, <1>3 DEF Increasing, Below

LEMMA PrefixIncreasing ==
  ASSUME NEW q \in Seq(Row), NEW p \in Seq(Row), NEW n \in Int,
         Increasing(q \o p), Below(q \o p, n)
  PROVE  Increasing(q) /\ Below(q, n)
  <1>1. /\ DOMAIN q = 1..Len(q) /\ Len(q) \in Nat /\ Len(p) \in Nat
        /\ DOMAIN (q \o p) = 1..(Len(q) + Len(p))
        /\ \A i \in 1..Len(q) : (q \o p)[i] = q[i]
    OBVIOUS
  <1>2. 1..Len(q) \subseteq 1..(Len(q) + Len(p))
    BY <1>1
  <1> QED  BY <1>1, <1>2 DEF Increasing, Below

-----------------------------------------------------------------------------
(* The buffer: what adding and flushing make of tables and pending rows.     *)

Rows == [Class -> Seq(Row)]
BufferTyped == pending \in Rows /\ table \in Rows

LEMMA NoRowsTyped == NoRows \in Rows /\ \A d \in Class : NoRows[d] = <<>>
  <1>1. <<>> \in Seq(Row)
    OBVIOUS
  <1> QED  BY <1>1 DEF NoRows, Rows

LEMMA AddedTyped ==
  ASSUME BufferTyped, NEW c \in Class, tick' \in Row
  PROVE  /\ Added(c) \in Rows
         /\ Added(c)[c] = Append(pending[c], tick')
         /\ \A d \in Class \ {c} : Added(c)[d] = pending[d]
  <1>1. pending \in [Class -> Seq(Row)] /\ Append(pending[c], tick') \in Seq(Row)
    BY AppendElems DEF BufferTyped, Rows
  <1> QED  BY <1>1 DEF Added, Rows

LEMMA BothTyped ==
  ASSUME BufferTyped, NEW p \in Rows
  PROVE  /\ Both(p) \in Rows
         /\ \A d \in Class : Both(p)[d] = table[d] \o p[d]
  <1>1. \A d \in Class : table[d] \o p[d] \in Seq(Row)
    BY ConcatElems DEF BufferTyped, Rows
  <1> QED  BY <1>1 DEF Both, Rows

\* A flush writes the rows and empties the buffer; a failing one may not write.
LEMMA FlushEffect ==
  ASSUME BufferTyped, NEW p \in Rows, Flushes(p) \/ Loses(p)
  PROVE  /\ BufferTyped'
         /\ \A d \in Class : pending'[d] = <<>>
         /\ \/ table' = table
            \/ \A d \in Class : table'[d] = table[d] \o p[d]
         /\ Flushes(p) => \A d \in Class : table'[d] = table[d] \o p[d]
  <1>1. Both(p) \in Rows /\ \A d \in Class : Both(p)[d] = table[d] \o p[d]
    BY BothTyped
  <1>2. pending' = NoRows /\ table' \in {table, Both(p)} /\ (Flushes(p) => table' = Both(p))
    BY DEF Flushes, Loses
  <1> QED  BY <1>1, <1>2, NoRowsTyped DEF BufferTyped

\* An added row is the last of its table and its pending rows; nothing else
\* changes there, unless a failing flush drops everything pending.
AddsRow(c) ==
  \A d \in Class :
    LET old == table[d] \o pending[d]
        new == IF d = c THEN Append(old, tick') ELSE old
    IN \/ table'[d] \o pending'[d] = new
       \/ table'[d] = table[d] /\ pending'[d] = <<>>

LEMMA AddingEffect ==
  ASSUME BufferTyped, NEW c \in Class, tick' \in Row, Adds(c) \/ Loses(Added(c))
  PROVE  BufferTyped' /\ AddsRow(c)
  <1>1. /\ Added(c) \in Rows
        /\ Added(c)[c] = Append(pending[c], tick')
        /\ \A d \in Class \ {c} : Added(c)[d] = pending[d]
    BY AddedTyped
  <1>2. ASSUME NEW d \in Class
        PROVE  table[d] \o Added(c)[d] =
                 IF d = c THEN Append(table[d] \o pending[d], tick') ELSE table[d] \o pending[d]
    <2>1. table[d] \in Seq(Row) /\ pending[d] \in Seq(Row)
      BY DEF BufferTyped, Rows
    <2>2. CASE d = c
      <3>1. table[d] \o Append(pending[d], tick') = Append(table[d] \o pending[d], tick')
        BY <2>1, ConcatAppend
      <3> QED  BY <1>1, <2>2, <3>1
    <2>3. CASE d # c
      BY <1>1, <2>3
    <2> QED  BY <2>2, <2>3
  <1>3. CASE pending' = Added(c) /\ UNCHANGED table
    BY <1>1, <1>2, <1>3 DEF BufferTyped, AddsRow
  <1>4. CASE Flushes(Added(c)) \/ Loses(Added(c))
    <2>1. /\ BufferTyped'
          /\ \A d \in Class : pending'[d] = <<>>
          /\ \/ table' = table
             \/ \A d \in Class : table'[d] = table[d] \o Added(c)[d]
      BY <1>1, <1>4, FlushEffect
    <2>2. \A d \in Class : table'[d] \o pending'[d] = table'[d]
      BY <2>1, ConcatNothing DEF BufferTyped, Rows
    <2> QED  BY <1>2, <2>1, <2>2 DEF AddsRow
  <1> QED  BY <1>3, <1>4 DEF Adds

-----------------------------------------------------------------------------
(* Type correctness.                                                         *)

LEMMA TypeInit == Init => TypeOK
  <1> SUFFICES ASSUME Init  PROVE TypeOK
    OBVIOUS
  <1>1. NoRows \in [Class -> Seq(1..Ticks)]
    BY NoRowsTyped DEF Rows, Row
  <1>2. /\ pending \in [Class -> Seq(1..Ticks)] /\ table \in [Class -> Seq(1..Ticks)]
        /\ basis \in [Actors -> [Class -> Seq(1..Ticks)]]
    BY <1>1 DEF Init
  <1>3. /\ made \in [Class -> SUBSET (1..Ticks)] /\ swallowed \in [Class -> SUBSET (1..Ticks)]
        /\ seen \in [Actors -> SUBSET Actors] /\ stage \in [Actors -> Stages]
        /\ tradesRead \in [Actors -> 0..Ticks]
    BY RunAssumption DEF Init, Stages
  <1>4. /\ pc = "start" /\ exc = "none" /\ tick \in 0..Ticks /\ runRow = "none"
        /\ metrics \subseteq Actors /\ trips \subseteq Actors /\ summary = "none"
        /\ report = "none" /\ faults \in 0..MaxFaults
        /\ published = [status |-> "none", ticks |-> 0] /\ 0 \in 0..Ticks
    BY RunAssumption DEF Init
  <1>5. periodic \in BOOLEAN /\ overlap \in BOOLEAN
    BY DEF Init
  <1> QED  BY <1>2, <1>3, <1>4, <1>5 DEF TypeOK

RowsTyped == BufferTyped' /\ tick' \in 0..Ticks /\ made' \in [Class -> SUBSET Row]
             /\ swallowed' \in [Class -> SUBSET Row]

\* The history variables made and swallowed stay sets of rows.
LEMMA MakesTyped ==
  ASSUME TypeOK, NEW c \in Class, tick' \in Row, Makes(c)
  PROVE  made' \in [Class -> SUBSET Row]
  BY DEF TypeOK, Makes, Row

LEMMA BufferStepTyped ==
  ASSUME TypeOK, NEW c \in Class, tick' \in Row, Makes(c),
         Adds(c) \/ Loses(Added(c)),
         swallowed' = swallowed \/
           swallowed' = [d \in Class |-> swallowed[d] \cup Missing(Added(c))[d]]
  PROVE  RowsTyped
  <1>1. BufferTyped
    BY DEF TypeOK, BufferTyped, Rows, Row
  <1>2. BufferTyped'
    BY <1>1, AddingEffect
  <1>3. \A d \in Class : Missing(Added(c))[d] \subseteq Row
    <2>1. Added(c) \in [Class -> Seq(Row)]
      BY <1>1, AddedTyped DEF Rows
    <2>2. ASSUME NEW q \in Seq(Row)  PROVE Elems(q) \subseteq Row
      BY DEF Elems
    <2> QED  BY <2>1, <2>2 DEF Missing
  <1>4. swallowed' \in [Class -> SUBSET Row]
    BY <1>3 DEF TypeOK, Row
  <1>5. tick' \in 0..Ticks
    BY RunAssumption DEF Row
  <1> QED  BY <1>2, <1>4, <1>5, MakesTyped DEF RowsTyped

LEMMA PublicationTyped ==
  ASSUME TypeOK, NEW s \in {"RUNNING", "SUCCEEDED", "FAILED", "INTERRUPTED"}, Publication(s)
  PROVE  (periodic \in BOOLEAN)' /\ (faults \in 0..MaxFaults)'
         /\ published' \in [status : {"none", "RUNNING", "SUCCEEDED", "FAILED", "INTERRUPTED"},
                             ticks : 0..Ticks]
  <1>1. Snapshot(s) \in [status : {"none", "RUNNING", "SUCCEEDED", "FAILED", "INTERRUPTED"},
                         ticks : 0..Ticks]
    BY DEF TypeOK, Snapshot
  <1>2. periodic \in BOOLEAN /\ periodic' \in {periodic, FALSE}
    <2>1. periodic \in BOOLEAN
      BY DEF TypeOK
    <2>2. periodic' \in {periodic, FALSE}
      BY Zenon DEF Publication
    <2> QED  BY <2>1, <2>2
  <1>4. periodic' \in BOOLEAN
    BY <1>2, Zenon
  <1>3. faults' \in 0..MaxFaults
    <2>1. faults' = faults \/ Fault
      BY Zenon DEF Publication
    <2>2. faults \in 0..MaxFaults
      BY DEF TypeOK
    <2> QED  BY <2>1, <2>2, RunAssumption DEF Fault
  <1>5. published' = published \/ published' = Snapshot(s)
    BY Zenon DEF Publication
  <1> QED  BY <1>1, <1>3, <1>4, <1>5 DEF TypeOK

LEMMA OutcomeTyped ==
  ASSUME TypeOK
  PROVE  Outcome \in {"SUCCEEDED", "FAILED", "INTERRUPTED"}
  BY DEF Outcome

\* An analysis by any actor keeps the types.
LEMMA AnalysisTyped ==
  ASSUME TypeOK, NEW a \in Actors, AnalysisBegins(a) \/ Analysis(a) \/ AnalysisFails(a)
  PROVE  TypeOK'
  <1>0. Replaced(a, metrics) \subseteq Actors /\ Replaced(a, trips) \subseteq Actors
    BY DEF TypeOK, Replaced
  <1>1. CASE AnalysisBegins(a)
    BY <1>1 DEF TypeOK, AnalysisBegins, bufferVars, monitorVars, Stages
  <1>2. CASE ReadTrades(a)
    BY <1>2 DEF TypeOK, ReadTrades, Moves, bufferVars, monitorVars, Stages
  <1>3. ASSUME NEW c \in Class, NEW to \in Stages, ReadRows(a, c, to)  PROVE TypeOK'
    <2>1. basis' \in [Actors -> [Class -> Seq(1..Ticks)]]
      BY <1>3 DEF TypeOK, ReadRows
    <2> QED  BY <1>3, <2>1 DEF TypeOK, ReadRows, Moves, bufferVars, monitorVars
  <1>4. ASSUME NEW from, NEW to \in Stages, NEW stored \in SUBSET Actors,
               Delete(a, from, to, stored)
        PROVE  TypeOK'
    BY <1>4 DEF TypeOK, Delete, Moves, bufferVars, monitorVars
  <1>5. CASE SaveMetrics(a)
    BY <1>0, <1>5 DEF TypeOK, SaveMetrics, Moves, bufferVars, monitorVars, Stages
  <1>6. CASE SaveTrips(a)
    BY <1>0, <1>6 DEF TypeOK, SaveTrips, Moves, bufferVars, monitorVars, Stages
  <1>7. CASE WriteSummary(a)
    BY <1>7 DEF TypeOK, WriteSummary, Moves, bufferVars, monitorVars, Stages
  <1>8. CASE MetricsConflict(a)
    BY <1>8 DEF TypeOK, MetricsConflict, Stops, Broken, bufferVars, monitorVars, Stages
  <1>9. CASE AnalysisFails(a)
    <2>1. metrics' \subseteq Actors /\ trips' \subseteq Actors /\ summary' \in {summary, a}
      BY <1>0, <1>9 DEF TypeOK, AnalysisFails
    <2> QED
      BY <1>9, <2>1, RunAssumption
      DEF TypeOK, AnalysisFails, Stops, Broken, Fault, bufferVars, monitorVars, Stages
  <1>10. "equity" \in Class /\ "decision" \in Class
         /\ {"decision", "metrics", "metricsDeleted", "tripsDeleted"} \subseteq Stages
         /\ metrics \in SUBSET Actors /\ trips \in SUBSET Actors
    BY DEF Class, Stages, TypeOK
  <1> QED  BY <1>1, <1>2, <1>3, <1>4, <1>5, <1>6, <1>7, <1>8, <1>9, <1>10 DEF Analysis

LEMMA TypeStep == TypeOK /\ [Next]_vars => TypeOK'
  <1> SUFFICES ASSUME TypeOK, [Next]_vars  PROVE TypeOK'
    OBVIOUS
  <1>0. BufferTyped
    BY DEF TypeOK, BufferTyped, Rows, Row
  <1>1. CASE UNCHANGED vars
    BY <1>1 DEF TypeOK, vars, bufferVars, analysisVars, monitorVars
  <1>2. CASE ExecutionBegins
    BY <1>2, PublicationTyped DEF TypeOK, ExecutionBegins, bufferVars, analysisVars
  <1>3. CASE Setup \/ Create \/ Fetch \/ ReplayEnds \/ Finish
    BY <1>3
    DEF TypeOK, Setup, Create, Fetch, ReplayEnds, Finish, bufferVars, analysisVars, monitorVars
  <1>4. ASSUME tick < Ticks, tick' = tick + 1  PROVE tick' \in Row
    BY <1>4, RunAssumption DEF TypeOK, Row
  <1>5. CASE SaveSnapshot
    <2>1. RowsTyped
      BY <1>4, <1>5, BufferStepTyped DEF SaveSnapshot, Class
    <2> QED  BY <1>5, <2>1
             DEF TypeOK, RowsTyped, BufferTyped, Rows, Row, SaveSnapshot, analysisVars, monitorVars
  <1>6. CASE SaveSnapshotFails
    <2>1. RowsTyped
      BY <1>4, <1>6, BufferStepTyped DEF SaveSnapshotFails, Class
    <2> QED  BY <1>6, <2>1, RunAssumption
             DEF TypeOK, RowsTyped, BufferTyped, Rows, Row, SaveSnapshotFails, Broken, Fault,
                 analysisVars, monitorVars
  <1>7. ASSUME pc = "decide", UNCHANGED tick, Makes("decision"),
               Adds("decision") \/ Loses(Added("decision")),
               UNCHANGED swallowed \/ swallowed' = [c \in Class |->
                                         swallowed[c] \cup Missing(Added("decision"))[c]]
        PROVE  RowsTyped
    <2>1. tick' \in Row
      BY <1>7, RunAssumption DEF TypeOK, Row
    <2> QED  BY <1>7, <2>1, BufferStepTyped DEF Class
  <1>8. CASE SaveDecision
    <2>1. CASE UNCHANGED <<pending, table, made>>
      BY <1>8, <2>1 DEF TypeOK, SaveDecision, analysisVars, monitorVars
    <2>2. CASE Makes("decision") /\ Adds("decision")
      <3>1. RowsTyped
        BY <1>7, <1>8, <2>2 DEF SaveDecision
      <3> QED  BY <1>8, <3>1
               DEF TypeOK, RowsTyped, BufferTyped, Rows, Row, SaveDecision, analysisVars, monitorVars
    <2> QED  BY <1>8, <2>1, <2>2 DEF SaveDecision
  <1>9. CASE SaveDecisionFails
    <2>1. RowsTyped
      BY <1>7, <1>9 DEF SaveDecisionFails
    <2> QED  BY <1>9, <2>1, RunAssumption
             DEF TypeOK, RowsTyped, BufferTyped, Rows, Row, SaveDecisionFails, Fault,
                 analysisVars, monitorVars
  <1>10. CASE SaveDecisionInterrupted
    <2>1. RowsTyped
      BY <1>7, <1>10 DEF SaveDecisionInterrupted
    <2> QED  BY <1>10, <2>1, RunAssumption
             DEF TypeOK, RowsTyped, BufferTyped, Rows, Row, SaveDecisionInterrupted, Fault,
                 analysisVars, monitorVars
  <1>11. CASE Checkpoint
    <2>1. CASE UNCHANGED <<periodic, published, faults>>
      BY <1>11, <2>1 DEF TypeOK, Checkpoint, bufferVars, analysisVars
    <2>2. CASE Publication("RUNNING")
      BY <1>11, <2>2, PublicationTyped DEF TypeOK, Checkpoint, bufferVars, analysisVars
    <2> QED  BY <1>11, <2>1, <2>2 DEF Checkpoint
  <1>12. ASSUME Flushes(pending) \/ Loses(pending)  PROVE BufferTyped'
    BY <1>0, <1>12, FlushEffect DEF BufferTyped
  <1>13. CASE FinalFlush
    BY <1>12, <1>13 DEF TypeOK, FinalFlush, AfterFlush, BufferTyped, Rows, Row, analysisVars, monitorVars
  <1>14. CASE FinalFlushFails
    BY <1>12, <1>14, RunAssumption
    DEF TypeOK, FinalFlushFails, BufferTyped, Rows, Row, Broken, Fault, analysisVars, monitorVars
  <1>15. CASE StepFails
    BY <1>15, RunAssumption
    DEF TypeOK, StepFails, Broken, Fault, bufferVars, analysisVars, monitorVars
  <1>16. CASE ExecutionEnds
    <2>1. Publication(Outcome) /\ report' \in {Outcome, "none"}
          /\ Outcome \in {"SUCCEEDED", "FAILED", "INTERRUPTED"}
      BY <1>16, OutcomeTyped DEF ExecutionEnds
    <2>2. /\ (periodic \in BOOLEAN)' /\ (faults \in 0..MaxFaults)'
          /\ published' \in [status : {"none", "RUNNING", "SUCCEEDED", "FAILED", "INTERRUPTED"},
                              ticks : 0..Ticks]
      BY <2>1, PublicationTyped
    <2> QED  BY <1>16, <2>1, <2>2 DEF TypeOK, ExecutionEnds, bufferVars, analysisVars
  <1>17. CASE EndInterrupted
    <2>1. Snapshot(Outcome) \in [status : {"none", "RUNNING", "SUCCEEDED", "FAILED", "INTERRUPTED"},
                                 ticks : 0..Ticks]
      BY OutcomeTyped DEF Snapshot, TypeOK
    <2>2. periodic' \in BOOLEAN
      BY <1>17 DEF TypeOK, EndInterrupted
    <2> QED  BY <1>17, <2>1, <2>2, RunAssumption
             DEF TypeOK, EndInterrupted, Fault, bufferVars, analysisVars
  <1>p. CASE PublicationInterrupted
    <2>1. Snapshot("RUNNING") \in [status : {"none", "RUNNING", "SUCCEEDED", "FAILED", "INTERRUPTED"},
                                   ticks : 0..Ticks]
      BY DEF Snapshot, TypeOK
    <2>2. periodic' \in BOOLEAN
      BY <1>p DEF TypeOK, PublicationInterrupted
    <2> QED  BY <1>p, <2>1, <2>2, RunAssumption
             DEF TypeOK, PublicationInterrupted, Fault, bufferVars, analysisVars
  <1>18. CASE Killed
    <2>1. pending' \in [Class -> Seq(1..Ticks)]
      BY <1>18, NoRowsTyped DEF Killed, Rows, Row
    <2>2. stage' \in [Actors -> Stages]
      BY <1>18 DEF TypeOK, Killed, Stages
    <2> QED  BY <1>18, <2>1, <2>2, RunAssumption DEF TypeOK, Killed, Fault, monitorVars
  <1>19. ASSUME NEW a \in Actors, AnalysisBegins(a) \/ Analysis(a) \/ AnalysisFails(a)
         PROVE  TypeOK'
    BY <1>19, AnalysisTyped
  <1>20. "run" \in Actors /\ Analysts \subseteq Actors
    BY DEF Actors
  <1> QED
    BY <1>1, <1>2, <1>3, <1>5, <1>6, <1>8, <1>9, <1>10, <1>11, <1>13, <1>14, <1>15, <1>16,
       <1>17, <1>18, <1>19, <1>20, <1>p
    DEF Next, Execute, Replay, Failure, Analyze

\* Every state of every execution is well typed (the whole of BacktestRun).
THEOREM RunTyping == Spec => []TypeOK
  BY TypeInit, TypeStep, PTL DEF Spec

-----------------------------------------------------------------------------
(* The order of the rows.                                                    *)

LEMMA BelowMore ==
  ASSUME NEW q \in Seq(Row), NEW m \in Int, NEW n \in Int, Below(q, m), m <= n
  PROVE  Below(q, n)
  <1>1. \A i \in DOMAIN q : q[i] \in Row
    OBVIOUS
  <1>2. Row \subseteq Int
    BY RunAssumption DEF Row
  <1>3. ASSUME NEW i \in DOMAIN q  PROVE q[i] <= n
    <2>1. q[i] <= m /\ q[i] \in Int
      BY <1>1, <1>2 DEF Below
    <2> QED  BY <2>1
  <1> QED  BY <1>3 DEF Below

LEMMA LastRowInt == TypeOK => \A c \in Class : LastRow(c) \in Int /\ LastRow(c) <= tick
  BY RunAssumption DEF TypeOK, LastRow

\* An added row keeps the order if it is of a later tick than all before it.
LEMMA AddedInOrder ==
  ASSUME BufferTyped, BufferTyped', RowsInOrder, RowsBounded, NEW c \in Class, tick' \in Row,
         AddsRow(c),
         \A d \in Class : LastRow(d) \in Int /\ LastRow(d)' \in Int /\ LastRow(d) <= LastRow(d)',
         LastRow(c) < tick', tick' <= LastRow(c)'
  PROVE  RowsInOrder' /\ RowsBounded'
  <1> SUFFICES ASSUME NEW d \in Class
               PROVE  /\ Increasing(table'[d] \o pending'[d])
                      /\ Below(table'[d] \o pending'[d], LastRow(d)')
    BY DEF RowsInOrder, RowsBounded
  <1> DEFINE old == table[d] \o pending[d]
             new == table'[d] \o pending'[d]
  <1>1. /\ table[d] \in Seq(Row) /\ pending[d] \in Seq(Row) /\ old \in Seq(Row)
        /\ table'[d] \in Seq(Row) /\ pending'[d] \in Seq(Row) /\ new \in Seq(Row)
    BY ConcatElems DEF BufferTyped, Rows
  <1>2. Increasing(old) /\ Below(old, LastRow(d))
    BY DEF RowsInOrder, RowsBounded
  <1>3. \/ new = IF d = c THEN Append(old, tick') ELSE old
        \/ table'[d] = table[d] /\ pending'[d] = <<>>
    BY DEF AddsRow
  <1>4. CASE table'[d] = table[d] /\ pending'[d] = <<>>
    <2>1. new = table[d]
      BY <1>1, <1>4, ConcatNothing
    <2>2. Increasing(table[d]) /\ Below(table[d], LastRow(d))
      BY <1>1, <1>2, PrefixIncreasing
    <2> HIDE DEF new
    <2>3. Below(new, LastRow(d)')
      BY <1>1, <2>1, <2>2, BelowMore
    <2> QED  BY <2>1, <2>2, <2>3 DEF new
  <1> HIDE DEF old, new
  <1>5. CASE d = c /\ new = Append(old, tick')
    <2>1. Increasing(new) /\ Below(new, tick')
      BY <1>1, <1>2, <1>5, AppendIncreasing
    <2>2. tick' \in Int
      BY RunAssumption DEF Row
    <2>3. Below(new, LastRow(d)')
      BY <1>1, <1>5, <2>1, <2>2, BelowMore
    <2> QED  BY <2>1, <2>3 DEF new
  <1>6. CASE d # c /\ new = old
    <2>1. Below(new, LastRow(d)')
      BY <1>1, <1>2, <1>6, BelowMore
    <2> QED  BY <1>2, <1>6, <2>1 DEF new
  <1> QED  BY <1>3, <1>4, <1>5, <1>6

LEMMA RowsStep ==
  ASSUME TypeOK, TypeOK', RowsInOrder, RowsBounded, [Next]_vars
  PROVE  RowsInOrder' /\ RowsBounded'
  <1>0. /\ BufferTyped /\ BufferTyped'
        /\ \A d \in Class : LastRow(d) \in Int /\ LastRow(d) <= tick
        /\ \A d \in Class : LastRow(d)' \in Int
        /\ tick \in Int /\ tick' \in Int
    <2>1. BufferTyped /\ BufferTyped' /\ tick \in Int /\ tick' \in Int
      BY RunAssumption DEF TypeOK, BufferTyped, Rows, Row
    <2>2. \A d \in Class : LastRow(d) \in Int /\ LastRow(d) <= tick
      BY LastRowInt
    <2>3. \A d \in Class : LastRow(d)' \in Int
      BY <2>1 DEF LastRow
    <2> QED  BY <2>1, <2>2, <2>3
  \* Steps that add nothing: rows stay, or only what was pending is dropped.
  <1>1. ASSUME UNCHANGED tick, pc' = "decide" => pc = "decide",
               \A d \in Class : \/ table'[d] \o pending'[d] = table[d] \o pending[d]
                                \/ table'[d] = table[d] /\ pending'[d] = <<>>
        PROVE  RowsInOrder' /\ RowsBounded'
    <2> SUFFICES ASSUME NEW d \in Class
                 PROVE  /\ Increasing(table'[d] \o pending'[d])
                        /\ Below(table'[d] \o pending'[d], LastRow(d)')
      BY DEF RowsInOrder, RowsBounded
    <2> DEFINE old == table[d] \o pending[d]
               new == table'[d] \o pending'[d]
    <2>1. /\ table[d] \in Seq(Row) /\ pending[d] \in Seq(Row) /\ old \in Seq(Row)
          /\ new \in Seq(Row) /\ table'[d] \in Seq(Row)
      BY <1>0, ConcatElems DEF BufferTyped, Rows
    <2>2. Increasing(old) /\ Below(old, LastRow(d))
      BY DEF RowsInOrder, RowsBounded
    <2>3. LastRow(d) <= LastRow(d)' /\ LastRow(d) \in Int /\ LastRow(d)' \in Int
      BY <1>0, <1>1 DEF LastRow
    <2>4. CASE new = old
      <3> HIDE DEF old, new
      <3>1. Below(new, LastRow(d)')
        BY <2>1, <2>2, <2>3, <2>4, BelowMore
      <3> QED  BY <2>2, <2>4, <3>1 DEF new
    <2>5. CASE table'[d] = table[d] /\ pending'[d] = <<>>
      <3>1. new = table[d]
        BY <2>1, <2>5, ConcatNothing
      <3>2. Increasing(table[d]) /\ Below(table[d], LastRow(d))
        BY <2>1, <2>2, <2>3, PrefixIncreasing
      <3> HIDE DEF new
      <3>3. Below(new, LastRow(d)')
        BY <2>1, <2>3, <3>1, <3>2, BelowMore
      <3> QED  BY <3>1, <3>2, <3>3 DEF new
    <2> QED  BY <1>1, <2>4, <2>5
  <1>2. CASE SaveSnapshot \/ SaveSnapshotFails
    <2>1. /\ tick' = tick + 1 /\ tick < Ticks /\ pc = "tick" /\ pc' \in {"decide", "flush"}
          /\ Adds("equity") \/ Loses(Added("equity"))
      BY <1>2 DEF SaveSnapshot, SaveSnapshotFails
    <2>2. tick' \in Row /\ "equity" \in Class
      BY <2>1, RunAssumption DEF TypeOK, Row, Class
    <2>3. AddsRow("equity")
      BY <1>0, <2>1, <2>2, AddingEffect
    <2>4. /\ \A d \in Class : LastRow(d) <= LastRow(d)'
          /\ LastRow("equity") < tick' /\ tick' <= LastRow("equity")'
      BY <1>0, <2>1, <2>2 DEF LastRow
    <2> QED  BY <1>0, <2>2, <2>3, <2>4, AddedInOrder
  <1>3. ASSUME pc = "decide", UNCHANGED tick, Adds("decision") \/ Loses(Added("decision")),
               pc' \in {"checkpoint", "flush"}
        PROVE  RowsInOrder' /\ RowsBounded'
    <2>1. tick' \in Row /\ "decision" \in Class
      BY <1>3, RunAssumption DEF TypeOK, Row, Class
    <2>2. AddsRow("decision")
      BY <1>0, <1>3, <2>1, AddingEffect
    <2>3. /\ \A d \in Class : LastRow(d) <= LastRow(d)'
          /\ LastRow("decision") < tick' /\ tick' <= LastRow("decision")'
      BY <1>0, <1>3 DEF LastRow
    <2> QED  BY <1>0, <2>1, <2>2, <2>3, AddedInOrder
  <1>4. CASE SaveDecision
    <2>1. CASE Adds("decision")
      BY <1>3, <1>4, <2>1 DEF SaveDecision
    <2>2. CASE UNCHANGED <<pending, table, made>>
      BY <1>1, <1>4, <2>2 DEF SaveDecision
    <2> QED  BY <1>4, <2>1, <2>2 DEF SaveDecision
  <1>5. CASE SaveDecisionFails \/ SaveDecisionInterrupted
    BY <1>3, <1>5 DEF SaveDecisionFails, SaveDecisionInterrupted
  <1>6. CASE FinalFlush \/ FinalFlushFails
    <2>1. Flushes(pending) \/ Loses(pending)
      BY <1>6 DEF FinalFlush, FinalFlushFails
    <2>2. /\ \A d \in Class : pending'[d] = <<>>
          /\ \/ table' = table
             \/ \A d \in Class : table'[d] = table[d] \o pending[d]
      BY <1>0, <2>1, FlushEffect DEF BufferTyped
    <2>3. \A d \in Class : table'[d] \o pending'[d] = table'[d]
      BY <1>0, <2>2, ConcatNothing DEF BufferTyped, Rows
    <2>4. UNCHANGED tick /\ pc' # "decide"
      BY <1>6 DEF FinalFlush, FinalFlushFails, AfterFlush
    <2> QED  BY <1>1, <2>2, <2>3, <2>4
  <1>7. CASE Killed
    BY <1>1, <1>7, NoRowsTyped DEF Killed
  <1>8. ASSUME UNCHANGED <<tick, table, pending>>, pc' = "decide" => pc = "decide"
        PROVE  RowsInOrder' /\ RowsBounded'
    BY <1>1, <1>8
  <1>9. CASE UNCHANGED vars
    BY <1>8, <1>9 DEF vars, bufferVars
  <1>10. CASE ExecutionBegins \/ Setup \/ Create \/ Fetch \/ ReplayEnds \/ Finish \/ Checkpoint
    BY <1>8, <1>10
    DEF ExecutionBegins, Setup, Create, Fetch, ReplayEnds, Finish, Checkpoint, bufferVars
  <1>11. CASE StepFails \/ PublicationInterrupted \/ ExecutionEnds \/ EndInterrupted
    BY <1>8, <1>11 DEF StepFails, PublicationInterrupted, ExecutionEnds, EndInterrupted, bufferVars
  <1>12. ASSUME NEW a \in Actors, AnalysisBegins(a) \/ Analysis(a) \/ AnalysisFails(a)
         PROVE  RowsInOrder' /\ RowsBounded'
    BY <1>8, <1>12
    DEF AnalysisBegins, Analysis, AnalysisFails, MetricsConflict, ReadTrades, ReadRows, Delete,
        SaveMetrics, SaveTrips, WriteSummary, Stops, Moves, bufferVars
  <1>13. "run" \in Actors /\ Analysts \subseteq Actors
    BY DEF Actors
  <1> QED
    BY <1>2, <1>4, <1>5, <1>6, <1>7, <1>9, <1>10, <1>11, <1>12, <1>13
    DEF Next, Execute, Replay, Failure, Analyze

-----------------------------------------------------------------------------
(* No row is lost, other than the swallowed ones.                            *)

Held(c) == Elems(table[c]) \cup Elems(pending[c]) \cup swallowed[c]
Kept    == \A c \in Class : made[c] \subseteq Held(c)
HistoryTyped == made \in [Class -> SUBSET Row] /\ swallowed \in [Class -> SUBSET Row]

LEMMA NothingElems == Elems(<<>>) = {}
  BY DEF Elems

LEMMA MakesOne ==
  ASSUME HistoryTyped, NEW c \in Class, Makes(c), NEW d \in Class
  PROVE  made'[d] \subseteq made[d] \cup (IF d = c THEN {tick'} ELSE {})
  BY DEF HistoryTyped, Makes

\* The rows pending after an addition, as sets.
LEMMA AddedElems ==
  ASSUME BufferTyped, NEW c \in Class, tick' \in Row, NEW d \in Class
  PROVE  Elems(Added(c)[d]) = Elems(pending[d]) \cup (IF d = c THEN {tick'} ELSE {})
  <1>1. pending[d] \in Seq(Row)
    BY DEF BufferTyped, Rows
  <1>2. CASE d = c
    <2>1. Elems(Append(pending[d], tick')) = Elems(pending[d]) \cup {tick'}
      BY <1>1, AppendElems
    <2> QED  BY <1>2, <2>1, AddedTyped
  <1>3. CASE d # c
    BY <1>3, AddedTyped
  <1> QED  BY <1>2, <1>3

\* What a flush does to the set of rows of a table.
LEMMA FlushElems ==
  ASSUME BufferTyped, NEW p \in Rows, Flushes(p) \/ Loses(p), NEW d \in Class
  PROVE  /\ Elems(pending'[d]) = {}
         /\ Elems(table[d]) \subseteq Elems(table'[d])
         /\ Flushes(p) => Elems(table'[d]) = Elems(table[d]) \cup Elems(p[d])
  <1>1. /\ pending'[d] = <<>>
        /\ table' = table \/ table'[d] = table[d] \o p[d]
        /\ Flushes(p) => table'[d] = table[d] \o p[d]
    BY FlushEffect
  <1>2. Elems(table[d] \o p[d]) = Elems(table[d]) \cup Elems(p[d])
    <2>1. table[d] \in Seq(Row) /\ p[d] \in Seq(Row)
      BY DEF BufferTyped, Rows
    <2> QED  BY <2>1, ConcatElems
  <1> QED  BY <1>1, <1>2, NothingElems

\* Adding a row to the buffer keeps it, whether or not the buffer is flushed.
LEMMA AddsKept ==
  ASSUME BufferTyped, HistoryTyped, Kept, NEW c \in Class, tick' \in Row,
         Makes(c), Adds(c), UNCHANGED swallowed
  PROVE  Kept'
  <1> SUFFICES ASSUME NEW d \in Class  PROVE made'[d] \subseteq Held(d)'
    BY DEF Kept
  <1>1. made'[d] \subseteq Held(d) \cup (IF d = c THEN {tick'} ELSE {})
    BY MakesOne DEF Kept
  <1>2. Elems(Added(c)[d]) = Elems(pending[d]) \cup (IF d = c THEN {tick'} ELSE {})
    BY AddedElems
  <1>3. CASE pending' = Added(c) /\ UNCHANGED table
    BY <1>1, <1>2, <1>3 DEF Held
  <1>4. CASE Flushes(Added(c))
    <2>1. Elems(table'[d]) = Elems(table[d]) \cup Elems(Added(c)[d])
      BY <1>4, AddedTyped, FlushElems
    <2> QED  BY <1>1, <1>2, <2>1 DEF Held
  <1> QED  BY <1>3, <1>4 DEF Adds

\* A failing flush that is swallowed loses only what swallowed then says.
LEMMA SwallowedKept ==
  ASSUME BufferTyped, HistoryTyped, Kept, NEW c \in Class, tick' \in Row,
         Makes(c), Loses(Added(c)),
         swallowed' = [d \in Class |-> swallowed[d] \cup Missing(Added(c))[d]]
  PROVE  Kept'
  <1> SUFFICES ASSUME NEW d \in Class  PROVE made'[d] \subseteq Held(d)'
    BY DEF Kept
  <1>1. made'[d] \subseteq Held(d) \cup (IF d = c THEN {tick'} ELSE {})
    BY MakesOne DEF Kept
  <1>2. Elems(Added(c)[d]) = Elems(pending[d]) \cup (IF d = c THEN {tick'} ELSE {})
    BY AddedElems
  <1>3. Elems(table[d]) \subseteq Elems(table'[d])
    BY AddedTyped, FlushElems
  <1>4. swallowed'[d] = swallowed[d] \cup (Elems(Added(c)[d]) \ Elems(table'[d]))
    BY DEF Missing
  <1> QED  BY <1>1, <1>2, <1>3, <1>4 DEF Held

\* The final flush keeps everything.
LEMMA FlushKept ==
  ASSUME BufferTyped, Kept, Flushes(pending), UNCHANGED <<made, swallowed>>
  PROVE  Kept'
  <1> SUFFICES ASSUME NEW d \in Class  PROVE made'[d] \subseteq Held(d)'
    BY DEF Kept
  <1>1. Elems(table'[d]) = Elems(table[d]) \cup Elems(pending[d])
    BY FlushElems DEF BufferTyped
  <1> QED  BY <1>1 DEF Held, Kept

\* The parts of the life cycle that need no buffer reasoning.
Phases ==
  /\ exc # "none" => pc \in {"flush", "final", "ended", "killed"}
  /\ exc = "none" /\ pc \in {"flush", "finish", "analysis"} => tick = Ticks
  /\ pc \in {"finish", "analysis"} => pending = NoRows
  /\ pc = "analysis" => runRow = "finished"
  /\ runRow = "finished" => pc \in {"analysis", "final", "ended", "killed"}

LEMMA LifeSplit == LifeInv <=> Phases /\ (exc = "none" /\ pc # "killed" => Kept)
  BY DEF LifeInv, Phases, Kept, Held

LEMMA PhasesStep ==
  ASSUME TypeOK, Phases, OwnAnalysisInv, [Next]_vars
  PROVE  Phases'
  <1>1. CASE UNCHANGED vars
    BY <1>1 DEF Phases, vars, bufferVars
  <1>2. CASE ExecutionBegins \/ Setup \/ Create \/ Fetch \/ ReplayEnds \/ Finish \/ Checkpoint
    BY <1>2
    DEF Phases, ExecutionBegins, Setup, Create, Fetch, ReplayEnds, Finish, Checkpoint, bufferVars
  <1>3. CASE SaveSnapshot \/ SaveSnapshotFails
    BY <1>3 DEF Phases, SaveSnapshot, SaveSnapshotFails, Broken
  <1>4. CASE SaveDecision \/ SaveDecisionFails \/ SaveDecisionInterrupted
    BY <1>4 DEF Phases, SaveDecision, SaveDecisionFails, SaveDecisionInterrupted
  <1>5. CASE FinalFlush \/ FinalFlushFails
    BY <1>5 DEF Phases, FinalFlush, FinalFlushFails, AfterFlush, Flushes, Loses, Broken
  <1>6. CASE StepFails \/ PublicationInterrupted
    BY <1>6 DEF Phases, StepFails, PublicationInterrupted, Broken, bufferVars
  <1>7. CASE ExecutionEnds \/ EndInterrupted \/ Killed
    BY <1>7 DEF Phases, ExecutionEnds, EndInterrupted, Killed, bufferVars
  <1>8. ASSUME NEW a \in Actors, AnalysisBegins(a) \/ Analysis(a) \/ AnalysisFails(a)
        PROVE  Phases'
    <2>1. CASE UNCHANGED <<pc, exc, tick, runRow, pending>>
      BY <2>1 DEF Phases
    <2>2. CASE pc' = "final" /\ pc = "analysis" /\ UNCHANGED <<tick, runRow, pending>>
      BY <2>2 DEF Phases
    <2>3. CASE WriteSummary(a)
      <3>1. stage[a] = "summary"
        BY <2>3 DEF WriteSummary, Moves
      <3> QED  BY <2>1, <2>2, <2>3, <3>1
               DEF WriteSummary, Moves, bufferVars, OwnAnalysisInv, Active
    <2>4. CASE Stops(a)
      BY <2>1, <2>2, <2>4 DEF Stops, bufferVars, OwnAnalysisInv
    <2>5. CASE AnalysisBegins(a) \/ ReadTrades(a) \/ SaveMetrics(a) \/ SaveTrips(a)
      BY <2>1, <2>5 DEF AnalysisBegins, ReadTrades, SaveMetrics, SaveTrips, Moves, bufferVars
    <2>6. CASE \/ ReadRows(a, "equity", "decision") \/ ReadRows(a, "decision", "metrics")
               \/ Delete(a, "metrics", "metricsDeleted", metrics)
               \/ Delete(a, "trips", "tripsDeleted", trips)
      BY <2>1, <2>6 DEF ReadRows, Delete, Moves, bufferVars
    <2> QED  BY <1>8, <2>3, <2>4, <2>5, <2>6 DEF Analysis, AnalysisFails, MetricsConflict
  <1>9. "run" \in Actors /\ Analysts \subseteq Actors
    BY DEF Actors
  <1> QED
    BY <1>1, <1>2, <1>3, <1>4, <1>5, <1>6, <1>7, <1>8, <1>9
    DEF Next, Execute, Replay, Failure, Analyze

LEMMA LifeStep ==
  ASSUME TypeOK, LifeInv, OwnAnalysisInv, FinishedComplete, [Next]_vars
  PROVE  LifeInv' /\ FinishedComplete'
  <1>0. /\ Phases /\ Phases' /\ (exc = "none" /\ pc # "killed" => Kept)
        /\ BufferTyped /\ HistoryTyped
    <2>1. Phases /\ (exc = "none" /\ pc # "killed" => Kept)
      BY LifeSplit
    <2> QED  BY <2>1, PhasesStep DEF TypeOK, BufferTyped, HistoryTyped, Rows, Row
  <1>a. ASSUME exc' = "none" /\ pc' # "killed" => Kept'  PROVE LifeInv'
    BY <1>0, <1>a DEF LifeInv, Phases, Kept, Held
  <1>1. ASSUME UNCHANGED <<pending, table, made, swallowed>>, exc' = "none" => exc = "none",
               pc' = "killed" \/ pc # "killed" \/ UNCHANGED pc,
               runRow' = "finished" => runRow = "finished" \/ pc = "finish"
        PROVE  (exc' = "none" /\ pc' # "killed" => Kept') /\ FinishedComplete'
    <2>1. exc' = "none" /\ pc' # "killed" => Kept'
      <3>1. Kept => Kept'
        BY <1>1 DEF Kept, Held
      <3>2. exc' = "none" /\ pc' # "killed" => exc = "none" /\ pc # "killed"
        BY <1>1
      <3> QED  BY <1>0, <3>1, <3>2
    <2>2. CASE runRow' = "finished" /\ pc = "finish"
      <3>1. Kept /\ pending = NoRows
        BY <1>0, <2>2 DEF Phases
      <3>2. \A d \in Class : Elems(pending[d]) = {}
        BY <3>1, NoRowsTyped, NothingElems
      <3> QED  BY <1>1, <2>1, <3>1, <3>2 DEF FinishedComplete, Kept, Held
    <2>3. CASE runRow' # "finished"
      BY <2>1, <2>3 DEF FinishedComplete
    <2>4. CASE runRow = "finished"
      <3>1. \A d \in Class : made[d] \subseteq Elems(table[d]) \cup swallowed[d]
        BY <2>4 DEF FinishedComplete
      <3> QED  BY <1>1, <2>1, <3>1 DEF FinishedComplete
    <2> QED  BY <1>1, <2>1, <2>2, <2>3, <2>4
  \* In the replay and its flush the run row is not finished.
  <1>2. ASSUME pc \notin {"finish", "analysis", "final", "ended", "killed"}, UNCHANGED runRow
        PROVE  FinishedComplete'
    BY <1>0, <1>2 DEF Phases, FinishedComplete
  <1>3. CASE SaveSnapshot
    <2>1. tick' \in Row /\ "equity" \in Class
      BY <1>3, RunAssumption DEF TypeOK, SaveSnapshot, Row, Class
    <2>2. exc' = "none" => Kept'
      BY <1>0, <1>3, <2>1, AddsKept DEF SaveSnapshot
    <2> QED  BY <1>0, <1>2, <1>3, <2>2, <1>a DEF SaveSnapshot
  <1>4. CASE SaveSnapshotFails \/ SaveDecisionInterrupted \/ FinalFlushFails
    BY <1>0, <1>2, <1>4, <1>a
    DEF SaveSnapshotFails, SaveDecisionInterrupted, FinalFlushFails, Broken
  <1>5. ASSUME SaveDecision \/ SaveDecisionFails  PROVE tick' \in Row /\ "decision" \in Class
    BY <1>5, RunAssumption DEF TypeOK, SaveDecision, SaveDecisionFails, Row, Class
  <1>6. CASE SaveDecision
    <2>1. CASE Makes("decision") /\ Adds("decision")
      BY <1>0, <1>2, <1>5, <1>6, <2>1, AddsKept, <1>a DEF SaveDecision
    <2>2. CASE UNCHANGED <<pending, table, made>>
      BY <1>0, <1>1, <1>6, <2>2, <1>a DEF SaveDecision
    <2> QED  BY <1>6, <2>1, <2>2 DEF SaveDecision
  <1>7. CASE SaveDecisionFails
    BY <1>0, <1>2, <1>5, <1>7, SwallowedKept, <1>a DEF SaveDecisionFails
  <1>8. CASE FinalFlush
    BY <1>0, <1>2, <1>8, FlushKept, <1>a DEF FinalFlush
  <1>9. CASE Killed
    <2>1. FinishedComplete'
      BY <1>9 DEF Killed, FinishedComplete
    <2> QED  BY <1>0, <1>9, <2>1, <1>a DEF Killed
  <1>10. CASE UNCHANGED vars
    BY <1>0, <1>1, <1>10, <1>a DEF vars, bufferVars
  <1>11. CASE ExecutionBegins \/ Setup \/ Create \/ Fetch \/ ReplayEnds \/ Finish \/ Checkpoint
    BY <1>0, <1>1, <1>11, <1>a
    DEF ExecutionBegins, Setup, Create, Fetch, ReplayEnds, Finish, Checkpoint, bufferVars
  <1>12. CASE StepFails \/ PublicationInterrupted \/ ExecutionEnds \/ EndInterrupted
    BY <1>0, <1>1, <1>12, <1>a
    DEF StepFails, PublicationInterrupted, ExecutionEnds, EndInterrupted, bufferVars, Broken
  <1>13. ASSUME NEW a \in Actors, AnalysisBegins(a) \/ Analysis(a) \/ AnalysisFails(a)
         PROVE  LifeInv' /\ FinishedComplete'
    <2>1. /\ UNCHANGED <<pending, table, made, swallowed, runRow>>
          /\ exc' = "none" => exc = "none"
          /\ UNCHANGED pc \/ pc' = "final"
      BY <1>13
      DEF AnalysisBegins, Analysis, AnalysisFails, MetricsConflict, ReadTrades, ReadRows, Delete,
          SaveMetrics, SaveTrips, WriteSummary, Stops, Moves, Broken, bufferVars
    <2>2. UNCHANGED pc \/ pc # "killed"
      BY <1>13
      DEF AnalysisBegins, Analysis, AnalysisFails, MetricsConflict, ReadTrades, ReadRows, Delete,
          SaveMetrics, SaveTrips, WriteSummary, Stops, Moves, Active, OwnAnalysisInv
    <2> QED  BY <1>0, <1>1, <2>1, <2>2, <1>a
  <1>14. "run" \in Actors /\ Analysts \subseteq Actors
    BY DEF Actors
  <1> QED
    BY <1>3, <1>4, <1>6, <1>7, <1>8, <1>9, <1>10, <1>11, <1>12, <1>13, <1>14
    DEF Next, Execute, Replay, Failure, Analyze

-----------------------------------------------------------------------------
(* The run's own analysis.                                                   *)

\* Steps of others, and those that leave the run's analysis where it is.
LEMMA OwnFrame ==
  ASSUME OwnAnalysisInv,
         stage'["run"] = stage["run"], tradesRead'["run"] = tradesRead["run"],
         basis'["run"] = basis["run"],
         UNCHANGED summary \/ summary' # "none",
         UNCHANGED <<runRow, table>> \/ stage["run"] = "idle",
         stage["run"] # "idle" => UNCHANGED pc \/ (pc \in {"final", "ended"} /\ pc' = "ended"),
         UNCHANGED exc \/ stage["run"] = "idle",
         pc' \in {"final", "ended"} /\ exc' = "none" => pc \in {"final", "ended"} /\ exc = "none"
  PROVE  OwnAnalysisInv'
  <1>1. CASE stage["run"] = "idle"
    BY <1>1 DEF OwnAnalysisInv, Active
  <1>2. CASE stage["run"] # "idle"
    <2>1. UNCHANGED <<runRow, table, exc>>
      BY <1>2
    <2> QED  BY <1>2, <2>1 DEF OwnAnalysisInv, Active
  <1> QED  BY <1>1, <1>2

LEMMA OwnStep ==
  ASSUME TypeOK, Phases, OwnAnalysisInv, [Next]_vars
  PROVE  OwnAnalysisInv'
  <1>0. /\ stage["run"] # "idle" => pc \in {"analysis", "final", "ended", "killed"}
        /\ "run" \in Actors /\ Analysts \subseteq Actors
        /\ stage \in [Actors -> Stages] /\ tradesRead \in [Actors -> 0..Ticks]
        /\ basis \in [Actors -> [Class -> Seq(1..Ticks)]]
    BY DEF OwnAnalysisInv, Actors, TypeOK
  <1>1. CASE UNCHANGED vars
    BY <1>0, <1>1, OwnFrame DEF vars, bufferVars, analysisVars
  <1>2. CASE ExecutionBegins \/ Setup \/ Create \/ Fetch \/ ReplayEnds \/ Finish \/ Checkpoint
    <2>1. stage["run"] = "idle"
      BY <1>0, <1>2 DEF ExecutionBegins, Setup, Create, Fetch, ReplayEnds, Finish, Checkpoint
    <2> QED  BY <1>0, <1>2, <2>1, OwnFrame
             DEF ExecutionBegins, Setup, Create, Fetch, ReplayEnds, Finish, Checkpoint, analysisVars
  <1>3. CASE SaveSnapshot \/ SaveSnapshotFails
    <2>1. stage["run"] = "idle"
      BY <1>0, <1>3 DEF SaveSnapshot, SaveSnapshotFails
    <2> QED  BY <1>0, <1>3, <2>1, OwnFrame DEF SaveSnapshot, SaveSnapshotFails, analysisVars
  <1>4. CASE SaveDecision \/ SaveDecisionFails \/ SaveDecisionInterrupted
    <2>1. stage["run"] = "idle"
      BY <1>0, <1>4 DEF SaveDecision, SaveDecisionFails, SaveDecisionInterrupted
    <2> QED  BY <1>0, <1>4, <2>1, OwnFrame
             DEF SaveDecision, SaveDecisionFails, SaveDecisionInterrupted, analysisVars
  <1>5. CASE FinalFlush \/ FinalFlushFails
    <2>1. stage["run"] = "idle"
      BY <1>0, <1>5 DEF FinalFlush, FinalFlushFails
    <2>2. pc' \in {"final", "ended"} => exc' # "none"
      BY <1>5 DEF FinalFlush, FinalFlushFails, AfterFlush, Broken
    <2> QED  BY <1>0, <1>5, <2>1, <2>2, OwnFrame DEF FinalFlush, FinalFlushFails, analysisVars
  <1>6. CASE StepFails \/ PublicationInterrupted
    <2>1. stage["run"] = "idle" /\ exc' # "none"
      BY <1>0, <1>6 DEF StepFails, PublicationInterrupted, Broken
    <2> QED  BY <1>0, <1>6, <2>1, OwnFrame DEF StepFails, PublicationInterrupted, analysisVars
  <1>7. CASE ExecutionEnds \/ EndInterrupted
    BY <1>0, <1>7, OwnFrame DEF ExecutionEnds, EndInterrupted, bufferVars, analysisVars
  <1>8. CASE Killed
    <2>1. stage'["run"] = IF Active("run") THEN "failed" ELSE stage["run"]
      BY <1>0, <1>8 DEF Killed
    <2>2. UNCHANGED <<tradesRead, basis, runRow, table, summary, exc>> /\ pc' = "killed"
      BY <1>8 DEF Killed
    <2>3. CASE Active("run")
      BY <2>1, <2>2, <2>3 DEF OwnAnalysisInv, Active
    <2>4. CASE ~Active("run")
      BY <2>1, <2>2, <2>4 DEF OwnAnalysisInv, Active
    <2> QED  BY <2>3, <2>4
  <1>9. ASSUME NEW a \in Analysts, AnalysisBegins(a) \/ Analysis(a) \/ AnalysisFails(a)
        PROVE  OwnAnalysisInv'
    <2>1. a # "run" /\ a # "none" /\ a \in Actors
      BY <1>0, RunAssumption
    <2>2. stage'["run"] = stage["run"] /\ UNCHANGED <<pc, exc, runRow, table>>
      BY <1>0, <1>9, <2>1
      DEF AnalysisBegins, Analysis, AnalysisFails, MetricsConflict, ReadTrades, ReadRows, Delete,
          SaveMetrics, SaveTrips, WriteSummary, Stops, Moves, bufferVars
    <2>3. tradesRead'["run"] = tradesRead["run"]
      BY <1>0, <1>9, <2>1
      DEF AnalysisBegins, Analysis, AnalysisFails, MetricsConflict, ReadTrades, ReadRows, Delete,
          SaveMetrics, SaveTrips, WriteSummary, Stops
    <2>4. basis'["run"] = basis["run"]
      BY <1>0, <1>9, <2>1
      DEF AnalysisBegins, Analysis, AnalysisFails, MetricsConflict, ReadTrades, ReadRows, Delete,
          SaveMetrics, SaveTrips, WriteSummary, Stops
    <2>5. summary' \in {summary, a}
      BY <1>9
      DEF AnalysisBegins, Analysis, AnalysisFails, MetricsConflict, ReadTrades, ReadRows, Delete,
          SaveMetrics, SaveTrips, WriteSummary, Stops
    <2> QED  BY <2>1, <2>2, <2>3, <2>4, <2>5, OwnFrame
  \* The run's own steps, one stage after the other.
  <1>10. CASE AnalysisBegins("run")
    <2>1. /\ stage["run"] = "idle" /\ pc = "analysis" /\ stage'["run"] = "trades"
          /\ UNCHANGED <<pc, exc, runRow, table, tradesRead, basis, summary>>
      BY <1>0, <1>10 DEF AnalysisBegins, bufferVars
    <2>2. runRow = "finished"
      BY <2>1 DEF Phases
    <2> QED  BY <2>1, <2>2 DEF OwnAnalysisInv, Active
  <1>11. ASSUME NEW from, NEW to, Moves("run", from, to), from \notin {"idle", "done", "failed"}
         PROVE  /\ stage["run"] = from /\ stage'["run"] = to
                /\ pc = "analysis" /\ UNCHANGED <<runRow, table>>
    BY <1>0, <1>11 DEF Moves, bufferVars, OwnAnalysisInv, Active
  <1>12. CASE ReadTrades("run")
    <2>a. Moves("run", "trades", "equity") /\ UNCHANGED <<pc, exc, basis, summary>>
      BY <1>12 DEF ReadTrades
    <2>b. tradesRead'["run"] = tick
      BY <1>0, <1>12 DEF ReadTrades
    <2>1. /\ stage["run"] = "trades" /\ stage'["run"] = "equity" /\ pc = "analysis"
          /\ UNCHANGED <<pc, exc, runRow, table, basis, summary>> /\ tradesRead'["run"] = tick
      BY <1>11, <2>a, <2>b
    <2>2. tick = Ticks
      BY <2>1 DEF Phases
    <2> QED  BY <2>1, <2>2 DEF OwnAnalysisInv, Active
  <1>13. CASE ReadRows("run", "equity", "decision")
    <2>1. /\ stage["run"] = "equity" /\ stage'["run"] = "decision" /\ pc = "analysis"
          /\ UNCHANGED <<pc, exc, runRow, table, tradesRead, summary>>
          /\ basis'["run"]["equity"] = table["equity"]
      BY <1>0, <1>11, <1>13 DEF ReadRows, Class
    <2> QED  BY <2>1 DEF OwnAnalysisInv, Active
  <1>14. CASE ReadRows("run", "decision", "metrics")
    <2>1. /\ stage["run"] = "decision" /\ stage'["run"] = "metrics" /\ pc = "analysis"
          /\ UNCHANGED <<pc, exc, runRow, table, tradesRead, summary>>
          /\ basis'["run"]["decision"] = table["decision"]
          /\ basis'["run"]["equity"] = basis["run"]["equity"]
      BY <1>0, <1>11, <1>14 DEF ReadRows, Class
    <2> QED  BY <2>1 DEF OwnAnalysisInv, Active
  <1>15. CASE Delete("run", "metrics", "metricsDeleted", metrics) \/ Delete("run", "trips", "tripsDeleted", trips)
    <2>1. /\ stage["run"] \in {"metrics", "trips"} /\ stage'["run"] \in {"metricsDeleted", "tripsDeleted"}
          /\ pc = "analysis" /\ UNCHANGED <<pc, exc, runRow, table, tradesRead, basis, summary>>
      BY <1>11, <1>15 DEF Delete
    <2> QED  BY <2>1 DEF OwnAnalysisInv, Active
  <1>16. CASE SaveMetrics("run") \/ SaveTrips("run")
    <2>1. /\ stage["run"] \in {"metricsDeleted", "tripsDeleted"} /\ stage'["run"] \in {"trips", "summary"}
          /\ pc = "analysis" /\ UNCHANGED <<pc, exc, runRow, table, tradesRead, basis, summary>>
      BY <1>11, <1>16 DEF SaveMetrics, SaveTrips
    <2> QED  BY <2>1 DEF OwnAnalysisInv, Active
  <1>17. CASE WriteSummary("run")
    <2>1. /\ stage["run"] = "summary" /\ stage'["run"] = "done" /\ pc' = "final"
          /\ summary' = "run" /\ UNCHANGED <<exc, runRow, table, tradesRead, basis>>
      BY <1>11, <1>17 DEF WriteSummary
    <2> QED  BY <2>1 DEF OwnAnalysisInv, Active
  <1>18. CASE Stops("run") /\ summary' \in {summary, "run"}
    <2>1. /\ stage'["run"] = "failed" /\ pc' = "final" /\ exc' # "none"
          /\ UNCHANGED <<runRow, table, tradesRead, basis>>
      BY <1>0, <1>18 DEF Stops, Broken, bufferVars
    <2> QED  BY <2>1 DEF OwnAnalysisInv, Active
  <1>19. CASE AnalysisBegins("run") \/ Analysis("run") \/ AnalysisFails("run")
    BY <1>10, <1>12, <1>13, <1>14, <1>15, <1>16, <1>17, <1>18, <1>19
    DEF Analysis, AnalysisFails, MetricsConflict
  <1> QED
    BY <1>1, <1>2, <1>3, <1>4, <1>5, <1>6, <1>7, <1>8, <1>9, <1>19
    DEF Next, Execute, Replay, Failure, Analyze, Actors

-----------------------------------------------------------------------------
(* What is reported.                                                         *)

SucceededSays == runRow = "finished" /\ stage["run"] = "done" /\ summary # "none"

\* A publication, if it gets through, is of the status it was asked for.
LEMMA PublicationStatus ==
  ASSUME NEW s, Publication(s)
  PROVE  UNCHANGED published \/ published'.status = s
  <1>1. UNCHANGED published \/ published' = Snapshot(s)
    BY DEF Publication
  <1>2. Snapshot(s).status = s
    BY DEF Snapshot
  <1> QED  BY <1>1, <1>2

LEMMA SucceededStep ==
  ASSUME TypeOK, Phases, OwnAnalysisInv, OwnAnalysisInv', SucceededMeansDone, [Next]_vars
  PROVE  SucceededMeansDone'
  <1>0. /\ "run" \in Actors /\ stage \in [Actors -> Stages] /\ "none" \notin Actors
        /\ SucceededSays => ~Active("run") /\ pc \in {"analysis", "final", "ended", "killed"}
    BY RunAssumption DEF Actors, TypeOK, SucceededSays, Active, OwnAnalysisInv
  <1>1. SucceededMeansDone' <=> ((report' = "SUCCEEDED" \/ published'.status = "SUCCEEDED") =>
                                   SucceededSays')
    BY DEF SucceededMeansDone, SucceededSays
  \* A finished and analyzed run stays so, and SucceededSays' hangs on the analysis alone.
  <1>2. ASSUME stage'["run"] = "done"  PROVE SucceededSays'
    BY <1>2 DEF SucceededSays, OwnAnalysisInv
  <1>3. ASSUME UNCHANGED <<report, published>>, SucceededSays => stage'["run"] = "done"
        PROVE  SucceededMeansDone'
    BY <1>1, <1>2, <1>3 DEF SucceededMeansDone, SucceededSays
  <1>4. CASE UNCHANGED vars
    BY <1>3, <1>4 DEF vars, analysisVars, monitorVars, SucceededSays
  <1>5. CASE ExecutionBegins \/ Checkpoint \/ PublicationInterrupted
    <2>1. ~SucceededSays
      BY <1>0, <1>5 DEF ExecutionBegins, Checkpoint, PublicationInterrupted
    <2>2. UNCHANGED report /\ (UNCHANGED published \/ published'.status = "RUNNING")
      <3>1. /\ UNCHANGED report
            /\ UNCHANGED published \/ Publication("RUNNING") \/ published' = Snapshot("RUNNING")
        BY <1>5 DEF ExecutionBegins, Checkpoint, PublicationInterrupted
      <3>2. Snapshot("RUNNING").status = "RUNNING"
        BY DEF Snapshot
      <3> QED  BY <3>1, <3>2, PublicationStatus
    <2> QED  BY <1>1, <2>1, <2>2 DEF SucceededMeansDone, SucceededSays
  <1>6. CASE Setup \/ Create \/ Fetch \/ ReplayEnds \/ Finish \/ StepFails
    BY <1>3, <1>6
    DEF Setup, Create, Fetch, ReplayEnds, Finish, StepFails, analysisVars, monitorVars, SucceededSays
  <1>7. CASE SaveSnapshot \/ SaveSnapshotFails \/ FinalFlush \/ FinalFlushFails
    BY <1>3, <1>7
    DEF SaveSnapshot, SaveSnapshotFails, FinalFlush, FinalFlushFails, analysisVars, monitorVars,
        SucceededSays
  <1>8. CASE SaveDecision \/ SaveDecisionFails \/ SaveDecisionInterrupted
    BY <1>3, <1>8
    DEF SaveDecision, SaveDecisionFails, SaveDecisionInterrupted, analysisVars, monitorVars,
        SucceededSays
  <1>9. CASE ExecutionEnds \/ EndInterrupted
    <2>1. UNCHANGED stage /\ pc = "final"
      BY <1>9 DEF ExecutionEnds, EndInterrupted, analysisVars
    <2>2. CASE exc = "none"
      BY <1>1, <1>2, <2>1, <2>2 DEF OwnAnalysisInv
    <2>3. CASE exc # "none"
      <3>1. Outcome # "SUCCEEDED"
        BY <2>3 DEF Outcome
      <3>2. /\ UNCHANGED published \/ published'.status = Outcome
            /\ UNCHANGED report \/ report' \in {Outcome, "none"}
        <4>1. CASE ExecutionEnds
          BY <4>1, PublicationStatus DEF ExecutionEnds
        <4>2. CASE EndInterrupted
          <5>1. Snapshot(Outcome).status = Outcome
            BY DEF Snapshot
          <5> QED  BY <4>2, <5>1 DEF EndInterrupted
        <4> QED  BY <1>9, <4>1, <4>2
      <3>3. SucceededSays => stage'["run"] = "done"
        BY <2>1 DEF SucceededSays
      <3> QED  BY <1>1, <1>2, <3>1, <3>2, <3>3 DEF SucceededMeansDone, SucceededSays
    <2> QED  BY <2>2, <2>3
  <1>10. CASE Killed
    <2>1. SucceededSays => stage'["run"] = "done"
      BY <1>0, <1>10 DEF Killed, SucceededSays
    <2> QED  BY <1>3, <1>10, <2>1 DEF Killed, monitorVars
  <1>11. ASSUME NEW a \in Actors, AnalysisBegins(a) \/ Analysis(a) \/ AnalysisFails(a)
         PROVE  SucceededMeansDone'
    <2>1. UNCHANGED <<report, published>>
      BY <1>11
      DEF AnalysisBegins, Analysis, AnalysisFails, MetricsConflict, ReadTrades, ReadRows, Delete,
          SaveMetrics, SaveTrips, WriteSummary, Stops, Moves, monitorVars
    <2>2. /\ stage[a] # "done"
          /\ \E to \in {"trades", "equity", "decision", "metrics", "metricsDeleted", "trips",
                        "tripsDeleted", "summary", "done", "failed"} :
               stage' = [stage EXCEPT ![a] = to]
      BY <1>11
      DEF AnalysisBegins, Analysis, AnalysisFails, MetricsConflict, ReadTrades, ReadRows, Delete,
          SaveMetrics, SaveTrips, WriteSummary, Stops, Moves, Active
    <2>3. SucceededSays => stage'["run"] = "done"
      BY <1>0, <2>2 DEF SucceededSays
    <2> QED  BY <1>3, <2>1, <2>3
  <1>12. Analysts \subseteq Actors
    BY DEF Actors
  <1> QED
    BY <1>0, <1>4, <1>5, <1>6, <1>7, <1>8, <1>9, <1>10, <1>11, <1>12
    DEF Next, Execute, Replay, Failure, Analyze

-----------------------------------------------------------------------------
(* The inductive invariant and what follows from it.                         *)

LEMMA InvInit == Init => IInv
  <1> SUFFICES ASSUME Init  PROVE IInv
    OBVIOUS
  <1>1. TypeOK
    BY TypeInit
  <1>2. LifeInv /\ OwnAnalysisInv /\ FinishedComplete /\ SucceededMeansDone
    <2>1. "run" \in Actors /\ stage["run"] = "idle"
      BY DEF Init, Actors
    <2> QED  BY <2>1
             DEF Init, LifeInv, OwnAnalysisInv, FinishedComplete, SucceededMeansDone, Active
  <1>3. \A c \in Class : table[c] \o pending[c] = <<>>
    BY DEF Init, NoRows
  <1>4. DOMAIN <<>> = {}
    OBVIOUS
  <1>5. Increasing(<<>>) /\ \A n : Below(<<>>, n)
    BY <1>4 DEF Increasing, Below
  <1>6. RowsInOrder /\ RowsBounded
    BY <1>3, <1>5 DEF RowsInOrder, RowsBounded
  <1> QED  BY <1>1, <1>2, <1>6 DEF IInv

LEMMA InvStep ==
  ASSUME IInv, [Next]_vars
  PROVE  IInv'
  <1>1. /\ TypeOK /\ LifeInv /\ OwnAnalysisInv /\ RowsInOrder /\ RowsBounded
        /\ FinishedComplete /\ SucceededMeansDone
    BY DEF IInv
  <1>2. TypeOK'
    BY <1>1, TypeStep
  <1>3. Phases
    BY <1>1, LifeSplit
  <1>4. LifeInv' /\ FinishedComplete'
    BY <1>1, LifeStep
  <1>5. OwnAnalysisInv'
    BY <1>1, <1>3, OwnStep
  <1>6. RowsInOrder' /\ RowsBounded'
    BY <1>1, <1>2, RowsStep
  <1>7. SucceededMeansDone'
    BY <1>1, <1>3, <1>5, SucceededStep
  <1> QED  BY <1>2, <1>4, <1>5, <1>6, <1>7 DEF IInv

\* The inductive invariant of an execution with any number of ticks, rows per
\* flush, analysts and faults.
THEOREM RunInvariance == Spec => []IInv
  <1>1. Init => IInv
    BY InvInit
  <1>2. IInv /\ [Next]_vars => IInv'
    BY InvStep
  <1> QED  BY <1>1, <1>2, PTL DEF Spec

\* Whatever flushes fail, whatever answers are lost: no table holds a row twice
\* or out of order, and the buffer goes on where the table ends.
THEOREM RunRowsInOrder == Spec => []RowsInOrder
  <1>1. IInv => RowsInOrder
    BY DEF IInv
  <1> QED  BY <1>1, RunInvariance, PTL

\* finish_run is reached only by a replay whose rows are all stored, but for
\* those the engine lost while it took a failed flush for a failed symbol.
THEOREM RunFinishedComplete == Spec => []FinishedComplete
  <1>1. IInv => FinishedComplete
    BY DEF IInv
  <1> QED  BY <1>1, RunInvariance, PTL

\* SUCCEEDED is published or reported only of a finished, analyzed and
\* summarised run, however many analysts work on it meanwhile.
THEOREM RunSucceededMeansDone == Spec => []SucceededMeansDone
  <1>1. IInv => SucceededMeansDone
    BY DEF IInv
  <1> QED  BY <1>1, RunInvariance, PTL

\* The run's own analysis has read all its replay left in the tables.
THEOREM RunAnalysisSeesAll == Spec => []AnalysisSeesAll
  <1>1. ASSUME OwnAnalysisInv, FinishedComplete  PROVE AnalysisSeesAll
    <2> SUFFICES ASSUME stage["run"] \in {"metrics", "metricsDeleted", "trips", "tripsDeleted",
                                         "summary", "done"}
                 PROVE  /\ runRow = "finished" /\ tradesRead["run"] = Ticks
                        /\ \A c \in Class :
                             made[c] \subseteq Elems(basis["run"][c]) \cup swallowed[c]
      BY DEF AnalysisSeesAll
    <2>1. /\ runRow = "finished" /\ tradesRead["run"] = Ticks
          /\ basis["run"]["equity"] = table["equity"]
          /\ basis["run"]["decision"] = table["decision"]
      BY <1>1 DEF OwnAnalysisInv
    <2>2. \A c \in Class : basis["run"][c] = table[c]
      BY <2>1 DEF Class
    <2> QED  BY <1>1, <2>1, <2>2 DEF FinishedComplete
  <1>2. IInv => AnalysisSeesAll
    BY <1>1 DEF IInv
  <1> QED  BY <1>2, RunInvariance, PTL

\* A monitor that gave up publishes nothing but the last status.
THEOREM RunDisabledStaysSilent == Spec => DisabledStaysSilent
  <1>1. ASSUME TypeOK, [Next]_vars
        PROVE  [~periodic /\ pc # "start" =>
                  ~periodic' /\ (published' # published => pc = "final")]_vars
    <2>0. SUFFICES ASSUME ~periodic, pc # "start"
                   PROVE  ~periodic' /\ (published' # published => pc = "final")
      OBVIOUS
    <2>1. ExecutionEnds \/ EndInterrupted \/ Checkpoint \/ PublicationInterrupted \/ UNCHANGED <<periodic, published>>
      <3>1. ASSUME NEW a \in Actors, AnalysisBegins(a) \/ Analysis(a) \/ AnalysisFails(a)
            PROVE  UNCHANGED <<periodic, published>>
        BY <3>1
        DEF AnalysisBegins, Analysis, AnalysisFails, MetricsConflict, ReadTrades, ReadRows, Delete,
            SaveMetrics, SaveTrips, WriteSummary, Stops, Moves, monitorVars
      <3>2. UNCHANGED vars \/ Setup \/ Create \/ Fetch \/ ReplayEnds \/ Finish \/ StepFails \/ Killed =>
              UNCHANGED <<periodic, published>>
        BY DEF vars, Setup, Create, Fetch, ReplayEnds, Finish, StepFails, Killed, monitorVars
      <3>3. SaveSnapshot \/ SaveSnapshotFails \/ SaveDecision \/ SaveDecisionFails
              \/ SaveDecisionInterrupted \/ FinalFlush \/ FinalFlushFails =>
              UNCHANGED <<periodic, published>>
        BY DEF SaveSnapshot, SaveSnapshotFails, SaveDecision, SaveDecisionFails,
               SaveDecisionInterrupted, FinalFlush, FinalFlushFails, monitorVars
      <3>4. ~ExecutionBegins
        BY <2>0 DEF ExecutionBegins
      <3>5. "run" \in Actors /\ Analysts \subseteq Actors
        BY DEF Actors
      <3> QED
        BY <1>1, <3>1, <3>2, <3>3, <3>4, <3>5 DEF Next, Execute, Replay, Failure, Analyze
    <2>2. CASE ExecutionEnds
      <3>1. periodic = FALSE
        BY <1>1, <2>0 DEF TypeOK
      <3>2. pc = "final" /\ periodic' \in {FALSE}
        BY <2>2, <3>1 DEF ExecutionEnds, Publication
      <3> QED  BY <3>2
    <2>3. CASE EndInterrupted
      <3>1. periodic = FALSE
        BY <1>1, <2>0 DEF TypeOK
      <3>2. pc = "final" /\ periodic' \in {FALSE}
        BY <2>3, <3>1 DEF EndInterrupted
      <3> QED  BY <3>2
    <2>4. CASE Checkpoint
      BY <2>0, <2>4 DEF Checkpoint
    <2>5. CASE UNCHANGED <<periodic, published>>
      BY <2>0, <2>5
    <2>6. ~PublicationInterrupted
      BY <2>0 DEF PublicationInterrupted
    <2> QED  BY <2>1, <2>2, <2>3, <2>4, <2>5, <2>6
  <1>2. TypeOK /\ [Next]_vars =>
          [~periodic /\ pc # "start" =>
             ~periodic' /\ (published' # published => pc = "final")]_vars
    BY <1>1
  <1> QED  BY <1>2, RunTyping, PTL DEF Spec, DisabledStaysSilent
=============================================================================
