----------------------------- MODULE BacktestRun -----------------------------
(***************************************************************************)
(* One backtest execution from its command to its report: the run row, the   *)
(* replay's rows through the WriteBuffer, the final flush, the analysis, and *)
(* the performance Monitor around all of it; with the `analyze` command,     *)
(* which another process may run on the same run at any time.                *)
(*                                                                          *)
(* Every call to the database is a step.  It may fail, with or without its   *)
(* transaction being committed, and the process may be interrupted (Ctrl-C)  *)
(* or killed between any two.  What the replay computes is left out: a row   *)
(* is the tick it was written in, and each tick closes a round trip.         *)
(***************************************************************************)
EXTENDS Integers, Sequences, FiniteSets

CONSTANTS
  Ticks,        \* bars of the replayed grid
  MaxRows,      \* WriteBuffer max_rows
  VerboseDb,    \* --verbose-db: decisions are written as well
  Analysts,     \* processes running `carcharoth analyze` on the run
  MaxFaults     \* failures, interrupts and kills in a behaviour (a bound)

ASSUME RunAssumption ==
  /\ Ticks \in Nat /\ MaxRows \in Nat \ {0}
  /\ VerboseDb \in BOOLEAN /\ MaxFaults \in Nat
  /\ "run" \notin Analysts /\ "none" \notin Analysts

Actors == {"run"} \cup Analysts     \* who may analyze: the run itself as well
Class  == {"equity", "decision"}    \* the buffered tables

VARIABLES
  pc,           \* where the execution is
  exc,          \* the exception under way
  tick,         \* ticks begun
  pending,      \* WriteBuffer._pending
  runRow,       \* the runs table: "none", "unfinished" or "finished"
  table,        \* the buffered tables: ticks of the rows, in insertion order
  stage,        \* where each analysis is
  tradesRead,   \* the trades each analysis has read: those up to a tick
  basis,        \* the rows each analysis has read, per table
  seen,         \* what the delete of an analysis' open transaction removes
  metrics,      \* backtest_metrics: the analyses whose metrics are stored
  trips,        \* round_trips: the analyses whose round trips are stored
  summary,      \* the analysis that wrote the summary file
  periodic,     \* Monitor._periodic
  published,    \* backtest_performance: status and ticks last published
  report,       \* status in the local performance report
  made,         \* history: rows handed to the buffer, per table
  swallowed,    \* history: rows lost in a flush whose failure was swallowed
  overlap,      \* history: two analyses were under way at once
  faults

bufferVars   == <<pending, table, made, swallowed>>
analysisVars == <<stage, tradesRead, basis, seen, metrics, trips, summary, overlap>>
monitorVars  == <<periodic, published>>
vars == <<pc, exc, tick, runRow, bufferVars, analysisVars, monitorVars, report, faults>>

Elems(q) == {q[i] : i \in DOMAIN q}
NoRows   == [c \in Class |-> <<>>]
Both(p)  == [c \in Class |-> table[c] \o p[c]]
Missing(p) == [c \in Class |-> Elems(p[c]) \ Elems(table'[c])]

Fault == faults < MaxFaults /\ faults' = faults + 1
Broken == exc' \in {"error", "interrupt"}

-----------------------------------------------------------------------------
(* WriteBuffer: one transaction per flush, for all tables.                   *)

Added(c) == [pending EXCEPT ![c] = Append(@, tick')]
Full(p)  == Len(p["equity"]) + Len(p["decision"]) >= MaxRows
Makes(c) == made' = [made EXCEPT ![c] = @ \cup {tick'}]

Flushes(p) == table' = Both(p) /\ pending' = NoRows

\* Mutant: rows leave the buffer only after they were written.
LosesKeeping(p) ==
  /\ pending' = p
  /\ table' \in {table, Both(p)}

\* The buffer is emptied before the rows are written: a failing flush drops
\* them, unless it was only the answer to the commit that was lost.
Loses(p) ==
  /\ pending' = NoRows
  /\ table' \in {table, Both(p)}

Adds(c) ==
  IF Full(Added(c)) THEN Flushes(Added(c)) ELSE pending' = Added(c) /\ UNCHANGED table

-----------------------------------------------------------------------------
(* Monitor: a publication that fails or is slow ends the periodic ones.      *)

Snapshot(s) == [status |-> s, ticks |-> tick]

Publication(s) ==
  \/ published' = Snapshot(s) /\ periodic' \in {periodic, FALSE} /\ UNCHANGED faults
  \/ Fault /\ periodic' = FALSE /\ published' \in {published, Snapshot(s)}

ExecutionBegins ==
  /\ pc = "start"
  /\ Publication("RUNNING")
  /\ pc' = "setup"
  /\ UNCHANGED <<exc, tick, runRow, bufferVars, analysisVars, report>>

-----------------------------------------------------------------------------
(* Up to the replay: the model is loaded, the run row created, bars fetched. *)

Setup ==
  /\ pc = "setup"
  /\ pc' = "create"
  /\ UNCHANGED <<exc, tick, runRow, bufferVars, analysisVars, monitorVars, report, faults>>

Create ==
  /\ pc = "create"
  /\ runRow' = "unfinished"
  /\ pc' = "fetch"
  /\ UNCHANGED <<exc, tick, bufferVars, analysisVars, monitorVars, report, faults>>

Fetch ==
  /\ pc = "fetch"
  /\ pc' = "tick"
  /\ UNCHANGED <<exc, tick, runRow, bufferVars, analysisVars, monitorVars, report, faults>>

-----------------------------------------------------------------------------
(* The replay.  Each tick writes its equity snapshot first, then a decision. *)

SaveSnapshot ==
  /\ pc = "tick" /\ tick < Ticks
  /\ tick' = tick + 1
  /\ Makes("equity") /\ Adds("equity")
  /\ pc' = "decide"
  /\ UNCHANGED <<exc, swallowed, runRow, analysisVars, monitorVars, report, faults>>

\* Nothing catches it: the tick, and with it the replay, is over.
SaveSnapshotFails ==
  /\ pc = "tick" /\ tick < Ticks
  /\ tick' = tick + 1
  /\ Makes("equity") /\ Full(Added("equity")) /\ Loses(Added("equity"))
  /\ Fault /\ Broken
  /\ pc' = "flush"
  /\ UNCHANGED <<swallowed, runRow, analysisVars, monitorVars, report>>

\* No decision is written without --verbose-db, or for a symbol that fails.
SaveDecision ==
  /\ pc = "decide"
  /\ UNCHANGED tick
  /\ \/ VerboseDb /\ Makes("decision") /\ Adds("decision")
     \/ UNCHANGED <<pending, table, made>>
  /\ pc' = "checkpoint"
  /\ UNCHANGED <<exc, swallowed, runRow, analysisVars, monitorVars, report, faults>>

\* A symbol's exceptions are logged and the tick goes on: so is a flush that
\* fails while the symbol's decision is saved.
SaveDecisionFails ==
  /\ pc = "decide" /\ VerboseDb
  /\ UNCHANGED tick
  /\ Makes("decision") /\ Full(Added("decision")) /\ Loses(Added("decision"))
  /\ swallowed' = [c \in Class |-> swallowed[c] \cup Missing(Added("decision"))[c]]
  /\ Fault
  /\ pc' = "checkpoint"
  /\ UNCHANGED <<exc, runRow, analysisVars, monitorVars, report>>

\* Ctrl-C is no Exception: inside a symbol it does end the replay.
SaveDecisionInterrupted ==
  /\ pc = "decide" /\ VerboseDb
  /\ UNCHANGED tick
  /\ Makes("decision") /\ Full(Added("decision")) /\ Loses(Added("decision"))
  /\ Fault
  /\ exc' = "interrupt"
  /\ pc' = "flush"
  /\ UNCHANGED <<swallowed, runRow, analysisVars, monitorVars, report>>

\* A checkpoint publishes when its interval is over and none failed before.
Checkpoint ==
  /\ pc = "checkpoint"
  /\ \/ UNCHANGED <<periodic, published, faults>>
     \/ periodic /\ Publication("RUNNING")
  /\ pc' = "tick"
  /\ UNCHANGED <<exc, tick, runRow, bufferVars, analysisVars, report>>

\* Mutant: the buffer is left to a flush at the end of the execution.
ReplayEndsUnflushed ==
  /\ pc = "tick" /\ tick = Ticks
  /\ pc' = "finish"
  /\ UNCHANGED <<exc, tick, runRow, bufferVars, analysisVars, monitorVars, report, faults>>

ReplayEnds ==
  /\ pc = "tick" /\ tick = Ticks
  /\ pc' = "flush"
  /\ UNCHANGED <<exc, tick, runRow, bufferVars, analysisVars, monitorVars, report, faults>>

-----------------------------------------------------------------------------
(* The final flush happens however the replay ended.                         *)

AfterFlush == IF exc = "none" THEN "finish" ELSE "final"

FinalFlush ==
  /\ pc = "flush"
  /\ Flushes(pending)
  /\ pc' = AfterFlush
  /\ UNCHANGED <<exc, tick, made, swallowed, runRow, analysisVars, monitorVars, report, faults>>

\* Mutant: a failing final flush is only logged.
FinalFlushSwallowed ==
  /\ pc = "flush" /\ pending # NoRows
  /\ Loses(pending)
  /\ Fault
  /\ pc' = AfterFlush
  /\ UNCHANGED <<exc, tick, made, swallowed, runRow, analysisVars, monitorVars, report>>

\* Its failure takes the place of the exception under way.
FinalFlushFails ==
  /\ pc = "flush" /\ pending # NoRows
  /\ Loses(pending)
  /\ Fault /\ Broken
  /\ pc' = "final"
  /\ UNCHANGED <<tick, made, swallowed, runRow, analysisVars, monitorVars, report>>

Finish ==
  /\ pc = "finish"
  /\ runRow' = "finished"
  /\ pc' = "analysis"
  /\ UNCHANGED <<exc, tick, bufferVars, analysisVars, monitorVars, report, faults>>

\* Ctrl-C in a publication, which may have got through; the attempt counts.
PublicationInterrupted ==
  /\ pc = "start" \/ (pc = "checkpoint" /\ periodic)
  /\ published' \in {published, Snapshot("RUNNING")}
  /\ periodic' \in {periodic, FALSE}
  /\ Fault
  /\ exc' = "interrupt"
  /\ pc' = IF pc = "start" THEN "final" ELSE "flush"
  /\ UNCHANGED <<tick, runRow, bufferVars, analysisVars, report>>

\* A call outside the buffer and the analysis fails or is interrupted: only
\* the replay has a flush to go through.  A commit may have got through.
StepFails ==
  /\ pc \in {"setup", "create", "fetch", "tick", "decide", "checkpoint", "finish"}
  /\ Fault /\ Broken
  /\ pc \in {"decide", "checkpoint"} => exc' = "interrupt"
  /\ pc' = IF pc \in {"tick", "decide", "checkpoint"} THEN "flush" ELSE "final"
  /\ runRow' \in {runRow} \cup {r \in {"unfinished", "finished"} :
       <<pc, r>> \in {<<"create", "unfinished">>, <<"finish", "finished">>}}
  /\ UNCHANGED <<tick, bufferVars, analysisVars, monitorVars, report>>

-----------------------------------------------------------------------------
(* BacktestAnalyzer.analyze, by the run and by `carcharoth analyze`.         *)

Stages == {"idle", "trades", "equity", "decision", "metrics", "metricsDeleted",
           "trips", "tripsDeleted", "summary", "done", "failed"}
Active(a) == stage[a] \notin {"idle", "done", "failed"}

Moves(a, from, to) ==
  /\ stage[a] = from
  /\ stage' = [stage EXCEPT ![a] = to]
  /\ UNCHANGED <<tick, runRow, bufferVars, monitorVars, report, faults>>

\* The command asks for nothing but the run row: the run may not be finished.
AnalysisBegins(a) ==
  /\ stage[a] = "idle"
  /\ IF a = "run" THEN pc = "analysis" ELSE runRow # "none"
  /\ stage' = [stage EXCEPT ![a] = "trades"]
  /\ overlap' = (overlap \/ \E b \in Actors : Active(b))
  /\ UNCHANGED <<pc, exc, tick, runRow, bufferVars, tradesRead, basis, seen, metrics, trips, summary,
                 monitorVars, report, faults>>

ReadTrades(a) ==
  /\ Moves(a, "trades", "equity")
  /\ tradesRead' = [tradesRead EXCEPT ![a] = tick]
  /\ UNCHANGED <<pc, exc, basis, seen, metrics, trips, summary, overlap>>

ReadRows(a, c, to) ==
  /\ Moves(a, c, to)
  /\ basis' = [basis EXCEPT ![a] = [@ EXCEPT ![c] = table[c]]]
  /\ UNCHANGED <<pc, exc, tradesRead, seen, metrics, trips, summary, overlap>>

\* A transaction deletes what was committed when its delete began.
Delete(a, from, to, stored) ==
  /\ Moves(a, from, to)
  /\ seen' = [seen EXCEPT ![a] = stored]
  /\ UNCHANGED <<pc, exc, tradesRead, basis, metrics, trips, summary, overlap>>

Replaced(a, stored) == (stored \ seen[a]) \cup {a}

\* Metrics of a symbol are unique in a run, those of the portfolio (symbol
\* NULL) are not; a symbol has some as soon as it has a round trip.
Conflicts(a) ==
  \E b \in metrics \ seen[a] : tradesRead[a] > 0 /\ tradesRead[b] > 0

SaveMetrics(a) ==
  /\ Moves(a, "metricsDeleted", "trips")
  /\ ~Conflicts(a)
  /\ metrics' = Replaced(a, metrics)
  /\ seen' = [seen EXCEPT ![a] = {}]
  /\ UNCHANGED <<pc, exc, tradesRead, basis, trips, summary, overlap>>

SaveTrips(a) ==
  /\ Moves(a, "tripsDeleted", "summary")
  /\ trips' = Replaced(a, trips)
  /\ seen' = [seen EXCEPT ![a] = {}]
  /\ UNCHANGED <<pc, exc, tradesRead, basis, metrics, summary, overlap>>

WriteSummary(a) ==
  /\ Moves(a, "summary", "done")
  /\ summary' = a
  /\ IF a = "run" THEN pc' = "final" ELSE UNCHANGED pc
  /\ UNCHANGED <<exc, tradesRead, basis, seen, metrics, trips, overlap>>

\* Mutant: the run's analysis only logs its failure.
StopsQuietly(a) ==
  /\ Active(a)
  /\ stage' = [stage EXCEPT ![a] = "failed"]
  /\ seen' = [seen EXCEPT ![a] = {}]
  /\ IF a = "run" THEN pc' = "final" /\ UNCHANGED exc ELSE UNCHANGED <<pc, exc>>
  /\ UNCHANGED <<tick, runRow, bufferVars, tradesRead, basis, overlap, monitorVars, report>>

\* A failure ends the command or, in the run's own analysis, the run.
Stops(a) ==
  /\ Active(a)
  /\ stage' = [stage EXCEPT ![a] = "failed"]
  /\ seen' = [seen EXCEPT ![a] = {}]
  /\ IF a = "run" THEN pc' = "final" /\ Broken ELSE UNCHANGED <<pc, exc>>
  /\ UNCHANGED <<tick, runRow, bufferVars, tradesRead, basis, overlap, monitorVars, report>>

MetricsConflict(a) ==
  /\ stage[a] = "metricsDeleted" /\ Conflicts(a)
  /\ Stops(a)
  /\ a = "run" => exc' = "error"
  /\ UNCHANGED <<metrics, trips, summary, faults>>

AnalysisFails(a) ==
  /\ Stops(a)
  /\ metrics' \in {metrics} \cup
       {m \in {Replaced(a, metrics)} : stage[a] = "metricsDeleted" /\ ~Conflicts(a)}
  /\ trips' \in {trips} \cup {t \in {Replaced(a, trips)} : stage[a] = "tripsDeleted"}
  /\ summary' \in {summary} \cup {s \in {a} : stage[a] = "summary"}
  /\ Fault

Analysis(a) ==
  \/ ReadTrades(a)
  \/ ReadRows(a, "equity", "decision")
  \/ ReadRows(a, "decision", "metrics")
  \/ Delete(a, "metrics", "metricsDeleted", metrics)
  \/ SaveMetrics(a)
  \/ MetricsConflict(a)
  \/ Delete(a, "trips", "tripsDeleted", trips)
  \/ SaveTrips(a)
  \/ WriteSummary(a)

-----------------------------------------------------------------------------
(* The end: the last publication, then the local report, whatever happened.  *)

Outcome ==
  IF exc = "none" THEN "SUCCEEDED" ELSE IF exc = "error" THEN "FAILED" ELSE "INTERRUPTED"

ExecutionEnds ==
  /\ pc = "final"
  /\ Publication(Outcome)
  /\ report' \in {Outcome, "none"}
  /\ pc' = "ended"
  /\ UNCHANGED <<exc, tick, runRow, bufferVars, analysisVars>>

\* Ctrl-C in the last publication: no report.
EndInterrupted ==
  /\ pc = "final"
  /\ published' \in {published, Snapshot(Outcome)}
  /\ periodic' \in {periodic, FALSE}
  /\ Fault
  /\ pc' = "ended"
  /\ UNCHANGED <<exc, tick, runRow, bufferVars, analysisVars, report>>

\* The process dies, with its buffer and its open transaction.
Killed ==
  /\ pc \notin {"ended", "killed"}
  /\ Fault
  /\ pc' = "killed"
  /\ pending' = NoRows
  /\ stage' = [stage EXCEPT !["run"] = IF Active("run") THEN "failed" ELSE @]
  /\ UNCHANGED <<exc, tick, runRow, table, made, swallowed, tradesRead, basis, seen, metrics, trips,
                 summary, overlap, monitorVars, report>>

-----------------------------------------------------------------------------
Init ==
  /\ pc = "start" /\ exc = "none" /\ tick = 0
  /\ pending = NoRows /\ table = NoRows
  /\ runRow = "none"
  /\ stage = [a \in Actors |-> "idle"]
  /\ tradesRead = [a \in Actors |-> 0] /\ basis = [a \in Actors |-> NoRows]
  /\ seen = [a \in Actors |-> {}]
  /\ metrics = {} /\ trips = {} /\ summary = "none"
  /\ periodic \in BOOLEAN
  /\ published = [status |-> "none", ticks |-> 0] /\ report = "none"
  /\ made = [c \in Class |-> {}] /\ swallowed = [c \in Class |-> {}]
  /\ overlap = FALSE /\ faults = 0

Replay ==
  \/ SaveSnapshot \/ SaveDecision \/ Checkpoint \/ ReplayEnds

Execute ==
  \/ ExecutionBegins \/ Setup \/ Create \/ Fetch \/ Replay
  \/ FinalFlush \/ Finish
  \/ AnalysisBegins("run") \/ Analysis("run")
  \/ ExecutionEnds

Failure ==
  \/ SaveSnapshotFails \/ SaveDecisionFails \/ SaveDecisionInterrupted
  \/ FinalFlushFails \/ StepFails \/ PublicationInterrupted \/ EndInterrupted \/ Killed
  \/ \E a \in Actors : AnalysisFails(a)

Analyze(a) == AnalysisBegins(a) \/ Analysis(a)

Next == Execute \/ Failure \/ \E a \in Analysts : Analyze(a)

Spec == Init /\ [][Next]_vars

-----------------------------------------------------------------------------
TypeOK ==
  /\ pc \in {"start", "setup", "create", "fetch", "tick", "decide", "checkpoint", "flush",
             "finish", "analysis", "final", "ended", "killed"}
  /\ exc \in {"none", "error", "interrupt"}
  /\ tick \in 0..Ticks /\ (pc = "decide" => tick > 0)
  /\ pending \in [Class -> Seq(1..Ticks)] /\ table \in [Class -> Seq(1..Ticks)]
  /\ runRow \in {"none", "unfinished", "finished"}
  /\ stage \in [Actors -> Stages]
  /\ tradesRead \in [Actors -> 0..Ticks] /\ basis \in [Actors -> [Class -> Seq(1..Ticks)]]
  /\ seen \in [Actors -> SUBSET Actors]
  /\ metrics \subseteq Actors /\ trips \subseteq Actors /\ summary \in Actors \cup {"none"}
  /\ periodic \in BOOLEAN
  /\ published \in [status : {"none", "RUNNING", "SUCCEEDED", "FAILED", "INTERRUPTED"},
                    ticks : 0..Ticks]
  /\ report \in {"none", "SUCCEEDED", "FAILED", "INTERRUPTED"}
  /\ made \in [Class -> SUBSET (1..Ticks)] /\ swallowed \in [Class -> SUBSET (1..Ticks)]
  /\ overlap \in BOOLEAN
  /\ faults \in 0..MaxFaults

\* A table never holds a row twice or out of order, whatever failed, and what
\* the buffer still holds comes after it (WriteBuffer: "Insertion order is
\* preserved within each table"; a lost answer must not write rows again).
Increasing(q) == \A i, j \in DOMAIN q : i < j => q[i] < q[j]
RowsInOrder == \A c \in Class : Increasing(table[c] \o pending[c])

\* A run marked finished has every row the replay handed over, except those
\* whose failing flush the engine took for a failure of one symbol.
FinishedComplete ==
  runRow = "finished" =>
    \A c \in Class : made[c] \subseteq Elems(table[c]) \cup swallowed[c]

\* The run's own analysis computes on everything its replay handed over and
\* did not lose: it begins after the final flush and the run's end.
AnalysisSeesAll ==
  stage["run"] \in {"metrics", "metricsDeleted", "trips", "tripsDeleted", "summary", "done"} =>
    /\ runRow = "finished" /\ tradesRead["run"] = Ticks
    /\ \A c \in Class : made[c] \subseteq Elems(basis["run"][c]) \cup swallowed[c]

\* An execution is reported as SUCCEEDED only if its run is finished, analyzed
\* to the end and summarised; nothing that went wrong is forgotten on the way.
SucceededMeansDone ==
  (report = "SUCCEEDED" \/ published.status = "SUCCEEDED") =>
    /\ runRow = "finished" /\ stage["run"] = "done"
    /\ summary # "none"

\* While nothing went wrong no row is lost, other than the swallowed ones; the
\* run is marked finished after the flush, and nothing is written after that.
LifeInv ==
  /\ exc # "none" => pc \in {"flush", "final", "ended", "killed"}
  /\ exc = "none" /\ pc # "killed" =>
       \A c \in Class : made[c] \subseteq Elems(table[c]) \cup Elems(pending[c]) \cup swallowed[c]
  /\ exc = "none" /\ pc \in {"flush", "finish", "analysis"} => tick = Ticks
  /\ pc \in {"finish", "analysis"} => pending = NoRows
  /\ pc = "analysis" => runRow = "finished"
  /\ runRow = "finished" => pc \in {"analysis", "final", "ended", "killed"}

\* How far the run's own analysis is, and what it has read.
OwnAnalysisInv ==
  /\ Active("run") => pc = "analysis"
  /\ pc \in {"final", "ended"} /\ exc = "none" => stage["run"] = "done"
  /\ stage["run"] # "idle" => pc \in {"analysis", "final", "ended", "killed"}
  /\ stage["run"] \notin {"idle", "failed"} => runRow = "finished"
  /\ stage["run"] \notin {"idle", "failed", "trades"} => tradesRead["run"] = Ticks
  /\ stage["run"] \notin {"idle", "failed", "trades", "equity"} =>
       basis["run"]["equity"] = table["equity"]
  /\ stage["run"] \notin {"idle", "failed", "trades", "equity", "decision"} =>
       basis["run"]["decision"] = table["decision"]
  /\ stage["run"] = "done" => summary # "none"

\* Rows are of ticks begun; the decision of the tick under way may be to come.
Below(q, n) == \A i \in DOMAIN q : q[i] <= n
LastRow(c)  == IF c = "decision" /\ pc = "decide" THEN tick - 1 ELSE tick
RowsBounded == \A c \in Class : Below(table[c] \o pending[c], LastRow(c))

\* The inductive invariant of the proofs.
IInv ==
  /\ TypeOK /\ LifeInv /\ OwnAnalysisInv
  /\ RowsInOrder /\ RowsBounded
  /\ FinishedComplete /\ SucceededMeansDone

\* After the first slow or failing publication the only one left is the last,
\* of the final status (build_performance_engine: "The monitor disables
\* periodic writes after the first slow/failing attempt").
DisabledStaysSilent ==
  [][~periodic /\ pc # "start" => ~periodic' /\ (published' # published => pc = "final")]_vars

\* "One fully-persisted backtest run" (_execute_backtest): a run marked
\* finished has every row its replay handed over.
FullyPersisted ==
  runRow = "finished" => \A c \in Class : made[c] \subseteq Elems(table[c])
=============================================================================
