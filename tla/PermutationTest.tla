--------------------------- MODULE PermutationTest ---------------------------
(***************************************************************************)
(* One `carcharoth quicktest [--permute METHOD]` (main.py _run_quicktest,    *)
(* quicktest/runner.py, permutation/runner.py): the simulation is persisted  *)
(* as a run; a bar method then re-simulates permuted bars in a pool of       *)
(* workers and stores a verdict, a trade method samples the run's round      *)
(* trips and stores distributions. Every step may fail, and the process may  *)
(* be killed between any two. What a permutation scores depends on its index *)
(* alone (its seed) and is chosen before the pool starts.                    *)
(***************************************************************************)
EXTENDS QuickTest

CONSTANTS
  Commands,       \* [permute, sampling, workers, policy, defined]: the command
                  \* line and the objective it is scored by
  Weighted,       \* the metrics the objective weighs, total_return by one and
                  \* the others by zero
  Penalty,        \* objective.penalty_score
  NPermutations,  \* permutation.n_permutations
  PctSignificance,
  MaxRows,        \* bound of the write buffer
  MaxFaults       \* bound: failures

ASSUME PermutationAssumption ==
  /\ NPermutations \in Nat \ {0} /\ MaxRows \in Nat \ {0} /\ MaxFaults \in Nat

ASSUME CommandsAssumption ==
  \A c \in Commands : c.permute \in {"none", "bars", "trades"} /\ c.workers \in Nat

VARIABLES
  command, phase,
  run,         \* the persisted run: rows written, and what is marked done
  outcome,     \* index -> how the permuted bars score, fixed by the seed
  pool,        \* the state of each chunk: "running", "done" or "failed"
  records,     \* the results gathered so far
  test,        \* the persisted test row and its result rows
  summaries, faults

vars == <<simVars, command, phase, run, outcome, pool, records, test, summaries, faults>>

NoRun  == [rows |-> 0, created |-> FALSE, trips |-> FALSE, metrics |-> FALSE, fitness |-> 0,
           finished |-> FALSE]
NoTest == [stored |-> FALSE, observed |-> 0, exceed |-> 0, passed |-> "null", rows |-> <<>>]

Curve == SumCurves(results)
RunRows == Len(AllTrades(results)) + Len(Curve)

\* compute_metrics: which portfolio metrics exist.
Present ==
  {"num_trades"}
    \cup (IF Len(Curve) >= 2 /\ Curve[1].equity > 0 THEN {"total_return"} ELSE {})
    \cup (IF \E i \in DOMAIN Trips(results) : Trips(results)[i].pnl < 0 THEN {"profit_factor"} ELSE {})

\* The return, in units of the curve's first point.
Return == IF "total_return" \in Present THEN Last(Curve).equity - Curve[1].equity ELSE 0

\* Whether and how the run is scored, with its metrics.
Scored  == command.defined /\ (Weighted \subseteq Present \/ command.policy # "fail")
Fitness == IF Weighted \subseteq Present \/ command.policy = "zero" THEN Return ELSE Penalty

\* observed_fitness: as it was stored.
Observed == run.fitness

\* The score of one permutation: of metrics that are missing, the penalty
\* unless the objective counts them as zero.
Score(kind) ==
  CASE kind = "worse"   -> Observed - 1
    [] kind = "tie"     -> Observed
    [] kind = "missing" -> IF command.policy = "zero" THEN 0 ELSE Penalty

-----------------------------------------------------------------------------
\* Checks and simulation. method_kind picks the path; only the bar path
\* insists on its objective before anything runs.

Begin ==
  /\ phase = "check"
  /\ phase' = IF command.permute = "bars" /\ ~command.defined THEN "failed" ELSE "simulate"
  /\ UNCHANGED <<simVars, command, run, outcome, pool, records, test, summaries, faults>>

Simulate ==
  /\ phase = "simulate"
  /\ SimulateBar \/ SkipBar \/ SymbolEnds
  /\ UNCHANGED <<command, phase, run, outcome, pool, records, test, summaries, faults>>

\* persist_quicktest: create the run, flush the rows, then the round trips,
\* the metrics and finished_at.
CreateRun ==
  /\ phase = "simulate" /\ ~Simulates
  /\ run' = [run EXCEPT !.created = TRUE] /\ phase' = "rows"
  /\ UNCHANGED <<simVars, command, outcome, pool, records, test, summaries, faults>>

\* Mutant: the run is finished with its last rows.
FlushRowsAndFinish ==
  /\ phase = "rows"
  /\ IF run.rows # RunRows
     THEN run' = [run EXCEPT !.rows = Smaller(RunRows, @ + MaxRows),
                             !.finished = run.rows + MaxRows >= RunRows] /\ UNCHANGED phase
     ELSE phase' = "trips" /\ UNCHANGED run
  /\ UNCHANGED <<simVars, command, outcome, pool, records, test, summaries, faults>>

FlushRows ==
  /\ phase = "rows"
  /\ IF run.rows # RunRows
     THEN run' = [run EXCEPT !.rows = Smaller(RunRows, @ + MaxRows)] /\ UNCHANGED phase
     ELSE phase' = "trips" /\ UNCHANGED run
  /\ UNCHANGED <<simVars, command, outcome, pool, records, test, summaries, faults>>

SaveTrips ==
  /\ phase = "trips"
  /\ run' = [run EXCEPT !.trips = TRUE] /\ phase' = "metrics"
  /\ UNCHANGED <<simVars, command, outcome, pool, records, test, summaries, faults>>

SaveMetrics ==
  /\ phase = "metrics"
  /\ run' = [run EXCEPT !.metrics = TRUE, !.fitness = Fitness] /\ phase' = "finish"
  /\ UNCHANGED <<simVars, command, outcome, pool, records, test, summaries, faults>>

\* The run is finished; a bar test without an observed fitness and a trade
\* test without a closed trip go no further.
FinishRun ==
  /\ phase = "finish"
  /\ run' = [run EXCEPT !.finished = TRUE]
  /\ phase' = CASE command.permute = "none" -> "summaries"
                [] command.permute = "bars" -> IF Scored THEN "permute" ELSE "failed"
                [] command.permute = "trades" -> IF Trips(results) = <<>> THEN "failed" ELSE "sample"
  /\ UNCHANGED <<simVars, command, outcome, pool, records, test, summaries, faults>>

-----------------------------------------------------------------------------
\* Bar permutations.

\* Mutant: the remainder of the division is not handed out.
SplitIndicesEvenly(total, chunks) ==
  LET size == total \div chunks IN
  [c \in 1..chunks |-> [k \in 1..size |-> (c - 1) * size + k - 1]]

\* _split_indices: contiguous chunks; the first ones take the remainder.
SplitIndices(total, chunks) ==
  LET base  == total \div chunks
      extra == total % chunks
      size(c)   == base + (IF c <= extra THEN 1 ELSE 0)
      cursor(c) == (c - 1) * base + Smaller(c - 1, extra)
  IN  [c \in 1..chunks |-> [k \in 1..size(c) |-> cursor(c) + k - 1]]

Indices == 0..(NPermutations - 1)
Chunks  == SplitIndices(NPermutations, IF command.workers <= 1 \/ NPermutations = 1 THEN 1
                                       ELSE Smaller(command.workers, NPermutations))

Kinds == {"worse", "tie"} \cup (IF Weighted \subseteq {"total_return"} THEN {} ELSE {"missing"})

\* run_permutations submits one chunk to each worker (or runs all in-process).
Submit ==
  /\ phase = "permute" /\ pool = <<>>
  /\ outcome' \in [Indices -> Kinds]
  /\ pool' = [c \in DOMAIN Chunks |-> "running"]
  /\ UNCHANGED <<simVars, command, phase, run, records, test, summaries, faults>>

WorkerEnds(c) ==
  /\ phase = "permute" /\ c \in DOMAIN pool /\ pool[c] = "running"
  /\ pool' = [pool EXCEPT ![c] = "done"]
  /\ UNCHANGED <<simVars, command, phase, run, outcome, records, test, summaries, faults>>

\* A worker raises, or dies and breaks the pool.
WorkerFails(c) ==
  /\ phase = "permute" /\ c \in DOMAIN pool /\ pool[c] = "running"
  /\ faults < MaxFaults
  /\ faults' = faults + 1
  /\ pool' = [pool EXCEPT ![c] = "failed"]
  /\ UNCHANGED <<simVars, command, phase, run, outcome, records, test, summaries>>

ChunkRecords(c) == [k \in DOMAIN Chunks[c] |->
  [index |-> Chunks[c][k], score |-> Score(outcome[Chunks[c][k]])]]

\* The chunk whose future is waited for next: it starts where the records end.
IsNext(c) == Chunks[c][1] = Len(records)

\* The futures are waited for in the order of their submission.
Collect ==
  /\ phase = "permute"
  /\ \E c \in DOMAIN pool :
       /\ IsNext(c) /\ pool[c] # "running"
       /\ IF pool[c] = "failed"
          THEN phase' = "failed" /\ UNCHANGED records
          ELSE records' = records \o ChunkRecords(c) /\ UNCHANGED phase
  /\ UNCHANGED <<simVars, command, run, outcome, pool, test, summaries, faults>>

\* compute_p_value: p = (1 + exceed) / (n + 1).
Exceed(scores) == Cardinality({i \in DOMAIN scores : scores[i] >= Observed})

Significant(exceed, n) == 100 * (1 + exceed) <= PctSignificance * (n + 1)

\* sorted by the index: the records rearranged so that their indices ascend.
Sorted(s) ==
  LET f == CHOOSE f \in Bijection(DOMAIN s, DOMAIN s) :
             \A i, j \in DOMAIN s : i < j => s[f[i]].index <= s[f[j]].index
  IN  [i \in DOMAIN s |-> s[f[i]]]

\* The verdict, once every chunk is in.
CreateTest ==
  /\ phase = "permute" /\ pool # <<>> /\ \A c \in DOMAIN pool : ~IsNext(c)
  /\ LET ordered == Sorted(records)
         exceed  == Exceed([i \in DOMAIN ordered |-> ordered[i].score])
     IN  /\ records' = ordered
         /\ test' = [test EXCEPT !.stored = TRUE, !.observed = Observed, !.exceed = exceed,
                       !.passed = IF Significant(exceed, Len(ordered)) THEN "pass" ELSE "fail"]
  /\ phase' = "results"
  /\ UNCHANGED <<simVars, command, run, outcome, pool, summaries, faults>>

-----------------------------------------------------------------------------
\* Monte Carlo over the round trips.

Initial == Capital * Len(Symbols)

\* The final equity of a path: the sampled profits on the baseline's times.
FinalEquity(trips, order) ==
  FoldLeft(LAMBDA value, i : value + trips[i].pnl, Initial, order)

\* shuffle reorders the trades, resample draws each of them anew.
Orders(n, sampling) ==
  {f \in [1..n -> 1..n] : sampling = "shuffle" => \A i, j \in 1..n : f[i] = f[j] => i = j}

\* One permutation: its order depends on the seed and the index.
Sample ==
  /\ phase = "sample" /\ Len(records) < NPermutations
  /\ LET trips == Trips(results) IN
     \E order \in Orders(Len(trips), command.sampling) :
       records' = Append(records, [index |-> Len(records),
                                   score |-> FinalEquity(trips, order) - Initial])
  /\ UNCHANGED <<simVars, command, phase, run, outcome, pool, test, summaries, faults>>

CreateDistribution ==
  /\ phase = "sample" /\ Len(records) = NPermutations
  /\ LET trips == Trips(results) IN
     test' = [test EXCEPT !.stored = TRUE,
                !.observed = FinalEquity(trips, [i \in DOMAIN trips |-> i]) - Initial]
  /\ phase' = "results"
  /\ UNCHANGED <<simVars, command, run, outcome, pool, records, summaries, faults>>

-----------------------------------------------------------------------------
\* _persist_results, and the summaries the command ends with.

FlushResults ==
  /\ phase = "results"
  /\ IF Len(test.rows) < Len(records)
     THEN test' = [test EXCEPT !.rows =
                     SubSeq(records, 1, Smaller(Len(records), Len(@) + MaxRows))]
          /\ UNCHANGED phase
     ELSE phase' = "summaries" /\ UNCHANGED test
  /\ UNCHANGED <<simVars, command, run, outcome, pool, records, summaries, faults>>

WriteQuicktestSummary ==
  /\ phase = "summaries" /\ summaries = {}
  /\ summaries' = {"quicktest"}
  /\ UNCHANGED <<simVars, command, phase, run, outcome, pool, records, test, faults>>

WritePermutationSummary ==
  /\ phase = "summaries" /\ summaries = {"quicktest"}
  /\ summaries' = IF test.stored THEN {"quicktest", "permutation"} ELSE summaries
  /\ phase' = "done"
  /\ UNCHANGED <<simVars, command, run, outcome, pool, records, test, faults>>

\* A fetch, a transaction or a write fails, or the process is killed.
StepFails ==
  /\ phase \notin {"done", "failed"} /\ faults < MaxFaults
  /\ faults' = faults + 1 /\ phase' = "failed"
  /\ UNCHANGED <<simVars, command, run, outcome, pool, records, test, summaries>>

Init ==
  /\ SimInit
  /\ command \in Commands /\ phase = "check" /\ run = NoRun /\ outcome = <<>>
  /\ pool = <<>> /\ records = <<>> /\ test = NoTest /\ summaries = {} /\ faults = 0

Persist == CreateRun \/ FlushRows \/ SaveTrips \/ SaveMetrics \/ FinishRun
Permute == Submit \/ Collect \/ CreateTest \/ \E c \in DOMAIN pool : WorkerEnds(c) \/ WorkerFails(c)

Next ==
  \/ Begin \/ Simulate \/ Persist \/ Permute \/ Sample \/ CreateDistribution
  \/ FlushResults \/ WriteQuicktestSummary \/ WritePermutationSummary \/ StepFails

Spec == Init /\ [][Next]_vars

-----------------------------------------------------------------------------
\* Properties.

AllSimulated == ~Simulates /\ phase = "simulate"

\* The last close of a simulation until t.
CloseAt(r, t) == r.bars[Max(Until(r.bars, t))].close

Unrealized(symbol, lots, close) ==
  LET Worth(dir) ==
        LET open == lots[<<symbol, dir>>] IN
        SumFunction([i \in DOMAIN open |-> Signed(dir) * (close - open[i].price) * open[i].qty])
  IN  Worth("long") + Worth("short")

\* The two ledgers agree: at every point of the summed curve the equity the
\* simulator keeps (cash and marked position of every symbol, carried forward
\* on the union of the times) is the capital, plus what match_round_trips
\* books on the fills so far, plus what the lots it leaves open are worth.
BooksBalance ==
  AllSimulated =>
    \A k \in DOMAIN Curve :
      LET t    == Curve[k].time
          all  == AllTrades(results)
          m    == Match(Syms, Picked(all, Until(all, t)))
          seen == {i \in DOMAIN results : Until(results[i].bars, t) # {}}
      IN  Curve[k].equity = Capital * Len(Curves(results)) + SumPnl(m.trips)
            + SumFunction([i \in seen |-> Unrealized(Symbols[i], m.lots, CloseAt(results[i], t))])

\* A stored verdict rests on every permutation exactly once, whatever the
\* number of workers and the order they end in: the scores are in the order
\* of the indices, each is the one of its seed, p counts them and the
\* observed run, and the stored rows are a prefix of them.
VerdictComplete ==
  test.stored /\ command.permute = "bars" =>
    LET atLeast == Cardinality({i \in Indices : Score(outcome[i]) >= Observed}) IN
    /\ records = [k \in 1..NPermutations |-> [index |-> k - 1, score |-> Score(outcome[k - 1])]]
    /\ test.observed = Observed
    /\ test.exceed = atLeast
    /\ test.passed = "pass" <=> 100 * (atLeast + 1) <= PctSignificance * (NPermutations + 1)
    /\ IsPrefix(test.rows, records)

\* A run that is marked finished has all its rows, round trips and metrics; a
\* test only ever refers to such a run, and a summary is only written of a
\* run and a test that are complete.
FinishedRunComplete ==
  /\ run.finished => run.rows = RunRows /\ run.trips /\ run.metrics
  /\ test.stored => run.finished
  /\ summaries # {} => /\ run.finished
                       /\ command.permute # "none" => test.stored /\ test.rows = records

=============================================================================
