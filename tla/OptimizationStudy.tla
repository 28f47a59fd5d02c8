-------------------------- MODULE OptimizationStudy -------------------------
(***************************************************************************)
(* A parameter study (main.py _run_optimize and its workers, services/     *)
(* optuna/optimizer.py).  A command resolves the configuration, splits its *)
(* budget of trials over worker processes that share nothing but Optuna's  *)
(* storage, waits for all of them and summarises the study; with a single  *)
(* worker the command runs the trials itself.  A study is continued by     *)
(* name.  The configuration files can be edited at any time, any call can  *)
(* fail, and any process can be killed; the workers of a command that is   *)
(* killed go on, and the study is continued once they are gone.            *)
(*                                                                         *)
(* Data: a configuration is a record of what the study reads of it, its    *)
(* hash is itself; a trial's parameters say where its bars begin.          *)
(***************************************************************************)
EXTENDS WindowCache, Sequences, SequencesExt, FiniteSets, FiniteSetsExt

CONSTANTS
  Configs,       \* what the files can say: [version, workers, nTrials]
  Workers,       \* worker indices, 0 first
  Starts,        \* the first bar a trial can ask for
  End,           \* end_exclusive of the study's window
  Scores,        \* fitness values
  Penalty,       \* objective.penalty_score
  NoTrial, NoConfig,
  MaxCommands, MaxEdits, MaxNow, MaxFaults, MaxTrials   \* bounds

ASSUME ScoresAssumption == Scores \subseteq Int /\ Penalty \in Int
ASSUME WorkersAssumption == IsFiniteSet(Workers) /\ Workers = 0..(Cardinality(Workers) - 1)
ASSUME WindowAssumption == Starts \subseteq Int /\ End \in Int
\* OptimizeConfig: at least one worker and one trial.
ASSUME ConfigsAssumption ==
  \A c \in Configs : c.workers \in 1..Cardinality(Workers) /\ c.nTrials \in Nat \ {0}

VARIABLES
  disk,       \* what the configuration files say
  edits, faults,   \* how many so far; an infeasible trial counts as a fault
  now,        \* bars before this instant exist
  command,    \* the command: its number, phase ("idle", "running", "done",
              \* "failed", "killed"), resolved configuration and the instant it began
  worker,     \* the worker processes
  cache,      \* the in-process cache of each worker
  study,      \* the trials in Optuna's storage, by number; by, began and config
              \* note the command and the worker that asked for them
  runs,       \* the runs persisted: the trial that made each, and its bars
  summary     \* what the command printed

outside == <<disk, edits, now>>
vars == <<outside, faults, command, worker, cache, study, runs, summary>>

NoSummary == [best |-> NoTrial, complete |-> 0, failed |-> 0, infeasible |-> 0]
Gone == [at |-> "exited", left |-> 0, trial |-> NoTrial, config |-> NoConfig, bars |-> {},
         ok |-> TRUE]

Init ==
  /\ disk \in Configs /\ edits = 0 /\ faults = 0 /\ now \in 0..MaxNow
  /\ command = [number |-> 0, phase |-> "idle", config |-> disk, began |-> 0]
  /\ worker = [w \in Workers |-> Gone] /\ cache = [w \in Workers |-> NoEntry]
  /\ study = <<>> /\ runs = <<>> /\ summary = NoSummary

----------------------------------------------------------------------------
(* The command.                                                            *)

\* Mutant of SplitTrials: the remainder is lost.
SplitTrialsEvenly(total, workers) == [index \in 0..(workers - 1) |-> total \div workers]

\* _split_trials: earlier workers take the remainder.
SplitTrials(total, workers) ==
  [index \in 0..(workers - 1) |->
     (total \div workers) + (IF index < total % workers THEN 1 ELSE 0)]

Alone == command.config.workers = 1

\* _run_optimize, _run_optimize_parallel: shares of nothing start no process.
Start ==
  /\ command.phase # "running" /\ command.number < MaxCommands
  /\ \A w \in Workers : worker[w].at = "exited"
  /\ Len(study) + disk.nTrials <= MaxTrials
  /\ command' = [number |-> command.number + 1, phase |-> "running", config |-> disk,
                 began |-> now]
  /\ worker' = [w \in Workers |->
       LET shares == SplitTrials(disk.nTrials, disk.workers)
       IN IF w \in DOMAIN shares /\ shares[w] > 0
          THEN [Gone EXCEPT !.at = IF disk.workers = 1 THEN "idle" ELSE "resolve",
                            !.left = shares[w], !.config = disk]
          ELSE Gone]
  /\ cache' = [w \in Workers |-> NoEntry] /\ summary' = NoSummary
  /\ UNCHANGED <<outside, faults, study, runs>>

States(state) == {n \in DOMAIN study : study[n].state = state}

\* summarize: the best is the first of the highest scores.
Summarised ==
  [best |-> IF States("complete") = {} THEN NoTrial
            ELSE CHOOSE n \in States("complete") :
                   \A m \in States("complete") :
                     study[m].score < study[n].score \/ (study[m].score = study[n].score /\ n <= m),
   complete |-> Cardinality(States("complete")),
   failed |-> Cardinality(States("fail")),
   infeasible |-> Cardinality({n \in States("complete") : study[n].infeasible})]

\* All processes are joined; the study is summarised whatever became of them.
\* A command on its own that failed has not come this far.
Join ==
  /\ command.phase = "running" /\ \A w \in Workers : worker[w].at = "exited"
  /\ IF Alone /\ ~worker[0].ok
     THEN command' = [command EXCEPT !.phase = "failed"] /\ UNCHANGED summary
     ELSE /\ summary' = Summarised
          /\ command' = [command EXCEPT !.phase =
               IF \A w \in Workers : worker[w].ok THEN "done" ELSE "failed"]
  /\ UNCHANGED <<outside, faults, worker, cache, study, runs>>

----------------------------------------------------------------------------
(* A worker.                                                               *)

Exits(w, ok) == worker' = [worker EXCEPT ![w] = [Gone EXCEPT !.ok = ok]]
Faulty == faults < MaxFaults /\ faults' = faults + 1
Faultless == UNCHANGED faults
Goes(w, at) == worker' = [worker EXCEPT ![w].at = at]

\* Mutant of Resolve: the hash of the configuration is not compared.
ResolveUnchecked(w) ==
  /\ worker[w].at = "resolve"
  /\ worker' = [worker EXCEPT ![w].at = "idle", ![w].config = disk]
  /\ UNCHANGED <<outside, faults, command, cache, study, runs, summary>>

\* _optimize_worker resolves again and refuses a configuration of another hash.
Resolve(w) ==
  /\ worker[w].at = "resolve"
  /\ IF disk = command.config
     THEN worker' = [worker EXCEPT ![w].at = "idle", ![w].config = disk]
     ELSE Exits(w, FALSE)
  /\ UNCHANGED <<outside, faults, command, cache, study, runs, summary>>

\* What is left of the budget after a trial has been told.
Told(w) ==
  worker' = [worker EXCEPT ![w] =
    [Gone EXCEPT !.at = "idle", !.left = worker[w].left - 1, !.config = worker[w].config]]

\* study.optimize: ask for a trial; its suggestions are stored at once.
Ask(w) ==
  /\ worker[w].at = "idle" /\ worker[w].left > 0
  /\ \E start \in Starts :
       study' = Append(study,
         [state |-> "running", by |-> <<command.number, w>>, start |-> start,
          began |-> command.began, config |-> command.config, run |-> 0, infeasible |-> FALSE,
          score |-> Penalty])
  /\ worker' = [worker EXCEPT ![w].at = "fetch", ![w].trial = Len(study) + 1]
  /\ UNCHANGED <<outside, faults, command, cache, runs, summary>>

Trial(w) == study[worker[w].trial]
Set(w, trial) == study' = [study EXCEPT ![worker[w].trial] = trial]
Failed(w) == Set(w, [Trial(w) EXCEPT !.state = "fail"])

\* A trial fails: its state says so, and the study goes on only if the error
\* is one that is caught (ValidationError, ValueError).
TrialFails(w) ==
  /\ Faulty /\ Failed(w)
  /\ (Told(w) \/ Exits(w, FALSE))

\* RunConfig.model_validate may refuse the combination; then the bars are
\* asked for, and the entry is replaced only after the fetch.
FetchBars(w) ==
  /\ worker[w].at = "fetch"
  /\ \/ LET entry == Widened(cache[w], Trial(w).start, End, now)
        IN /\ Faultless /\ cache' = [cache EXCEPT ![w] = entry]
           /\ worker' = [worker EXCEPT ![w].at = "replay",
                ![w].bars = Slice(entry.bars, Trial(w).start, End)]
           /\ UNCHANGED study
     \/ Faulty /\ Failed(w) /\ Told(w) /\ UNCHANGED cache
     \/ ~Covers(cache[w], Trial(w).start, End) /\ TrialFails(w) /\ UNCHANGED cache
  /\ UNCHANGED <<outside, command, runs, summary>>

\* run_backtest_once: a run that fails is persisted as well.
Replay(w) ==
  /\ worker[w].at = "replay"
  /\ \E completed \in BOOLEAN :
       /\ runs' = Append(runs, [trial |-> worker[w].trial, completed |-> completed,
                                bars |-> worker[w].bars, config |-> worker[w].config])
       /\ IF completed THEN Faultless /\ Goes(w, "link") /\ UNCHANGED study ELSE TrialFails(w)
  /\ UNCHANGED <<outside, command, cache, summary>>

MyRun(w) == Max({r \in DOMAIN runs : runs[r].trial = worker[w].trial})

\* Link before scoring, if the storage takes it.
Link(w) ==
  /\ worker[w].at = "link"
  /\ \/ Faultless /\ Set(w, [Trial(w) EXCEPT !.run = MyRun(w)]) /\ Goes(w, "score")
     \/ TrialFails(w)
  /\ UNCHANGED <<outside, command, cache, runs, summary>>

\* violated_constraints found some: complete and penalised, without a score.
Penalised(w) ==
  Set(w, [Trial(w) EXCEPT !.state = "complete", !.infeasible = TRUE, !.score = Penalty])

\* _trial_objective after the run: penalised, without a fitness to report or
\* a storage that takes the penalty, or scored.
Score(w) ==
  /\ worker[w].at = "score"
  /\ \/ Faulty /\ Penalised(w) /\ Told(w)
     \/ TrialFails(w)
     \/ /\ Faultless /\ Told(w)
        /\ \E score \in Scores :
             Set(w, [Trial(w) EXCEPT !.state = "complete", !.score = score])
  /\ UNCHANGED <<outside, command, cache, runs, summary>>

Finish(w) ==
  /\ worker[w].at = "idle" /\ worker[w].left = 0 /\ Exits(w, TRUE)
  /\ UNCHANGED <<outside, faults, command, cache, study, runs, summary>>

\* A process that is killed leaves its trial running for good.
Killed(w) ==
  /\ worker[w].at # "exited" /\ Faulty /\ Exits(w, FALSE)
  /\ UNCHANGED <<outside, command, cache, study, runs, summary>>

\* The workers are processes of their own: they go on without the command that
\* spawned them, and nobody summarises.
CommandKilled ==
  /\ command.phase = "running" /\ ~Alone /\ Faulty
  /\ command' = [command EXCEPT !.phase = "killed"]
  /\ UNCHANGED <<outside, worker, cache, study, runs, summary>>

----------------------------------------------------------------------------
\* Only Start and Resolve read the files, so an edit matters before one of them.
EditConfig ==
  /\ command.phase # "running" \/ \E w \in Workers : worker[w].at = "resolve"
  /\ edits < MaxEdits /\ edits' = edits + 1 /\ disk' \in Configs \ {disk}
  /\ UNCHANGED <<now, faults, command, worker, cache, study, runs, summary>>

Tick ==
  /\ now < MaxNow /\ \E w \in Workers : worker[w].at = "fetch" /\ now' = now + 1
  /\ UNCHANGED <<disk, edits, faults, command, worker, cache, study, runs, summary>>

Work(w) ==
  Resolve(w) \/ Ask(w) \/ FetchBars(w) \/ Replay(w) \/ Link(w) \/ Score(w)
  \/ Finish(w)

Next ==
  \/ Start \/ Join \/ CommandKilled \/ EditConfig \/ Tick
  \/ \E w \in Workers : Work(w) \/ Killed(w)

Spec == Init /\ [][Next]_vars

----------------------------------------------------------------------------
(* Properties.                                                             *)

Mine(w) == {n \in DOMAIN study : study[n].by = <<command.number, w>>}
Finished(n) == study[n].state # "running"

\* The budget is spent exactly, and the summary accounts for it: a command
\* that ends well has told n_trials trials, each worker its own share,
\* whatever failed in them, and names a linked run that no trial of the study
\* beats; a worker that is at work has no unfinished trial but the one it is
\* working on (_split_trials, study.optimize, summarize).
BudgetKept ==
  /\ command.phase = "done" =>
       /\ Cardinality(UNION {Mine(w) : w \in Workers}) = command.config.nTrials
       /\ \A w \in Workers, n \in DOMAIN study : n \in Mine(w) => Finished(n)
       /\ summary.complete + summary.failed + Cardinality(States("running")) = Len(study)
       /\ summary.best # NoTrial =>
            /\ study[summary.best].run # 0
            /\ \A n \in States("complete") : study[n].score <= study[summary.best].score
  /\ \A w \in Workers :
       worker[w].at \notin {"exited", "resolve"} =>
         {n \in Mine(w) : ~Finished(n)} =
           (IF worker[w].at = "idle" THEN {} ELSE {worker[w].trial})

\* A trial that completed is linked to the run that tested its parameters,
\* also when it was penalised, a trial that failed at most to a completed run
\* of its own, and a run is made under the configuration that was resolved by
\* the command whose trial it tests: neither what the files say when a worker
\* comes to resolve, nor what a later command resolves, ends up in its runs
\* (_trial_objective, _optimize_worker).
RunsLinked ==
  /\ \A n \in DOMAIN study :
       /\ study[n].state = "complete" => study[n].run # 0
       /\ study[n].run # 0 => runs[study[n].run].trial = n /\ runs[study[n].run].completed
  /\ \A r \in DOMAIN runs : runs[r].config = study[runs[r].trial].config

\* Whatever its process has cached for other trials, a run sees every bar of
\* its window that existed when the command began, and none outside of the
\* window (BarsCache.__call__, _slice).
BarsComplete ==
  \A r \in DOMAIN runs :
    LET trial == study[runs[r].trial]
    IN /\ runs[r].bars \subseteq trial.start..(End - 1)
       /\ Existing(trial.start, End, trial.began) \subseteq runs[r].bars

=============================================================================
