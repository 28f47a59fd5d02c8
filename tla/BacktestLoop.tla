---------------------------- MODULE BacktestLoop ----------------------------
(***************************************************************************)
(* A research loop: every iteration assesses the data, trains a model,     *)
(* publishes it as an immutable artifact and replays a later window with   *)
(* it (backtest/loop.py, modeling/training.py, modeling/eligibility.py,    *)
(* modeling/assessment_io.py, modeling/artifact.py).  The audit trail of   *)
(* each assessment is a file that is replaced whole and a row of a table   *)
(* that is written best effort; the process may die between any two of its *)
(* steps, and every call to the outside may fail.                          *)
(*                                                                         *)
(* Data: a symbol's evidence is whether it has reasons against it; a model *)
(* is the record of its manifest; hashes and schemas either match or not.  *)
(***************************************************************************)
EXTENDS LoopSchedule, SequencesExt, FiniteSets

CONSTANTS
  Options,         \* what the loop may be asked for
  Today,
  Symbols,         \* config.symbols
  MinSymbols,      \* eligibility.min_symbols
  DiscoveryEnd,    \* of the universe the symbols come from
  GivenModels,     \* artifacts that exist beforehand
  NoModel

ASSUME SymbolsAssumption == IsFiniteSet(Symbols) /\ Symbols # {}
ASSUME MinSymbolsAssumption == MinSymbols \in Nat
ASSUME DatesAssumption ==
  /\ Today \in [month : Int, day : Int] /\ DiscoveryEnd \in [month : Int, day : Int]
  /\ \A m \in GivenModels : {m.trainStart, m.validationEnd} \subseteq [month : Int, day : Int]

\* What LoopOptions accepts: an anchor of the calendar, one bucket or several;
\* the number of iterations is only checked by the schedule.
ASSUME OptionsAssumption ==
  \A o \in Options :
    /\ o.iterations \in Int /\ o.buckets \in Nat \ {0}
    /\ o.train \in BOOLEAN /\ o.strict \in BOOLEAN
    /\ o.anchor \in [month : Months, day : Nat \ {0}]
    /\ o.anchor.day <= MonthDays[o.anchor.month]
    /\ {o.trainPeriod, o.validationPeriod, o.backtestPeriod} \subseteq DOMAIN Periods

VARIABLES
  options,
  plans,      \* the windows of each bucket, or none
  phase,      \* where the loop is
  bucket,     \* counted from 1
  iteration,  \* counted from 0
  report,     \* the assessment of this iteration, in memory
  audit,      \* the report files on disk, by bucket and iteration
  table,      \* the rows published, likewise
  clock,      \* updated_at
  artifacts,  \* the artifact directories
  leftovers,  \* temporary directories left behind
  model,      \* the model the next backtest is to use
  runs        \* the backtests made

auditVars == <<audit, table, clock>>
diskVars == <<artifacts, leftovers>>
place == <<bucket, iteration>>
vars == <<options, plans, phase, bucket, iteration, report, auditVars, diskVars, model, runs>>

NoReport == [status |-> "none", outcome |-> "none", effective |-> {}, model |-> NoModel,
             updated |-> 0]

Places == (1..options.buckets) \X (0..(options.iterations - 1))
Here == plans[bucket][iteration + 1]

Init ==
  /\ options \in Options
  /\ plans = <<>> /\ phase = "plan" /\ bucket = 1 /\ iteration = 0
  /\ report = NoReport
  /\ audit = [p \in Places |-> NoReport] /\ table = audit /\ clock = 0
  /\ artifacts = GivenModels /\ leftovers = {}
  /\ model = NoModel /\ runs = <<>>

----------------------------------------------------------------------------
(* Planning.                                                               *)

\* Mutant of Usable: the evaluation may start on the last day of validation.
UsableSameDay(m, start) ==
  /\ ~Before(start, m.validationEnd)
  /\ Before(DiscoveryEnd, m.trainStart)

\* validate_artifact: the evaluation starts strictly after the validation,
\* and the universe was discovered before the training began.
Usable(m, start) ==
  /\ Before(m.validationEnd, start)
  /\ Before(DiscoveryEnd, m.trainStart)

\* _run_backtest_loop, plan_loop: the schedules of all the buckets are checked
\* before anything is fetched.
Plan ==
  /\ phase = "plan"
  /\ LET valid == /\ Schedulable(options, Today)
                  /\ ~options.train => /\ options.model \in artifacts
                                       /\ Usable(options.model, Window(options, 0).data.start)
     IN /\ plans' = IF valid THEN [b \in 1..options.buckets |-> Schedule(options)] ELSE <<>>
        /\ phase' = IF ~valid THEN "refused" ELSE IF options.train THEN "assess" ELSE "backtest"
        /\ model' = IF valid /\ ~options.train THEN options.model ELSE NoModel
  /\ UNCHANGED <<options, place, report, auditVars, diskVars, runs>>

----------------------------------------------------------------------------
(* Training: assess, persist, fit, publish.                                *)

\* assess: what is kept of the symbols, given those with reasons against
\* them; a failure shared by all is no evidence against any of them.
Assessed(against, global) ==
  LET kept == Symbols \ against
      status == IF global \/ Cardinality(kept) < MinSymbols \/ (options.strict /\ against # {})
                THEN "rejected"
                ELSE IF against # {} THEN "passed_with_exclusions" ELSE "passed"
  IN [NoReport EXCEPT !.status = status, !.outcome = "pending",
                      !.effective = IF global THEN {} ELSE kept]

\* The report before assess has returned says error.
Unassessed == [NoReport EXCEPT !.status = "error", !.outcome = "pending"]

Assess ==
  /\ phase = "assess"
  /\ \/ \E against \in SUBSET Symbols, global \in BOOLEAN :
          report' = Assessed(against, global) /\ phase' = "persist"
     \/ report' = [Unassessed EXCEPT !.outcome = "failed"] /\ phase' = "audit_failure"
  /\ UNCHANGED <<options, plans, place, auditVars, diskVars, model, runs>>

\* Mutant of Persisted: the row is published before the file is replaced.
PublishedFirst(r) ==
  LET stamped == [r EXCEPT !.updated = clock + 1]
  IN /\ clock' = clock + 1
     /\ table' = [table EXCEPT ![place] = stamped]
     /\ audit' \in {audit, [audit EXCEPT ![place] = stamped]}

\* persist_assessment: stamp, replace the file, then publish if that works.
\* The upsert keeps the row unless the report is at least as recent.
Persisted(r) ==
  LET stamped == [r EXCEPT !.updated = clock + 1]
      newer == table[place].updated <= clock + 1
  IN /\ clock' = clock + 1
     /\ audit' = [audit EXCEPT ![place] = stamped]
     /\ table' \in {table, IF newer THEN [table EXCEPT ![place] = stamped] ELSE table}

\* The replacement fails as a whole: the file stays as it was.
PersistFails == clock' = clock + 1 /\ UNCHANGED <<audit, table>>

\* Nothing is fitted before the assessment is on disk.
Persist ==
  /\ phase = "persist"
  /\ \/ /\ Persisted(report)
        /\ IF report.status = "rejected"
           THEN report' = [report EXCEPT !.outcome = "failed"] /\ phase' = "audit_failure"
           ELSE UNCHANGED report /\ phase' = "fit"
     \/ /\ PersistFails
        /\ report' = [report EXCEPT !.outcome = "failed"] /\ phase' = "audit_failure"
  /\ UNCHANGED <<options, plans, place, diskVars, model, runs>>

Manifest ==
  [place |-> place, trainStart |-> Here.train.start,
   validationEnd |-> Here.validation.end, cohort |-> report.effective]

\* _fit_publish up to the temporary directory with the model and manifest.
Fit ==
  /\ phase = "fit"
  /\ \/ leftovers' = leftovers \cup {place} /\ phase' = "publish" /\ UNCHANGED report
     \/ /\ report' = [report EXCEPT !.outcome = "failed"] /\ phase' = "audit_failure"
        /\ UNCHANGED leftovers
  /\ UNCHANGED <<options, plans, place, auditVars, artifacts, model, runs>>

\* os.replace makes the directory an artifact at once, or not at all.
Publish ==
  /\ phase = "publish" /\ leftovers' = leftovers \ {place}
  /\ \/ /\ artifacts' = artifacts \cup {Manifest} /\ model' = Manifest
        /\ report' = [report EXCEPT !.outcome = "published", !.model = Manifest]
        /\ phase' = "finalize"
     \/ /\ report' = [report EXCEPT !.outcome = "failed", !.model = NoModel]
        /\ phase' = "audit_failure" /\ UNCHANGED <<artifacts, model>>
  /\ UNCHANGED <<options, plans, place, auditVars, runs>>

\* A failed finalization does not undo the publication.
Finalize ==
  /\ phase = "finalize" /\ (Persisted(report) \/ PersistFails)
  /\ phase' = "backtest"
  /\ UNCHANGED <<options, plans, place, report, diskVars, model, runs>>

\* The audit of a failure is best effort too; the loop ends with the error.
AuditFailure ==
  /\ phase = "audit_failure" /\ (Persisted(report) \/ PersistFails)
  /\ phase' = "failed"
  /\ UNCHANGED <<options, plans, place, report, diskVars, model, runs>>

----------------------------------------------------------------------------
(* The backtest of an iteration.                                           *)

\* execute_loop: the artifact is validated again for this window, the run is
\* made, and the next iteration, or the next bucket, begins; any failure ends
\* the whole loop.
Backtest ==
  /\ phase = "backtest"
  /\ \/ /\ model \in artifacts /\ Usable(model, Here.data.start)
        /\ runs' = Append(runs, [place |-> place, data |-> Here.data, model |-> model])
        /\ IF iteration + 1 = options.iterations /\ bucket = options.buckets
           THEN phase' = "done" /\ UNCHANGED <<place, model, report>>
           ELSE /\ IF iteration + 1 < options.iterations
                   THEN iteration' = iteration + 1 /\ UNCHANGED bucket
                   ELSE iteration' = 0 /\ bucket' = bucket + 1
                /\ phase' = IF options.train THEN "assess" ELSE "backtest"
                /\ model' = IF options.train THEN NoModel ELSE model
                /\ report' = NoReport
     \/ phase' = "failed" /\ UNCHANGED <<place, model, report, runs>>
  /\ UNCHANGED <<options, plans, auditVars, diskVars>>

Ended == {"refused", "failed", "done", "dead"}

Dies ==
  /\ phase \notin Ended /\ phase' = "dead"
  /\ UNCHANGED <<options, plans, place, report, auditVars, diskVars, model, runs>>

Next ==
  \/ Plan \/ Assess \/ Persist \/ Fit \/ Publish \/ Finalize \/ AuditFailure
  \/ Backtest \/ Dies

Spec == Init /\ [][Next]_vars

----------------------------------------------------------------------------
(* Properties.                                                             *)

\* Every schedule that is accepted tiles the calendar (LoopOptions.schedule).
WindowsTile == \A b \in DOMAIN plans : Tiles(plans[b], options, Today)

\* No backtest sees data its model was trained or validated on, or data from
\* before its universe was known; with training on, an iteration replays with
\* the model that the same iteration of the same bucket published and no
\* other, trained up to the day before (execute_loop, validate_artifact).
OutOfSample ==
  \A k \in DOMAIN runs :
    LET run == runs[k]
    IN /\ Before(run.model.validationEnd, run.data.start)
       /\ Before(DiscoveryEnd, run.model.trainStart)
       /\ options.train => /\ run.model.place = run.place
                           /\ DayAfter(run.model.validationEnd) = run.data.start
       /\ run.model \in artifacts
       /\ \A l \in 1..(k - 1) : runs[l].place # run.place

\* Wherever the process dies: an artifact made here has an assessment on disk
\* that accepted exactly its cohort; a file or a row that says published has
\* an artifact; and the row is never ahead of the file it is a copy of
\* (train_model, persist_assessment, EligibilityRepo.upsert).
AuditTrail ==
  /\ \A a \in artifacts \ GivenModels :
       LET on == audit[a.place]
       IN /\ on.status \in {"passed", "passed_with_exclusions"} /\ on.effective = a.cohort
          /\ Cardinality(a.cohort) >= MinSymbols /\ (options.strict => a.cohort = Symbols)
          /\ on.outcome # "failed"
  /\ \A p \in Places :
       /\ audit[p].outcome = "published" => audit[p].model \in artifacts
       /\ table[p].updated <= audit[p].updated
       /\ table[p].updated = audit[p].updated => table[p] = audit[p]
=============================================================================
