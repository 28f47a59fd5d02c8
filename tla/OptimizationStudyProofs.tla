------------------------ MODULE OptimizationStudyProofs ------------------------
(***************************************************************************)
(* Proofs about OptimizationStudy, for every number of workers, trials,     *)
(* commands and failures: the budget is spent exactly, a completed trial is *)
(* linked to its own run, and a run sees every bar of its window.           *)
(***************************************************************************)
EXTENDS OptimizationStudy, FiniteSetTheorems, TLAPS

Busy   == {"fetch", "replay", "link", "score"}
States3 == {"running", "complete", "fail"}
Trials == [state : States3, by : Nat \X Workers, start : Starts, began : Int,
           config : Configs, run : Nat, infeasible : BOOLEAN, score : Int]
Made   == [trial : Nat, completed : BOOLEAN, bars : SUBSET Int,
           config : Configs \cup {NoConfig}]
Processes == [at : Busy \cup {"exited", "idle", "resolve"}, left : Nat,
              trial : Nat \cup {NoTrial}, config : Configs \cup {NoConfig},
              bars : SUBSET Int, ok : BOOLEAN]
Entries == [start : Int, end : Int, bars : SUBSET Int]
Commands == [number : Nat, phase : {"idle", "running", "done", "failed", "killed"}, config : Configs,
             began : Int]

TypeOK ==
  /\ disk \in Configs /\ now \in Int
  /\ command \in Commands
  /\ worker \in [Workers -> Processes] /\ cache \in [Workers -> Entries]
  /\ study \in Seq(Trials) /\ runs \in Seq(Made)

\* The runs of the trials, and the trials of the runs.
RunsOf(n) == {r \in DOMAIN runs : runs[r].trial = n}

TrialsInv ==
  \A n \in DOMAIN study :
    /\ study[n].by[1] <= command.number
    /\ study[n].by[1] = command.number =>
         study[n].began = command.began /\ study[n].config = command.config
    /\ study[n].state = "complete" => study[n].run # 0
    /\ study[n].run # 0 => /\ study[n].run \in DOMAIN runs
                           /\ runs[study[n].run].trial = n /\ runs[study[n].run].completed

MadeInv ==
  \A r \in DOMAIN runs :
    /\ runs[r].trial \in DOMAIN study
    /\ study[runs[r].trial].by[1] = command.number => runs[r].config = command.config

ConfigInv ==
  \A r \in DOMAIN runs : runs[r].config = study[runs[r].trial].config

\* The command has begun and not ended: there may be workers.
Alive == command.phase \in {"running", "killed"}

\* What worker w is to do of the command's budget.
Share(w) ==
  IF w < command.config.workers
  THEN SplitTrials(command.config.nTrials, command.config.workers)[w]
  ELSE 0

Open(w) == {n \in Mine(w) : ~Finished(n)}

\* The bars are those of the window of a trial, as far as they exist.
Sees(bars, n) ==
  /\ bars \subseteq study[n].start..(End - 1)
  /\ Existing(study[n].start, End, study[n].began) \subseteq bars

\* A worker that is at work on a trial: it is its own, and unfinished.
AtWork(w) ==
  worker[w].at \in Busy =>
    LET n == worker[w].trial
    IN /\ n \in DOMAIN study /\ worker[w].left > 0
       /\ study[n].by = <<command.number, w>> /\ study[n].state = "running"
       /\ worker[w].at \in {"fetch", "replay"} => RunsOf(n) = {}
       /\ worker[w].at = "replay" => Sees(worker[w].bars, n)
       /\ worker[w].at = "link" => \E r \in DOMAIN runs : runs[r].completed /\ RunsOf(n) = {r}
       /\ worker[w].at = "score" => study[n].run # 0

\* A worker that has not failed has told its share but for what is left.
OnBudget(w) ==
  worker[w].ok /\ command.phase # "idle" =>
    /\ Open(w) = IF worker[w].at \in Busy THEN {worker[w].trial} ELSE {}
    /\ Cardinality(Mine(w)) + worker[w].left =
         Share(w) + (IF worker[w].at \in Busy THEN 1 ELSE 0)
    /\ IsFiniteSet(Mine(w))

WorkerInv(w) ==
  /\ AtWork(w) /\ OnBudget(w)
  /\ worker[w].at # "exited" =>
       Alive /\ worker[w].ok /\ worker[w].config = command.config
  /\ worker[w].at = "exited" => worker[w].left = 0

\* What is cached is everything that existed when the command began.
CacheInv(w) ==
  /\ command.began <= now
  /\ cache[w] # NoEntry =>
       Existing(cache[w].start, cache[w].end, command.began) \subseteq cache[w].bars

WorkersInv == \A w \in Workers : WorkerInv(w) /\ CacheInv(w)

BarsInv == \A r \in DOMAIN runs : Sees(runs[r].bars, runs[r].trial)

DoneInv ==
  command.phase = "done" =>
    /\ summary = Summarised
    /\ \A w \in Workers : worker[w].at = "exited" /\ worker[w].ok

IInv ==
  /\ TypeOK /\ TrialsInv /\ MadeInv /\ ConfigInv /\ WorkersInv /\ BarsInv /\ DoneInv
-----------------------------------------------------------------------------
(* Sequences of trials and of runs. *)

LEMMA SetOne ==
  ASSUME NEW X, NEW s \in Seq(X), NEW n \in DOMAIN s, NEW x \in X,
         NEW u, u = [s EXCEPT ![n] = x]
  PROVE  /\ u \in Seq(X) /\ DOMAIN u = DOMAIN s /\ Len(u) = Len(s) /\ u[n] = x
         /\ \A m \in DOMAIN s : m # n => u[m] = s[m]
  OBVIOUS

LEMMA AddOne ==
  ASSUME NEW X, NEW s \in Seq(X), NEW x \in X, NEW u, u = Append(s, x)
  PROVE  /\ u \in Seq(X) /\ Len(s) \in Nat /\ Len(u) = Len(s) + 1
         /\ DOMAIN s = 1..Len(s) /\ DOMAIN u = DOMAIN s \cup {Len(s) + 1}
         /\ Len(s) + 1 \notin DOMAIN s
         /\ u[Len(s) + 1] = x /\ \A m \in DOMAIN s : u[m] = s[m]
  OBVIOUS

LEMMA DomainType ==
  ASSUME NEW X, NEW s \in Seq(X)
  PROVE  DOMAIN s = 1..Len(s) /\ Len(s) \in Nat /\ \A n \in DOMAIN s : s[n] \in X
  OBVIOUS

\* The ways a trial ends.
Settlement(t, x) ==
  \/ x = [t EXCEPT !.state = "fail"]
  \/ x = [t EXCEPT !.state = "complete", !.infeasible = TRUE, !.score = Penalty]
  \/ \E score \in Scores : x = [t EXCEPT !.state = "complete", !.score = score]

LEMMA SettlementFields ==
  ASSUME NEW t \in Trials, NEW x, Settlement(t, x)
  PROVE  /\ x \in Trials /\ x.by = t.by /\ x.start = t.start /\ x.began = t.began
         /\ x.config = t.config
         /\ x.run = t.run /\ x.state \in {"complete", "fail"}
         /\ x = [t EXCEPT !.state = "fail"] => x.state = "fail"
  BY ScoresAssumption DEF Trials, States3, Settlement

LEMMA LinkFields ==
  ASSUME NEW t \in Trials, NEW r \in Nat, NEW x, x = [t EXCEPT !.run = r]
  PROVE  /\ x \in Trials /\ x.by = t.by /\ x.start = t.start /\ x.began = t.began
         /\ x.config = t.config
         /\ x.run = r /\ x.state = t.state
  BY DEF Trials

\* What the process of a worker becomes.
LEMMA ProcessFields ==
  ASSUME TypeOK, NEW w \in Workers
  PROVE  /\ \A at \in Busy \cup {"idle", "exited", "resolve"} : Goes(w, at) =>
              /\ worker' \in [Workers -> Processes] /\ worker'[w].at = at
              /\ worker'[w].left = worker[w].left /\ worker'[w].trial = worker[w].trial
              /\ worker'[w].config = worker[w].config /\ worker'[w].bars = worker[w].bars
              /\ worker'[w].ok = worker[w].ok
              /\ \A v \in Workers \ {w} : worker'[v] = worker[v]
         /\ \A ok \in BOOLEAN : Exits(w, ok) =>
              /\ worker' \in [Workers -> Processes] /\ worker'[w].at = "exited"
              /\ worker'[w].left = 0 /\ worker'[w].ok = ok
              /\ \A v \in Workers \ {w} : worker'[v] = worker[v]
         /\ Told(w) /\ worker[w].left > 0 =>
              /\ worker' \in [Workers -> Processes] /\ worker'[w].at = "idle"
              /\ worker'[w].left = worker[w].left - 1 /\ worker'[w].ok
              /\ worker'[w].config = worker[w].config
              /\ \A v \in Workers \ {w} : worker'[v] = worker[v]
  <1>1. worker \in [Workers -> Processes] /\ worker[w] \in Processes
    BY DEF TypeOK
  <1>2. Gone \in Processes
    BY DEF Gone, Processes
  <1>3. ASSUME NEW at \in Busy \cup {"idle", "exited", "resolve"}, Goes(w, at)
        PROVE  /\ worker' \in [Workers -> Processes] /\ worker'[w].at = at
               /\ worker'[w].left = worker[w].left /\ worker'[w].trial = worker[w].trial
               /\ worker'[w].config = worker[w].config /\ worker'[w].bars = worker[w].bars
               /\ worker'[w].ok = worker[w].ok
               /\ \A v \in Workers \ {w} : worker'[v] = worker[v]
    <2>1. worker' = [worker EXCEPT ![w] = [worker[w] EXCEPT !.at = at]]
      BY <1>3 DEF Goes
    <2>2. [worker[w] EXCEPT !.at = at] \in Processes
      BY <1>1 DEF Processes, Busy
    <2>3. QED
      BY <1>1, <2>1, <2>2 DEF Processes
  <1>4. ASSUME NEW ok \in BOOLEAN, Exits(w, ok)
        PROVE  /\ worker' \in [Workers -> Processes] /\ worker'[w].at = "exited"
               /\ worker'[w].left = 0 /\ worker'[w].ok = ok
               /\ \A v \in Workers \ {w} : worker'[v] = worker[v]
    BY <1>1, <1>2, <1>4 DEF Exits, Gone, Processes
  <1>5. ASSUME Told(w), worker[w].left > 0
        PROVE  /\ worker' \in [Workers -> Processes] /\ worker'[w].at = "idle"
               /\ worker'[w].left = worker[w].left - 1 /\ worker'[w].ok
               /\ worker'[w].config = worker[w].config
               /\ \A v \in Workers \ {w} : worker'[v] = worker[v]
    <2> DEFINE new == [Gone EXCEPT !.at = "idle", !.left = worker[w].left - 1,
                                   !.config = worker[w].config]
    <2>1. worker' = [worker EXCEPT ![w] = new]
      BY <1>5 DEF Told
    <2>2. new \in Processes /\ new.at = "idle" /\ new.left = worker[w].left - 1 /\ new.ok
          /\ new.config = worker[w].config
      <3>1. Gone.ok = TRUE
        BY DEF Gone
      <3>2. worker[w].left - 1 \in Nat /\ worker[w].config \in Configs \cup {NoConfig}
        BY <1>1, <1>5 DEF Processes
      <3>3. QED
        BY <1>2, <3>1, <3>2 DEF Processes
    <2> HIDE DEF new
    <2>3. QED
      BY <1>1, <2>1, <2>2
  <1>6. QED
    BY <1>3, <1>4, <1>5
-----------------------------------------------------------------------------
(* What a step of one worker leaves alone. *)

\* The trials and runs of a step of worker w, and everything of the others.
Keeps(w) ==
  /\ command' = command
  /\ \A v \in Workers \ {w} : worker'[v] = worker[v] /\ cache'[v] = cache[v]
  /\ DOMAIN study \subseteq DOMAIN study' /\ DOMAIN runs \subseteq DOMAIN runs'
  /\ \A n \in DOMAIN study' :
       \/ n \in DOMAIN study /\ study'[n] = study[n]
       \/ /\ n \in DOMAIN study /\ worker[w].at \in Busy /\ n = worker[w].trial
          /\ study'[n].by = study[n].by /\ study'[n].start = study[n].start
          /\ study'[n].began = study[n].began /\ study'[n].config = study[n].config
       \/ /\ n \notin DOMAIN study
          /\ study'[n].by = <<command.number, w>> /\ study'[n].began = command.began
          /\ study'[n].config = command.config
  /\ \A r \in DOMAIN runs' :
       \/ r \in DOMAIN runs /\ runs'[r] = runs[r]
       \/ r \notin DOMAIN runs /\ worker[w].at \in Busy /\ runs'[r].trial = worker[w].trial

\* The budget of another worker is what it was, and so is its trial.
LEMMA OthersKeep ==
  ASSUME TypeOK, WorkersInv, MadeInv, NEW w \in Workers, Keeps(w), now' = now,
         NEW v \in Workers \ {w}
  PROVE  WorkerInv(v)' /\ CacheInv(v)'
  <1>1. command' = command /\ worker'[v] = worker[v] /\ cache'[v] = cache[v]
    BY DEF Keeps
  <1>2. /\ worker[w].at \in Busy => study[worker[w].trial].by = <<command.number, w>>
        /\ worker[v].at \in Busy => /\ worker[v].trial \in DOMAIN study
                                    /\ study[worker[v].trial].by = <<command.number, v>>
    BY DEF WorkersInv, WorkerInv, AtWork
  <1>3. \A n \in DOMAIN study' : study'[n].by = <<command.number, v>> =>
          n \in DOMAIN study /\ study'[n] = study[n]
    BY <1>2 DEF Keeps
  <1>4. Mine(v)' = Mine(v) /\ Open(v)' = Open(v)
    <2>1. \A n \in DOMAIN study : study[n].by = <<command.number, v>> =>
            n \in DOMAIN study' /\ study'[n] = study[n]
      BY <1>2 DEF Keeps
    <2>2. Mine(v)' = Mine(v) /\ \A n \in Mine(v) : study'[n] = study[n]
      BY <1>1, <1>3, <2>1 DEF Mine
    <2>3. QED
      BY <2>2 DEF Open, Finished
  <1>5. ASSUME worker[v].at \in Busy
        PROVE  LET n == worker[v].trial
               IN /\ n \in DOMAIN study' /\ study'[n] = study[n] /\ n \in DOMAIN study
                  /\ RunsOf(n)' = RunsOf(n)
                  /\ \A r \in RunsOf(n) : runs'[r] = runs[r]
    <2> DEFINE n == worker[v].trial
    <2>1. n \in DOMAIN study /\ n \in DOMAIN study' /\ study'[n] = study[n]
      BY <1>2, <1>5 DEF Keeps
    <2>2. worker[w].at \in Busy => n # worker[w].trial
      BY <1>2, <1>5
    <2>3. {r \in DOMAIN runs' : runs'[r].trial = n} = {r \in DOMAIN runs : runs[r].trial = n}
          /\ \A r \in RunsOf(n) : runs'[r] = runs[r]
      <3> HIDE DEF n
      <3>1. QED
        BY <2>2 DEF Keeps, RunsOf
    <2>4. worker'[v].trial = worker[v].trial
      BY <1>1
    <2>5. QED
      BY <2>1, <2>3, <2>4 DEF RunsOf
  <1>6. AtWork(v)'
    <2> DEFINE n == worker[v].trial
    <2> SUFFICES ASSUME worker[v].at \in Busy
        PROVE  /\ n \in DOMAIN study' /\ worker[v].left > 0
               /\ study'[n].by = <<command.number, v>> /\ study'[n].state = "running"
               /\ worker[v].at \in {"fetch", "replay"} => RunsOf(n)' = {}
               /\ worker[v].at = "replay" => Sees(worker[v].bars, n)'
               /\ worker[v].at = "link" =>
                    \E r \in DOMAIN runs' : runs'[r].completed /\ RunsOf(n)' = {r}
               /\ worker[v].at = "score" => study'[n].run # 0
      BY <1>1 DEF AtWork
    <2>1. /\ n \in DOMAIN study /\ worker[v].left > 0
          /\ study[n].by = <<command.number, v>> /\ study[n].state = "running"
          /\ worker[v].at \in {"fetch", "replay"} => RunsOf(n) = {}
          /\ worker[v].at = "replay" => Sees(worker[v].bars, n)
          /\ worker[v].at = "link" =>
               \E r \in DOMAIN runs : runs[r].completed /\ RunsOf(n) = {r}
          /\ worker[v].at = "score" => study[n].run # 0
      BY DEF WorkersInv, WorkerInv, AtWork
    <2>2. /\ n \in DOMAIN study' /\ study'[n] = study[n]
          /\ RunsOf(n)' = RunsOf(n) /\ \A r \in RunsOf(n) : runs'[r] = runs[r]
      BY <1>5
    <2>3. worker[v].at = "replay" => Sees(worker[v].bars, n)'
      BY <1>1, <2>1, <2>2 DEF Sees
    <2>4. worker[v].at = "link" =>
            \E r \in DOMAIN runs' : runs'[r].completed /\ RunsOf(n)' = {r}
      <3>1. DOMAIN runs \subseteq DOMAIN runs'
        BY DEF Keeps
      <3> HIDE DEF n
      <3>2. QED
        BY <2>1, <2>2, <3>1
    <2>5. QED
      BY <2>1, <2>2, <2>3, <2>4
  <1>7. OnBudget(v)'
    <2>1. Share(v)' = Share(v)
      BY <1>1 DEF Share
    <2>2. OnBudget(v)
      BY DEF WorkersInv, WorkerInv
    <2>3. QED
      BY <1>1, <1>4, <2>1, <2>2 DEF OnBudget
  <1>8. WorkerInv(v)'
    BY <1>1, <1>6, <1>7 DEF Alive, WorkersInv, WorkerInv
  <1>9. CacheInv(v)'
    BY <1>1 DEF WorkersInv, CacheInv
  <1>10. QED
    BY <1>8, <1>9

\* The runs have the configuration their trials note, if the new one has it.
LEMMA ConfigKeeps ==
  ASSUME TypeOK, TrialsInv, WorkersInv, MadeInv, ConfigInv, NEW w \in Workers, Keeps(w),
         \A r \in DOMAIN runs' \ DOMAIN runs : runs'[r].config = worker[w].config
  PROVE  MadeInv' /\ ConfigInv'
  <1>1. worker[w].at \in Busy =>
          /\ worker[w].trial \in DOMAIN study
          /\ study[worker[w].trial].by = <<command.number, w>>
          /\ worker[w].config = command.config
          /\ study[worker[w].trial].config = command.config
    BY DEF WorkersInv, WorkerInv, AtWork, Busy, TrialsInv
  <1>2. ASSUME NEW r \in DOMAIN runs'
        PROVE  /\ runs'[r].trial \in DOMAIN study' /\ runs'[r].trial \in DOMAIN study
               /\ study'[runs'[r].trial].by = study[runs'[r].trial].by
               /\ study'[runs'[r].trial].config = runs'[r].config
               /\ study'[runs'[r].trial].by[1] = command.number =>
                    runs'[r].config = command.config
    <2>1. \A n \in DOMAIN study : /\ n \in DOMAIN study' /\ study'[n].by = study[n].by
                                 /\ study'[n].config = study[n].config
      BY DEF Keeps
    <2>2. CASE r \in DOMAIN runs /\ runs'[r] = runs[r]
      BY <2>1, <2>2 DEF MadeInv, ConfigInv
    <2>3. CASE /\ r \notin DOMAIN runs /\ worker[w].at \in Busy
               /\ runs'[r].trial = worker[w].trial
      BY <2>1, <2>3, <1>1
    <2>4. QED
      BY <2>2, <2>3 DEF Keeps
  <1>3. command' = command
    BY DEF Keeps
  <1>4. MadeInv'
    BY <1>2, <1>3 DEF MadeInv
  <1>5. ConfigInv'
    BY <1>2 DEF ConfigInv
  <1>6. QED
    BY <1>4, <1>5

\* The bars of the runs there were are still those of their windows.
LEMMA BarsKeep ==
  ASSUME TypeOK, MadeInv, BarsInv, NEW w \in Workers, Keeps(w),
         \A r \in DOMAIN runs' \ DOMAIN runs :
           LET n == runs'[r].trial
           IN /\ runs'[r].bars \subseteq study'[n].start..(End - 1)
              /\ Existing(study'[n].start, End, study'[n].began) \subseteq runs'[r].bars
  PROVE  BarsInv'
  <1> SUFFICES ASSUME NEW r \in DOMAIN runs, runs'[r] = runs[r]
               PROVE  /\ runs'[r].bars \subseteq study'[runs'[r].trial].start..(End - 1)
                      /\ Existing(study'[runs'[r].trial].start, End,
                                  study'[runs'[r].trial].began) \subseteq runs'[r].bars
    BY DEF BarsInv, Keeps, Sees
  <1>1. runs[r].trial \in DOMAIN study
    BY DEF MadeInv
  <1>2. study'[runs[r].trial].start = study[runs[r].trial].start
        /\ study'[runs[r].trial].began = study[runs[r].trial].began
    BY <1>1 DEF Keeps
  <1>3. QED
    BY <1>2 DEF BarsInv, Sees
-----------------------------------------------------------------------------
(* The steps of a worker. *)

\* What a step of worker w may do to the trials.
StudyStep(w) ==
  /\ study' \in Seq(Trials) /\ DOMAIN study \subseteq DOMAIN study'
  /\ \A n \in DOMAIN study' :
       \/ n \in DOMAIN study /\ study'[n] = study[n]
       \/ /\ n \in DOMAIN study /\ worker[w].at \in Busy /\ n = worker[w].trial
          /\ study'[n].by = study[n].by /\ study'[n].start = study[n].start
          /\ study'[n].began = study[n].began /\ study'[n].config = study[n].config
       \/ /\ n \notin DOMAIN study
          /\ study'[n].by = <<command.number, w>> /\ study'[n].began = command.began
          /\ study'[n].config = command.config

\* What it may do to the runs: those there were stay, and a new one is its own.
RunsStep(w) ==
  /\ runs' \in Seq(Made) /\ DOMAIN runs \subseteq DOMAIN runs'
  /\ \A r \in DOMAIN runs : runs'[r] = runs[r]
  /\ \A r \in DOMAIN runs' \ DOMAIN runs :
       /\ worker[w].at \in Busy /\ runs'[r].trial = worker[w].trial
       /\ runs'[r].config = worker[w].config
       /\ Sees(runs'[r].bars, worker[w].trial)

\* What it may do to the processes and their caches.
ProcessStep(w) ==
  /\ UNCHANGED <<disk, now, command>>
  /\ worker' \in [Workers -> Processes] /\ cache' \in [Workers -> Entries]
  /\ \A v \in Workers \ {w} : worker'[v] = worker[v] /\ cache'[v] = cache[v]

\* A step of one worker keeps the invariant if it keeps its own part of it.
LEMMA WorkerStep ==
  ASSUME IInv, NEW w \in Workers, worker[w].at # "exited",
         StudyStep(w), RunsStep(w), ProcessStep(w),
         TrialsInv', WorkerInv(w)', CacheInv(w)'
  PROVE  IInv'
  <1>1. TypeOK /\ MadeInv /\ WorkersInv /\ ConfigInv /\ BarsInv
    BY DEF IInv
  <1>2. Keeps(w) /\ now' = now
    BY DEF Keeps, StudyStep, RunsStep, ProcessStep
  <1>3. TypeOK'
    BY <1>1 DEF TypeOK, StudyStep, RunsStep, ProcessStep
  <1>4. MadeInv' /\ ConfigInv'
    BY <1>1, <1>2, ConfigKeeps DEF RunsStep, IInv
  <1>5. WorkersInv'
    <2>1. \A v \in Workers \ {w} : WorkerInv(v)' /\ CacheInv(v)'
      BY <1>1, <1>2, OthersKeep
    <2>2. QED
      BY <2>1 DEF WorkersInv
  <1>6. BarsInv'
    <2>1. ASSUME NEW r \in DOMAIN runs' \ DOMAIN runs, NEW n, n = runs'[r].trial
          PROVE  /\ runs'[r].bars \subseteq study'[n].start..(End - 1)
                 /\ Existing(study'[n].start, End, study'[n].began) \subseteq runs'[r].bars
      <3>1. worker[w].at \in Busy /\ n = worker[w].trial /\ Sees(runs'[r].bars, n)
        BY <2>1 DEF RunsStep
      <3>2. n \in DOMAIN study
        BY <1>1, <3>1 DEF WorkersInv, WorkerInv, AtWork
      <3>3. study'[n].start = study[n].start /\ study'[n].began = study[n].began
        BY <3>2 DEF StudyStep
      <3>4. QED
        BY <3>1, <3>3 DEF Sees
    <2>2. QED
      BY <1>1, <1>2, <2>1, BarsKeep
  <1>7. DoneInv'
    <2>1. Alive /\ command' = command
      BY <1>1 DEF WorkersInv, WorkerInv, ProcessStep
    <2>2. QED
      BY <2>1 DEF DoneInv, Alive
  <1>8. QED
    BY <1>3, <1>4, <1>5, <1>6, <1>7 DEF IInv

\* A trial that is worked on is set: it stays one of the worker's.
LEMMA TrialSet ==
  ASSUME IInv, NEW w \in Workers, worker[w].at \in Busy, NEW x \in Trials, Set(w, x),
         x.by = Trial(w).by, x.start = Trial(w).start, x.began = Trial(w).began,
         x.config = Trial(w).config,
         command' = command
  PROVE  /\ StudyStep(w) /\ DOMAIN study' = DOMAIN study
         /\ worker[w].trial \in DOMAIN study /\ study'[worker[w].trial] = x
         /\ \A n \in DOMAIN study : n # worker[w].trial => study'[n] = study[n]
         /\ Mine(w)' = Mine(w) /\ worker[w].trial \in Mine(w)
         /\ Trial(w) \in Trials
  <1> DEFINE t == worker[w].trial
  <1>1. t \in DOMAIN study /\ study \in Seq(Trials) /\ study[t].by = <<command.number, w>>
    BY DEF IInv, TypeOK, WorkersInv, WorkerInv, AtWork
  <1>2. study' = [study EXCEPT ![t] = x]
    BY DEF Set
  <1>3. x.by = study[t].by /\ x.start = study[t].start /\ x.began = study[t].began
        /\ x.config = study[t].config
    BY DEF Trial
  <1>4. Trial(w) = study[t] /\ study[t] \in Trials
    BY <1>1 DEF Trial
  <1> HIDE DEF t
  <1>5. /\ study' \in Seq(Trials) /\ DOMAIN study' = DOMAIN study /\ study'[t] = x
        /\ \A n \in DOMAIN study : n # t => study'[n] = study[n]
    BY <1>1, <1>2, SetOne
  <1>6. StudyStep(w)
    BY <1>3, <1>5 DEF StudyStep, t
  <1>7. Mine(w)' = Mine(w) /\ t \in Mine(w)
    BY <1>1, <1>3, <1>5 DEF Mine
  <1>8. QED
    BY <1>1, <1>4, <1>5, <1>6, <1>7 DEF t

\* Every natural number is a multiple and a remainder.
LEMMA QuotientType ==
  ASSUME NEW n \in Nat, NEW k \in Nat \ {0}
  PROVE  n \div k \in Nat /\ n % k \in 0..(k - 1) /\ n = k * (n \div k) + (n % k)
  BY Z3

LEMMA ShareType ==
  ASSUME TypeOK, NEW w \in Workers
  PROVE  Share(w) \in Nat
  <1>1. /\ command.config.workers \in Nat \ {0} /\ command.config.nTrials \in Nat
        /\ w \in Nat
    <2>1. command.config \in Configs /\ Cardinality(Workers) \in Nat
      BY WorkersAssumption, FS_CardinalityType DEF TypeOK, Commands
    <2>2. QED
      BY <2>1, ConfigsAssumption, WorkersAssumption
  <1>2. CASE w < command.config.workers
    <2> DEFINE n == command.config.nTrials
               k == command.config.workers
    <2>1. Share(w) = (n \div k) + (IF w < n % k THEN 1 ELSE 0)
      BY <1>1, <1>2 DEF Share, SplitTrials
    <2>2. n \div k \in Nat
      <3> HIDE DEF n, k
      <3>1. n \in Nat /\ k \in Nat \ {0}
        BY <1>1 DEF n, k
      <3>2. QED
        BY <3>1, QuotientType
    <2>3. QED
      BY <2>1, <2>2
  <1>3. CASE ~(w < command.config.workers)
    BY <1>3 DEF Share
  <1>4. QED
    BY <1>2, <1>3

\* The trial is settled: the share is one less, or the process is gone.
LEMMA Settles ==
  ASSUME IInv, NEW w \in Workers, worker[w].at \in Busy, NEW x, Settlement(Trial(w), x),
         x.state = "fail" \/ Trial(w).run # 0,
         Set(w, x), Told(w) \/ Exits(w, FALSE),
         UNCHANGED <<disk, now, command, cache>>, RunsStep(w)
  PROVE  IInv'
  <1> DEFINE t == worker[w].trial
  <1>1. /\ TypeOK /\ t \in DOMAIN study /\ worker[w].left > 0
        /\ worker[w].config = command.config /\ Alive
        /\ OnBudget(w) /\ CacheInv(w) /\ worker[w].ok
    BY DEF IInv, WorkersInv, WorkerInv, AtWork, Busy
  <1>2. Trial(w) \in Trials
    BY <1>1, DomainType DEF TypeOK, Trial
  <1>3. /\ x \in Trials /\ x.by = Trial(w).by /\ x.start = Trial(w).start
        /\ x.began = Trial(w).began /\ x.config = Trial(w).config
        /\ x.run = Trial(w).run /\ x.state \in {"complete", "fail"}
    BY <1>2, SettlementFields
  <1>4. /\ StudyStep(w) /\ DOMAIN study' = DOMAIN study /\ study'[t] = x
        /\ \A n \in DOMAIN study : n # t => study'[n] = study[n]
        /\ Mine(w)' = Mine(w) /\ t \in Mine(w)
    BY <1>3, TrialSet
  <1>5. /\ worker' \in [Workers -> Processes]
        /\ \A v \in Workers \ {w} : worker'[v] = worker[v]
        /\ \/ /\ worker'[w].at = "idle" /\ worker'[w].left = worker[w].left - 1
              /\ worker'[w].ok /\ worker'[w].config = worker[w].config
           \/ worker'[w].at = "exited" /\ worker'[w].left = 0 /\ worker'[w].ok = FALSE
    BY <1>1, ProcessFields
  <1>6. ProcessStep(w)
    BY <1>1, <1>5 DEF ProcessStep, TypeOK
  <1>7. TrialsInv'
    <2>1. TrialsInv /\ \A r \in DOMAIN runs : r \in DOMAIN runs' /\ runs'[r] = runs[r]
      BY DEF IInv, RunsStep
    <2>2. Trial(w) = study[t]
      BY DEF Trial
    <2> SUFFICES ASSUME NEW n \in DOMAIN study
        PROVE  /\ study'[n].by[1] <= command.number
               /\ study'[n].by[1] = command.number =>
                    study'[n].began = command.began /\ study'[n].config = command.config
               /\ study'[n].state = "complete" => study'[n].run # 0
               /\ study'[n].run # 0 =>
                    /\ study'[n].run \in DOMAIN runs'
                    /\ runs'[study'[n].run].trial = n /\ runs'[study'[n].run].completed
      BY <1>4 DEF TrialsInv
    <2>3. CASE n = t
      BY <1>1, <1>3, <1>4, <2>1, <2>2, <2>3 DEF TrialsInv
    <2>4. CASE n # t
      BY <1>1, <1>4, <2>1, <2>4 DEF TrialsInv
    <2>5. QED
      BY <2>3, <2>4
  <1>8. CASE worker'[w].at = "exited" /\ worker'[w].left = 0 /\ worker'[w].ok = FALSE
    <2>1. WorkerInv(w)'
      BY <1>8 DEF WorkerInv, AtWork, OnBudget, Busy
    <2>2. CacheInv(w)'
      BY <1>1 DEF CacheInv
    <2>3. worker[w].at # "exited"
      BY DEF Busy
    <2>4. QED
      BY <1>4, <1>6, <1>7, <2>1, <2>2, <2>3, WorkerStep
  <1>9. CASE /\ worker'[w].at = "idle" /\ worker'[w].left = worker[w].left - 1
             /\ worker'[w].ok /\ worker'[w].config = worker[w].config
    <2>1. Open(w)' = {}
      <3>1. Open(w) = {t}
        BY <1>1 DEF OnBudget, Alive
      <3>2. \A n \in Mine(w) : n # t => study[n].state # "running"
        BY <3>1 DEF Open, Finished
      <3>3. \A n \in Mine(w) : n \in DOMAIN study
        BY DEF Mine
      <3>4. \A n \in Mine(w)' : study'[n].state # "running"
        BY <1>3, <1>4, <3>2, <3>3
      <3>5. QED
        BY <3>4 DEF Open, Finished
    <2>2. OnBudget(w)'
      <3>1. Cardinality(Mine(w)) + worker[w].left = Share(w) + 1 /\ IsFiniteSet(Mine(w))
        BY <1>1 DEF OnBudget, Alive
      <3>2. Cardinality(Mine(w)) \in Nat /\ worker[w].left \in Nat
        BY <3>1, <1>1, FS_CardinalityType DEF TypeOK, Processes
      <3>3. command' = command /\ Share(w)' = Share(w)
        BY DEF Share
      <3>4. Share(w) = Cardinality(Mine(w)) + (worker[w].left - 1)
        BY <1>1, <3>1, <3>2, ShareType
      <3>5. QED
        BY <1>4, <1>9, <2>1, <3>1, <3>2, <3>3, <3>4 DEF OnBudget, Busy
    <2>3. WorkerInv(w)'
      BY <1>1, <1>9, <2>2 DEF Alive, WorkerInv, AtWork, Busy
    <2>4. CacheInv(w)'
      BY <1>1 DEF CacheInv
    <2>5. worker[w].at # "exited"
      BY DEF Busy
    <2>6. QED
      BY <1>4, <1>6, <1>7, <2>3, <2>4, <2>5, WorkerStep
  <1>10. QED
    BY <1>5, <1>8, <1>9
\* A request leaves an entry with everything that existed in its window at the
\* beginning, and answers with all that existed of the window asked for.
LEMMA WidenedSees ==
  ASSUME NEW e \in Entries, NEW start \in Int, NEW end \in Int, NEW at \in Int,
         NEW began \in Int, began <= at,
         e # NoEntry => Existing(e.start, e.end, began) \subseteq e.bars,
         NEW f, f = Widened(e, start, end, at)
  PROVE  /\ f \in Entries /\ (f # NoEntry => Existing(f.start, f.end, began) \subseteq f.bars)
         /\ Existing(start, end, began) \subseteq Slice(f.bars, start, end)
         /\ Slice(f.bars, start, end) \subseteq start..(end - 1)
  <1>1. CASE Covers(e, start, end)
    BY <1>1 DEF Widened, Covers, Existing, Slice, Entries
  <1>2. CASE ~Covers(e, start, end)
    <2>1. PICK from \in Int, to \in Int :
            /\ from <= start /\ end <= to
            /\ f = [start |-> from, end |-> to, bars |-> Existing(from, to, at)]
      <3> DEFINE from == IF e = NoEntry THEN start ELSE EarlierOf(start, e.start)
                 to   == IF e = NoEntry THEN end ELSE LaterOf(end, e.end)
      <3>1. f = [start |-> from, end |-> to, bars |-> Existing(from, to, at)]
        BY <1>2 DEF Widened
      <3>2. from \in Int /\ to \in Int /\ from <= start /\ end <= to
        BY DEF EarlierOf, LaterOf, Entries
      <3> HIDE DEF from, to
      <3>3. QED
        BY <3>1, <3>2
    <2>2. QED
      BY <2>1 DEF Existing, Slice, Entries
  <1>3. QED
    BY <1>1, <1>2

\* No process is at work on a trial: what it has told stays, and so does the rest.
LEMMA ProcessOnly ==
  ASSUME IInv, NEW w \in Workers, worker[w].at \in {"resolve", "idle"} \cup Busy,
         UNCHANGED <<disk, now, command, cache, study, runs>>,
         \/ /\ worker[w].at = "resolve" /\ disk = command.config
            /\ worker' = [worker EXCEPT ![w].at = "idle", ![w].config = disk]
         \/ Exits(w, FALSE)
         \/ worker[w].at = "idle" /\ worker[w].left = 0 /\ Exits(w, TRUE)
  PROVE  IInv'
  <1>1. /\ TypeOK /\ TrialsInv /\ Alive
        /\ OnBudget(w) /\ CacheInv(w) /\ worker[w].ok
    BY DEF IInv, WorkersInv, WorkerInv, Busy
  <1>2. StudyStep(w) /\ RunsStep(w)
    BY <1>1 DEF StudyStep, RunsStep, TypeOK
  <1>3. Mine(w)' = Mine(w) /\ Open(w)' = Open(w) /\ Share(w)' = Share(w) /\ TrialsInv'
        /\ CacheInv(w)'
    BY <1>1 DEF Mine, Open, Finished, Share, TrialsInv, CacheInv
  <1>4. CASE Exits(w, FALSE)
    <2>1. /\ worker' \in [Workers -> Processes]
          /\ worker'[w].at = "exited" /\ worker'[w].left = 0 /\ ~worker'[w].ok
          /\ \A v \in Workers \ {w} : worker'[v] = worker[v]
      BY <1>1, <1>4, ProcessFields
    <2>2. ProcessStep(w)
      BY <1>1, <2>1 DEF ProcessStep, TypeOK
    <2>3. WorkerInv(w)'
      BY <2>1 DEF WorkerInv, AtWork, OnBudget, Busy
    <2>4. QED
      BY <1>2, <1>3, <2>2, <2>3, WorkerStep DEF Busy
  <1>5. CASE worker[w].at = "idle" /\ worker[w].left = 0 /\ Exits(w, TRUE)
    <2>1. /\ worker' \in [Workers -> Processes]
          /\ worker'[w].at = "exited" /\ worker'[w].left = 0 /\ worker'[w].ok
          /\ \A v \in Workers \ {w} : worker'[v] = worker[v]
      BY <1>1, <1>5, ProcessFields
    <2>2. ProcessStep(w)
      BY <1>1, <2>1 DEF ProcessStep, TypeOK
    <2>3. OnBudget(w)'
      BY <1>1, <1>3, <1>5, <2>1 DEF OnBudget, Busy
    <2>4. WorkerInv(w)'
      BY <2>1, <2>3 DEF WorkerInv, AtWork, Busy
    <2>5. QED
      BY <1>2, <1>3, <1>5, <2>2, <2>4, WorkerStep
  <1>6. CASE /\ worker[w].at = "resolve" /\ disk = command.config
             /\ worker' = [worker EXCEPT ![w].at = "idle", ![w].config = disk]
    <2>1. /\ worker' \in [Workers -> Processes]
          /\ worker'[w].at = "idle" /\ worker'[w].left = worker[w].left /\ worker'[w].ok
          /\ worker'[w].config = command.config
          /\ \A v \in Workers \ {w} : worker'[v] = worker[v]
      <3> DEFINE new == [worker[w] EXCEPT !.at = "idle", !.config = disk]
      <3>1. worker[w] \in Processes /\ worker \in [Workers -> Processes] /\ disk \in Configs
        BY <1>1 DEF TypeOK
      <3>2. worker' = [worker EXCEPT ![w] = new]
        BY <1>6, <3>1
      <3>3. /\ new \in Processes /\ new.at = "idle" /\ new.config = disk
            /\ new.left = worker[w].left /\ new.ok = worker[w].ok
        BY <3>1 DEF Processes
      <3> HIDE DEF new
      <3>4. QED
        BY <1>1, <1>6, <3>1, <3>2, <3>3
    <2>2. ProcessStep(w)
      BY <1>1, <2>1 DEF ProcessStep, TypeOK
    <2>3. OnBudget(w)'
      BY <1>1, <1>3, <1>6, <2>1 DEF OnBudget, Busy
    <2>4. WorkerInv(w)'
      BY <1>1, <2>1, <2>3 DEF Alive, WorkerInv, AtWork, Busy
    <2>5. QED
      BY <1>2, <1>3, <1>6, <2>2, <2>4, WorkerStep
  <1>7. QED
    BY <1>4, <1>5, <1>6

LEMMA AskStep == ASSUME IInv, NEW w \in Workers, Ask(w) PROVE IInv'
  <1> DEFINE t == Len(study) + 1
  <1>1. /\ TypeOK /\ TrialsInv /\ MadeInv /\ Alive
        /\ OnBudget(w) /\ CacheInv(w) /\ worker[w].ok /\ worker[w].config = command.config
        /\ worker[w].at = "idle" /\ worker[w].left > 0
    BY DEF IInv, WorkersInv, WorkerInv, Ask
  <1>2. PICK start \in Starts :
          study' = Append(study,
            [state |-> "running", by |-> <<command.number, w>>, start |-> start,
             began |-> command.began, config |-> command.config, run |-> 0,
             infeasible |-> FALSE, score |-> Penalty])
    BY DEF Ask
  <1> DEFINE x == [state |-> "running", by |-> <<command.number, w>>, start |-> start,
                   began |-> command.began, config |-> command.config, run |-> 0,
                   infeasible |-> FALSE, score |-> Penalty]
  <1>3. /\ x \in Trials /\ x.by = <<command.number, w>> /\ x.began = command.began
        /\ x.config = command.config /\ x.state = "running" /\ x.run = 0
    BY <1>1, ScoresAssumption DEF Trials, States3, TypeOK, Commands
  <1>4. study \in Seq(Trials) /\ runs \in Seq(Made)
    BY <1>1 DEF TypeOK
  <1> HIDE DEF x
  <1>5. /\ study' \in Seq(Trials) /\ Len(study) \in Nat
        /\ DOMAIN study' = DOMAIN study \cup {t} /\ t \notin DOMAIN study
        /\ study'[t] = x /\ \A n \in DOMAIN study : study'[n] = study[n]
    BY <1>2, <1>3, <1>4, AddOne DEF x
  <1>6. UNCHANGED <<disk, now, command, cache, runs>>
    BY DEF Ask, outside
  <1>7. /\ worker' \in [Workers -> Processes] /\ worker'[w].at = "fetch"
        /\ worker'[w].trial = t /\ worker'[w].left = worker[w].left
        /\ worker'[w].ok /\ worker'[w].config = command.config
        /\ \A v \in Workers \ {w} : worker'[v] = worker[v]
    <2> DEFINE new == [worker[w] EXCEPT !.at = "fetch", !.trial = t]
    <2>1. worker[w] \in Processes /\ worker \in [Workers -> Processes] /\ t \in Nat
      BY <1>1, <1>5 DEF TypeOK
    <2>2. worker' = [worker EXCEPT ![w] = new]
      BY <2>1 DEF Ask
    <2>3. /\ new \in Processes /\ new.at = "fetch" /\ new.trial = t
          /\ new.left = worker[w].left /\ new.ok = worker[w].ok
          /\ new.config = worker[w].config
      <3> HIDE DEF t
      <3>1. QED
        BY <2>1 DEF Processes, Busy
    <2> HIDE DEF new
    <2>4. QED
      BY <1>1, <2>1, <2>2, <2>3
  <1> HIDE DEF t
  <1>8. StudyStep(w) /\ RunsStep(w) /\ ProcessStep(w)
    <2>1. StudyStep(w)
      BY <1>3, <1>5 DEF StudyStep
    <2>2. RunsStep(w)
      BY <1>4, <1>6 DEF RunsStep
    <2>3. ProcessStep(w)
      BY <1>1, <1>6, <1>7 DEF ProcessStep, TypeOK
    <2>4. QED
      BY <2>1, <2>2, <2>3
  <1>9. TrialsInv'
    <2>1. command.number \in Nat
      BY <1>1 DEF TypeOK, Commands
    <2>2. QED
      BY <1>1, <1>3, <1>5, <1>6, <2>1 DEF TrialsInv
  <1>10. {r \in DOMAIN runs' : runs'[r].trial = t} = {}
    <2>1. \A r \in DOMAIN runs : runs[r].trial # t
      BY <1>1, <1>5 DEF MadeInv
    <2>2. QED
      BY <1>6, <2>1
  <1>11. Mine(w)' = Mine(w) \cup {t} /\ t \notin Mine(w)
    BY <1>3, <1>5, <1>6 DEF Mine
  <1>12. Open(w)' = {t}
    <2>1. Open(w) = {}
      BY <1>1 DEF OnBudget, Busy, Alive
    <2>2. \A n \in Mine(w) : study'[n].state # "running"
      BY <1>5, <2>1 DEF Open, Finished, Mine
    <2>3. QED
      BY <1>3, <1>5, <1>11, <2>2 DEF Open, Finished
  <1>13. OnBudget(w)'
    <2>1. IsFiniteSet(Mine(w)) /\ Cardinality(Mine(w)) + worker[w].left = Share(w) + 0
      BY <1>1 DEF OnBudget, Busy, Alive
    <2>2. IsFiniteSet(Mine(w)') /\ Cardinality(Mine(w)') = Cardinality(Mine(w)) + 1
      BY <1>11, <2>1, FS_AddElement
    <2>3. Share(w)' = Share(w) /\ Share(w) \in Nat
      BY <1>1, <1>6, ShareType DEF Share
    <2>4. Cardinality(Mine(w)) \in Nat /\ worker[w].left \in Nat
      BY <1>1, <2>1, FS_CardinalityType DEF TypeOK, Processes
    <2>5. Cardinality(Mine(w)') + worker[w].left = Share(w) + 1
      BY <2>1, <2>2, <2>3, <2>4
    <2>6. QED
      BY <1>7, <1>12, <2>2, <2>3, <2>5 DEF OnBudget, Busy
  <1>14. AtWork(w)'
    <2>1. RunsOf(worker[w].trial)' = {}
      BY <1>7, <1>10 DEF RunsOf
    <2>2. QED
      BY <1>1, <1>3, <1>5, <1>6, <1>7, <2>1 DEF AtWork
  <1>15. WorkerInv(w)' /\ CacheInv(w)'
    BY <1>1, <1>6, <1>7, <1>13, <1>14 DEF Alive, WorkerInv, CacheInv
  <1>16. QED
    BY <1>1, <1>8, <1>9, <1>15, WorkerStep
\* A worker that goes on with the same trial keeps its budget.
LEMMA SameBudget ==
  ASSUME TypeOK, NEW w \in Workers, OnBudget(w), worker[w].at \in Busy,
         worker'[w].at \in Busy, worker'[w].left = worker[w].left,
         worker'[w].trial = worker[w].trial, worker'[w].ok = worker[w].ok,
         command' = command, Mine(w)' = Mine(w), Open(w)' = Open(w)
  PROVE  OnBudget(w)'
  <1>1. Share(w)' = Share(w)
    BY DEF Share
  <1>2. QED
    BY <1>1 DEF OnBudget

LEMMA FetchStep == ASSUME IInv, NEW w \in Workers, FetchBars(w) PROVE IInv'
  <1> DEFINE t == worker[w].trial
  <1>1. /\ TypeOK /\ TrialsInv /\ Alive
        /\ AtWork(w) /\ OnBudget(w) /\ CacheInv(w) /\ worker[w].ok
        /\ worker[w].config = command.config /\ worker[w].at = "fetch"
        /\ t \in DOMAIN study /\ study[t].by = <<command.number, w>>
        /\ study[t].state = "running" /\ RunsOf(t) = {} /\ worker[w].left > 0
    BY DEF IInv, WorkersInv, WorkerInv, AtWork, FetchBars, Busy
  <1>2. UNCHANGED <<disk, now, command, runs>>
    BY DEF FetchBars, outside
  <1>3. RunsStep(w)
    BY <1>1, <1>2 DEF RunsStep, TypeOK
  <1>4. ASSUME Failed(w), Told(w) \/ Exits(w, FALSE), UNCHANGED cache
        PROVE  IInv'
    <2> DEFINE x == [Trial(w) EXCEPT !.state = "fail"]
    <2>1. Settlement(Trial(w), x) /\ Set(w, x)
      BY <1>4 DEF Settlement, Failed
    <2>2. x.state = "fail"
      <3>1. Trial(w) \in Trials
        BY <1>1, DomainType DEF TypeOK, Trial
      <3>2. QED
        BY <3>1 DEF Trials
    <2> HIDE DEF x
    <2>3. QED
      BY <1>1, <1>2, <1>3, <1>4, <2>1, <2>2, Settles DEF Busy
  <1>5. ASSUME NEW entry, entry = Widened(cache[w], Trial(w).start, End, now),
               cache' = [cache EXCEPT ![w] = entry],
               worker' = [worker EXCEPT ![w].at = "replay",
                            ![w].bars = Slice(entry.bars, Trial(w).start, End)],
               UNCHANGED study
        PROVE  IInv'
    <2> DEFINE bars == Slice(entry.bars, Trial(w).start, End)
    <2>1. /\ Trial(w) = study[t] /\ study[t] \in Trials /\ study[t].start \in Int
          /\ study[t].began = command.began /\ command.began \in Int /\ now \in Int
          /\ cache[w] \in Entries /\ command.began <= now
      <3>1. study[t] \in Trials /\ cache[w] \in Entries
        BY <1>1, DomainType DEF TypeOK
      <3>2. study[t].start \in Int
        BY <3>1, WindowAssumption DEF Trials
      <3>3. QED
        BY <1>1, <3>1, <3>2 DEF Trial, TrialsInv, TypeOK, Commands, CacheInv
    <2>2. /\ entry \in Entries
          /\ entry # NoEntry => Existing(entry.start, entry.end, command.began) \subseteq entry.bars
          /\ Existing(study[t].start, End, command.began) \subseteq bars
          /\ bars \subseteq study[t].start..(End - 1)
      <3>1. cache[w] # NoEntry =>
              Existing(cache[w].start, cache[w].end, command.began) \subseteq cache[w].bars
        BY <1>1 DEF CacheInv
      <3>2. End \in Int
        BY WindowAssumption
      <3> HIDE DEF t
      <3>3. entry = Widened(cache[w], study[t].start, End, now)
        BY <1>5, <2>1
      <3>4. QED
        BY <2>1, <3>1, <3>2, <3>3, WidenedSees
    <2>3. /\ worker' \in [Workers -> Processes] /\ worker'[w].at = "replay"
          /\ worker'[w].trial = t /\ worker'[w].left = worker[w].left
          /\ worker'[w].ok /\ worker'[w].ok = worker[w].ok
          /\ worker'[w].config = command.config
          /\ worker'[w].bars = bars
          /\ \A v \in Workers \ {w} : worker'[v] = worker[v]
      <3> DEFINE new == [worker[w] EXCEPT !.at = "replay", !.bars = bars]
      <3>1. worker[w] \in Processes /\ worker \in [Workers -> Processes]
            /\ bars \in SUBSET Int
        BY <1>1, <2>1, <2>2, WindowAssumption DEF TypeOK
      <3>2. worker' = [worker EXCEPT ![w] = new]
        BY <1>5, <3>1
      <3> HIDE DEF bars
      <3>3. /\ new \in Processes /\ new.at = "replay" /\ new.trial = worker[w].trial
            /\ new.left = worker[w].left /\ new.ok = worker[w].ok
            /\ new.config = worker[w].config /\ new.bars = bars
        BY <3>1 DEF Processes, Busy
      <3> HIDE DEF new
      <3>4. QED
        BY <1>1, <3>1, <3>2, <3>3
    <2>4. /\ cache' \in [Workers -> Entries] /\ cache'[w] = entry
          /\ \A v \in Workers \ {w} : cache'[v] = cache[v]
      BY <1>1, <1>5, <2>2 DEF TypeOK
    <2> HIDE DEF bars
    <2>5. StudyStep(w) /\ ProcessStep(w) /\ TrialsInv'
      <3>1. StudyStep(w)
        BY <1>1, <1>5 DEF StudyStep, TypeOK
      <3>2. TrialsInv'
        BY <1>1, <1>2, <1>5 DEF TrialsInv
      <3>3. ProcessStep(w)
        BY <1>2, <2>3, <2>4 DEF ProcessStep
      <3>4. QED
        BY <3>1, <3>2, <3>3
    <2>6. Mine(w)' = Mine(w) /\ Open(w)' = Open(w)
      BY <1>2, <1>5 DEF Mine, Open, Finished
    <2>7. OnBudget(w)'
      BY <1>1, <1>2, <2>3, <2>6, SameBudget DEF Busy
    <2>8. AtWork(w)'
      <3>1. Sees(bars, t)
        BY <2>1, <2>2 DEF Sees
      <3>2. Sees(worker[w].bars, worker[w].trial)'
        BY <3>1, <2>3, <1>5 DEF Sees
      <3>3. RunsOf(worker[w].trial)' = {}
        BY <1>1, <1>2, <2>3 DEF RunsOf
      <3>4. QED
        BY <1>1, <1>2, <1>5, <2>3, <3>2, <3>3 DEF AtWork
    <2>9. CacheInv(w)'
      BY <1>2, <2>1, <2>2, <2>4 DEF CacheInv
    <2>10. WorkerInv(w)'
      BY <1>1, <1>2, <2>3, <2>7, <2>8 DEF Alive, WorkerInv
    <2>11. QED
      BY <1>1, <1>3, <2>5, <2>9, <2>10, WorkerStep
  <1>6. QED
    BY <1>4, <1>5 DEF FetchBars, TrialFails

LEMMA ReplayStep == ASSUME IInv, NEW w \in Workers, Replay(w) PROVE IInv'
  <1> DEFINE t == worker[w].trial
             n == Len(runs) + 1
  <1>1. /\ TypeOK /\ TrialsInv /\ MadeInv /\ Alive
        /\ AtWork(w) /\ OnBudget(w) /\ CacheInv(w) /\ worker[w].ok
        /\ worker[w].config = command.config /\ worker[w].at = "replay"
        /\ t \in DOMAIN study /\ study[t].by = <<command.number, w>>
        /\ study[t].state = "running" /\ RunsOf(t) = {} /\ worker[w].left > 0
        /\ Sees(worker[w].bars, t)
    BY DEF IInv, WorkersInv, WorkerInv, AtWork, Replay, Busy
  <1>2. UNCHANGED <<disk, now, command, cache>>
    BY DEF Replay, outside
  <1>3. PICK completed \in BOOLEAN :
          /\ runs' = Append(runs, [trial |-> worker[w].trial, completed |-> completed,
                                   bars |-> worker[w].bars, config |-> worker[w].config])
          /\ IF completed THEN Goes(w, "link") /\ UNCHANGED study ELSE TrialFails(w)
    BY DEF Replay
  <1> DEFINE x == [trial |-> t, completed |-> completed,
                   bars |-> worker[w].bars, config |-> worker[w].config]
  <1>4. x \in Made /\ runs \in Seq(Made) /\ study \in Seq(Trials) /\ study[t] \in Trials
    <2>1. worker[w] \in Processes /\ study \in Seq(Trials) /\ runs \in Seq(Made)
      BY <1>1 DEF TypeOK
    <2>2. t \in Nat /\ study[t] \in Trials
      BY <1>1, <2>1
    <2>3. QED
      BY <2>1, <2>2 DEF Made, Processes
  <1>5. /\ x.trial = t /\ x.completed = completed /\ x.bars = worker[w].bars
        /\ x.config = worker[w].config
    OBVIOUS
  <1>6. /\ runs' \in Seq(Made) /\ DOMAIN runs' = DOMAIN runs \cup {n} /\ n \notin DOMAIN runs
        /\ runs'[n] = x /\ \A r \in DOMAIN runs : runs'[r] = runs[r]
    <2>1. runs' = Append(runs, x)
      BY <1>3
    <2> HIDE DEF x
    <2>2. QED
      BY <1>4, <2>1, AddOne
  <1> HIDE DEF x, n
  <1>7. RunsStep(w)
    <2>1. ASSUME NEW r \in DOMAIN runs' \ DOMAIN runs
          PROVE  /\ worker[w].at \in Busy /\ runs'[r].trial = t
                 /\ runs'[r].config = worker[w].config
                 /\ Sees(runs'[r].bars, t)
      <3>1. runs'[r] = x
        BY <1>6
      <3>2. QED
        BY <1>1, <1>5, <3>1 DEF Busy
    <2>2. QED
      BY <1>6, <2>1 DEF RunsStep
  <1>8. CASE TrialFails(w)
    <2> DEFINE y == [Trial(w) EXCEPT !.state = "fail"]
    <2>1. Settlement(Trial(w), y) /\ Set(w, y) /\ (Told(w) \/ Exits(w, FALSE))
      BY <1>8 DEF Settlement, Failed, TrialFails
    <2>2. y.state = "fail"
      BY <1>4 DEF Trials, Trial
    <2> HIDE DEF y
    <2>3. QED
      BY <1>1, <1>2, <1>7, <2>1, <2>2, Settles DEF Busy
  <1>9. CASE completed /\ Goes(w, "link") /\ UNCHANGED study
    <2>1. /\ worker' \in [Workers -> Processes] /\ worker'[w].at = "link"
          /\ worker'[w].left = worker[w].left /\ worker'[w].trial = t
          /\ worker'[w].config = command.config /\ worker'[w].ok = worker[w].ok
          /\ \A v \in Workers \ {w} : worker'[v] = worker[v]
      BY <1>1, <1>9, ProcessFields DEF Busy
    <2>2. StudyStep(w) /\ ProcessStep(w)
      <3>1. StudyStep(w)
        BY <1>4, <1>9 DEF StudyStep
      <3>2. ProcessStep(w)
        BY <1>1, <1>2, <2>1 DEF ProcessStep, TypeOK
      <3>3. QED
        BY <3>1, <3>2
    <2>3. TrialsInv'
      BY <1>1, <1>2, <1>6, <1>9 DEF TrialsInv
    <2>4. Mine(w)' = Mine(w) /\ Open(w)' = Open(w)
      BY <1>2, <1>9 DEF Mine, Open, Finished
    <2>5. OnBudget(w)'
      BY <1>1, <1>2, <2>1, <2>4, SameBudget DEF Busy
    <2>6. {r \in DOMAIN runs' : runs'[r].trial = t} = {n} /\ runs'[n].completed
      <3>1. \A r \in DOMAIN runs : runs[r].trial # t
        BY <1>1 DEF RunsOf
      <3>2. runs'[n].trial = t /\ runs'[n].completed = completed
        BY <1>5, <1>6
      <3> HIDE DEF t
      <3>3. QED
        BY <1>6, <1>9, <3>1, <3>2
    <2>7. AtWork(w)'
      <3>1. \E r \in DOMAIN runs' : runs'[r].completed /\ RunsOf(worker[w].trial)' = {r}
        BY <1>6, <2>1, <2>6 DEF RunsOf
      <3>2. QED
        BY <1>1, <1>2, <1>9, <2>1, <3>1 DEF AtWork
    <2>8. WorkerInv(w)' /\ CacheInv(w)'
      BY <1>1, <1>2, <2>1, <2>5, <2>7 DEF Alive, WorkerInv, CacheInv
    <2>9. QED
      BY <1>1, <1>7, <2>2, <2>3, <2>8, WorkerStep
  <1>10. QED
    BY <1>3, <1>8, <1>9
\* The latest of the runs of a trial, when there is but one.
LEMMA OnlyRun ==
  ASSUME NEW w \in Workers, NEW r \in Nat, RunsOf(worker[w].trial) = {r}
  PROVE  MyRun(w) = r
  <1>1. MyRun(w) = Max({r})
    BY DEF MyRun, RunsOf
  <1>2. QED
    BY <1>1 DEF Max

LEMMA LinkedStep ==
  ASSUME IInv, NEW w \in Workers, Link(w), ~TrialFails(w)
  PROVE  IInv'
  <1> DEFINE t == worker[w].trial
  <1>1. /\ TypeOK /\ TrialsInv /\ MadeInv /\ Alive
        /\ AtWork(w) /\ OnBudget(w) /\ CacheInv(w) /\ worker[w].ok
        /\ worker[w].config = command.config /\ worker[w].at = "link"
        /\ t \in DOMAIN study /\ study[t].by = <<command.number, w>>
        /\ study[t].state = "running" /\ worker[w].left > 0
    BY DEF IInv, WorkersInv, WorkerInv, AtWork, Link, Busy
  <1>2. UNCHANGED <<disk, now, command, cache, runs>>
    BY DEF Link, outside
  <1>3. PICK r \in DOMAIN runs : runs[r].completed /\ RunsOf(t) = {r}
    BY <1>1 DEF AtWork, Busy
  <1>4. /\ r \in Nat \ {0} /\ MyRun(w) = r /\ runs[r].trial = t
        /\ study[t] \in Trials /\ Trial(w) = study[t]
    <2>1. r \in Nat \ {0} /\ study[t] \in Trials
      BY <1>1 DEF TypeOK
    <2>2. MyRun(w) = r
      BY <1>3, <2>1, OnlyRun
    <2>3. QED
      BY <1>3, <2>1, <2>2 DEF RunsOf, Trial
  <1> DEFINE x == [Trial(w) EXCEPT !.run = r]
  <1>5. Set(w, x) /\ Goes(w, "score")
    BY <1>4 DEF Link
  <1>6. /\ x \in Trials /\ x.by = Trial(w).by /\ x.start = Trial(w).start
        /\ x.began = Trial(w).began /\ x.config = Trial(w).config
        /\ x.run = r /\ x.state = "running"
    <2>1. Trial(w) \in Trials /\ r \in Nat /\ Trial(w).state = "running"
      BY <1>1, <1>4
    <2> HIDE DEF t
    <2>2. QED
      BY <2>1, LinkFields
  <1> HIDE DEF x
  <1>7. /\ StudyStep(w) /\ DOMAIN study' = DOMAIN study /\ study'[t] = x
        /\ \A n \in DOMAIN study : n # t => study'[n] = study[n]
        /\ Mine(w)' = Mine(w) /\ t \in Mine(w)
    BY <1>1, <1>2, <1>5, <1>6, TrialSet DEF Busy
  <1>8. /\ worker' \in [Workers -> Processes] /\ worker'[w].at = "score"
        /\ worker'[w].left = worker[w].left /\ worker'[w].trial = t
        /\ worker'[w].config = command.config /\ worker'[w].ok = worker[w].ok
        /\ \A v \in Workers \ {w} : worker'[v] = worker[v]
    BY <1>1, <1>5, ProcessFields DEF Busy
  <1>9. RunsStep(w) /\ ProcessStep(w)
    BY <1>1, <1>2, <1>8 DEF RunsStep, ProcessStep, TypeOK
  <1>10. TrialsInv'
    <2> SUFFICES ASSUME NEW n \in DOMAIN study
        PROVE  /\ study'[n].by[1] <= command.number
               /\ study'[n].by[1] = command.number =>
                    study'[n].began = command.began /\ study'[n].config = command.config
               /\ study'[n].state = "complete" => study'[n].run # 0
               /\ study'[n].run # 0 =>
                    /\ study'[n].run \in DOMAIN runs
                    /\ runs[study'[n].run].trial = n /\ runs[study'[n].run].completed
      BY <1>2, <1>7 DEF TrialsInv
    <2>1. CASE n = t
      BY <1>1, <1>3, <1>4, <1>6, <1>7, <2>1 DEF TrialsInv
    <2>2. CASE n # t
      BY <1>1, <1>7, <2>2 DEF TrialsInv
    <2>3. QED
      BY <2>1, <2>2
  <1>11. Open(w)' = Open(w)
    <2>1. \A n \in Mine(w) : study'[n].state # "running" <=> study[n].state # "running"
      <3>1. Mine(w) \subseteq DOMAIN study
        BY DEF Mine
      <3>2. QED
        BY <1>1, <1>6, <1>7, <3>1
    <2>2. QED
      BY <1>7, <2>1 DEF Open, Finished
  <1>12. OnBudget(w)'
    BY <1>1, <1>2, <1>7, <1>8, <1>11, SameBudget DEF Busy
  <1>13. AtWork(w)'
    BY <1>1, <1>2, <1>4, <1>6, <1>7, <1>8 DEF AtWork
  <1>14. WorkerInv(w)' /\ CacheInv(w)'
    BY <1>1, <1>2, <1>8, <1>12, <1>13 DEF Alive, WorkerInv, CacheInv
  <1>15. QED
    BY <1>1, <1>7, <1>9, <1>10, <1>14, WorkerStep

\* A step of a worker that fails its trial, and makes no run.
LEMMA FailsStep ==
  ASSUME IInv, NEW w \in Workers, worker[w].at \in Busy, TrialFails(w),
         UNCHANGED <<disk, now, command, cache, runs>>
  PROVE  IInv'
  <1> DEFINE x == [Trial(w) EXCEPT !.state = "fail"]
  <1>1. TypeOK /\ worker[w].trial \in DOMAIN study
    BY DEF IInv, WorkersInv, WorkerInv, AtWork
  <1>2. Trial(w) \in Trials
    BY <1>1, DomainType DEF TypeOK, Trial
  <1>3. Settlement(Trial(w), x) /\ Set(w, x) /\ (Told(w) \/ Exits(w, FALSE))
    BY DEF Settlement, Failed, TrialFails
  <1>4. x.state = "fail"
    BY <1>2 DEF Trials
  <1>5. RunsStep(w)
    BY <1>1 DEF RunsStep, TypeOK
  <1> HIDE DEF x
  <1>6. QED
    BY <1>3, <1>4, <1>5, Settles

LEMMA LinkStep == ASSUME IInv, NEW w \in Workers, Link(w) PROVE IInv'
  <1>1. CASE TrialFails(w)
    BY <1>1, FailsStep DEF Link, Busy, outside
  <1>2. CASE ~TrialFails(w)
    BY <1>2, LinkedStep
  <1>3. QED
    BY <1>1, <1>2

LEMMA ScoreStep == ASSUME IInv, NEW w \in Workers, Score(w) PROVE IInv'
  <1>1. /\ TypeOK /\ worker[w].at = "score" /\ worker[w].trial \in DOMAIN study
        /\ study[worker[w].trial].run # 0
    BY DEF IInv, WorkersInv, WorkerInv, AtWork, Score, Busy
  <1>2. Trial(w) = study[worker[w].trial] /\ Trial(w) \in Trials
    BY <1>1, DomainType DEF Trial, TypeOK
  <1>3. UNCHANGED <<disk, now, command, cache, runs>>
    BY DEF Score, outside
  <1>4. PICK x : Settlement(Trial(w), x) /\ Set(w, x) /\ (Told(w) \/ Exits(w, FALSE))
    BY DEF Score, Penalised, Failed, TrialFails, Settlement
  <1>5. RunsStep(w)
    BY <1>1, <1>3 DEF RunsStep, TypeOK
  <1>6. QED
    BY <1>1, <1>2, <1>3, <1>4, <1>5, Settles DEF Busy

LEMMA WorkStep == ASSUME IInv, NEW w \in Workers, Work(w) \/ Killed(w) PROVE IInv'
  <1>1. TypeOK /\ worker[w] \in Processes /\ (worker[w].at = "resolve" => worker[w].ok)
    BY DEF IInv, TypeOK, WorkersInv, WorkerInv
  <1>2. CASE Resolve(w) \/ Finish(w) \/ Killed(w)
    <2>1. worker[w].at \in {"resolve", "idle"} \cup Busy
      BY <1>1, <1>2 DEF Resolve, Finish, Killed, Processes
    <2>2. UNCHANGED <<disk, now, command, cache, study, runs>>
      BY <1>2 DEF Resolve, Finish, Killed, outside
    <2>3. \/ /\ worker[w].at = "resolve" /\ disk = command.config
             /\ worker' = [worker EXCEPT ![w].at = "idle", ![w].config = disk]
          \/ Exits(w, FALSE)
          \/ worker[w].at = "idle" /\ worker[w].left = 0 /\ Exits(w, TRUE)
      BY <1>2 DEF Resolve, Finish, Killed
    <2>4. QED
      BY <2>1, <2>2, <2>3, ProcessOnly
  <1>3. CASE Ask(w)
    BY <1>3, AskStep
  <1>4. CASE FetchBars(w)
    BY <1>4, FetchStep
  <1>5. CASE Replay(w)
    BY <1>5, ReplayStep
  <1>6. CASE Link(w)
    BY <1>6, LinkStep
  <1>7. CASE Score(w)
    BY <1>7, ScoreStep
  <1>8. QED
    BY <1>2, <1>3, <1>4, <1>5, <1>6, <1>7 DEF Work
-----------------------------------------------------------------------------
(* The command, the files and the clock. *)

LEMMA WorkersType ==
  /\ IsFiniteSet(Workers) /\ Cardinality(Workers) \in Nat
  /\ Workers = 0..(Cardinality(Workers) - 1)
  BY WorkersAssumption, FS_CardinalityType

\* Before its first trial, all of a worker's share is left.
LEMMA StartStep == ASSUME IInv, Start PROVE IInv'
  <1> DEFINE shares == SplitTrials(disk.nTrials, disk.workers)
             fresh(w) == IF w \in DOMAIN shares /\ shares[w] > 0
                         THEN [Gone EXCEPT !.at = IF disk.workers = 1 THEN "idle" ELSE "resolve",
                                           !.left = shares[w], !.config = disk]
                         ELSE Gone
  <1>1. /\ TypeOK /\ TrialsInv /\ MadeInv /\ ConfigInv /\ BarsInv
        /\ disk \in Configs /\ now \in Int /\ command \in Commands
        /\ study \in Seq(Trials) /\ runs \in Seq(Made)
        /\ disk.workers \in Nat \ {0} /\ disk.nTrials \in Nat
    <2>1. TypeOK /\ TrialsInv /\ MadeInv /\ ConfigInv /\ BarsInv /\ disk \in Configs
      BY DEF IInv, TypeOK
    <2>2. disk.workers \in Nat \ {0} /\ disk.nTrials \in Nat
      BY <2>1, ConfigsAssumption, WorkersType
    <2>3. QED
      BY <2>1, <2>2 DEF TypeOK
  <1>2. /\ command' = [number |-> command.number + 1, phase |-> "running", config |-> disk,
                       began |-> now]
        /\ worker' = [w \in Workers |-> fresh(w)]
        /\ cache' = [w \in Workers |-> NoEntry]
        /\ UNCHANGED <<disk, now, study, runs>>
    BY DEF Start, outside
  <1>3. /\ command' \in Commands /\ command'.number = command.number + 1
        /\ command'.phase = "running" /\ command'.config = disk /\ command'.began = now
        /\ command.number \in Nat
    <2>1. command.number \in Nat /\ command.number + 1 \in Nat
      BY <1>1 DEF Commands
    <2>2. command' = [number |-> command.number + 1, phase |-> "running", config |-> disk,
                      began |-> now]
      BY <1>2
    <2>3. disk \in Configs /\ now \in Int
      BY <1>1
    <2>4. QED
      BY <2>1, <2>2, <2>3 DEF Commands
  <1>4. \A w \in Workers : Share(w)' \in Nat
          /\ Share(w)' = IF w \in DOMAIN shares THEN shares[w] ELSE 0
    <2> SUFFICES ASSUME NEW w \in Workers
        PROVE  Share(w)' \in Nat /\ Share(w)' = IF w \in DOMAIN shares THEN shares[w] ELSE 0
      OBVIOUS
    <2>1. w \in Nat
      BY WorkersType
    <2>2. w \in DOMAIN shares <=> w < disk.workers
      BY <1>1, <2>1 DEF SplitTrials
    <2>3. Share(w)' = IF w \in DOMAIN shares THEN shares[w] ELSE 0
      BY <1>3, <2>2 DEF Share
    <2>4. w \in DOMAIN shares => shares[w] \in Nat
      <3>1. w \in DOMAIN shares =>
              shares[w] = (disk.nTrials \div disk.workers)
                          + (IF w < disk.nTrials % disk.workers THEN 1 ELSE 0)
        BY DEF SplitTrials
      <3>2. disk.nTrials \div disk.workers \in Nat
        BY <1>1, QuotientType
      <3>3. QED
        BY <3>1, <3>2
    <2> HIDE DEF shares
    <2>5. QED
      BY <2>3, <2>4
  <1> HIDE DEF shares
  <1>5. ASSUME NEW w \in Workers
        PROVE  /\ worker'[w] \in Processes /\ worker'[w].at \in {"exited", "idle", "resolve"}
               /\ worker'[w].left = Share(w)' /\ worker'[w].ok
               /\ worker'[w].at # "exited" => worker'[w].config = disk
               /\ worker'[w].at = "exited" => worker'[w].left = 0
    <2>1. worker'[w] = fresh(w) /\ Gone \in Processes
          /\ Gone.at = "exited" /\ Gone.left = 0 /\ Gone.ok = TRUE
      BY <1>2 DEF Gone, Processes
    <2>2. CASE w \in DOMAIN shares /\ shares[w] > 0
      <3> DEFINE at == IF disk.workers = 1 THEN "idle" ELSE "resolve"
                 new == [Gone EXCEPT !.at = at, !.left = shares[w], !.config = disk]
      <3>1. worker'[w] = new /\ at \in {"idle", "resolve"} /\ shares[w] \in Nat
            /\ shares[w] = Share(w)'
        BY <1>4, <2>1, <2>2
      <3> HIDE DEF at
      <3>2. new \in Processes /\ new.at = at /\ new.left = shares[w] /\ new.ok /\ new.config = disk
        BY <1>1, <2>1, <3>1 DEF Processes
      <3> HIDE DEF new
      <3>3. QED
        BY <3>1, <3>2
    <2>3. CASE ~(w \in DOMAIN shares /\ shares[w] > 0)
      <3>1. worker'[w] = Gone
        BY <2>1, <2>3
      <3>2. Share(w)' = 0
        BY <1>4, <2>3
      <3>3. QED
        BY <2>1, <3>1, <3>2
    <2>4. QED
      BY <2>2, <2>3
  <1>6. TypeOK'
    <2>1. NoEntry \in Entries
      BY DEF NoEntry, Entries
    <2>2. cache' \in [Workers -> Entries]
      BY <1>2, <2>1
    <2>3. worker' \in [Workers -> Processes]
      BY <1>2, <1>5
    <2>4. QED
      BY <1>1, <1>2, <1>3, <2>2, <2>3 DEF TypeOK
  <1>7. \A n \in DOMAIN study : study[n].by[1] \in Nat /\ study[n].by[1] <= command.number
    <2>1. \A n \in DOMAIN study : study[n] \in Trials
      BY <1>1
    <2>2. QED
      BY <1>1, <2>1 DEF Trials, TrialsInv
  <1>8. \A n \in DOMAIN study : study[n].by[1] # command.number + 1
                                  /\ study[n].by[1] <= command.number + 1
    BY <1>3, <1>7
  <1> HIDE DEF fresh
  <1>9. TrialsInv'
    <2>1. study' = study /\ runs' = runs
      BY <1>2
    <2>2. QED
      BY <1>1, <1>3, <1>8, <2>1 DEF TrialsInv
  <1>10. MadeInv' /\ ConfigInv' /\ BarsInv'
    <2>1. MadeInv'
      BY <1>1, <1>2, <1>3, <1>8 DEF MadeInv
    <2>2. ConfigInv' /\ BarsInv'
      BY <1>1, <1>2 DEF ConfigInv, BarsInv, Sees
    <2>3. QED
      BY <2>1, <2>2
  <1>11. WorkersInv'
    <2> SUFFICES ASSUME NEW w \in Workers PROVE WorkerInv(w)' /\ CacheInv(w)'
      BY DEF WorkersInv
    <2>1. Mine(w)' = {}
      <3>1. \A n \in DOMAIN study : study[n].by # <<command.number + 1, w>>
        BY <1>8
      <3>2. QED
        BY <1>2, <1>3, <3>1 DEF Mine
    <2>2. OnBudget(w)'
      <3>1. Open(w)' = {}
        BY <2>1 DEF Open
      <3>2. IsFiniteSet({}) /\ Cardinality({}) = 0
        BY FS_EmptySet
      <3>3. 0 + Share(w)' = Share(w)' + 0
        BY <1>4
      <3>4. QED
        BY <1>5, <2>1, <3>1, <3>2, <3>3 DEF OnBudget, Busy
    <2>3. WorkerInv(w)'
      BY <1>3, <1>5, <2>2 DEF WorkerInv, AtWork, Busy, Alive
    <2>4. CacheInv(w)'
      <3>1. cache'[w] = NoEntry /\ now' = now /\ command'.began = now
        BY <1>2, <1>3
      <3>2. QED
        BY <1>1, <3>1 DEF CacheInv
    <2>5. QED
      BY <2>3, <2>4
  <1>12. DoneInv'
    BY <1>3 DEF DoneInv
  <1>13. QED
    BY <1>6, <1>9, <1>10, <1>11, <1>12 DEF IInv

LEMMA JoinStep == ASSUME IInv, Join PROVE IInv'
  <1>1. /\ TypeOK /\ TrialsInv /\ MadeInv /\ ConfigInv /\ BarsInv /\ WorkersInv
        /\ UNCHANGED <<disk, now, worker, cache, study, runs>>
        /\ command.phase = "running" /\ \A w \in Workers : worker[w].at = "exited"
    BY DEF IInv, Join, outside
  <1>2. /\ command' \in Commands /\ command'.number = command.number
        /\ command'.config = command.config /\ command'.began = command.began
        /\ command'.phase \in {"failed", "done"}
        /\ command'.phase = "done" =>
             summary' = Summarised /\ \A w \in Workers : worker[w].ok
    <2> DEFINE to == IF \A w \in Workers : worker[w].ok THEN "done" ELSE "failed"
    <2>1. \/ command' = [command EXCEPT !.phase = "failed"]
          \/ summary' = Summarised /\ command' = [command EXCEPT !.phase = to]
      BY DEF Join
    <2>2. to \in {"failed", "done"} /\ (to = "done" => \A w \in Workers : worker[w].ok)
      OBVIOUS
    <2> HIDE DEF to
    <2>3. command \in Commands
      BY <1>1 DEF TypeOK
    <2>4. QED
      BY <2>1, <2>2, <2>3 DEF Commands
  <1>3. TypeOK' /\ TrialsInv' /\ MadeInv' /\ ConfigInv' /\ BarsInv'
    <2>1. TypeOK'
      BY <1>1, <1>2 DEF TypeOK
    <2>2. TrialsInv' /\ MadeInv'
      BY <1>1, <1>2 DEF TrialsInv, MadeInv
    <2>3. ConfigInv' /\ BarsInv'
      BY <1>1, <1>2 DEF ConfigInv, BarsInv, Sees
    <2>4. QED
      BY <2>1, <2>2, <2>3
  <1>4. WorkersInv'
    <2> SUFFICES ASSUME NEW w \in Workers PROVE WorkerInv(w)' /\ CacheInv(w)'
      BY DEF WorkersInv
    <2>1. Mine(w)' = Mine(w) /\ Open(w)' = Open(w) /\ Share(w)' = Share(w)
      BY <1>1, <1>2 DEF Mine, Open, Finished, Share
    <2>2. OnBudget(w)'
      BY <1>1, <2>1 DEF WorkersInv, WorkerInv, OnBudget
    <2>3. WorkerInv(w)'
      BY <1>1, <2>2 DEF WorkersInv, WorkerInv, AtWork, Busy
    <2>4. CacheInv(w)'
      BY <1>1, <1>2 DEF WorkersInv, CacheInv
    <2>5. QED
      BY <2>3, <2>4
  <1>5. DoneInv'
    <2>1. Summarised' = Summarised
      BY <1>1 DEF Summarised, States
    <2>2. QED
      BY <1>1, <1>2, <2>1 DEF DoneInv
  <1>6. QED
    BY <1>3, <1>4, <1>5 DEF IInv

\* The workers of a command that is killed have what they had.
LEMMA CommandKilledStep == ASSUME IInv, CommandKilled PROVE IInv'
  <1>1. /\ TypeOK /\ TrialsInv /\ MadeInv /\ ConfigInv /\ BarsInv /\ WorkersInv
        /\ UNCHANGED <<disk, now, worker, cache, study, runs>>
        /\ command.phase = "running" /\ command \in Commands
        /\ command' = [command EXCEPT !.phase = "killed"]
    BY DEF IInv, TypeOK, CommandKilled, outside
  <1>2. /\ command' \in Commands /\ command'.number = command.number
        /\ command'.config = command.config /\ command'.began = command.began
        /\ command'.phase = "killed"
    BY <1>1 DEF Commands
  <1>3. TypeOK' /\ TrialsInv'
    BY <1>1, <1>2 DEF TypeOK, TrialsInv
  <1>4. MadeInv' /\ ConfigInv' /\ BarsInv'
    BY <1>1, <1>2 DEF MadeInv, ConfigInv, BarsInv, Sees
  <1>5. WorkersInv'
    <2> SUFFICES ASSUME NEW w \in Workers PROVE WorkerInv(w)' /\ CacheInv(w)'
      BY DEF WorkersInv
    <2>1. Mine(w)' = Mine(w) /\ Open(w)' = Open(w) /\ Share(w)' = Share(w)
      BY <1>1, <1>2 DEF Mine, Open, Finished, Share
    <2>2. OnBudget(w)'
      BY <1>1, <2>1 DEF WorkersInv, WorkerInv, OnBudget
    <2>3. AtWork(w)'
      BY <1>1, <1>2 DEF WorkersInv, WorkerInv, AtWork, RunsOf, Sees
    <2>4. WorkerInv(w)'
      BY <1>1, <1>2, <2>2, <2>3 DEF WorkersInv, WorkerInv, Alive
    <2>5. CacheInv(w)'
      BY <1>1, <1>2 DEF WorkersInv, CacheInv
    <2>6. QED
      BY <2>4, <2>5
  <1>6. DoneInv'
    BY <1>2 DEF DoneInv
  <1>7. QED
    BY <1>3, <1>4, <1>5, <1>6 DEF IInv

\* Time only passes.
LEMMA OutsideStep == ASSUME IInv, EditConfig \/ Tick \/ UNCHANGED vars PROVE IInv'
  <1>1. /\ UNCHANGED <<command, worker, cache, study, runs, summary>>
        /\ disk' \in Configs /\ now' \in Int /\ now <= now'
    BY DEF IInv, TypeOK, EditConfig, Tick, vars, outside
  <1>2. TypeOK' /\ TrialsInv' /\ MadeInv' /\ ConfigInv' /\ BarsInv'
    <2>1. TypeOK'
      BY <1>1 DEF IInv, TypeOK
    <2>2. TrialsInv' /\ MadeInv'
      BY <1>1 DEF IInv, TrialsInv, MadeInv
    <2>3. ConfigInv' /\ BarsInv'
      BY <1>1 DEF IInv, ConfigInv, BarsInv, Sees
    <2>4. QED
      BY <2>1, <2>2, <2>3
  <1>3. WorkersInv'
    <2> SUFFICES ASSUME NEW w \in Workers PROVE WorkerInv(w)' /\ CacheInv(w)'
      BY DEF WorkersInv
    <2>1. WorkerInv(w) /\ CacheInv(w) /\ now \in Int /\ command.began \in Int
      BY DEF IInv, WorkersInv, TypeOK, Commands
    <2>2. Mine(w)' = Mine(w) /\ Open(w)' = Open(w) /\ Share(w)' = Share(w)
      BY <1>1 DEF Mine, Open, Finished, Share
    <2>3. OnBudget(w)'
      BY <1>1, <2>1, <2>2 DEF WorkerInv, OnBudget
    <2>4. AtWork(w)'
      BY <1>1, <2>1 DEF WorkerInv, AtWork, RunsOf, Sees
    <2>5. WorkerInv(w)'
      BY <1>1, <2>1, <2>3, <2>4 DEF Alive, WorkerInv
    <2>6. CacheInv(w)'
      BY <1>1, <2>1 DEF CacheInv
    <2>7. QED
      BY <2>5, <2>6
  <1>4. DoneInv'
    <2>1. Summarised' = Summarised
      BY <1>1 DEF Summarised, States
    <2>2. QED
      BY <1>1, <2>1 DEF IInv, DoneInv
  <1>5. QED
    BY <1>2, <1>3, <1>4 DEF IInv
LEMMA InitIInv == ASSUME Init PROVE IInv
  <1>1. disk \in Configs /\ now \in Int
    <2>1. now \in 0..MaxNow => now \in Int
      OBVIOUS
    <2>2. QED
      BY <2>1 DEF Init
  <1>2. Gone \in Processes /\ NoEntry \in Entries
    BY DEF Gone, Processes, NoEntry, Entries
  <1>3. command \in Commands /\ command.phase = "idle" /\ command.began = 0
    BY <1>1 DEF Init, Commands
  <1>4. TypeOK
    BY <1>1, <1>2, <1>3 DEF Init, TypeOK
  <1>5. TrialsInv /\ MadeInv /\ ConfigInv /\ BarsInv /\ DoneInv
    BY <1>3 DEF Init, TrialsInv, MadeInv, ConfigInv, BarsInv, DoneInv
  <1>6. WorkersInv
    <2> SUFFICES ASSUME NEW w \in Workers PROVE WorkerInv(w) /\ CacheInv(w)
      BY DEF WorkersInv
    <2>1. worker[w] = Gone /\ cache[w] = NoEntry /\ 0 <= now
      BY DEF Init
    <2>2. worker[w].at = "exited" /\ worker[w].left = 0
      BY <2>1 DEF Gone
    <2>3. WorkerInv(w)
      BY <1>3, <2>2 DEF WorkerInv, AtWork, OnBudget, Busy
    <2>4. CacheInv(w)
      BY <1>3, <2>1 DEF CacheInv
    <2>5. QED
      BY <2>3, <2>4
  <1>7. QED
    BY <1>4, <1>5, <1>6 DEF IInv

-----------------------------------------------------------------------------
(* The theorems. *)

\* The invariant of a study is inductive, whatever its processes do and in
\* whatever order: each worker keeps its own part, and no step of another
\* worker, of the command or of the files disturbs it.
THEOREM Inductive == Spec => []IInv
  <1>1. Init => IInv
    BY InitIInv
  <1>2. IInv /\ [Next]_vars => IInv'
    <2> SUFFICES ASSUME IInv, [Next]_vars PROVE IInv'
      OBVIOUS
    <2>1. CASE Start
      BY <2>1, StartStep
    <2>2. CASE Join
      BY <2>2, JoinStep
    <2>3. CASE EditConfig \/ Tick \/ UNCHANGED vars
      BY <2>3, OutsideStep
    <2>4. CASE \E w \in Workers : Work(w) \/ Killed(w)
      BY <2>4, WorkStep
    <2>5. CASE CommandKilled
      BY <2>5, CommandKilledStep
    <2>6. QED
      BY <2>1, <2>2, <2>3, <2>4, <2>5 DEF Next
  <1>3. QED
    BY <1>1, <1>2, PTL DEF Spec

\* Every variable of a study keeps to its type.
THEOREM TypeCorrect == Spec => []TypeOK
  <1>1. IInv => TypeOK
    BY DEF IInv
  <1>2. QED
    BY <1>1, Inductive, PTL

\* A completed trial is linked to its own completed run, and every run is made
\* under the configuration that the command whose trial it tests resolved
\* (_trial_objective, _optimize_worker).
THEOREM RunsAreLinked == Spec => []RunsLinked
  <1>1. IInv => RunsLinked
    BY DEF IInv, TrialsInv, ConfigInv, RunsLinked
  <1>2. QED
    BY <1>1, Inductive, PTL

\* Every run saw all the bars of its trial's window that existed when its
\* command began, and no other (BarsCache.__call__).
THEOREM BarsAreComplete == Spec => []BarsComplete
  <1>1. IInv => BarsComplete
    BY DEF IInv, BarsInv, Sees, BarsComplete
  <1>2. QED
    BY <1>1, Inductive, PTL

\* Induction over the numbers, where the statement is the set of those it holds of.
LEMMA NumberInduction ==
  ASSUME NEW S, 0 \in S, \A n \in Nat : n \in S => n + 1 \in S
  PROVE  Nat \subseteq S
  <1> SUFFICES ASSUME NEW T, T = Nat \ S, T # {}  PROVE FALSE
    OBVIOUS
  <1>1. PICK n \in T : \A m \in T : ~(<<m, n>> \in OpToRel(<, Nat))
    <2>1. T \subseteq Nat
      OBVIOUS
    <2>2. QED
      BY <2>1, NatLessThanWellFounded, WFMin, Zenon
  <1>2. \A m \in T : ~(m < n)
    BY <1>1, Zenon DEF OpToRel
  <1>3. QED
    BY <1>2

\* Some trial is the best of any: among finitely many, the first of those with
\* the highest score (summarize).
LEMMA BestExists ==
  ASSUME study \in Seq(Trials), NEW S \in SUBSET DOMAIN study, S # {}
  PROVE  \E n \in S : \A m \in S :
           study[m].score < study[n].score \/ (study[m].score = study[n].score /\ n <= m)
  <1> DEFINE Beats(n, m) ==
               study[m].score < study[n].score \/ (study[m].score = study[n].score /\ n <= m)
             UpTo(k) == S \cap (1..k)
             P == {k \in Nat : UpTo(k) # {} => \E n \in UpTo(k) : \A m \in UpTo(k) : Beats(n, m)}
  <1>1. DOMAIN study = 1..Len(study) /\ Len(study) \in Nat
    BY DomainType
  <1>2. \A n \in S : n \in Nat /\ study[n].score \in Int
    <2>1. \A n \in DOMAIN study : n \in Nat /\ study[n] \in Trials
      BY DomainType
    <2>2. QED
      BY <2>1 DEF Trials
  <1>3. \A a, b, c \in S : Beats(a, b) /\ Beats(b, c) => Beats(a, c)
    BY <1>2
  <1>4. \A a, b \in S : Beats(a, b) \/ Beats(b, a)
    BY <1>2
  <1>5. 0 \in P
    OBVIOUS
  <1>6. ASSUME NEW k \in Nat, k \in P PROVE k + 1 \in P
    <2> HIDE DEF Beats
    <2> SUFFICES ASSUME UpTo(k + 1) # {}
                 PROVE  \E n \in UpTo(k + 1) : \A m \in UpTo(k + 1) : Beats(n, m)
      OBVIOUS
    <2>1. CASE k + 1 \notin S
      <3>1. UpTo(k + 1) = UpTo(k)
        BY <2>1
      <3>2. QED
        BY <1>6, <3>1
    <2>2. CASE k + 1 \in S
      <3>1. UpTo(k + 1) = UpTo(k) \cup {k + 1}
        BY <2>2
      <3>2. CASE UpTo(k) = {}
        BY <1>4, <2>2, <3>1, <3>2
      <3>3. CASE UpTo(k) # {}
        <4>1. PICK n \in UpTo(k) : \A m \in UpTo(k) : Beats(n, m)
          BY <1>6, <3>3
        <4>2. Beats(n, n) /\ Beats(k + 1, k + 1) /\ (Beats(n, k + 1) \/ Beats(k + 1, n))
          BY <1>4, <2>2
        <4>3. Beats(k + 1, n) => \A m \in UpTo(k) : Beats(k + 1, m)
          BY <1>3, <2>2, <4>1
        <4> HIDE DEF UpTo
        <4>4. QED
          BY <3>1, <4>1, <4>2, <4>3
      <3>4. QED
        BY <3>2, <3>3
    <2>3. QED
      BY <2>1, <2>2
  <1>7. Len(study) \in P
    <2> HIDE DEF P
    <2>1. Nat \subseteq P
      BY <1>5, <1>6, NumberInduction
    <2>2. QED
      BY <1>1, <2>1
  <1>8. UpTo(Len(study)) = S
    BY <1>1
  <1>9. QED
    BY <1>7, <1>8

\* The sets of an interval of workers, up to one of them.
UpTo(F, k) == UNION {F[w] : w \in 0..(k - 1)}

LEMMA DisjointCardinality ==
  ASSUME NEW S, NEW T, IsFiniteSet(S), IsFiniteSet(T), S \cap T = {}
  PROVE  IsFiniteSet(S \cup T) /\ Cardinality(S \cup T) = Cardinality(S) + Cardinality(T)
  <1>1. /\ IsFiniteSet(S \cup T)
        /\ Cardinality(S \cup T) = Cardinality(S) + Cardinality(T) - Cardinality(S \cap T)
    BY FS_Union
  <1>2. Cardinality(S \cap T) = 0
    BY FS_EmptySet
  <1>3. Cardinality(S) \in Nat /\ Cardinality(T) \in Nat
    BY FS_CardinalityType
  <1>4. QED
    BY <1>1, <1>2, <1>3

\* The shares of the workers add up to the whole: what remains of the division
\* goes to the first of them, one each (_split_trials).
THEOREM SharesAddUp ==
  ASSUME NEW all \in Nat, NEW n \in Nat, NEW k \in 1..all, NEW F,
         \A w \in 0..(all - 1) :
           /\ IsFiniteSet(F[w])
           /\ Cardinality(F[w]) = IF w < k THEN SplitTrials(n, k)[w] ELSE 0,
         \A v, w \in 0..(all - 1) : v # w => F[v] \cap F[w] = {}
  PROVE  Cardinality(UpTo(F, all)) = n
  <1> DEFINE base  == n \div k
             extra == n % k
  <1>1. base \in Nat /\ extra \in 0..(k - 1) /\ n = k * base + extra /\ k \in Nat \ {0}
    BY QuotientType
  <1>2. \A w \in 0..(k - 1) : SplitTrials(n, k)[w] = base + (IF w < extra THEN 1 ELSE 0)
    BY DEF SplitTrials
  <1> HIDE DEF base, extra
  <1> DEFINE upTo(j) == IF j <= k THEN j * base + (IF j <= extra THEN j ELSE extra)
                                  ELSE k * base + extra
             P == {j \in Nat : j <= all => /\ IsFiniteSet(UpTo(F, j))
                                           /\ Cardinality(UpTo(F, j)) = upTo(j)}
  <1>3. 0 \in P
    <2>1. UpTo(F, 0) = {}
      BY DEF UpTo
    <2>2. 0 * base = 0
      BY <1>1
    <2>3. upTo(0) = 0
      BY <1>1, <2>2
    <2>4. QED
      BY <2>1, <2>3, FS_EmptySet
  <1>4. ASSUME NEW j \in Nat, j \in P PROVE j + 1 \in P
    <2> SUFFICES ASSUME j + 1 <= all
                 PROVE  IsFiniteSet(UpTo(F, j + 1)) /\ Cardinality(UpTo(F, j + 1)) = upTo(j + 1)
      OBVIOUS
    <2>1. IsFiniteSet(UpTo(F, j)) /\ Cardinality(UpTo(F, j)) = upTo(j)
      BY <1>4
    <2>2. UpTo(F, j + 1) = UpTo(F, j) \cup F[j]
      <3>1. 0..((j + 1) - 1) = (0..(j - 1)) \cup {j}
        OBVIOUS
      <3>2. QED
        BY <3>1 DEF UpTo
    <2>3. UpTo(F, j) \cap F[j] = {}
      <3>1. \A w \in 0..(j - 1) : w \in 0..(all - 1) /\ j \in 0..(all - 1) /\ w # j
        OBVIOUS
      <3>2. \A w \in 0..(j - 1) : F[w] \cap F[j] = {}
        BY <3>1
      <3>3. QED
        BY <3>2 DEF UpTo
    <2>4. /\ IsFiniteSet(F[j])
          /\ Cardinality(F[j]) = IF j < k THEN base + (IF j < extra THEN 1 ELSE 0) ELSE 0
      BY <1>2
    <2>5. IsFiniteSet(UpTo(F, j + 1))
          /\ Cardinality(UpTo(F, j + 1)) = upTo(j) + Cardinality(F[j])
      BY <2>1, <2>2, <2>3, <2>4, DisjointCardinality
    <2>6. (j + 1) * base = j * base + base /\ j * base \in Nat /\ k * base \in Nat
      BY <1>1, Z3
    <2>7. upTo(j) + Cardinality(F[j]) = upTo(j + 1)
      <3> DEFINE x == j * base
                 y == (j + 1) * base
                 z == k * base
      <3>1. x \in Nat /\ z \in Nat /\ y = x + base /\ (j = k => x = z) /\ (j + 1 = k => y = z)
        BY <2>6
      <3> HIDE DEF x, y, z
      <3>2. /\ upTo(j) = IF j <= k THEN x + (IF j <= extra THEN j ELSE extra) ELSE z + extra
            /\ upTo(j + 1) = IF j + 1 <= k THEN y + (IF j + 1 <= extra THEN j + 1 ELSE extra)
                                           ELSE z + extra
        BY DEF x, y, z
      <3> HIDE DEF upTo
      <3>3. QED
        BY <1>1, <2>4, <3>1, <3>2
    <2>8. QED
      BY <2>5, <2>7
  <1>5. all \in P
    <2> HIDE DEF P
    <2>1. Nat \subseteq P
      BY <1>3, <1>4, NumberInduction
    <2>2. QED
      BY <2>1
  <1>6. upTo(all) = n
    <2>1. all = k => all * base = k * base
      OBVIOUS
    <2>2. k <= all /\ ~(k <= extra)
      BY <1>1
    <2>3. QED
      BY <1>1, <2>1, <2>2
  <1>7. QED
    BY <1>5, <1>6

\* A command that ends well has told its trials, no more and no less; the
\* summary counts each once and names a run none beats; and a worker at work
\* has no trial open but the one it is at, whatever failed or was killed in
\* between (_split_trials, study.optimize, summarize).
THEOREM BudgetIsKept == Spec => []BudgetKept
  <1>1. ASSUME IInv, command.phase = "done"
        PROVE  /\ Cardinality(UNION {Mine(w) : w \in Workers}) = command.config.nTrials
               /\ \A w \in Workers, n \in DOMAIN study : n \in Mine(w) => Finished(n)
    <2> DEFINE all == Cardinality(Workers)
               F   == [w \in Workers |-> Mine(w)]
    <2>1. /\ all \in Nat /\ Workers = 0..(all - 1)
          /\ command.config.workers \in 1..all /\ command.config.nTrials \in Nat
      BY <1>1, WorkersType, ConfigsAssumption DEF IInv, TypeOK, Commands
    <2>2. ASSUME NEW w \in Workers
          PROVE  /\ IsFiniteSet(Mine(w)) /\ Open(w) = {} /\ Cardinality(Mine(w)) = Share(w)
      <3>1. /\ worker[w].at = "exited" /\ worker[w].ok /\ worker[w].left = 0
            /\ OnBudget(w) /\ TypeOK
        BY <1>1 DEF IInv, DoneInv, WorkersInv, WorkerInv
      <3>2. IsFiniteSet(Mine(w)) /\ Open(w) = {} /\ Cardinality(Mine(w)) + 0 = Share(w) + 0
        BY <1>1, <3>1 DEF OnBudget, Busy
      <3>3. Cardinality(Mine(w)) \in Nat /\ Share(w) \in Nat
        BY <3>1, <3>2, FS_CardinalityType, ShareType
      <3>4. QED
        BY <3>2, <3>3
    <2>3. \A v, w \in Workers : v # w => Mine(v) \cap Mine(w) = {}
      BY DEF Mine
    <2>4. Cardinality(UpTo(F, all)) = command.config.nTrials
      <3> DEFINE n == command.config.nTrials
                 k == command.config.workers
      <3>1. \A w \in 0..(all - 1) :
              /\ IsFiniteSet(F[w])
              /\ Cardinality(F[w]) = IF w < k THEN SplitTrials(n, k)[w] ELSE 0
        BY <2>1, <2>2 DEF Share
      <3>2. \A v, w \in 0..(all - 1) : v # w => F[v] \cap F[w] = {}
        BY <2>1, <2>3
      <3>3. all \in Nat /\ n \in Nat /\ k \in 1..all
        BY <2>1
      <3> HIDE DEF all, F, n, k
      <3>4. Cardinality(UpTo(F, all)) = n
        BY <3>1, <3>2, <3>3, SharesAddUp
      <3>5. QED
        BY <3>4 DEF n
    <2>5. UpTo(F, all) = UNION {Mine(w) : w \in Workers}
      BY <2>1 DEF UpTo
    <2>6. \A w \in Workers, n \in DOMAIN study : n \in Mine(w) => Finished(n)
      BY <2>2 DEF Open
    <2>7. QED
      BY <2>4, <2>5, <2>6
  <1>2. ASSUME IInv, command.phase = "done"
        PROVE  /\ summary.complete + summary.failed + Cardinality(States("running")) = Len(study)
               /\ summary.best # NoTrial =>
                    /\ study[summary.best].run # 0
                    /\ \A n \in States("complete") : study[n].score <= study[summary.best].score
    <2>1. summary = Summarised /\ study \in Seq(Trials) /\ TrialsInv
      BY <1>2 DEF IInv, DoneInv, TypeOK
    <2>2. DOMAIN study = 1..Len(study) /\ Len(study) \in Nat
          /\ \A n \in DOMAIN study : n \in Nat /\ study[n].state \in States3 /\ study[n].score \in Int
      <3>1. \A n \in DOMAIN study : n \in Nat /\ study[n] \in Trials
        BY <2>1
      <3>2. QED
        BY <2>1, <3>1 DEF Trials
    <2>3. IsFiniteSet(DOMAIN study) /\ Cardinality(DOMAIN study) = Len(study)
      BY <2>2, FS_Interval
    <2>4. \A s : IsFiniteSet(States(s))
      BY <2>3, FS_Subset DEF States
    <2>5. Cardinality(States("complete")) + Cardinality(States("fail"))
            + Cardinality(States("running")) = Len(study)
      <3> DEFINE two == States("complete") \cup States("fail")
      <3>1. States("complete") \cap States("fail") = {} /\ two \cap States("running") = {}
            /\ two \cup States("running") = DOMAIN study
        BY <2>2 DEF States, States3
      <3>2. IsFiniteSet(two)
            /\ Cardinality(two) = Cardinality(States("complete")) + Cardinality(States("fail"))
        BY <2>4, <3>1, DisjointCardinality
      <3> HIDE DEF two
      <3>3. Cardinality(DOMAIN study) = Cardinality(two) + Cardinality(States("running"))
        BY <2>4, <3>1, <3>2, DisjointCardinality
      <3>4. QED
        BY <2>3, <3>2, <3>3
    <2>6. summary.complete = Cardinality(States("complete"))
          /\ summary.failed = Cardinality(States("fail"))
      BY <2>1 DEF Summarised
    <2>7. ASSUME summary.best # NoTrial
          PROVE  /\ study[summary.best].run # 0
                 /\ \A n \in States("complete") : study[n].score <= study[summary.best].score
      <3> DEFINE Best(n) == \A m \in States("complete") :
                   study[m].score < study[n].score \/ (study[m].score = study[n].score /\ n <= m)
      <3>1. States("complete") # {}
            /\ summary.best = CHOOSE n \in States("complete") : Best(n)
        BY <2>1, <2>7 DEF Summarised
      <3>2. \E n \in States("complete") : Best(n)
        <4>1. States("complete") \in SUBSET DOMAIN study
          BY DEF States
        <4>2. QED
          BY <2>1, <3>1, <4>1, BestExists
      <3>3. summary.best \in States("complete") /\ Best(summary.best)
        <4> HIDE DEF Best
        <4>1. QED
          BY <3>1, <3>2
      <3>4. study[summary.best].run # 0
        BY <2>1, <3>3 DEF TrialsInv, States
      <3>5. \A n \in States("complete") : study[n].score <= study[summary.best].score
        <4>1. \A n \in States("complete") : study[n].score \in Int
          BY <2>2 DEF States
        <4>2. QED
          BY <3>3, <4>1
      <3>6. QED
        BY <3>4, <3>5
    <2>8. QED
      BY <2>5, <2>6, <2>7
  <1>3. ASSUME IInv, NEW w \in Workers, worker[w].at \notin {"exited", "resolve"}
        PROVE  {n \in Mine(w) : ~Finished(n)} =
                 (IF worker[w].at = "idle" THEN {} ELSE {worker[w].trial})
    <2>1. /\ worker[w].ok /\ command.phase # "idle" /\ OnBudget(w)
          /\ worker[w] \in Processes
      BY <1>3 DEF IInv, TypeOK, WorkersInv, WorkerInv, Alive
    <2>2. worker[w].at \in Busy <=> worker[w].at # "idle"
      BY <1>3, <2>1 DEF Processes, Busy
    <2>3. QED
      BY <2>1, <2>2 DEF OnBudget, Open
  <1>4. IInv => BudgetKept
    BY <1>1, <1>2, <1>3 DEF BudgetKept
  <1>5. QED
    BY <1>4, Inductive, PTL
=============================================================================
