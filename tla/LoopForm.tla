------------------------------ MODULE LoopForm ------------------------------
(***************************************************************************)
(* The backtest-loop form of the terminal front end.  Its choices depend   *)
(* on one another (a root lists snapshots, a snapshot has buckets, a       *)
(* profile has artifacts), and the loop may be started only with the       *)
(* arguments a preview has validated.  The preview is a command run by a   *)
(* worker thread, cancellable and bounded in time; the UI thread polls it  *)
(* once per frame.                                                         *)
(*                                                                         *)
(* Data: a text field is usable or not (iterations a positive number, the  *)
(* starts not empty); the fields no other depends on (periods, label,      *)
(* verbosity) are left out.  A snapshot always knows its earliest training *)
(* start.  The temporary overrides are a value that TuiApp owns.           *)
(***************************************************************************)
EXTENDS Integers, SequencesExt

CONSTANTS
  Roots, Profiles, Snapshots, Buckets, Artifacts,
  RootSnapshots,    \* the snapshots that exist under each root
  SnapshotBuckets,  \* the published buckets of each snapshot
  ProfileArtifacts, \* the artifacts under each profile's artifact root
  NoChoice,         \* the empty text of a field
  MaxJobs           \* bound: preview workers alive at one time

ASSUME JobsAssumption == MaxJobs \in Nat \ {0}

VARIABLES
  form,         \* the values of the fields
  cursor,       \* index into the visible fields
  loaded,       \* the first refresh has run
  snapshots,    \* the catalogue last read, also the options of snapshot
  bucketOpts, artifactOpts,
  preview,      \* the arguments the preview on show is of, or NoChoice
  previewArgs,  \* the arguments the form remembers for it
  pendingArgs,  \* the arguments of the preview under way
  previewJob,   \* its worker, or 0
  jobs          \* the workers

fieldVars == <<form, cursor, loaded, snapshots, bucketOpts, artifactOpts>>
previewVars == <<preview, previewArgs, pendingArgs, previewJob, jobs>>
loopVars == <<fieldVars, previewVars>>

Fields == <<"profile", "iterations", "train", "trainStart", "artifact", "start",
            "root", "snapshot", "allBuckets", "bucket">>

Free == [stage |-> "free", child |-> "none", cancelled |-> "no",
         args |-> NoChoice, result |-> "none"]

InitialForm == [profile |-> CHOOSE p \in Profiles : TRUE, iterations |-> TRUE, start |-> FALSE,
                train |-> FALSE, trainStart |-> FALSE, artifact |-> NoChoice,
                root |-> CHOOSE r \in Roots : RootSnapshots[r] # {},
                snapshot |-> NoChoice, allBuckets |-> FALSE, bucket |-> NoChoice]

LoopInit ==
  /\ form = InitialForm /\ cursor = 1 /\ loaded = FALSE
  /\ snapshots = {} /\ bucketOpts = {} /\ artifactOpts = {}
  /\ preview = NoChoice /\ previewArgs = NoChoice /\ pendingArgs = NoChoice
  /\ previewJob = 0 /\ jobs = [j \in 1..MaxJobs |-> Free]

----------------------------------------------------------------------------
(* Fields.                                                                 *)

IsVisible(f, field) ==
  /\ field = "trainStart" => f.train
  /\ field \in {"artifact", "start"} => ~f.train
  /\ field = "bucket" => ~f.allBuckets

Visible(f) == SelectSeq(Fields, LAMBDA field : IsVisible(f, field))

\* args: the visible fields, and the overrides.
LoopArgs(f, overrides) ==
  [field \in ToSet(Visible(f)) \ {"root"} |-> f[field]] @@ [set |-> overrides]

\* check_required
Complete(f) ==
  /\ f.iterations /\ f.snapshot # NoChoice
  /\ ~f.allBuckets => f.bucket # NoChoice
  /\ IF f.train THEN f.trainStart ELSE f.start /\ f.artifact # NoChoice

KeepValid(value, options) == IF value \in options THEN value ELSE NoChoice

\* prefill_train_start: a snapshot knows the earliest start.
Prefilled(f, catalogue) ==
  [f EXCEPT !.trainStart = @ \/ (f.train /\ f.snapshot \in catalogue)]

BucketsAt(f, catalogue) ==
  IF f.snapshot \in catalogue THEN SnapshotBuckets[f.snapshot] ELSE {}

\* load_buckets, after f.snapshot or the catalogue has changed.
WithBuckets(f, catalogue) ==
  Prefilled([f EXCEPT !.bucket = KeepValid(@, BucketsAt(f, catalogue))], catalogue)

----------------------------------------------------------------------------
(* The preview's worker (JsonCommand).                                     *)

FreeJobs == {j \in DOMAIN jobs : jobs[j].stage = "free"}

\* Dropping a job sends its worker the cancel message and kills the child
\* when its process id is known.
Dropped(j) ==
  IF j = 0 THEN jobs
  ELSE [jobs EXCEPT ![j] =
         IF @.stage = "done" THEN Free
         ELSE IF @.stage = "spawning" THEN [@ EXCEPT !.cancelled = "early", !.args = NoChoice]
         ELSE [@ EXCEPT !.cancelled = "known", !.args = NoChoice,
                        !.child = IF @ = "alive" THEN "killed" ELSE @]]

\* invalidate (and cancel_preview): forget the preview and drop its job.
Invalidate ==
  /\ jobs' = Dropped(previewJob)
  /\ previewJob' = 0 /\ pendingArgs' = NoChoice
  /\ preview' = NoChoice /\ previewArgs' = NoChoice

CancelPreview ==
  /\ previewJob # 0
  /\ jobs' = Dropped(previewJob)
  /\ previewJob' = 0 /\ pendingArgs' = NoChoice
  /\ UNCHANGED <<fieldVars, preview, previewArgs>>

\* A worker that ends sends its result, or finds nobody to take it.
Finished(j, result) ==
  jobs' = [jobs EXCEPT ![j] =
            IF @.cancelled # "no" THEN Free
            ELSE [@ EXCEPT !.stage = "done", !.result = result, !.child = "none"]]

JobSpawns(j) ==
  /\ jobs[j].stage = "spawning" /\ jobs[j].child = "none"
  /\ \/ jobs' = [jobs EXCEPT ![j].child = "alive"]
     \/ Finished(j, "error")

JobStoresPid(j) ==
  /\ jobs[j].stage = "spawning" /\ jobs[j].child # "none"
  /\ jobs' = [jobs EXCEPT ![j].stage = "watching"]

\* The loop looks for a cancel message, at the clock, and at the child: it
\* kills the child, or takes the answer of one that has ended.
JobWatches(j) ==
  /\ jobs[j].stage = "watching"
  /\ \/ Finished(j, "error")
     \/ jobs[j].cancelled = "no" /\ jobs[j].child = "alive" /\ Finished(j, "valid")

JobNext ==
  /\ \E j \in DOMAIN jobs :
       JobSpawns(j) \/ JobStoresPid(j) \/ JobWatches(j)
  /\ UNCHANGED <<fieldVars, preview, previewArgs, pendingArgs, previewJob>>

----------------------------------------------------------------------------
(* The UI thread's calls.                                                  *)

\* request_preview: what was shown is forgotten even if a field is missing.
RequestPreview(overrides) ==
  /\ IF Complete(form)
     THEN LET args == LoopArgs(form, overrides)
          IN \E j \in FreeJobs :
               /\ \A k \in FreeJobs : j <= k
               /\ jobs' = [jobs EXCEPT ![j] =
                             [Free EXCEPT !.stage = "spawning", !.args = args]]
               /\ previewJob' = j /\ pendingArgs' = args
     ELSE UNCHANGED jobs /\ previewJob' = 0 /\ pendingArgs' = NoChoice
  /\ preview' = NoChoice /\ previewArgs' = NoChoice
  /\ UNCHANGED fieldVars

\* Mutant of PollPreview: the frame does not drop what has become stale.
PollPreviewAnyway(overrides) ==
  LET ready == previewJob # 0 /\ jobs[previewJob].stage = "done"
      valid == ready /\ jobs[previewJob].result = "valid"
  IN /\ preview' = IF valid THEN jobs[previewJob].args ELSE preview
     /\ previewArgs' = IF valid THEN pendingArgs ELSE previewArgs
     /\ previewJob' = IF ready THEN 0 ELSE previewJob
     /\ pendingArgs' = IF ready THEN NoChoice ELSE pendingArgs
     /\ jobs' = IF ready THEN [jobs EXCEPT ![previewJob] = Free] ELSE jobs

\* poll_preview followed by invalidate_if_changed: the frame's work on jobs.
PollPreview(overrides) ==
  LET ready == previewJob # 0 /\ jobs[previewJob].stage = "done"
      valid == ready /\ jobs[previewJob].result = "valid"
      shown == IF valid THEN jobs[previewJob].args ELSE preview
      known == IF valid THEN pendingArgs ELSE previewArgs
      args == LoopArgs(form, overrides)
      stale == \/ shown # NoChoice /\ args # known
               \/ previewJob # 0 /\ ~ready /\ args # pendingArgs
  IN /\ preview' = IF stale THEN NoChoice ELSE shown
     /\ previewArgs' = IF stale THEN NoChoice ELSE known
     /\ previewJob' = IF stale \/ ready THEN 0 ELSE previewJob
     /\ pendingArgs' = IF stale \/ ready THEN NoChoice ELSE pendingArgs
     /\ jobs' = IF ready THEN [jobs EXCEPT ![previewJob] = Free]
                ELSE IF stale THEN Dropped(previewJob) ELSE jobs

\* ready_args
Ready(overrides) ==
  /\ Complete(form)
  /\ preview # NoChoice /\ LoopArgs(form, overrides) = previewArgs

\* refresh: read the catalogue, then resolve the profile; either may fail,
\* and a failed refresh clears every dependent choice.
Refresh(catalogues) ==
  /\ loaded' = TRUE /\ Invalidate /\ UNCHANGED cursor
  /\ \/ \E found \in catalogues[form.root] :
          LET kept == [form EXCEPT !.snapshot = KeepValid(@, found),
                                   !.artifact = KeepValid(@, ProfileArtifacts[form.profile])]
          IN /\ snapshots' = found
             /\ form' = WithBuckets(kept, found)
             /\ bucketOpts' = BucketsAt(kept, found)
             /\ artifactOpts' = ProfileArtifacts[form.profile]
     \/ \E found \in catalogues[form.root] \cup {{}} :
          \* the catalogue could not be read (as if none found), or the profile
          LET kept == WithBuckets([form EXCEPT !.snapshot = KeepValid(@, found)], found)
          IN /\ snapshots' = {}
             /\ form' = [kept EXCEPT !.snapshot = NoChoice, !.bucket = NoChoice,
                                     !.artifact = NoChoice]
             /\ bucketOpts' = {} /\ artifactOpts' = {}

\* What a key can turn a field into.
NewValues(field) ==
  CASE field \in {"train", "allBuckets"} -> {~form[field]}
    [] field \in {"iterations", "start", "trainStart"} -> BOOLEAN
    [] field = "root" -> Roots
    [] field = "profile" -> Profiles
    [] field = "snapshot" -> snapshots
    [] field = "bucket" -> bucketOpts
    [] field = "artifact" -> artifactOpts

\* Up and Down, pressed until the cursor is at a field that is edited.
MoveCursor(edited) ==
  /\ cursor' \in {i \in DOMAIN Visible(form) : Visible(form)[i] \in edited}
  /\ UNCHANGED <<form, loaded, snapshots, bucketOpts, artifactOpts, previewVars>>

\* edit: the field under the cursor changes, and what depends on it.
Edit(edited) ==
  LET field == Visible(form)[cursor]
  IN field \in edited /\ \E value \in NewValues(field) \ {form[field]} :
       LET set == [form EXCEPT ![field] = value]
           new == CASE field = "snapshot" ->
                         WithBuckets([set EXCEPT !.bucket = NoChoice], snapshots)
                    [] field = "train" -> Prefilled(set, snapshots)
                    [] field = "root" ->
                         [set EXCEPT !.snapshot = NoChoice, !.bucket = NoChoice]
                    [] field = "profile" -> [set EXCEPT !.artifact = NoChoice]
                    [] OTHER -> set
       IN /\ form' = new
          /\ snapshots' = IF field = "root" THEN {} ELSE snapshots
          /\ bucketOpts' = CASE field = "root" -> {}
                             [] field = "snapshot" -> BucketsAt(new, snapshots)
                             [] OTHER -> bucketOpts
          /\ artifactOpts' = IF field = "profile" THEN {} ELSE artifactOpts
          /\ cursor' = IF cursor > Len(Visible(new)) THEN Len(Visible(new)) ELSE cursor
          /\ Invalidate /\ UNCHANGED loaded
=============================================================================
