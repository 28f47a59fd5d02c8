------------------------------- MODULE TuiApp -------------------------------
(***************************************************************************)
(* The terminal front end as a whole.  The UI thread repeats a frame: it   *)
(* takes at most one key, polls the runner, and either quits or refreshes  *)
(* (polls the loop form's preview, drops it if it is stale, loads the      *)
(* screen that is shown).  Between its steps the processes and threads of  *)
(* CommandRunner and LoopForm run.                                         *)
(*                                                                         *)
(* Calls of the CLI that the UI waits for (resolve, validate, list) are    *)
(* answered at once, and may fail at any time.  A configuration is the     *)
(* function from its leaves to values (ConfigMerge); whether it is valid   *)
(* is the constant Conflicts.  Not modelled: the status line (so whether   *)
(* an unloaded config screen retries in a frame is left open), help, the   *)
(* config tree's expansion state, layout and wording.                      *)
(***************************************************************************)
EXTENDS CommandRunner, LoopForm, ConfigMerge

CONSTANTS
  Commands,        \* the catalog, a sequence
  Confirmed,       \* the commands that ask for a confirmation
  Profiled,        \* the commands that take --set overrides
  Filters,         \* filter text to the commands it matches
  NoFilter,
  Lower,           \* each profile's configuration without promoted values
  Paper,           \* PAPER_PROFILE
  Conflicts,       \* sets of leaf values no valid configuration contains
  Values,          \* what a leaf may be edited to, no mapping
  Tours            \* bound: what one user does: the screens visited with Tab,
                   \* the fields and leaves edited, what each root may
                   \* be found to list, the commands started, the lines each
                   \* then writes to a stream

Leaves == UNION {DOMAIN Lower[p] : p \in DOMAIN Lower}

\* The profiles that ship (config/base.yaml and what extends it) are laid out
\* alike: one has leaves below another's leaf only in an atomic mapping, which
\* the paper profile leaves empty.
ASSUME PaperAssumption == Paper \in DOMAIN Lower
ASSUME LeavesAssumption ==
  /\ Leaves \subseteq Paths
  /\ \A p, q \in Leaves : Below(p, q) =>
       q \notin DOMAIN Lower[Paper] /\ \E a \in Atomic : AtOrBelow(a, p)

VARIABLES
  turn,            \* "key": the frame may take a key; "tick": it took one
  screen, modal, shouldQuit,
  over,            \* the UI: "no", "waiting" for the killed child, "yes"
  listCursor, filter, filtering, focus, spec, ready,   \* Commands screen
  command,         \* what the runner runs, or ran last
  configProfile, config, overrides,                    \* Config screen
  source, changes, selected, promoted, promLoaded,     \* Promote screen
  layer,           \* the promoted layer's file
  tour, starts

uiVars == <<screen, modal, shouldQuit, over>>
cmdVars == <<listCursor, filter, filtering, focus, spec, ready>>
startVars == <<command, starts>>
cfgVars == <<configProfile, config, overrides>>
promVars == <<source, changes, selected, promoted, promLoaded, layer>>
vars == <<turn, uiVars, cmdVars, startVars, cfgVars, promVars, tour, runnerVars, loopVars>>

Screens == <<"Commands", "Config", "Promote", "BacktestLoop", "Output">>
NoModal == [kind |-> "none"]
NoConfig == [profile |-> NoChoice, leaves |-> NoLeaves]

Init ==
  /\ RunnerInit /\ LoopInit
  /\ turn = "key" /\ screen = "Commands" /\ modal = NoModal
  /\ shouldQuit = FALSE /\ over = "no"
  /\ listCursor = 1 /\ filter = NoFilter /\ filtering = FALSE /\ focus = "List"
  /\ spec = Commands[1] /\ ready = FALSE
  /\ command = NoChoice /\ starts = 0
  /\ configProfile = "backtest" /\ config = NoConfig /\ overrides = NoLeaves
  /\ source = "backtest" /\ changes = NoLeaves /\ selected = {} /\ promoted = NoLeaves
  /\ promLoaded = FALSE /\ layer = NoLeaves
  /\ tour \in Tours

----------------------------------------------------------------------------
(* What the CLI answers.                                                   *)

HasPart(cfg, part) == \A p \in DOMAIN part : p \in DOMAIN cfg /\ cfg[p] = part[p]
Valid(cfg) == \A bad \in Conflicts : ~HasPart(cfg, bad)

Config(profile, set) ==
  Merged(IF profile = Paper THEN Merged(Lower[Paper], layer) ELSE Lower[profile], set)

Resolves(profile, set) == profile \in DOMAIN Lower /\ Valid(Config(profile, set))

----------------------------------------------------------------------------
(* Keys.                                                                   *)

Key(s) == turn = "key" /\ turn' = "tick" /\ over = "no" /\ screen = s /\ modal = NoModal
NoStart == UNCHANGED <<startVars, runnerVars>>

\* start: the runner refuses while a command runs.
Start(args) ==
  \/ /\ StartOk /\ starts < tour.starts
     /\ starts' = starts + 1 /\ command' = args /\ screen' = "Output"
  \/ NoStart /\ UNCHANGED screen   \* already running, or uv cannot be spawned

Tab ==
  /\ Key(screen)
  /\ LET at == CHOOSE i \in DOMAIN Screens : Screens[i] = screen
         onTour(i) == Screens[i] \in tour.screens
         next == {(at % Len(Screens)) + 1, ((at + 3) % Len(Screens)) + 1}
     IN \E i \in IF \E n \in next : onTour(n) THEN next ELSE DOMAIN Screens :
          onTour(i) /\ i # at /\ screen' = Screens[i]
  /\ UNCHANGED <<modal, shouldQuit, over, cmdVars, cfgVars, promVars, tour, loopVars>>
  /\ NoStart

\* q, where it is not text; Ctrl-C anywhere.
Quit ==
  /\ turn = "key" /\ turn' = "tick" /\ over = "no" /\ ~shouldQuit
  /\ shouldQuit' = TRUE
  /\ UNCHANGED <<screen, modal, over, cmdVars, cfgVars, promVars, tour, loopVars>>
  /\ NoStart

\* modal_key: Esc (or n) leaves a prompt or confirmation without effect.
Dismiss ==
  /\ turn = "key" /\ turn' = "tick" /\ over = "no" /\ modal # NoModal
  /\ modal' = NoModal
  /\ UNCHANGED <<screen, shouldQuit, over, cmdVars, cfgVars, promVars, tour, loopVars>>
  /\ NoStart

\* perform(Run)
AcceptRun ==
  /\ turn = "key" /\ turn' = "tick" /\ over = "no" /\ modal.kind = "run"
  /\ modal' = NoModal /\ Start(modal.args)
  /\ UNCHANGED <<shouldQuit, over, cmdVars, cfgVars, promVars, tour, loopVars>>

----------------------------------------------------------------------------
(* Commands screen.                                                        *)

Filtered(f) == SelectSeq(Commands, LAMBDA c : f = NoFilter \/ c \in Filters[f])

\* sync_form: a fresh form when another command is highlighted.
SyncForm(f, at) ==
  IF at > Len(Filtered(f)) \/ Filtered(f)[at] = spec
  THEN UNCHANGED <<spec, ready>>
  ELSE spec' = Filtered(f)[at] /\ ready' = FALSE

CommandsRest ==
  /\ UNCHANGED <<shouldQuit, over, cfgVars, promVars, tour, loopVars>>

\* move_command
MoveCommand ==
  /\ Key("Commands") /\ "list" \in tour.fields /\ ~filtering /\ focus = "List"
  /\ Filtered(filter) # <<>>
  /\ \E delta \in {-1, 1} :
       LET to == listCursor + delta
           last == Len(Filtered(filter))
       IN listCursor' = IF to < 1 THEN 1 ELSE IF to > last THEN last ELSE to
  /\ SyncForm(filter, listCursor')
  /\ UNCHANGED <<screen, modal, filter, filtering, focus>> /\ CommandsRest /\ NoStart

\* '/' clears the filter; typing narrows it and moves to the first match.
Filter ==
  /\ Key("Commands") /\ "list" \in tour.fields /\ focus = "List"
  /\ \/ /\ ~filtering /\ filtering' = TRUE /\ filter' = NoFilter
        /\ UNCHANGED <<listCursor, spec, ready>>
     \/ /\ filtering /\ \E f \in DOMAIN Filters \cup {NoFilter} : filter' = f
        /\ listCursor' = 1 /\ SyncForm(filter', 1) /\ UNCHANGED filtering
     \/ filtering /\ filtering' = FALSE /\ UNCHANGED <<filter, listCursor, spec, ready>>
  /\ UNCHANGED <<screen, modal, focus>> /\ CommandsRest /\ NoStart

\* enter_form, its prefilling included; Esc leaves.
EnterForm ==
  /\ Key("Commands") /\ "form" \in tour.fields /\ ~filtering
  /\ \/ focus = "List" /\ focus' = "Form" /\ SyncForm(filter, listCursor)
     \/ focus = "Form" /\ focus' = "List" /\ UNCHANGED <<spec, ready>>
  /\ UNCHANGED <<screen, modal, listCursor, filter, filtering>> /\ CommandsRest /\ NoStart

\* form_key: editing fills (or empties) a required field.
EditForm ==
  /\ Key("Commands") /\ "form" \in tour.fields /\ ~filtering /\ focus = "Form"
  /\ ready' = ~ready
  /\ UNCHANGED <<screen, modal, listCursor, filter, filtering, focus, spec>>
  /\ CommandsRest /\ NoStart

FormArgs == [cmd |-> spec, set |-> IF spec \in Profiled THEN overrides ELSE NoLeaves]

\* submit_form
SubmitForm ==
  /\ Key("Commands") /\ "form" \in tour.fields /\ ~filtering /\ focus = "Form" /\ ready
  /\ IF spec \in Confirmed
     THEN modal' = [kind |-> "run", from |-> "form", args |-> FormArgs]
          /\ NoStart /\ UNCHANGED screen
     ELSE Start(FormArgs) /\ UNCHANGED modal
  /\ UNCHANGED cmdVars /\ CommandsRest

----------------------------------------------------------------------------
(* Backtest Loop screen.                                                   *)

LoopRest == UNCHANGED <<modal, shouldQuit, over, cmdVars, cfgVars, promVars, tour>>

LoopKey ==
  /\ Key("BacktestLoop") /\ LoopRest /\ NoStart
  /\ \/ (CancelPreview \/ Refresh(tour.found) \/ MoveCursor(tour.fields) \/ Edit(tour.fields)) /\ UNCHANGED screen
     \/ /\ ~(previewJob # 0) /\ ~running /\ ~Ready(overrides)
        /\ RequestPreview(overrides) /\ UNCHANGED screen
     \/ /\ screen' = "Commands"   \* Esc
        /\ CancelPreview \/ (previewJob = 0 /\ UNCHANGED loopVars)

\* Enter, once the schedule on show is that of the current settings.
LoopStart ==
  /\ Key("BacktestLoop") /\ previewJob = 0 /\ ~running /\ Ready(overrides)
  /\ modal' = [kind |-> "run", from |-> "loop", args |-> LoopArgs(form, overrides)]
  /\ UNCHANGED <<screen, shouldQuit, over, cmdVars, cfgVars, promVars, tour, loopVars>>
  /\ NoStart

----------------------------------------------------------------------------
(* Config screen.                                                          *)

\* load_config with the new profile and overrides; any call may fail.
LoadConfig(profile, set) ==
  \/ Resolves(profile, set) /\ config' = [profile |-> profile, leaves |-> Config(profile, set)]
  \/ config' = NoConfig

ConfigKey == Key("Config")
ConfigRest ==
  /\ UNCHANGED <<screen, shouldQuit, over, cmdVars, promVars, tour, loopVars>>
  /\ NoStart

ReloadConfig ==
  /\ ConfigKey /\ LoadConfig(configProfile, overrides)
  /\ UNCHANGED <<modal, configProfile, overrides>> /\ ConfigRest

\* p, e and s open a prompt.
OpenPrompt ==
  /\ \/ /\ ConfigKey /\ config # NoConfig
        /\ \/ "profile" \in tour.fields /\ modal' = [kind |-> "profile"]
           \/ \E p \in DOMAIN config.leaves \cap tour.leaves : modal' = [kind |-> "leaf", path |-> p]
     \/ Key("Promote") /\ modal' = [kind |-> "source"]
  /\ UNCHANGED cfgVars /\ ConfigRest

Prompted(kind) ==
  /\ turn = "key" /\ turn' = "tick" /\ over = "no" /\ modal.kind = kind
  /\ UNCHANGED <<screen, shouldQuit, over, cmdVars, tour, loopVars>> /\ NoStart

\* submit_input(ConfigProfile)
SwitchProfile ==
  /\ Prompted("profile") /\ modal' = NoModal
  /\ \E profile \in Profiles :
       configProfile' = profile /\ LoadConfig(profile, overrides)
  /\ UNCHANGED <<overrides, promVars>>

\* apply_override: kept only if the profile validates with it.  The overrides
\* are passed in the order of their paths, so that _nested refuses one below
\* another.
ApplyOverride ==
  /\ Prompted("leaf") /\ UNCHANGED <<configProfile, promVars>>
  /\ \E value \in Values :
       LET candidate == [p \in DOMAIN overrides \cup {modal.path} |->
                           IF p = modal.path THEN value ELSE overrides[p]]
       IN \/ /\ Nestable(candidate) /\ Resolves(configProfile, candidate)
             /\ overrides' = candidate /\ modal' = NoModal
             /\ LoadConfig(configProfile, candidate)
          \/ UNCHANGED <<overrides, modal, config>>   \* rejected: the prompt reopens

\* d drops the selected leaf's override, D all of them.
DropOverrides ==
  /\ ConfigKey /\ config # NoConfig
  /\ \/ \E p \in DOMAIN config.leaves \cap DOMAIN overrides :
          overrides' = [q \in DOMAIN overrides \ {p} |-> overrides[q]]
     \/ overrides' = NoLeaves
  /\ LoadConfig(configProfile, overrides')
  /\ UNCHANGED <<modal, configProfile>> /\ ConfigRest

----------------------------------------------------------------------------
(* Promote screen.                                                         *)

\* changes: the source's leaves that the target does not have with that value.
Changes(left, right) ==
  [p \in {q \in DOMAIN left : q \notin DOMAIN right \/ right[q] # left[q]} |-> left[p]]

\* promote::load(..).unwrap_or_default(): what the layer promotes or, when the
\* front end cannot read or parse what the CLI could, nothing.
Loaded(file) == {file, NoLeaves}

\* reload_promotion from a source, with the layer file as it is by then.
Reload(from, file) ==
  LET paper == Merged(Lower[Paper], file)
  IN /\ promLoaded' = TRUE
     /\ \/ /\ from \in DOMAIN Lower /\ Valid(paper)
           /\ LET left == IF from = Paper THEN Merged(paper, overrides)
                          ELSE Config(from, overrides)
              IN Valid(left) /\ changes' = Changes(left, paper)
           /\ promoted' \in Loaded(file)
        \/ changes' = NoLeaves /\ UNCHANGED promoted
     /\ selected' = {}

PromoteRest ==
  /\ UNCHANGED <<screen, shouldQuit, over, cmdVars, tour, loopVars>> /\ NoStart

ReloadPromotion ==
  /\ Key("Promote") /\ Reload(source, layer)
  /\ UNCHANGED <<modal, cfgVars, source, layer>> /\ PromoteRest

SwitchSource ==
  /\ Prompted("source") /\ modal' = NoModal
  /\ \E from \in Profiles : source' = from /\ Reload(from, layer)
  /\ UNCHANGED <<cfgVars, layer>>

\* Space ticks one change, a all or none.
Select ==
  /\ Key("Promote")
  /\ \/ \E p \in DOMAIN changes :
          selected' = IF p \in selected THEN selected \ {p} ELSE selected \cup {p}
     \/ selected' = IF selected = DOMAIN changes THEN {} ELSE DOMAIN changes
  /\ UNCHANGED <<modal, cfgVars, source, changes, promoted, promLoaded, layer>> /\ PromoteRest

ConfirmPromotion ==
  /\ Key("Promote") /\ selected # {} /\ modal' = [kind |-> "promote"]
  /\ UNCHANGED <<cfgVars, promVars>> /\ PromoteRest

\* Mutant of MergedPromotion: only the selected values are written.
SelectedOnly == [p \in selected |-> changes[p]]

\* merge: promoted values stay unless a selected one is theirs, above or below.
MergedPromotion ==
  [p \in selected \cup {q \in DOMAIN promoted :
                          \A s \in selected : ~Below(q, s) /\ ~Below(s, q)} |->
     IF p \in selected THEN changes[p] ELSE promoted[p]]

\* apply_promotion: validate the paper profile with the values set on top,
\* then replace the layer by them, and reload what is on show.
ApplyPromotion ==
  /\ turn = "key" /\ turn' = "tick" /\ over = "no" /\ modal.kind = "promote"
  /\ modal' = NoModal /\ UNCHANGED <<configProfile, overrides, source>>
  /\ \/ /\ Nestable(MergedPromotion) /\ Resolves(Paper, MergedPromotion)
        /\ layer' = MergedPromotion
        /\ Reload(source, layer')
        /\ IF config = NoConfig THEN UNCHANGED config
           ELSE LET at == [p \in DOMAIN Lower |->
                             IF p = Paper THEN Merged(Lower[p], layer') ELSE Lower[p]]
                    cfg == Merged(at[configProfile], overrides)
                IN \/ Valid(cfg) /\ config' = [profile |-> configProfile, leaves |-> cfg]
                   \/ config' = NoConfig
     \/ UNCHANGED <<layer, config, changes, selected, promoted, promLoaded>>
  /\ PromoteRest

----------------------------------------------------------------------------
(* Output screen.                                                          *)

OutputKey ==
  /\ Key("Output")
  /\ \/ Cancel
     \/ \E delta \in {-1, 1, -Viewport, Viewport} : ScrollBy(delta)
  /\ UNCHANGED <<screen, modal, shouldQuit, over, cmdVars, startVars, cfgVars, promVars,
                 tour, loopVars>>

----------------------------------------------------------------------------
(* The frame.                                                              *)

\* refresh, after the runner was polled.
Tick ==
  /\ over = "no" /\ ~shouldQuit /\ turn' = "key"
  /\ Poll
  /\ IF screen = "BacktestLoop" /\ ~loaded THEN Refresh(tour.found)   \* no preview exists yet
     ELSE PollPreview(overrides) /\ UNCHANGED fieldVars
  /\ IF screen = "Config" /\ config = NoConfig
     THEN LoadConfig(configProfile, overrides)
     ELSE UNCHANGED config
  /\ IF screen = "Promote" /\ ~promLoaded
     THEN Reload(source, layer) /\ UNCHANGED <<source, layer>>
     ELSE UNCHANGED promVars
  /\ UNCHANGED <<uiVars, cmdVars, startVars, configProfile, overrides, tour>>

\* should_quit: cancel the preview, kill the command's tree...
Leave ==
  /\ over = "no" /\ shouldQuit /\ turn' = "tick"
  /\ Shutdown
  /\ CancelPreview \/ (previewJob = 0 /\ UNCHANGED loopVars)
  /\ over' = IF running THEN "waiting" ELSE "yes"
  /\ UNCHANGED <<screen, modal, shouldQuit, cmdVars, startVars, cfgVars, promVars, tour>>

\* ... and wait for uv.
Left ==
  /\ over = "waiting" /\ uv = "gone"
  /\ over' = "yes"
  /\ UNCHANGED <<turn, screen, modal, shouldQuit, cmdVars, startVars, cfgVars, promVars,
                 tour, runnerVars, loopVars>>

Keys ==
  \/ Tab \/ Quit \/ Dismiss \/ AcceptRun
  \/ MoveCommand \/ Filter \/ EnterForm \/ EditForm \/ SubmitForm
  \/ LoopKey \/ LoopStart
  \/ ReloadConfig \/ OpenPrompt \/ SwitchProfile \/ ApplyOverride \/ DropOverrides
  \/ ReloadPromotion \/ SwitchSource \/ Select \/ ConfirmPromotion \/ ApplyPromotion
  \/ OutputKey

Frame == Tick \/ Leave \/ Left

\* The front end's threads end with it; the processes do not.
Background ==
  \/ Processes /\ (\A s \in Streams : written'[s] <= tour.writes) /\ UNCHANGED loopVars
  \/ Pumps /\ over # "yes" /\ UNCHANGED loopVars
  \/ JobNext /\ over # "yes" /\ UNCHANGED runnerVars

Next ==
  \/ Keys
  \/ Frame
  \/ Background /\ UNCHANGED <<turn, uiVars, cmdVars, startVars, cfgVars, promVars, tour>>

\* The UI loop keeps turning, the pumps run, and a dying process dies.
Fairness ==
  /\ WF_vars(Frame)
  /\ WF_vars((UvEnds \/ (Pumps /\ over # "yes"))
             /\ UNCHANGED <<turn, uiVars, cmdVars, startVars, cfgVars, promVars, tour, loopVars>>)

Spec == Init /\ [][Next]_vars /\ Fairness
----------------------------------------------------------------------------
(* Properties.                                                             *)

\* What OutputComplete says, until the front end is left.
OutputKept == over = "no" => OutputComplete

\* A loop is started with exactly the arguments the schedule on show was
\* validated for, and with the settings the form and the overrides still
\* have: an edit, a refresh, a changed override or a late answer of an
\* earlier preview never slips between the review and the start.
StartedAsReviewed ==
  /\ turn = "key" /\ preview # NoChoice =>
       preview = previewArgs /\ preview = LoopArgs(form, overrides)
  /\ modal.kind = "run" /\ modal.from = "loop" =>
       modal.args = preview /\ modal.args = LoopArgs(form, overrides)

\* A promotion makes every selected value the paper profile's.  It also leaves
\* the profile valid as a whole and keeps every value promoted before that the
\* selection does not replace, unless the layer that promotes them could not be
\* read when the changes on offer were computed: then they are all lost, and
\* what was validated with them is written without them.
PromotionSafe ==
  [][layer' # layer =>
       LET paper == Merged(Lower[Paper], layer')
       IN /\ \A p \in selected : paper[p] = changes[p]
          /\ promoted # NoLeaves \/ layer = NoLeaves =>
               /\ Valid(paper)
               /\ \A p \in DOMAIN layer :
                    \/ p \in DOMAIN layer' /\ (p \notin selected => layer'[p] = layer[p])
                    \/ \E s \in selected : Below(p, s) \/ Below(s, p)]_vars

\* A cancelled command whose processes are dead is reported as ended, and
\* quitting ends once they are dead, whatever the streams still hold.
CancelledEnds ==
  /\ (status = "Cancelled" /\ python = "gone") ~> ~running
  /\ (shouldQuit /\ python # "alive") ~> (over = "yes")
=============================================================================
