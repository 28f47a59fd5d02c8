--------------------------- MODULE CommandRunner ---------------------------
(***************************************************************************)
(* The terminal front end runs one command at a time.  The command is a    *)
(* tree of two processes (uv and its Python child); two pump threads copy  *)
(* its standard output and standard error, line by line, into a channel;   *)
(* the UI thread drains the channel into a bounded pane, reaps the child   *)
(* once both streams have closed, and may cancel it at any moment.         *)
(*                                                                         *)
(* The UI thread's calls (Start, Poll, Cancel, Shutdown, ScrollBy) are     *)
(* composed by TuiApp, which decides when the UI thread makes them; the    *)
(* steps of the processes and of the pumps are Processes and Pumps.        *)
(***************************************************************************)
EXTENDS Integers, SequencesExt

CONSTANTS
  Capacity,    \* MAX_LINES: the pane drops its oldest lines beyond this
  Viewport,    \* height of the pane
  MaxWrites    \* bound: lines the command writes to each stream

ASSUME CapacityAssumption == Capacity \in Nat \ {0}
ASSUME ViewportAssumption == Viewport \in Nat \ {0}
ASSUME WritesAssumption == MaxWrites \in Nat

VARIABLES
  uv,          \* the tree's leader: "none", "alive", "closing", "gone"
  python,      \* its child: "none", "alive", "gone"
  exit,        \* how uv ended: "none", "ok", "bad", "signal"
  written,     \* lines written to each stream
  pumped,      \* lines its pump has sent
  eof,         \* the streams whose pump has sent EOF
  channel,     \* messages sent and not yet received
  running,     \* Runner.running is Some
  openStreams, \* streams still to report EOF
  lines,       \* the pane
  status,      \* Runner.status
  scroll       \* first visible line, or Follow

procVars == <<uv, python, exit, written>>
pumpVars == <<pumped, eof>>
paneVars == <<running, openStreams, lines, status, scroll>>
runnerVars == <<procVars, pumpVars, channel, paneVars>>

Streams == {"out", "err"}
Follow == -1
Header == <<"cmd", 0>>
Footer(s) == <<s, 0>>
Line(s, n) == <<s, n>>
Eof == <<"eof", 0>>
Ended == {"Succeeded", "Failed", "Cancelled"}

RunnerInit ==
  /\ uv = "none" /\ python = "none" /\ exit = "none"
  /\ written = [s \in Streams |-> 0] /\ pumped = [s \in Streams |-> 0]
  /\ eof = {} /\ channel = <<>>
  /\ running = FALSE /\ openStreams = 0
  /\ lines = <<>> /\ status = "Idle" /\ scroll = Follow

----------------------------------------------------------------------------
(* The processes and the pump threads.                                     *)

\* A program writes a line while it lives.
Writes(s) ==
  /\ python = "alive" /\ written[s] < MaxWrites
  /\ written' = [written EXCEPT ![s] = @ + 1]
  /\ UNCHANGED <<uv, python, exit, pumpVars, channel, paneVars>>

\* Python ends by itself; uv then ends with its code.
PythonEnds(code) ==
  /\ python = "alive"
  /\ python' = "gone"
  /\ exit' = code
  /\ UNCHANGED <<uv, written, pumpVars, channel, paneVars>>

\* An exiting process closes its files before it can be reaped.
UvEnds ==
  /\ \/ uv = "alive" /\ python = "gone" /\ uv' = "closing"
     \/ uv = "closing" /\ uv' = "gone"
  /\ UNCHANGED <<python, exit, written, pumpVars, channel, paneVars>>

\* pump: forward the next line of a stream.
PumpLine(s) ==
  /\ pumped[s] < written[s]
  /\ pumped' = [pumped EXCEPT ![s] = @ + 1]
  /\ channel' = Append(channel, Line(s, pumped[s] + 1))
  /\ UNCHANGED <<procVars, eof, paneVars>>

\* Mutant of PumpEof: only the standard output reports its end.
PumpEofOutOnly(s) ==
  /\ s = "out"
  /\ uv \in {"closing", "gone"} /\ python = "gone"
  /\ s \notin eof /\ pumped[s] = written[s]
  /\ eof' = eof \cup {s}
  /\ channel' = Append(channel, Eof)
  /\ UNCHANGED <<procVars, pumped, paneVars>>

\* pump: the stream is read to its end and every process holding it is gone.
PumpEof(s) ==
  /\ uv \in {"closing", "gone"} /\ python = "gone"
  /\ s \notin eof /\ pumped[s] = written[s]
  /\ eof' = eof \cup {s}
  /\ channel' = Append(channel, Eof)
  /\ UNCHANGED <<procVars, pumped, paneVars>>

Processes ==
  \/ \E s \in Streams : Writes(s)
  \/ \E code \in {"ok", "bad"} : PythonEnds(code)
  \/ UvEnds

Pumps == \E s \in Streams : PumpLine(s) \/ PumpEof(s)

----------------------------------------------------------------------------
(* The UI thread's calls.                                                  *)

\* push_lines: what the pane keeps after ls, and where its view then starts.
Excess(ls) == IF Len(ls) > Capacity THEN Len(ls) - Capacity ELSE 0
Kept(ls) == SubSeq(ls, Excess(ls) + 1, Len(ls))
Shifted(view, ls) ==
  IF view = Follow THEN Follow
  ELSE IF view > Excess(ls) THEN view - Excess(ls) ELSE 0

\* start / spawn: refused while a command runs; may fail to spawn.
StartOk ==
  /\ ~running
  /\ uv' = "alive" /\ python' = "alive" /\ exit' = "none"
  /\ written' = [s \in Streams |-> 0] /\ pumped' = [s \in Streams |-> 0]
  /\ eof' = {} /\ channel' = <<>>
  /\ running' = TRUE /\ openStreams' = 2
  /\ lines' = <<Header>> /\ status' = "Running" /\ scroll' = Follow

\* The lines among the messages of a channel, in their order.
Received(messages) ==
  FoldLeft(LAMBDA got, m : IF m = Eof THEN got ELSE Append(got, m), <<>>, messages)

EndStatus == IF exit = "ok" THEN "Succeeded" ELSE "Failed"

\* Mutant of Poll: the child is reaped as soon as it has ended.
PollReapingEarly ==
  IF ~running THEN UNCHANGED runnerVars
  ELSE LET fresh == Received(channel)
           shown == Kept(lines \o fresh)
           final == IF status = "Cancelled" THEN status ELSE EndStatus
       IN /\ channel' = <<>>
          /\ openStreams' = openStreams - (Len(channel) - Len(fresh))
          /\ running' = (uv # "gone")
          /\ status' = IF uv = "gone" THEN final ELSE status
          /\ lines' = IF uv = "gone" THEN Kept(Append(shown, Footer(final))) ELSE shown
          /\ UNCHANGED <<procVars, pumpVars, scroll>>

\* poll: drain the channel; reap the child once both streams have closed.
Poll ==
  IF ~running THEN UNCHANGED runnerVars
  ELSE LET fresh == Received(channel)
           open == openStreams - (Len(channel) - Len(fresh))
           over == open = 0 /\ uv = "gone"
           final == IF status = "Cancelled" THEN status ELSE EndStatus
           shown == Kept(lines \o fresh)
           ended == Append(shown, Footer(final))
       IN /\ channel' = <<>>
          /\ openStreams' = open
          /\ running' = ~over
          /\ status' = IF over THEN final ELSE status
          /\ lines' = IF over THEN Kept(ended) ELSE shown
          /\ scroll' = LET view == Shifted(scroll, lines \o fresh)
                       IN IF over THEN Shifted(view, ended) ELSE view
          /\ UNCHANGED <<procVars, pumpVars>>

\* kill_tree on the command's group: it ends every process, or it fails.
Kill ==
  /\ uv' = IF uv = "alive" THEN "closing" ELSE uv
  /\ python' = "gone"
  /\ exit' = IF uv = "alive" THEN "signal" ELSE exit
  /\ UNCHANGED written
KillFails == UNCHANGED procVars

\* cancel: an error leaves the status; a group that is gone is no error.
Cancel ==
  /\ running
  /\ \/ Kill /\ status' = "Cancelled"
     \/ KillFails /\ status' = IF uv = "gone" THEN "Cancelled" ELSE status
  /\ UNCHANGED <<pumpVars, channel, running, openStreams, lines, scroll>>

\* shutdown: take the child and kill it, whatever that returns; the caller
\* then waits for uv.
Shutdown ==
  /\ IF running THEN Kill \/ KillFails ELSE UNCHANGED procVars
  /\ running' = FALSE
  /\ UNCHANGED <<pumpVars, channel, openStreams, lines, status, scroll>>

MaxTop == IF Len(lines) > Viewport THEN Len(lines) - Viewport ELSE 0
Top == IF scroll = Follow \/ scroll > MaxTop THEN MaxTop ELSE scroll

\* scroll_by, with the destination clamped to the pane; the bottom follows.
ScrollBy(delta) ==
  LET at == (IF scroll = Follow THEN MaxTop ELSE scroll) + delta
      next == IF at < 0 THEN 0 ELSE IF at > MaxTop THEN MaxTop ELSE at
  IN /\ scroll' = IF next >= MaxTop THEN Follow ELSE next
     /\ UNCHANGED <<procVars, pumpVars, channel, running, openStreams, lines, status>>

----------------------------------------------------------------------------
(* Properties.                                                             *)

\* Where the pane shows lines of one stream.
OfStream(s) == {i \in DOMAIN lines : lines[i][1] = s}
Total == 2 + written["out"] + written["err"]

\* When a command is over the pane holds everything it wrote, each stream in
\* the order it was written, less only the oldest lines beyond the capacity,
\* and ends with a status that tells how the command ended.  The child's
\* exit, two pump threads and the UI thread race to get there.
OutputComplete ==
  status \in Ended /\ ~running =>
    /\ Last(lines) = Footer(status)
    /\ Len(lines) = IF Total > Capacity THEN Capacity ELSE Total
    /\ \A s \in Streams :
         /\ \E first \in 1..(written[s] + 1) :
              {lines[i][2] : i \in OfStream(s)} = first..written[s]
         /\ \A i, j \in OfStream(s) : i < j => lines[i][2] < lines[j][2]
    /\ status = "Succeeded" => exit = "ok"
    /\ status = "Failed" => exit \in {"bad", "signal"}

=============================================================================
