---------------------------- MODULE ControlCentre ----------------------------
(***************************************************************************)
(* The two terminal front ends and the commands they start: the console     *)
(* (indexer_control.py, CommandRunner and ControlCenter) and the full       *)
(* screen one (indexer_tui.py, ProcessRunner and IndexerTuiApp). Both keep  *)
(* one process at a time, read its output in a thread and show it later.    *)
(*                                                                         *)
(* The console forgets a process when its user loop polls it. On the full   *)
(* screen the reader thread does, while the user may already have started   *)
(* the next one: what goes wrong then is kept apart by "overtaken".         *)
(***************************************************************************)
EXTENDS Naturals, Sequences, FiniteSets

CONSTANTS
  Commands,    \* the processes that may be started, in any order
  NoCommand,   \* the runner's process is None
  Stoppers,    \* tui: the threads of stop_async, a bound on those at work
  MaxLines     \* bound on the lines a process writes

ASSUME ControlAssumption == NoCommand \notin Commands /\ MaxLines \in Nat

VARIABLES
  frontEnd,   \* "tui" or "console"
  child,      \* state of each process
  orphans,    \* processes that are over and left workers of their pool behind
  written,    \* how many lines it wrote
  pipe,       \* those the reader has not read
  process,    \* the runner's process
  reader,     \* for each command the thread started with it
  queue,      \* lines on their way from the readers to the user
  shown,      \* the log on the screen
  stopping,   \* tui: a stop with its grace period is under way
  stopper,    \* tui: what each thread that stops does
  user,       \* what the user's thread does
  overtaken   \* history: a command was started before the last reader ended

vars == <<frontEnd, child, orphans, written, pipe, process, reader, queue, shown,
          stopping, stopper, user, overtaken>>

(* With the program its threads are gone. *)
Lives == user.at # "gone"

Alive(c) == child[c] \in {"running", "asked", "killed"}
Running  == process # NoCommand /\ Alive(process)

Note(kind, c, n) == [kind |-> kind, command |-> c, number |-> n]

Idle == [at |-> "none", of |-> NoCommand]

ReaderOver == {"none", "done", "dead"}
AllReadersOver == \A c \in Commands : reader[c].at \in ReaderOver

Init ==
  /\ frontEnd \in {"tui", "console"}
  /\ child = [c \in Commands |-> "new"] /\ orphans = {}
  /\ written = [c \in Commands |-> 0] /\ pipe = [c \in Commands |-> <<>>]
  /\ process = NoCommand
  /\ reader = [c \in Commands |-> [at |-> "none", of |-> NoCommand]]
  /\ queue = <<>> /\ shown = <<>>
  /\ stopping = FALSE /\ stopper = [s \in Stoppers |-> Idle]
  /\ user = [at |-> "at_screen", of |-> NoCommand]
  /\ overtaken = FALSE

-----------------------------------------------------------------------------
(* The processes. One that was asked to exit may take its time. Only the    *)
(* parent is asked and killed: the workers that it forked may go on, write, *)
(* and keep the pipe open, for ever if need be.                            *)

Write(c) ==
  /\ child[c] \in {"running", "asked"} \/ c \in orphans
  /\ written[c] < MaxLines
  /\ written' = [written EXCEPT ![c] = written[c] + 1]
  /\ pipe' = [pipe EXCEPT ![c] = Append(pipe[c], Note("line", c, written[c] + 1))]
  /\ UNCHANGED <<frontEnd, child, orphans, process, reader, queue, shown, stopping, stopper,
                 user, overtaken>>

Exit(c) ==
  /\ Alive(c)
  /\ child' = [child EXCEPT ![c] = "exited"]
  /\ \/ UNCHANGED orphans
     \/ child[c] \in {"asked", "killed"} /\ orphans' = orphans \union {c}
  /\ UNCHANGED <<frontEnd, written, pipe, process, reader, queue, shown, stopping,
                 stopper, user, overtaken>>

WorkersEnd(c) ==
  /\ c \in orphans /\ orphans' = orphans \ {c}
  /\ UNCHANGED <<frontEnd, child, written, pipe, process, reader, queue, shown, stopping,
                 stopper, user, overtaken>>

Asked(c)  == [child EXCEPT ![c] = IF child[c] = "running" THEN "asked" ELSE child[c]]
Killed(c) == [child EXCEPT ![c] = IF Alive(c) THEN "killed" ELSE child[c]]

-----------------------------------------------------------------------------
(* start: the reader thread begins with whatever process the runner has     *)
(* when it first runs.                                                     *)

ConsoleAtStart(c) == <<Note("start", c, 0)>>

Start(c) ==
  /\ user.at = "at_screen" /\ ~Running /\ child[c] = "new"
  /\ child' = [child EXCEPT ![c] = "running"]
  /\ process' = c
  /\ reader' = [reader EXCEPT ![c].at = "begin"]
  /\ shown' = IF frontEnd = "console" THEN ConsoleAtStart(c)
              ELSE Append(shown, Note("start", c, 0))
  /\ stopping' = FALSE
  /\ overtaken' = (overtaken \/ (frontEnd = "tui" /\ ~AllReadersOver))
  /\ UNCHANGED <<frontEnd, orphans, written, pipe, queue, stopper, user>>

(* _read_output. A thread that finds no process dies of its assertion.      *)
At(c, place) == Lives /\ reader[c].at = place

ReaderBegins(c) ==
  /\ At(c, "begin")
  /\ reader' = [reader EXCEPT ![c] =
       [at |-> IF process = NoCommand THEN "dead" ELSE "reading", of |-> process]]
  /\ UNCHANGED <<frontEnd, child, orphans, written, pipe, process, queue, shown, stopping,
                 stopper, user, overtaken>>

ReaderReads(c) ==
  /\ At(c, "reading") /\ pipe[reader[c].of] # <<>>
  /\ queue' = Append(queue, Head(pipe[reader[c].of]))
  /\ pipe' = [pipe EXCEPT ![reader[c].of] = Tail(pipe[reader[c].of])]
  /\ UNCHANGED <<frontEnd, child, orphans, written, process, reader, shown, stopping, stopper,
                 user, overtaken>>

(* At the end of the output, when no process holds the pipe any more, the   *)
(* console's reader is done. The other waits for the runner's process,      *)
(* which may be none or another by now.                                     *)
HasExited(c)   == child[c] = "exited"
EndOfOutput(c) == child[c] = "exited" /\ c \notin orphans /\ pipe[c] = <<>>

ReaderEnds(c) ==
  /\ At(c, "reading") /\ EndOfOutput(reader[c].of)
  /\ reader' = [reader EXCEPT ![c] =
       IF frontEnd = "console" THEN [reader[c] EXCEPT !.at = "done"]
       ELSE IF process = NoCommand THEN [reader[c] EXCEPT !.at = "dead"]
       ELSE [at |-> "waiting", of |-> process]]
  /\ UNCHANGED <<frontEnd, child, orphans, written, pipe, process, queue, shown, stopping,
                 stopper, user, overtaken>>

UnlessStopping(c) == IF stopping THEN <<>> ELSE <<Note("exit", c, 0)>>
ExitNote(c)       == <<Note("exit", c, 0)>>

ReaderClears(c) ==
  /\ At(c, "waiting") /\ child[reader[c].of] = "exited"
  /\ process' = NoCommand /\ stopping' = FALSE
  /\ queue' = queue \o ExitNote(reader[c].of)
  /\ reader' = [reader EXCEPT ![c].at = "done"]
  /\ UNCHANGED <<frontEnd, child, orphans, written, pipe, shown, stopper, user, overtaken>>

-----------------------------------------------------------------------------
(* What the user sees. The full screen is refreshed by a timer, the console *)
(* before each question; there the poll also forgets a process that ended.  *)

FlushLog ==
  /\ frontEnd = "tui" /\ user.at = "at_screen" /\ queue # <<>>
  /\ shown' = shown \o queue /\ queue' = <<>>
  /\ UNCHANGED <<frontEnd, child, orphans, written, pipe, process, reader, stopping, stopper,
                 user, overtaken>>

Poll ==
  LET ended == process # NoCommand /\ ~Running
  IN /\ frontEnd = "console" /\ user.at = "at_screen"
     /\ queue # <<>> \/ ended
     /\ shown' = shown \o queue \o (IF ended THEN ExitNote(process) ELSE <<>>)
     /\ queue' = <<>>
     /\ process' = IF ended THEN NoCommand ELSE process
     /\ UNCHANGED <<frontEnd, child, orphans, written, pipe, reader, stopping, stopper, user,
                    overtaken>>

-----------------------------------------------------------------------------
(* Stopping. The console only asks; the full screen asks in a thread that   *)
(* kills after a grace period.                                             *)

ConsoleStop ==
  /\ frontEnd = "console" /\ user.at = "at_screen" /\ Running
  /\ child' = Asked(process)
  /\ UNCHANGED <<frontEnd, orphans, written, pipe, process, reader, queue, shown, stopping,
                 stopper, user, overtaken>>

(* Each press of the key starts a thread, whatever the others are at. It     *)
(* looks for the process, then at "stopping", sets it, and only then asks.  *)
StopAsync(s) ==
  /\ frontEnd = "tui" /\ user.at = "at_screen" /\ Running /\ stopper[s].at = "none"
  /\ stopper' = [stopper EXCEPT ![s].at = "begin"]
  /\ UNCHANGED <<frontEnd, child, orphans, written, pipe, process, reader, queue, shown,
                 stopping, user, overtaken>>

StopperAt(s, place) == Lives /\ stopper[s].at = place

StopperFinds(s) ==
  /\ StopperAt(s, "begin")
  /\ stopper' = [stopper EXCEPT ![s] =
       IF Running THEN [at |-> "found", of |-> process] ELSE Idle]
  /\ UNCHANGED <<frontEnd, child, orphans, written, pipe, process, reader, queue, shown,
                 stopping, user, overtaken>>

StopperChecks(s) ==
  /\ StopperAt(s, "found")
  /\ stopper' = [stopper EXCEPT ![s] = IF stopping THEN Idle ELSE [@ EXCEPT !.at = "first"]]
  /\ UNCHANGED <<frontEnd, child, orphans, written, pipe, process, reader, queue, shown,
                 stopping, user, overtaken>>

StopperMarks(s) ==
  /\ StopperAt(s, "first")
  /\ stopping' = TRUE /\ stopper' = [stopper EXCEPT ![s].at = "asks"]
  /\ UNCHANGED <<frontEnd, child, orphans, written, pipe, process, reader, queue, shown,
                 user, overtaken>>

StopperAsks(s) ==
  /\ StopperAt(s, "asks")
  /\ child' = Asked(stopper[s].of) /\ stopper' = [stopper EXCEPT ![s].at = "grace"]
  /\ UNCHANGED <<frontEnd, orphans, written, pipe, process, reader, queue, shown, stopping,
                 user, overtaken>>

StopperKills(s) ==
  /\ StopperAt(s, "grace") /\ Alive(stopper[s].of)
  /\ child' = Killed(stopper[s].of)
  /\ stopper' = [stopper EXCEPT ![s].at = "last_wait"]
  /\ UNCHANGED <<frontEnd, orphans, written, pipe, process, reader, queue, shown, stopping,
                 user, overtaken>>

StopperEnds(s) ==
  /\ \/ StopperAt(s, "grace") /\ ~Alive(stopper[s].of)
     \/ StopperAt(s, "last_wait")
  /\ stopper' = [stopper EXCEPT ![s] = Idle]
  /\ UNCHANGED <<frontEnd, child, orphans, written, pipe, process, reader, queue, shown,
                 stopping, user, overtaken>>

-----------------------------------------------------------------------------
(* Quitting: shutdown asks, waits, kills and waits again, then the program   *)
(* and with it all its threads are gone. Nothing else happens on the screen *)
(* meanwhile.                                                              *)

Quit ==
  /\ user.at = "at_screen"
  /\ IF Running
     THEN /\ user' = [at |-> "grace", of |-> process]
          /\ child' = IF stopping THEN child ELSE Asked(process)
     ELSE /\ user' = [at |-> "gone", of |-> NoCommand]
          /\ UNCHANGED child
  /\ stopping' = (stopping \/ (frontEnd = "tui" /\ Running))
  /\ UNCHANGED <<frontEnd, orphans, written, pipe, process, reader, queue, shown, stopper,
                 overtaken>>

QuitKills ==
  /\ user.at = "grace" /\ Alive(user.of)
  /\ child' = Killed(user.of)
  /\ user' = [user EXCEPT !.at = "last_wait"]
  /\ UNCHANGED <<frontEnd, orphans, written, pipe, process, reader, queue, shown, stopping,
                 stopper, overtaken>>

AtOnce   == user.at \in {"grace", "last_wait"}
WaitOver == (user.at = "grace" /\ ~Alive(user.of)) \/ user.at = "last_wait"

Gone ==
  /\ WaitOver
  /\ user' = [at |-> "gone", of |-> NoCommand]
  /\ UNCHANGED <<frontEnd, child, orphans, written, pipe, process, reader, queue, shown, stopping,
                 stopper, overtaken>>

-----------------------------------------------------------------------------
Reads(c) == ReaderBegins(c) \/ ReaderReads(c) \/ ReaderEnds(c) \/ ReaderClears(c)

Stops(s) ==
  \/ StopAsync(s) \/ StopperFinds(s) \/ StopperChecks(s) \/ StopperMarks(s)
  \/ StopperAsks(s) \/ StopperKills(s) \/ StopperEnds(s)

Next ==
  \/ \E c \in Commands : Write(c) \/ Exit(c) \/ WorkersEnd(c) \/ Start(c) \/ Reads(c)
  \/ FlushLog \/ Poll \/ ConsoleStop \/ \E s \in Stoppers : Stops(s)
  \/ Quit \/ QuitKills \/ Gone

(* The reader threads run, and the full screen's timer fires.               *)
Fairness == WF_vars(FlushLog) /\ \A c \in Commands : WF_vars(Reads(c))
Spec == Init /\ [][Next]_vars /\ Fairness

-----------------------------------------------------------------------------
(* When the program is gone, so is every process it started, or a kill is   *)
(* on its way: none was forgotten before quitting. This is a promise about  *)
(* the commands themselves: the workers of their pools may be left.         *)
QuitLeavesNoChild ==
  user.at = "gone" => overtaken \/ \A c \in Commands : child[c] \in {"new", "killed", "exited"}

(* On the full screen everything that a command wrote stands before the     *)
(* note that it exited, although two threads and a timer carry the lines.   *)
(* (On the console a slow reader may be late: its lines appear after the    *)
(* note, even under the next command.)                                     *)
ExitNoteIsLast ==
  LET log == shown \o queue
  IN frontEnd = "tui" /\ ~overtaken =>
       \A i \in DOMAIN log :
         log[i].kind = "exit" =>
           1 .. written[log[i].command] =
             {log[j].number : j \in {k \in 1 .. i : /\ log[k].kind = "line"
                                                  /\ log[k].command = log[i].command}}

(* On the full screen every exit is reported in the end, unless the user    *)
(* quits or starts the next command too early. Where a stopped command left *)
(* workers behind that hold its output open, it is when the last has ended. *)
ExitIsShown ==
  \A c \in Commands :
    (frontEnd = "tui" /\ child[c] = "exited" /\ c \notin orphans) ~>
      \/ overtaken \/ user.at # "at_screen"
      \/ \E i \in DOMAIN shown : shown[i] = Note("exit", c, 0)
=============================================================================
