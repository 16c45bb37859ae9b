------------------------- MODULE ControlCentreProofs -------------------------
(***************************************************************************)
(* Any number of commands and lines. Quitting: the process that the runner *)
(* knows is the only one that may be alive, so that nothing is forgotten   *)
(* when the program ends. Output: what the commands write reaches the log  *)
(* of the full screen whole, and before it is said that they exited.       *)
(***************************************************************************)
EXTENDS ControlCentre, SequenceTheorems, TLAPS

MaybeCommand == Commands \union {NoCommand}
Over(c) == child[c] \in {"new", "killed", "exited"}

Shape ==
  /\ frontEnd \in {"tui", "console"} /\ overtaken \in BOOLEAN
  /\ process \in MaybeCommand
  /\ child \in [Commands -> {"new", "running", "asked", "killed", "exited"}]
  /\ reader \in [Commands -> [at : {"none", "begin", "reading", "waiting", "done", "dead"},
                              of : MaybeCommand]]
  /\ user \in [at : {"at_screen", "grace", "last_wait", "gone"}, of : MaybeCommand]
  /\ user.at = "grace" => user.of \in Commands

(* Both front ends: only the runner's process is alive. On the full screen
   its one reader is what holds it, and lets go when it has exited.         *)
OnlyProcessLives ==
  ~overtaken =>
    /\ \A c \in Commands : Alive(c) => process = c
    /\ frontEnd = "tui" => \A c \in Commands :
         /\ reader[c].at \in {"begin", "reading", "waiting"} => process = c
         /\ reader[c].at \in {"reading", "waiting"} => reader[c].of = c
    /\ frontEnd = "console" => \A c \in Commands : reader[c].at # "waiting"

(* While the program quits, and after, no command but the one it waits for
   runs on.                                                                *)
NothingElseLeft ==
  ~overtaken =>
    /\ user.at = "grace" => \A c \in Commands : Over(c) \/ c = user.of
    /\ user.at \in {"last_wait", "gone"} => \A c \in Commands : Over(c)

QuitInv == Shape /\ OnlyProcessLives /\ NothingElseLeft

(* The states of the processes change, and none comes to life.              *)
LEMMA OnlyChildrenChange ==
  ASSUME QuitInv, UNCHANGED <<frontEnd, process, reader, user, overtaken>>,
         child' \in [Commands -> {"new", "running", "asked", "killed", "exited"}],
         \A c \in Commands : (Alive(c)' => Alive(c)) /\ (Over(c) => Over(c)')
  PROVE  QuitInv'
BY DEF QuitInv, Shape, OnlyProcessLives, NothingElseLeft

LEMMA AskedAndKilled ==
  ASSUME Shape, NEW c \in MaybeCommand, child' \in {Asked(c), Killed(c)}
  PROVE  /\ child' \in [Commands -> {"new", "running", "asked", "killed", "exited"}]
         /\ \A d \in Commands : (Alive(d)' => Alive(d)) /\ (Over(d) => Over(d)')
         /\ child' = Killed(c) /\ c \in Commands => Over(c)'
BY DEF Shape, Asked, Killed, Alive, Over, MaybeCommand

(* A reader goes on and the runner keeps its process.                       *)
LEMMA OnlyReadersChange ==
  ASSUME QuitInv, UNCHANGED <<frontEnd, child, process, user, overtaken>>, Shape',
         NEW c \in Commands, \A d \in Commands \ {c} : reader'[d] = reader[d],
         frontEnd = "console" => reader'[c].at # "waiting",
         ~overtaken /\ frontEnd = "tui" =>
           /\ reader'[c].at \in {"begin", "reading", "waiting"} => process = c
           /\ reader'[c].at \in {"reading", "waiting"} => reader'[c].of = c
  PROVE  QuitInv'
<1>1. \A d \in Commands : Alive(d)' = Alive(d) /\ Over(d)' = Over(d)
  BY DEF Alive, Over
<1>2. OnlyProcessLives'
  BY <1>1 DEF QuitInv, OnlyProcessLives
<1>3. NothingElseLeft'
  BY <1>1 DEF QuitInv, NothingElseLeft
<1> QED
  BY <1>2, <1>3 DEF QuitInv

LEMMA ReadingKeepsInv ==
  ASSUME QuitInv, NEW c \in Commands, Reads(c) PROVE QuitInv'
<1> USE ControlAssumption DEF Shape, MaybeCommand
<1>0. Shape /\ OnlyProcessLives
  BY DEF QuitInv
<1>1. CASE ReaderBegins(c)
  <2>1. /\ UNCHANGED <<frontEnd, child, process, user, overtaken>> /\ reader[c].at = "begin"
        /\ reader' = [reader EXCEPT ![c] =
             [at |-> IF process = NoCommand THEN "dead" ELSE "reading", of |-> process]]
    BY <1>1 DEF ReaderBegins, At
  <2>2. /\ reader'[c] = [at |-> IF process = NoCommand THEN "dead" ELSE "reading", of |-> process]
        /\ \A d \in Commands \ {c} : reader'[d] = reader[d]
    BY <1>0, <2>1
  <2>3. Shape'
    BY <1>0, <2>1
  <2>4. reader'[c].at # "waiting" /\ reader'[c].of = process
    BY <2>2
  <2>5. ~overtaken /\ frontEnd = "tui" => process = c
    BY <1>0, <2>1 DEF OnlyProcessLives
  <2> HIDE DEF Shape, MaybeCommand
  <2> QED
    BY <2>1, <2>2, <2>3, <2>4, <2>5, OnlyReadersChange
<1>2. CASE ReaderReads(c)
  <2>1. UNCHANGED <<frontEnd, child, process, reader, user, overtaken>>
    BY <1>2 DEF ReaderReads
  <2> QED
    BY <1>0, <2>1, OnlyChildrenChange DEF Alive, Over
<1>3. CASE ReaderEnds(c)
  <2> DEFINE next == IF frontEnd = "console" THEN [reader[c] EXCEPT !.at = "done"]
                     ELSE IF process = NoCommand THEN [reader[c] EXCEPT !.at = "dead"]
                     ELSE [at |-> "waiting", of |-> process]
  <2>1. /\ UNCHANGED <<frontEnd, child, process, user, overtaken>> /\ reader[c].at = "reading"
        /\ reader' = [reader EXCEPT ![c] = next]
    BY <1>3 DEF ReaderEnds, At
  <2>2. next \in [at : {"done", "dead", "waiting"}, of : MaybeCommand]
    BY <1>0
  <2>3. next.at = "waiting" => frontEnd = "tui" /\ next.of = process
    BY <1>0
  <2> HIDE DEF next
  <2>4. reader'[c] = next /\ \A d \in Commands \ {c} : reader'[d] = reader[d]
    BY <1>0, <2>1
  <2>5. Shape'
    BY <1>0, <2>1, <2>2
  <2> QED
    <3>1. frontEnd = "console" => reader'[c].at # "waiting"
      BY <2>3, <2>4
    <3>2. ~overtaken /\ frontEnd = "tui" => process = c
      BY <1>0, <2>1 DEF OnlyProcessLives
    <3>3. reader'[c].at \in {"reading", "waiting"} => reader'[c].of = process
      BY <2>2, <2>3, <2>4
    <3> HIDE DEF Shape, MaybeCommand
    <3> QED
      BY <2>1, <2>4, <2>5, <3>1, <3>2, <3>3, OnlyReadersChange
<1>4. CASE ReaderClears(c)
  <2>1. /\ UNCHANGED <<frontEnd, child, user, overtaken>> /\ reader[c].at = "waiting"
        /\ process' = NoCommand /\ child[reader[c].of] = "exited"
        /\ reader' = [reader EXCEPT ![c].at = "done"]
    BY <1>4 DEF ReaderClears, At
  <2>2. \A d \in Commands : Alive(d)' = Alive(d) /\ Over(d)' = Over(d)
    BY <2>1 DEF Alive, Over
  <2>3. /\ reader'[c].at = "done" /\ \A d \in Commands \ {c} : reader'[d] = reader[d]
        /\ Shape'
    BY <1>0, <2>1
  <2>4. ~overtaken => frontEnd = "tui" /\ process = c /\ ~Alive(c)
    BY <1>0, <2>1 DEF OnlyProcessLives, Alive
  <2>5. ~overtaken => \A d \in Commands \ {c} : reader[d].at \notin {"begin", "reading", "waiting"}
    BY <1>0, <2>4 DEF OnlyProcessLives
  <2>6. ~overtaken => \A d \in Commands : ~Alive(d)'
    BY <1>0, <2>2, <2>4 DEF OnlyProcessLives
  <2>7. ~overtaken => \A d \in Commands : reader'[d].at \notin {"begin", "reading", "waiting"}
    BY <2>3, <2>5
  <2>8. OnlyProcessLives'
    BY <2>1, <2>6, <2>7 DEF OnlyProcessLives
  <2>9. NothingElseLeft'
    BY <2>1, <2>2 DEF QuitInv, NothingElseLeft
  <2> QED
    BY <2>3, <2>8, <2>9 DEF QuitInv
<1> QED
  BY <1>1, <1>2, <1>3, <1>4 DEF Reads

LEMMA StartKeepsInv ==
  ASSUME QuitInv, NEW c \in Commands, Start(c) PROVE QuitInv'
<1> USE ControlAssumption DEF MaybeCommand
<1>0. Shape /\ OnlyProcessLives
  BY DEF QuitInv
<1>1. /\ UNCHANGED <<frontEnd, user>> /\ user.at = "at_screen" /\ ~Running
      /\ child' = [child EXCEPT ![c] = "running"] /\ process' = c
      /\ reader' = [reader EXCEPT ![c].at = "begin"]
      /\ overtaken' = (overtaken \/ (frontEnd = "tui" /\ ~AllReadersOver))
  BY DEF Start
<1>2. overtaken' \in BOOLEAN
  BY <1>1, Zenon
<1>3. Shape'
  BY <1>0, <1>1, <1>2 DEF Shape
<1>4. ~overtaken' => ~overtaken /\ (frontEnd = "tui" => AllReadersOver)
  BY <1>1, Zenon
<1>5. ~overtaken' => \A d \in Commands : ~Alive(d)
  BY <1>0, <1>1, <1>4 DEF OnlyProcessLives, Running
<1>6. \A d \in Commands \ {c} : (Alive(d)' <=> Alive(d)) /\ reader'[d] = reader[d]
  BY <1>0, <1>1 DEF Shape, Alive
<1>7. reader'[c].at = "begin"
  BY <1>0, <1>1 DEF Shape
<1>8. OnlyProcessLives'
  BY <1>0, <1>1, <1>4, <1>5, <1>6, <1>7 DEF OnlyProcessLives, AllReadersOver, ReaderOver, Shape
<1>9. NothingElseLeft'
  BY <1>1 DEF NothingElseLeft
<1> QED
  BY <1>3, <1>8, <1>9 DEF QuitInv

LEMMA QuittingKeepsInv ==
  ASSUME QuitInv, Quit \/ QuitKills \/ Gone PROVE QuitInv'
<1> USE ControlAssumption DEF MaybeCommand
<1>0. Shape /\ OnlyProcessLives /\ NothingElseLeft
  BY DEF QuitInv
<1>1. UNCHANGED <<frontEnd, process, reader, overtaken>>
  BY DEF Quit, QuitKills, Gone
<1>2. CASE Quit
  <2>1. CASE Running
    <3>1. user' = [at |-> "grace", of |-> process] /\ process \in Commands
      BY <1>0, <1>2, <2>1 DEF Quit, Running, Shape
    <3>2. child' = child \/ child' = Asked(process)
      BY <1>2, <2>1 DEF Quit
    <3>3. /\ child' \in [Commands -> {"new", "running", "asked", "killed", "exited"}]
          /\ \A d \in Commands : (Alive(d)' => Alive(d)) /\ (Over(d) => Over(d)')
      BY <1>0, <3>1, <3>2, AskedAndKilled DEF Alive, Over, Shape
    <3>4. ~overtaken => \A d \in Commands : Over(d) \/ d = process
      BY <1>0 DEF OnlyProcessLives, Alive, Over, Shape
    <3> QED
      BY <1>0, <1>1, <3>1, <3>3, <3>4 DEF QuitInv, Shape, OnlyProcessLives, NothingElseLeft
  <2>2. CASE ~Running
    <3>1. user' = [at |-> "gone", of |-> NoCommand] /\ child' = child
      BY <1>2, <2>2 DEF Quit
    <3>2. \A d \in Commands : Alive(d)' = Alive(d) /\ Over(d)' = Over(d)
      BY <3>1 DEF Alive, Over
    <3>3. ~overtaken => \A d \in Commands : Over(d)
      BY <1>0, <2>2 DEF OnlyProcessLives, Running, Alive, Over, Shape
    <3> QED
      BY <1>0, <1>1, <3>1, <3>2, <3>3 DEF QuitInv, Shape, OnlyProcessLives, NothingElseLeft
  <2> QED
    BY <2>1, <2>2
<1>3. CASE QuitKills
  <2>1. /\ user.at = "grace" /\ child' = Killed(user.of)
        /\ user' = [user EXCEPT !.at = "last_wait"]
    BY <1>3 DEF QuitKills
  <2>2. PICK w \in Commands : user.of = w
    BY <1>0, <2>1 DEF Shape
  <2>3. /\ child' \in [Commands -> {"new", "running", "asked", "killed", "exited"}]
        /\ \A d \in Commands : (Alive(d)' => Alive(d)) /\ (Over(d) => Over(d)')
        /\ Over(w)'
    BY <1>0, <2>1, <2>2, AskedAndKilled
  <2>4. user'.at = "last_wait" /\ user' \in [at : {"at_screen", "grace", "last_wait", "gone"},
                                            of : MaybeCommand]
    BY <1>0, <2>1 DEF Shape
  <2>5. Shape'
    BY <1>0, <1>1, <2>3, <2>4 DEF Shape
  <2>6. NothingElseLeft'
    BY <1>0, <1>1, <2>1, <2>2, <2>3, <2>4 DEF NothingElseLeft
  <2>7. OnlyProcessLives'
    BY <1>0, <1>1, <2>3 DEF OnlyProcessLives
  <2> QED
    BY <2>5, <2>6, <2>7 DEF QuitInv
<1>4. CASE Gone
  <2>1. /\ user' = [at |-> "gone", of |-> NoCommand] /\ child' = child
        /\ (user.at = "grace" /\ ~Alive(user.of)) \/ user.at = "last_wait"
    BY <1>4 DEF Gone, WaitOver
  <2>2. \A d \in Commands : Alive(d)' = Alive(d) /\ Over(d)' = Over(d)
    BY <2>1 DEF Alive, Over
  <2>3. ~overtaken => \A d \in Commands : Over(d)
    BY <1>0, <2>1 DEF NothingElseLeft, Alive, Over, Shape
  <2> QED
    BY <1>0, <1>1, <2>1, <2>2, <2>3 DEF QuitInv, Shape, OnlyProcessLives, NothingElseLeft
<1> QED
  BY <1>2, <1>3, <1>4

LEMMA QuitInvHoldsAtFirst == Init => QuitInv
<1> USE ControlAssumption DEF MaybeCommand
<1> SUFFICES ASSUME Init PROVE QuitInv
  OBVIOUS
<1>1. Shape
  BY DEF Init, Shape
<1>2. OnlyProcessLives
  BY DEF Init, OnlyProcessLives, Alive
<1>3. NothingElseLeft
  BY DEF Init, NothingElseLeft
<1> QED
  BY <1>1, <1>2, <1>3 DEF QuitInv

LEMMA QuitInvIsKept == QuitInv /\ [Next]_vars => QuitInv'
<1> USE ControlAssumption DEF MaybeCommand
<1> SUFFICES ASSUME QuitInv, [Next]_vars PROVE QuitInv'
  OBVIOUS
<1>0. Shape
  BY DEF QuitInv
<1>1. CASE UNCHANGED <<frontEnd, child, process, reader, user, overtaken>>
  BY <1>0, <1>1, OnlyChildrenChange DEF Shape, Alive, Over
<1>2. ASSUME NEW c \in Commands, Exit(c) PROVE QuitInv'
  <2>1. /\ child' \in [Commands -> {"new", "running", "asked", "killed", "exited"}]
        /\ \A d \in Commands : (Alive(d)' => Alive(d)) /\ (Over(d) => Over(d)')
    BY <1>0, <1>2 DEF Exit, Shape, Alive, Over
  <2> QED
    BY <1>2, <2>1, OnlyChildrenChange DEF Exit
<1>3. CASE Poll
  <2>1. /\ UNCHANGED <<frontEnd, child, reader, user, overtaken>> /\ frontEnd = "console"
        /\ process' = process \/ (process' = NoCommand /\ ~Running)
    BY <1>3 DEF Poll
  <2>2. \A d \in Commands : Alive(d)' = Alive(d) /\ Over(d)' = Over(d)
    BY <2>1 DEF Alive, Over
  <2>3. ~overtaken => \A d \in Commands : Alive(d)' => process' = d
    BY <2>1, <2>2 DEF QuitInv, OnlyProcessLives, Running
  <2> QED
    BY <1>0, <2>1, <2>2, <2>3 DEF QuitInv, Shape, OnlyProcessLives, NothingElseLeft
<1>4. ASSUME NEW c, child' \in {Asked(c), Killed(c)},
             UNCHANGED <<frontEnd, process, reader, user, overtaken>>
      PROVE  QuitInv'
  <2>1. /\ child' \in [Commands -> {"new", "running", "asked", "killed", "exited"}]
        /\ \A d \in Commands : (Alive(d)' => Alive(d)) /\ (Over(d) => Over(d)')
    BY <1>0, <1>4 DEF Shape, Asked, Killed, Alive, Over
  <2> QED
    BY <1>4, <2>1, OnlyChildrenChange
<1>5. CASE ConsoleStop
  BY <1>4, <1>5 DEF ConsoleStop
<1>6. ASSUME NEW s \in Stoppers, Stops(s) PROVE QuitInv'
  <2>1. CASE StopperAsks(s)
    BY <1>4, <2>1 DEF StopperAsks
  <2>2. CASE StopperKills(s)
    BY <1>4, <2>2 DEF StopperKills
  <2> QED
    BY <1>1, <1>6, <2>1, <2>2
       DEF Stops, StopAsync, StopperFinds, StopperChecks, StopperMarks, StopperEnds
<1> QED
  BY <1>1, <1>2, <1>3, <1>5, <1>6, ReadingKeepsInv, StartKeepsInv, QuittingKeepsInv
     DEF Next, Write, WorkersEnd, FlushLog, vars

(* A front end that is gone has left no process of its commands running
   behind it (ControlCentre.QuitLeavesNoChild).                            *)
THEOREM NothingIsLeftRunning == Spec => []QuitLeavesNoChild
<1>1. QuitInv => QuitLeavesNoChild
  BY DEF QuitInv, Shape, NothingElseLeft, QuitLeavesNoChild, Over
<1> QED
  BY <1>1, QuitInvHoldsAtFirst, QuitInvIsKept, PTL DEF Spec
-----------------------------------------------------------------------------
(* What the commands write, on the full screen.                            *)
Notes == [kind : {"start", "line", "exit"}, command : Commands, number : Nat]
Log   == shown \o queue
Ended == {c \in Commands : EndOfOutput(c)}

Line(c, n) == Note("line", c, n)
Stands(note, log, last) == \E i \in 1 .. last : log[i] = note

(* Every line that a command wrote is in its pipe or has been read.        *)
NoLineIsLost(log, count, left) ==
  \A c \in Commands : \A n \in 1 .. count[c] :
    Stands(Line(c, n), log, Len(log)) \/ Stands(Line(c, n), left[c], Len(left[c]))

(* In the log are lines that were written, and where a command is said to
   have exited, all that it ever wrote stands before.                      *)
LogIsTrue(log, count, ended) ==
  \A i \in 1 .. Len(log) :
    /\ log[i].kind = "line" => log[i].number \in 1 .. count[log[i].command]
    /\ log[i].kind = "exit" =>
         /\ log[i].command \in ended
         /\ \A n \in 1 .. count[log[i].command] : Stands(Line(log[i].command, n), log, i)

OutputInv ==
  frontEnd = "tui" /\ ~overtaken =>
    /\ shown \in Seq(Notes) /\ queue \in Seq(Notes)
    /\ written \in [Commands -> Nat] /\ pipe \in [Commands -> Seq(Notes)]
    /\ \A c \in Commands : \A i \in 1 .. Len(pipe[c]) :
         \E n \in 1 .. written[c] : pipe[c][i] = Line(c, n)
    /\ \A c \in Commands : reader[c].at = "waiting" => c \in Ended
    /\ NoLineIsLost(Log, written, pipe) /\ LogIsTrue(Log, written, Ended)

LEMMA AppendedLast ==
  ASSUME NEW S, NEW s \in Seq(S), NEW t \in Seq(S), NEW e \in S
  PROVE  s \o Append(t, e) = Append(s \o t, e)
<1>1. s \o Append(t, e) \in Seq(S) /\ Append(s \o t, e) \in Seq(S)
  OBVIOUS
<1>2. Len(s \o Append(t, e)) = Len(Append(s \o t, e))
  OBVIOUS
<1>3. \A i \in 1 .. Len(s \o Append(t, e)) : (s \o Append(t, e))[i] = Append(s \o t, e)[i]
  OBVIOUS
<1> QED
  BY <1>1, <1>2, <1>3, SeqEqual

(* A note more at the end of the log.                                      *)
LEMMA LogGrows ==
  ASSUME NEW log \in Seq(Notes), NEW note \in Notes, NEW count \in [Commands -> Nat], NEW ended,
         LogIsTrue(log, count, ended),
         note.kind = "line" => note.number \in 1 .. count[note.command],
         note.kind = "exit" =>
           /\ note.command \in ended
           /\ \A n \in 1 .. count[note.command] : Stands(Line(note.command, n), log, Len(log))
  PROVE  LogIsTrue(Append(log, note), count, ended)
<1> DEFINE longer == Append(log, note)
<1>1. /\ Len(longer) = Len(log) + 1 /\ longer[Len(log) + 1] = note
      /\ \A i \in 1 .. Len(log) : longer[i] = log[i]
  OBVIOUS
<1> HIDE DEF longer
<1>2. \A x, i : i \in 1 .. Len(log) /\ Stands(x, log, i) => Stands(x, longer, i)
  BY <1>1 DEF Stands
<1>3. \A x : Stands(x, log, Len(log)) => Stands(x, longer, Len(log) + 1)
  BY <1>1 DEF Stands
<1>4. LogIsTrue(longer, count, ended)
  BY <1>1, <1>2, <1>3 DEF LogIsTrue
<1> QED
  BY <1>4 DEF longer

(* A command that has not ended writes on, or one ends.                    *)
LEMMA CommandsGoOn ==
  ASSUME NEW log \in Seq(Notes), NEW count \in [Commands -> Nat], NEW more \in [Commands -> Nat],
         NEW ended, NEW later, ended \subseteq later, LogIsTrue(log, count, ended),
         \A c \in Commands : count[c] <= more[c] /\ (c \in ended => more[c] = count[c])
  PROVE  LogIsTrue(log, more, later)
<1> SUFFICES ASSUME NEW i \in 1 .. Len(log)
             PROVE  /\ log[i].kind = "line" => log[i].number \in 1 .. more[log[i].command]
                    /\ log[i].kind = "exit" =>
                         /\ log[i].command \in later
                         /\ \A n \in 1 .. more[log[i].command] :
                              Stands(Line(log[i].command, n), log, i)
  BY DEF LogIsTrue
<1>0. log[i] \in Notes
  OBVIOUS
<1>1. PICK c \in Commands : log[i].command = c
  BY <1>0 DEF Notes
<1>2. count[c] \in Nat /\ more[c] \in Nat /\ count[c] <= more[c]
  BY <1>1
<1>3. log[i].kind = "line" => log[i].number \in 1 .. more[c]
  BY <1>1, <1>2 DEF LogIsTrue
<1>4. log[i].kind = "exit" => /\ c \in ended /\ more[c] = count[c]
                             /\ \A n \in 1 .. count[c] : Stands(Line(c, n), log, i)
  BY <1>1 DEF LogIsTrue
<1> QED
  BY <1>1, <1>3, <1>4

(* A start is noted between what is on the screen and what is not.         *)
LEMMA StartIsNoted ==
  ASSUME NEW screen \in Seq(Notes), NEW rest \in Seq(Notes), NEW note \in Notes,
         note.kind = "start", NEW count \in [Commands -> Nat], NEW left, NEW ended,
         NoLineIsLost(screen \o rest, count, left), LogIsTrue(screen \o rest, count, ended)
  PROVE  /\ NoLineIsLost(Append(screen, note) \o rest, count, left)
         /\ LogIsTrue(Append(screen, note) \o rest, count, ended)
<1> DEFINE log == screen \o rest
           longer == Append(screen, note) \o rest
           here == Len(screen)
<1>1. here \in Nat /\ Len(rest) \in Nat /\ Len(log) = here + Len(rest)
      /\ Len(longer) = Len(log) + 1
  OBVIOUS
<1>2. /\ \A i \in 1 .. Len(log) : log[i] = IF i <= here THEN screen[i] ELSE rest[i - here]
      /\ \A i \in 1 .. Len(longer) :
           longer[i] = IF i <= here THEN screen[i]
                       ELSE IF i = here + 1 THEN note ELSE rest[i - (here + 1)]
  OBVIOUS
<1>3. /\ \A i \in 1 .. Len(log) : longer[IF i <= here THEN i ELSE i + 1] = log[i]
      /\ \A i \in 1 .. Len(longer) :
           /\ i <= here => i \in 1 .. Len(log) /\ longer[i] = log[i]
           /\ i = here + 1 => longer[i] = note
           /\ i > here + 1 => i - 1 \in 1 .. Len(log) /\ longer[i] = log[i - 1]
  <2>1. \A i \in 1 .. Len(log) : i > here => (i + 1) - (here + 1) = i - here
    BY <1>1
  <2>2. \A i \in 1 .. Len(longer) : i > here + 1 => (i - 1) - here = i - (here + 1)
    BY <1>1
  <2> HIDE DEF log, longer, here
  <2> QED
    BY <1>1, <1>2, <2>1, <2>2
<1> HIDE DEF log, longer, here
<1>4. \A x, i : i \in 1 .. Len(log) /\ Stands(x, log, i) =>
        Stands(x, longer, IF i <= here THEN i ELSE i + 1)
  <2> SUFFICES ASSUME NEW x, NEW i \in 1 .. Len(log), Stands(x, log, i)
               PROVE  Stands(x, longer, IF i <= here THEN i ELSE i + 1)
    OBVIOUS
  <2>1. PICK j \in 1 .. i : log[j] = x
    BY DEF Stands
  <2>2. /\ (IF j <= here THEN j ELSE j + 1) \in 1 .. (IF i <= here THEN i ELSE i + 1)
        /\ longer[IF j <= here THEN j ELSE j + 1] = x
    BY <1>1, <1>3, <2>1
  <2> QED
    BY <2>2 DEF Stands
<1>5. NoLineIsLost(longer, count, left)
  <2>1. \A x : Stands(x, log, Len(log)) => Stands(x, longer, Len(longer))
    <3> SUFFICES ASSUME NEW x, Stands(x, log, Len(log)) PROVE Stands(x, longer, Len(longer))
      OBVIOUS
    <3>1. PICK j \in 1 .. Len(log) : log[j] = x
      BY DEF Stands
    <3>2. /\ (IF j <= here THEN j ELSE j + 1) \in 1 .. Len(longer)
          /\ longer[IF j <= here THEN j ELSE j + 1] = x
      BY <1>1, <1>3, <3>1
    <3> QED
      BY <3>2 DEF Stands
  <2> QED
    BY <2>1 DEF NoLineIsLost, log
<1>6. LogIsTrue(longer, count, ended)
  <2>1. LogIsTrue(log, count, ended)
    BY DEF log
  <2> SUFFICES ASSUME NEW i \in 1 .. Len(longer)
               PROVE  /\ longer[i].kind = "line" =>
                           longer[i].number \in 1 .. count[longer[i].command]
                      /\ longer[i].kind = "exit" =>
                           /\ longer[i].command \in ended
                           /\ \A n \in 1 .. count[longer[i].command] :
                                Stands(Line(longer[i].command, n), longer, i)
    BY DEF LogIsTrue
  <2>2. CASE i = here + 1
    BY <1>3, <2>2
  <2>3. CASE i <= here
    BY <1>3, <1>4, <2>1, <2>3 DEF LogIsTrue
  <2>4. CASE i > here + 1
    <3>1. i - 1 \in 1 .. Len(log) /\ longer[i] = log[i - 1] /\ ~(i - 1 <= here) /\ (i - 1) + 1 = i
      BY <1>1, <1>3, <2>4
    <3> QED
      BY <1>4, <2>1, <3>1 DEF LogIsTrue
  <2> QED
    BY <1>1, <2>2, <2>3, <2>4
<1> QED
  BY <1>5, <1>6 DEF longer

LEMMA PipesHoldLines ==
  ASSUME OutputInv, frontEnd = "tui", ~overtaken,
         NEW c \in Commands, NEW i \in 1 .. Len(pipe[c])
  PROVE  \E n \in 1 .. written[c] : pipe[c][i] = Line(c, n)
BY DEF OutputInv

(* Processes end, and threads go on, but nothing is read.                   *)
LEMMA NothingIsRead ==
  ASSUME OutputInv, UNCHANGED <<frontEnd, overtaken, written, pipe, shown, queue>>,
         \A c \in Commands : child[c] = "exited" /\ c \notin orphans =>
           child'[c] = "exited" /\ c \notin orphans',
         \A c \in Commands : reader'[c].at = "waiting" =>
           reader[c].at = "waiting" \/ c \in Ended \/ frontEnd = "console" \/ overtaken
  PROVE  OutputInv'
<1> SUFFICES ASSUME frontEnd = "tui", ~overtaken PROVE OutputInv'
  BY DEF OutputInv
<1>1. Ended \subseteq Ended' /\ Log' = Log
  BY DEF Ended, EndOfOutput, Log
<1>2. Log \in Seq(Notes)
  BY DEF OutputInv, Log
<1>3. LogIsTrue(Log, written, Ended')
  <2>1. /\ LogIsTrue(Log, written, Ended) /\ written \in [Commands -> Nat]
        /\ \A c \in Commands : written[c] <= written[c]
    BY DEF OutputInv
  <2> QED
    BY <1>1, <1>2, <2>1, CommandsGoOn
<1>4. LogIsTrue(Log, written, Ended)'
  BY <1>1, <1>3
<1>5. NoLineIsLost(Log, written, pipe)'
  BY <1>1 DEF OutputInv
<1>6. \A c \in Commands : reader'[c].at = "waiting" => c \in Ended'
  BY <1>1 DEF OutputInv
<1> QED
  BY <1>4, <1>5, <1>6 DEF OutputInv

LEMMA WritingKeepsOutput ==
  ASSUME OutputInv, NEW c \in Commands, Write(c) PROVE OutputInv'
<1> SUFFICES ASSUME frontEnd = "tui", ~overtaken PROVE OutputInv'
  BY DEF OutputInv, Write
<1> DEFINE n == written[c] + 1
           line == Line(c, n)
<1>1. /\ UNCHANGED <<frontEnd, child, orphans, reader, shown, queue, overtaken>>
      /\ child[c] # "exited" \/ c \in orphans
      /\ written' = [written EXCEPT ![c] = n] /\ pipe' = [pipe EXCEPT ![c] = Append(pipe[c], line)]
  BY DEF Write, Line
<1>2. /\ written \in [Commands -> Nat] /\ pipe \in [Commands -> Seq(Notes)]
      /\ Log \in Seq(Notes) /\ Log' = Log
  BY <1>1 DEF OutputInv, Log
<1>3. n \in Nat /\ n = written[c] + 1 /\ line \in Notes
  BY <1>2 DEF Notes, Note, Line
<1> HIDE DEF n, line
<1>4. /\ written' \in [Commands -> Nat] /\ written'[c] = n
      /\ \A d \in Commands \ {c} : written'[d] = written[d] /\ pipe'[d] = pipe[d]
      /\ pipe'[c] = Append(pipe[c], line)
  BY <1>1, <1>2, <1>3
<1>5. pipe' \in [Commands -> Seq(Notes)]
  BY <1>1, <1>2, <1>3
<1>6. /\ Len(pipe'[c]) = Len(pipe[c]) + 1 /\ pipe'[c][Len(pipe[c]) + 1] = line
      /\ Len(pipe[c]) \in Nat /\ \A i \in 1 .. Len(pipe[c]) : pipe'[c][i] = pipe[c][i]
  BY <1>2, <1>3, <1>4
<1>7. c \notin Ended /\ Ended \subseteq Ended'
  <2>1. c \notin Ended
    BY <1>1 DEF Ended, EndOfOutput
  <2>2. \A d \in Ended : EndOfOutput(d)'
    BY <1>1, <1>4, <2>1 DEF Ended, EndOfOutput
  <2> QED
    BY <2>1, <2>2 DEF Ended
<1>8. LogIsTrue(Log, written', Ended')
  <2>1. \A d \in Commands : written[d] <= written'[d] /\ (d \in Ended => written'[d] = written[d])
    BY <1>2, <1>3, <1>4, <1>7
  <2> QED
    BY <1>2, <1>4, <1>7, <2>1, CommandsGoOn DEF OutputInv
<1>9. \A d \in Commands : \A i \in 1 .. Len(pipe'[d]) :
        \E k \in 1 .. written'[d] : pipe'[d][i] = Line(d, k)
  <2>1. \A d \in Commands \ {c} : \A i \in 1 .. Len(pipe'[d]) :
          \E k \in 1 .. written'[d] : pipe'[d][i] = Line(d, k)
    BY <1>4, PipesHoldLines
  <2>2. ASSUME NEW i \in 1 .. Len(pipe'[c]) PROVE \E k \in 1 .. n : pipe'[c][i] = Line(c, k)
    <3>1. CASE i = Len(pipe[c]) + 1
      BY <1>2, <1>3, <1>6, <3>1 DEF line
    <3>2. CASE i \in 1 .. Len(pipe[c])
      <4>1. PICK k \in 1 .. written[c] : pipe[c][i] = Line(c, k)
        BY <3>2, PipesHoldLines
      <4> QED
        BY <1>2, <1>3, <1>6, <3>2, <4>1
    <3> QED
      BY <1>6, <3>1, <3>2
  <2> QED
    BY <1>4, <2>1, <2>2
<1>10. NoLineIsLost(Log, written', pipe')
  <2> SUFFICES ASSUME NEW d \in Commands, NEW k \in 1 .. written'[d]
               PROVE  \/ Stands(Line(d, k), Log, Len(Log))
                      \/ Stands(Line(d, k), pipe'[d], Len(pipe'[d]))
    BY DEF NoLineIsLost
  <2>1. CASE d # c
    BY <1>4, <2>1 DEF OutputInv, NoLineIsLost
  <2>2. CASE d = c /\ k = n
    BY <1>6, <2>2 DEF Stands, line
  <2>3. CASE d = c /\ k # n
    <3>1. k \in 1 .. written[c]
      BY <1>2, <1>3, <1>4, <2>3
    <3>2. Stands(Line(c, k), Log, Len(Log)) \/ Stands(Line(c, k), pipe[c], Len(pipe[c]))
      BY <3>1 DEF OutputInv, NoLineIsLost
    <3>3. \A x : Stands(x, pipe[c], Len(pipe[c])) => Stands(x, pipe'[c], Len(pipe'[c]))
      BY <1>6 DEF Stands
    <3> QED
      BY <2>3, <3>2, <3>3
  <2> QED
    BY <2>1, <2>2, <2>3
<1>11. \A d \in Commands : reader'[d].at = "waiting" => d \in Ended'
  BY <1>1, <1>7 DEF OutputInv
<1> QED
  <2>1. shown' \in Seq(Notes) /\ queue' \in Seq(Notes)
    BY <1>1 DEF OutputInv
  <2> QED
    BY <1>2, <1>4, <1>5, <1>8, <1>9, <1>10, <1>11, <2>1 DEF OutputInv

(* The reader reads the output of its own command.                         *)
LEMMA ReadingKeepsOutput ==
  ASSUME QuitInv, OutputInv, NEW c \in Commands, ReaderReads(c) PROVE OutputInv'
<1> SUFFICES ASSUME frontEnd = "tui", ~overtaken PROVE OutputInv'
  BY DEF OutputInv, ReaderReads
<1>1. /\ UNCHANGED <<frontEnd, child, orphans, written, reader, shown, overtaken>>
      /\ reader[c].of = c
  BY DEF ReaderReads, At, QuitInv, OnlyProcessLives
<1>2. /\ pipe[c] # <<>> /\ queue' = Append(queue, Head(pipe[c]))
      /\ pipe' = [pipe EXCEPT ![c] = Tail(pipe[c])]
  BY <1>1 DEF ReaderReads
<1> DEFINE note == Head(pipe[c])
<1>3. /\ written \in [Commands -> Nat] /\ pipe \in [Commands -> Seq(Notes)]
      /\ shown \in Seq(Notes) /\ queue \in Seq(Notes) /\ Log \in Seq(Notes)
      /\ LogIsTrue(Log, written, Ended) /\ NoLineIsLost(Log, written, pipe)
  BY DEF OutputInv, Log
<1>4. /\ Len(pipe[c]) \in Nat \ {0} /\ note = pipe[c][1] /\ note \in Notes
      /\ Len(Tail(pipe[c])) = Len(pipe[c]) - 1 /\ Tail(pipe[c]) \in Seq(Notes)
      /\ \A i \in 1 .. Len(pipe[c]) - 1 : Tail(pipe[c])[i] = pipe[c][i + 1]
  BY <1>2, <1>3
<1> HIDE DEF note
<1>5. /\ pipe'[c] = Tail(pipe[c]) /\ \A d \in Commands \ {c} : pipe'[d] = pipe[d]
      /\ pipe' \in [Commands -> Seq(Notes)] /\ queue' \in Seq(Notes)
  BY <1>2, <1>3, <1>4 DEF note
<1>6. Log' = Append(Log, note)
  <2>1. shown \o Append(queue, note) = Append(shown \o queue, note)
    BY <1>3, <1>4, AppendedLast
  <2> QED
    BY <1>1, <1>2, <2>1 DEF Log, note
<1>7. PICK m \in 1 .. written[c] : note = Line(c, m)
  BY <1>4, PipesHoldLines
<1>8. note.kind = "line" /\ note.number \in 1 .. written[note.command]
  BY <1>7 DEF Line, Note
<1>9. LogIsTrue(Append(Log, note), written, Ended)
  BY <1>3, <1>4, <1>8, LogGrows
<1>10. LogIsTrue(Append(Log, note), written, Ended')
  <2>1. Ended \subseteq Ended'
    <3>1. c \notin Ended
      BY <1>2 DEF Ended, EndOfOutput
    <3>2. \A d \in Ended : EndOfOutput(d)'
      BY <1>1, <1>5, <3>1 DEF Ended, EndOfOutput
    <3> QED
      BY <3>2 DEF Ended
  <2>2. Append(Log, note) \in Seq(Notes) /\ \A d \in Commands : written[d] <= written[d]
    BY <1>3, <1>4
  <2> QED
    BY <1>3, <1>9, <2>1, <2>2, CommandsGoOn
<1>11. NoLineIsLost(Append(Log, note), written, pipe')
  <2>1. \A x : Stands(x, Log, Len(Log)) \/ x = note => 
          Stands(x, Append(Log, note), Len(Append(Log, note)))
    <3> DEFINE longer == Append(Log, note)
    <3>1. /\ Len(longer) = Len(Log) + 1 /\ longer[Len(Log) + 1] = note /\ Len(Log) \in Nat
          /\ \A i \in 1 .. Len(Log) : longer[i] = Log[i]
      BY <1>3, <1>4
    <3> HIDE DEF longer
    <3>2. \A x : Stands(x, Log, Len(Log)) \/ x = note => Stands(x, longer, Len(longer))
      BY <3>1 DEF Stands
    <3> QED
      BY <3>2 DEF longer
  <2>2. \A x : Stands(x, pipe[c], Len(pipe[c])) =>
          x = note \/ Stands(x, pipe'[c], Len(pipe'[c]))
    <3> SUFFICES ASSUME NEW i \in 1 .. Len(pipe[c]), i # 1
                 PROVE  Stands(pipe[c][i], pipe'[c], Len(pipe'[c]))
      BY <1>4 DEF Stands
    <3>1. i - 1 \in 1 .. Len(pipe[c]) - 1 /\ pipe'[c][i - 1] = pipe[c][i]
      BY <1>4, <1>5
    <3> QED
      BY <1>4, <1>5, <3>1 DEF Stands
  <2> QED
    BY <1>3, <1>5, <2>1, <2>2 DEF NoLineIsLost
<1>12. \A d \in Commands : \A i \in 1 .. Len(pipe'[d]) :
         \E k \in 1 .. written[d] : pipe'[d][i] = Line(d, k)
  <2>1. ASSUME NEW i \in 1 .. Len(pipe'[c])
        PROVE  \E k \in 1 .. written[c] : pipe'[c][i] = Line(c, k)
    <3>1. i + 1 \in 1 .. Len(pipe[c]) /\ pipe'[c][i] = pipe[c][i + 1]
      BY <1>4, <1>5
    <3> QED
      BY <3>1, PipesHoldLines
  <2> QED
    BY <1>5, <2>1, PipesHoldLines
<1>13. \A d \in Commands : reader'[d].at = "waiting" => d \in Ended'
  <2>1. \A d \in Commands : reader[d].at = "waiting" => d \in Ended /\ d # c
    BY <1>2 DEF OutputInv, Ended, EndOfOutput
  <2>2. \A d \in Ended : d # c => EndOfOutput(d)'
    BY <1>1, <1>5 DEF Ended, EndOfOutput
  <2> QED
    BY <1>1, <2>1, <2>2 DEF Ended
<1> QED
  BY <1>1, <1>3, <1>5, <1>6, <1>10, <1>11, <1>12, <1>13 DEF OutputInv

(* It says that the command has exited when nothing is left to read.        *)
LEMMA ClearingKeepsOutput ==
  ASSUME QuitInv, OutputInv, NEW c \in Commands, ReaderClears(c) PROVE OutputInv'
<1> SUFFICES ASSUME frontEnd = "tui", ~overtaken PROVE OutputInv'
  BY DEF OutputInv, ReaderClears
<1>1. /\ UNCHANGED <<frontEnd, child, orphans, written, pipe, shown, overtaken>>
      /\ reader[c].of = c /\ reader[c].at = "waiting"
      /\ reader' = [reader EXCEPT ![c].at = "done"]
  BY DEF ReaderClears, At, QuitInv, OnlyProcessLives
<1> DEFINE note == Note("exit", c, 0)
<1>2. queue' = Append(queue, note)
  <2>1. queue \in Seq(Notes) /\ note \in Notes
    BY DEF OutputInv, Notes, Note
  <2>2. queue \o <<note>> = Append(queue, note)
    BY <2>1, AppendIsConcat
  <2> QED
    BY <1>1, <2>2 DEF ReaderClears, ExitNote
<1>3. /\ written \in [Commands -> Nat] /\ pipe \in [Commands -> Seq(Notes)]
      /\ shown \in Seq(Notes) /\ queue \in Seq(Notes) /\ Log \in Seq(Notes)
      /\ LogIsTrue(Log, written, Ended) /\ NoLineIsLost(Log, written, pipe)
      /\ c \in Ended
  BY <1>1 DEF OutputInv, Log
<1>4. note \in Notes /\ note.kind = "exit" /\ note.command = c
  BY DEF Notes, Note
<1> HIDE DEF note
<1>5. Log' = Append(Log, note) /\ queue' \in Seq(Notes)
  <2>1. shown \o Append(queue, note) = Append(shown \o queue, note)
    BY <1>3, <1>4, AppendedLast
  <2> QED
    BY <1>1, <1>2, <1>3, <1>4, <2>1 DEF Log
<1>6. \A n \in 1 .. written[c] : Stands(Line(c, n), Log, Len(Log))
  <2>1. Len(pipe[c]) = 0
    BY <1>3 DEF Ended, EndOfOutput
  <2>2. \A x : ~Stands(x, pipe[c], Len(pipe[c]))
    BY <2>1 DEF Stands
  <2> QED
    BY <1>3, <2>2 DEF NoLineIsLost
<1>7. LogIsTrue(Append(Log, note), written, Ended)
  BY <1>3, <1>4, <1>6, LogGrows
<1>8. NoLineIsLost(Append(Log, note), written, pipe)
  <2> DEFINE longer == Append(Log, note)
  <2>1. Len(longer) = Len(Log) + 1 /\ \A i \in 1 .. Len(Log) : longer[i] = Log[i]
    BY <1>3, <1>4
  <2>2. Len(Log) \in Nat
    BY <1>3
  <2> HIDE DEF longer
  <2>3. \A x : Stands(x, Log, Len(Log)) => Stands(x, longer, Len(longer))
    BY <2>1, <2>2 DEF Stands
  <2>4. NoLineIsLost(longer, written, pipe)
    BY <1>3, <2>3 DEF NoLineIsLost
  <2> QED
    BY <2>4 DEF longer
<1>9. Ended' = Ended
  BY <1>1 DEF Ended, EndOfOutput
<1>10. \A d \in Commands : reader'[d].at = "waiting" => d \in Ended'
  <2>1. reader'[c].at = "done" /\ \A d \in Commands \ {c} : reader'[d] = reader[d]
    <3>1. reader \in [Commands -> [at : {"none", "begin", "reading", "waiting", "done", "dead"},
                                   of : MaybeCommand]]
      BY DEF QuitInv, Shape
    <3> QED
      BY <1>1, <3>1
  <2> QED
    BY <1>9, <2>1 DEF OutputInv
<1> QED
  BY <1>1, <1>3, <1>5, <1>7, <1>8, <1>9, <1>10 DEF OutputInv

(* A thread begins, or comes to the end of the output.                      *)
LEMMA ReadersKeepOutput ==
  ASSUME QuitInv, OutputInv, NEW c \in Commands, Reads(c) PROVE OutputInv'
<1>1. CASE ReaderBegins(c) \/ ReaderEnds(c)
  <2> SUFFICES ASSUME frontEnd = "tui", ~overtaken PROVE OutputInv'
    BY <1>1 DEF OutputInv, ReaderBegins, ReaderEnds
  <2>1. UNCHANGED <<frontEnd, overtaken, written, pipe, shown, queue, child, orphans>>
    BY <1>1 DEF ReaderBegins, ReaderEnds
  <2>2. reader \in [Commands -> [at : {"none", "begin", "reading", "waiting", "done", "dead"},
                                 of : MaybeCommand]]
    BY DEF QuitInv, Shape
  <2>3. \A d \in Commands \ {c} : reader'[d] = reader[d]
    BY <1>1, <2>2 DEF ReaderBegins, ReaderEnds
  <2>4. reader'[c].at = "waiting" => c \in Ended
    <3>1. CASE ReaderBegins(c)
      <4>1. reader'[c].at \in {"dead", "reading"}
        BY <2>2, <3>1 DEF ReaderBegins
      <4> QED
        BY <4>1
    <3>2. CASE ReaderEnds(c)
      <4>1. reader[c].of = c
        BY <3>2 DEF ReaderEnds, At, QuitInv, OnlyProcessLives
      <4> QED
        BY <3>2, <4>1 DEF ReaderEnds, Ended
    <3> QED
      BY <1>1, <3>1, <3>2
  <2> QED
    BY <2>1, <2>3, <2>4, NothingIsRead
<1> QED
  BY <1>1, ReadingKeepsOutput, ClearingKeepsOutput DEF Reads

LEMMA StartKeepsOutput ==
  ASSUME QuitInv, OutputInv, NEW c \in Commands, Start(c) PROVE OutputInv'
<1> SUFFICES ASSUME frontEnd' = "tui", ~overtaken' PROVE OutputInv'
  BY DEF OutputInv
<1> DEFINE note == Note("start", c, 0)
<1>1. /\ UNCHANGED <<frontEnd, orphans, written, pipe, queue>> /\ child[c] = "new"
      /\ child' = [child EXCEPT ![c] = "running"] /\ shown' = Append(shown, note)
      /\ reader' = [reader EXCEPT ![c].at = "begin"]
  BY DEF Start
<1>2. frontEnd = "tui" /\ ~overtaken
  BY <1>1, Zenon DEF Start
<1>3. /\ written \in [Commands -> Nat] /\ pipe \in [Commands -> Seq(Notes)]
      /\ shown \in Seq(Notes) /\ queue \in Seq(Notes) /\ Log \in Seq(Notes)
      /\ LogIsTrue(Log, written, Ended) /\ NoLineIsLost(Log, written, pipe)
  BY <1>2 DEF OutputInv, Log
<1>4. note \in Notes /\ note.kind = "start"
  BY DEF Notes, Note
<1> HIDE DEF note
<1>5. Log' = Append(shown, note) \o queue /\ shown' \in Seq(Notes) /\ Log' \in Seq(Notes)
  BY <1>1, <1>3, <1>4 DEF Log
<1>6. LogIsTrue(Log', written, Ended) /\ NoLineIsLost(Log', written, pipe)
  BY <1>3, <1>4, <1>5, StartIsNoted DEF Log
<1>7. Ended \subseteq Ended'
  <2>1. child \in [Commands -> {"new", "running", "asked", "killed", "exited"}]
    BY DEF QuitInv, Shape
  <2>2. \A d \in Ended : EndOfOutput(d)'
    BY <1>1, <2>1 DEF Ended, EndOfOutput
  <2> QED
    BY <2>2 DEF Ended
<1>8. LogIsTrue(Log', written, Ended')
  <2>1. \A d \in Commands : written[d] <= written[d]
    BY <1>3
  <2> QED
    BY <1>3, <1>5, <1>6, <1>7, <2>1, CommandsGoOn
<1>9. \A d \in Commands : reader'[d].at = "waiting" => d \in Ended'
  <2>1. reader \in [Commands -> [at : {"none", "begin", "reading", "waiting", "done", "dead"},
                                 of : MaybeCommand]]
    BY DEF QuitInv, Shape
  <2>2. reader'[c].at = "begin" /\ \A d \in Commands \ {c} : reader'[d] = reader[d]
    BY <1>1, <2>1
  <2> QED
    BY <1>2, <1>7, <2>2 DEF OutputInv
<1>10. \A d \in Commands : \A i \in 1 .. Len(pipe[d]) :
         \E k \in 1 .. written[d] : pipe[d][i] = Line(d, k)
  BY <1>2, PipesHoldLines
<1> QED
  BY <1>1, <1>3, <1>5, <1>6, <1>8, <1>9, <1>10 DEF OutputInv

(* The timer moves what was read to the screen.                            *)
LEMMA FlushKeepsOutput ==
  ASSUME OutputInv, FlushLog PROVE OutputInv'
<1> SUFFICES ASSUME frontEnd = "tui", ~overtaken PROVE OutputInv'
  BY DEF OutputInv, FlushLog
<1>1. /\ UNCHANGED <<frontEnd, child, orphans, written, pipe, reader, overtaken>>
      /\ shown' = shown \o queue /\ queue' = <<>>
  BY DEF FlushLog
<1>2. shown \in Seq(Notes) /\ queue \in Seq(Notes)
  BY DEF OutputInv
<1>3. shown' \in Seq(Notes) /\ queue' \in Seq(Notes)
  BY <1>1, <1>2
<1>4. Log' = Log
  BY <1>1, <1>2, <1>3, ConcatEmptySeq DEF Log
<1>5. Ended' = Ended
  BY <1>1 DEF Ended, EndOfOutput
<1> QED
  BY <1>1, <1>3, <1>4, <1>5 DEF OutputInv

LEMMA OutputIsTold ==
  ASSUME QuitInv, OutputInv PROVE ExitNoteIsLast
<1> SUFFICES ASSUME frontEnd = "tui", ~overtaken, NEW i \in DOMAIN Log, Log[i].kind = "exit"
             PROVE  1 .. written[Log[i].command] =
                      {Log[j].number : j \in {k \in 1 .. i : /\ Log[k].kind = "line"
                                                           /\ Log[k].command = Log[i].command}}
  BY DEF ExitNoteIsLast, Log
<1>1. /\ Log \in Seq(Notes) /\ written \in [Commands -> Nat] /\ LogIsTrue(Log, written, Ended)
  BY DEF OutputInv, Log
<1>2. i \in 1 .. Len(Log) /\ Len(Log) \in Nat
  BY <1>1
<1> DEFINE c == Log[i].command
           lines == {k \in 1 .. i : Log[k].kind = "line" /\ Log[k].command = c}
<1>3. \A j \in lines : Log[j].number \in 1 .. written[c]
  BY <1>1, <1>2 DEF LogIsTrue
<1>4. \A n \in 1 .. written[c] : \E j \in lines : Log[j].number = n
  <2> SUFFICES ASSUME NEW n \in 1 .. written[c] PROVE \E j \in lines : Log[j].number = n
    OBVIOUS
  <2>1. PICK j \in 1 .. i : Log[j] = Line(c, n)
    BY <1>1, <1>2 DEF LogIsTrue, Stands
  <2>2. Log[j].kind = "line" /\ Log[j].command = c /\ Log[j].number = n
    BY <2>1 DEF Line, Note
  <2> QED
    BY <2>2
<1> QED
  BY <1>3, <1>4

(* On the full screen a command is said to have exited only below all that it
   ever wrote, whatever the order of its reader, of the timer and of a stop
   (ControlCentre.ExitNoteIsLast), unless it was overtaken.                *)
THEOREM NothingIsShownAfterExit == Spec => []ExitNoteIsLast
<1>1. Init => OutputInv
  <2> SUFFICES ASSUME Init PROVE OutputInv
    OBVIOUS
  <2>1. /\ shown = <<>> /\ queue = <<>> /\ Log = <<>>
        /\ pipe = [c \in Commands |-> <<>>] /\ written = [c \in Commands |-> 0]
        /\ \A c \in Commands : reader[c].at = "none"
    BY DEF Init, Log
  <2>2. NoLineIsLost(Log, written, pipe) /\ LogIsTrue(Log, written, Ended)
    BY <2>1 DEF NoLineIsLost, LogIsTrue
  <2> QED
    BY <2>1, <2>2 DEF OutputInv
<1>2. QuitInv /\ OutputInv /\ [Next]_vars => OutputInv'
  <2> SUFFICES ASSUME QuitInv, OutputInv, [Next]_vars PROVE OutputInv'
    OBVIOUS
  <2>0. child \in [Commands -> {"new", "running", "asked", "killed", "exited"}]
    BY DEF QuitInv, Shape
  <2>1. CASE /\ UNCHANGED <<frontEnd, overtaken, written, pipe, shown, queue, reader>>
             /\ \/ UNCHANGED orphans /\ \E c : child' \in {child, Asked(c), Killed(c)}
                \/ \E c \in Commands : Exit(c) \/ WorkersEnd(c)
    <3>1. \A c \in Commands : child[c] = "exited" /\ c \notin orphans =>
            child'[c] = "exited" /\ c \notin orphans'
      BY <2>0, <2>1 DEF Asked, Killed, Alive, Exit, WorkersEnd
    <3> QED
      BY <2>1, <3>1, NothingIsRead
  <2>2. CASE Poll
    BY <2>2 DEF Poll, OutputInv
  <2>3. CASE UNCHANGED vars
    BY <2>1, <2>3 DEF vars
  <2>4. ASSUME NEW s \in Stoppers, Stops(s) PROVE OutputInv'
    BY <2>1, <2>4 DEF Stops, StopAsync, StopperFinds, StopperChecks, StopperMarks, StopperAsks,
                      StopperKills, StopperEnds
  <2>5. CASE ConsoleStop \/ Quit \/ QuitKills \/ Gone
    BY <2>1, <2>5 DEF ConsoleStop, Quit, QuitKills, Gone
  <2>6. ASSUME NEW c \in Commands, Exit(c) \/ WorkersEnd(c) PROVE OutputInv'
    BY <2>1, <2>6 DEF Exit, WorkersEnd
  <2> QED
    BY <2>2, <2>3, <2>4, <2>5, <2>6, WritingKeepsOutput, StartKeepsOutput, ReadersKeepOutput,
       FlushKeepsOutput DEF Next
<1>3. QuitInv /\ OutputInv => ExitNoteIsLast
  BY OutputIsTold
<1> QED
  BY <1>1, <1>2, <1>3, QuitInvHoldsAtFirst, QuitInvIsKept, PTL DEF Spec
=============================================================================
