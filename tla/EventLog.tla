------------------------------ MODULE EventLog ------------------------------
(***************************************************************************)
(* The bounded event logs of the server (ManagementCommandRunner and        *)
(* ServerTrafficLog are the same here) and their two kinds of readers: a    *)
(* stream of server-sent events, one server thread per connection, and the  *)
(* web page (server_ui/app.js), which asks for what is new whenever its     *)
(* timer fires or a button was pressed, the last answer come or not.        *)
(*                                                                         *)
(* An event is its id. The log keeps the last MaxEvents; an answer holds at *)
(* most MaxAnswer, the latest ones.                                        *)
(***************************************************************************)
EXTENDS Naturals, Sequences, Sifting

CONSTANTS
  Streams,     \* connections of stream readers
  Refreshes,   \* refreshLogs() calls of the page that may overlap
  MaxEvents,   \* max_events: 5000
  MaxAnswer,   \* limit: 200
  MaxShown,    \* what the page keeps: 500
  Total        \* bound on the events appended

ASSUME LogAssumption ==
  /\ {MaxEvents, MaxAnswer, MaxShown, Total} \subseteq Nat
  /\ 0 < MaxAnswer /\ MaxAnswer <= MaxEvents

VARIABLES
  events,       \* self.events
  nextEventId,  \* self.next_event_id
  stream,       \* of each connection: place, last_id, batch read, ids written
  refresh,      \* of each call: place, since, the two halves of its answer
  cursor,       \* state.commandSince
  onPage,       \* state.commandEvents
  jumped        \* history: ids the cursor passed that the same answer could not hold

logVars == <<events, nextEventId, stream, refresh, cursor, onPage, jumped>>

NoStream == [at |-> "closed", lastId |-> 0, batch |-> <<>>, got |-> <<>>]
NoCall   == [at |-> "idle", since |-> 0, answer |-> <<>>, read |-> 0, next |-> 0]

LogInit ==
  /\ events = <<>> /\ nextEventId = 1
  /\ stream = [s \in Streams |-> NoStream]
  /\ refresh = [r \in Refreshes |-> NoCall]
  /\ cursor = 0 /\ onPage = <<>> /\ jumped = {}

(* Of a sequence the last n elements.                                       *)
LastOf(seq, n) == SubSeq(seq, IF Len(seq) > n THEN Len(seq) - n + 1 ELSE 1, Len(seq))

RecentEvents(since) ==
  LastOf(Sift(events, {i \in DOMAIN events : events[i] > since}), MaxAnswer)

-----------------------------------------------------------------------------
(* append_event, by any thread of the server: add, trim and wake every       *)
(* stream that waits.                                                      *)
WithoutFirst(seq) == IF Len(seq) > MaxEvents THEN SubSeq(seq, MaxEvents + 1, Len(seq)) ELSE seq
Trimmed(seq)      == LastOf(seq, MaxEvents)

AppendEvent ==
  /\ nextEventId <= Total
  /\ events' = Trimmed(Append(events, nextEventId))
  /\ nextEventId' = nextEventId + 1
  /\ stream' = [s \in Streams |-> IF stream[s].at = "waiting"
                                  THEN [stream[s] EXCEPT !.at = "reading"] ELSE stream[s]]
  /\ UNCHANGED <<refresh, cursor, onPage, jumped>>

-----------------------------------------------------------------------------
(* A stream. A client connects from the beginning, or from what it has.      *)
Connect(s) ==
  /\ stream[s].at = "closed"
  /\ \E since \in {0, stream[s].lastId} :
       stream' = [stream EXCEPT ![s] =
                    [at |-> "reading", lastId |-> since, batch |-> <<>>, got |-> <<>>]]
  /\ UNCHANGED <<events, nextEventId, refresh, cursor, onPage, jumped>>

(* wait_for_events reads and begins to wait in one critical section.         *)
ReadEvents(s) ==
  LET new == RecentEvents(stream[s].lastId)
  IN /\ stream[s].at = "reading"
     /\ stream' = [stream EXCEPT ![s].at = IF new = <<>> THEN "waiting" ELSE "writing",
                                 ![s].batch = new]
     /\ UNCHANGED <<events, nextEventId, refresh, cursor, onPage, jumped>>

(* After its time without an event: a keepalive, and another wait.           *)
Keepalive(s) ==
  /\ stream[s].at = "waiting"
  /\ stream' = [stream EXCEPT ![s].at = "reading"]
  /\ UNCHANGED <<events, nextEventId, refresh, cursor, onPage, jumped>>

NextOne(id) == nextEventId
Written(id) == id

WriteEvent(s) ==
  LET id == Head(stream[s].batch)
  IN /\ stream[s].at = "writing"
     /\ stream' = [stream EXCEPT
          ![s].at = IF Len(stream[s].batch) = 1 THEN "reading" ELSE "writing",
          ![s].batch = Tail(@), ![s].lastId = Written(id), ![s].got = Append(@, id)]
     /\ UNCHANGED <<events, nextEventId, refresh, cursor, onPage, jumped>>

(* A client that left is noticed by a write.                                *)
LoseClient(s) ==
  /\ stream[s].at \in {"writing", "waiting"}
  /\ stream' = [stream EXCEPT ![s].at = "closed", ![s].batch = <<>>, ![s].got = <<>>]
  /\ UNCHANGED <<events, nextEventId, refresh, cursor, onPage, jumped>>

-----------------------------------------------------------------------------
(* The page. A call takes the cursor when it asks; the handler reads the     *)
(* events and then, in another critical section, the next id; the page       *)
(* appends the events and takes the id as its cursor.                       *)
IsAt(r, place) == refresh[r].at = place

Ask(r) ==
  /\ IsAt(r, "idle")
  /\ refresh' = [refresh EXCEPT ![r].at = "asked", ![r].since = cursor]
  /\ UNCHANGED <<events, nextEventId, stream, cursor, onPage, jumped>>

AnswerEvents(r) ==
  /\ IsAt(r, "asked")
  /\ refresh' = [refresh EXCEPT ![r].at = "read",
                                ![r].answer = RecentEvents(refresh[r].since),
                                ![r].read = nextEventId]
  /\ UNCHANGED <<events, nextEventId, stream, cursor, onPage, jumped>>

AnswerNext(r) ==
  /\ IsAt(r, "read")
  /\ refresh' = [refresh EXCEPT ![r].at = "answered", ![r].next = nextEventId]
  /\ UNCHANGED <<events, nextEventId, stream, cursor, onPage, jumped>>

ShowAnswer(r) ==
  /\ IsAt(r, "answered")
  /\ onPage' = LastOf(onPage \o refresh[r].answer, MaxShown)
  /\ cursor' = refresh[r].next
  /\ jumped' = jumped \union (refresh[r].read .. refresh[r].next)
  /\ refresh' = [refresh EXCEPT ![r] = NoCall]
  /\ UNCHANGED <<events, nextEventId, stream>>

(* Any request that fails: the page leaves everything as it was.             *)
FailsAt(r) == IsAt(r, "asked") \/ IsAt(r, "answered")

LoseAnswerOnly(r) ==
  /\ FailsAt(r)
  /\ cursor' = IF IsAt(r, "answered") THEN refresh[r].next ELSE cursor
  /\ refresh' = [refresh EXCEPT ![r] = NoCall]
  /\ UNCHANGED <<events, nextEventId, stream, onPage, jumped>>

LoseAnswer(r) ==
  /\ FailsAt(r)
  /\ refresh' = [refresh EXCEPT ![r] = NoCall]
  /\ UNCHANGED <<events, nextEventId, stream, cursor, onPage, jumped>>

-----------------------------------------------------------------------------
StreamStep(s) == ReadEvents(s) \/ Keepalive(s) \/ WriteEvent(s)

StreamNext ==
  AppendEvent \/ \E s \in Streams : Connect(s) \/ StreamStep(s) \/ LoseClient(s)

PageNext ==
  \/ AppendEvent
  \/ \E r \in Refreshes :
       Ask(r) \/ AnswerEvents(r) \/ AnswerNext(r) \/ ShowAnswer(r) \/ LoseAnswer(r)

LogNext == StreamNext \/ PageNext

(* The threads of the streams run.                                          *)
LogFairness == \A s \in Streams : WF_logVars(StreamStep(s))
LogSpec == LogInit /\ [][LogNext]_logVars /\ LogFairness

-----------------------------------------------------------------------------
(* What a connection writes is in order and without repetition, and where    *)
(* it leaves events out a whole answer's worth follows without another gap:  *)
(* no event is lost but to a burst.                                         *)
StreamLosesOnlyToBursts ==
  \A s \in Streams :
    LET ids == stream[s].got \o stream[s].batch
    IN \A i \in 2 .. Len(ids) :
         /\ ids[i] > ids[i - 1]
         /\ ids[i] > ids[i - 1] + 1 =>
              /\ Len(ids) >= i + MaxAnswer - 1
              /\ \A j \in i .. i + MaxAnswer - 1 : ids[j] = ids[i] + (j - i)

(* A connection that stays has in the end written the last event.            *)
StreamCatchesUp ==
  \A s \in Streams : []<>(stream[s].at = "closed" \/ stream[s].lastId = nextEventId - 1)

(* Although calls overlap and fail, the page's cursor passes no event that    *)
(* the page never got but those it was made to jump: the one that then gets   *)
(* the announced id, and those appended between the two halves of an answer. *)
(* (As long as neither the log nor an answer nor the page is full.)          *)
PageMissesOnlyJumps ==
  nextEventId <= MaxAnswer + 1 /\ Len(onPage) < MaxShown =>
    1 .. cursor - 1 \subseteq {onPage[i] : i \in DOMAIN onPage} \union jumped
=============================================================================
