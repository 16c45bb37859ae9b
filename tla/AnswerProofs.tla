--------------------------- MODULE AnswerProofs ---------------------------
(***************************************************************************)
(* What four kinds of answers promise, for any number of threads,          *)
(* connections and pages, for any scopes and functions and every bound:    *)
(*                                                                         *)
(* EventLog      what a reader of a log gets although the log forgets, an  *)
(*               answer is cut off and the calls of a page overlap         *)
(* SourceSearch  the hits of a search whose files a pool of threads reads, *)
(*               some of them after the caller has stopped it              *)
(* FunctionGraphResolver                                                   *)
(*               which functions are candidates of a call, in what order   *)
(* ChangeTracking                                                          *)
(*               which lines a diff says were added and removed, and where  *)
(*               the tools lead that go on from them                       *)
(***************************************************************************)
EXTENDS EventLog, SourceSearch, FunctionGraphResolver, ChangeTracking,
        FiniteSetTheorems, SequenceTheorems, WellFoundedInduction, TLAPS

(***************************************************************************)
(* The event log.                                                          *)
(***************************************************************************)
(* The n ids after a, and the log: the last ones, as many as it may keep.   *)
Run(a, n) == [i \in 1 .. n |-> a + i]

LogKeeps(l) ==
  /\ l \in 0 .. MaxEvents /\ l <= nextEventId - 1
  /\ l < MaxEvents => l = nextEventId - 1
  /\ events = Run(nextEventId - 1 - l, l)

EventsInv == nextEventId \in Nat \ {0} /\ \E l \in Nat : LogKeeps(l)

GapsAreBursts(ids) ==
  \A i \in 2 .. Len(ids) :
    /\ ids[i] > ids[i - 1]
    /\ ids[i] > ids[i - 1] + 1 =>
         /\ Len(ids) >= i + MaxAnswer - 1
         /\ \A j \in i .. i + MaxAnswer - 1 : ids[j] = ids[i] + (j - i)

(* What a connection has written and is to write, and the last it wrote.    *)
StreamStates == [at : {"closed", "reading", "waiting", "writing"}, lastId : Nat,
             batch : Seq(Nat), got : Seq(Nat)]
InOrder(st) ==
  /\ st.at = "writing" <=> st.batch # <<>>
  /\ st.at = "closed" => st.got = <<>>
  /\ st.got # <<>> => st.lastId = st.got[Len(st.got)]
  /\ GapsAreBursts(st.got \o st.batch)

StreamsInv == stream \in [Streams -> StreamStates] /\ \A s \in Streams : InOrder(stream[s])

(* What the page got or was made to jump, as long as nothing is full.       *)
Roomy(next, page) == next <= MaxAnswer + 1 /\ Len(page) < MaxShown
Members(ids)      == {ids[i] : i \in DOMAIN ids}

Covers(id, next, page, jumps) ==
  /\ id = 0 \/ id \in jumps
  /\ Roomy(next, page) => 1 .. id - 1 \subseteq Members(page) \union jumps

CallStates == [at : {"idle", "asked", "read", "answered"}, since : Nat, answer : Seq(Nat),
          read : Nat, next : Nat]

(* A call began at a cursor of the page, and its answer goes on from there.  *)
Continues(call, next, page, jumps) ==
  /\ call.at # "idle" => Covers(call.since, next, page, jumps)
  /\ call.at \in {"read", "answered"} /\ next <= MaxAnswer + 1 =>
       call.since + 1 .. call.read - 1 \subseteq Members(call.answer)
  /\ call.at = "read" => call.read <= next
  /\ call.at = "answered" => call.read <= call.next

PageInv ==
  /\ cursor \in Nat /\ onPage \in Seq(Nat) /\ refresh \in [Refreshes -> CallStates]
  /\ Covers(cursor, nextEventId, onPage, jumped)
  /\ \A r \in Refreshes : Continues(refresh[r], nextEventId, onPage, jumped)

LEMMA RunsAreSequences ==
  ASSUME NEW a \in Nat, NEW n \in Nat
  PROVE  /\ Run(a, n) \in Seq(Nat) /\ Len(Run(a, n)) = n
         /\ \A i \in 1 .. n : Run(a, n)[i] = a + i
BY DEF Run

LEMMA LastOfRun ==
  ASSUME NEW a \in Nat, NEW n \in Nat, NEW m \in Nat
  PROVE  LastOf(Run(a, n), m) = IF n > m THEN Run(a + n - m, m) ELSE Run(a, n)
<1> DEFINE ids == Run(a, n)
           from == IF n > m THEN n - m + 1 ELSE 1
<1>1. ids \in Seq(Nat) /\ Len(ids) = n /\ \A i \in 1 .. n : ids[i] = a + i
  BY RunsAreSequences
<1>2. LastOf(ids, m) = SubSeq(ids, from, n)
  BY <1>1 DEF LastOf
<1>3. SubSeq(ids, from, n) = [i \in 1 .. 1 + n - from |-> ids[i + from - 1]]
  BY <1>1
<1>4. CASE n > m
  <2>1. SubSeq(ids, from, n) = [i \in 1 .. m |-> ids[i + (n - m)]]
    BY <1>3, <1>4
  <2>2. \A i \in 1 .. m : ids[i + (n - m)] = (a + n - m) + i
    BY <1>1, <1>4
  <2> HIDE DEF ids
  <2> QED
    BY <1>2, <1>4, <2>1, <2>2 DEF Run, ids
<1>5. CASE ~(n > m)
  <2>1. SubSeq(ids, from, n) = [i \in 1 .. n |-> ids[i]]
    BY <1>3, <1>5
  <2> QED
    BY <1>2, <1>5, <2>1 DEF Run
<1> QED
  BY <1>4, <1>5

(* What is sifted out of the places past m is all that stands after place m. *)
SiftsEnd(seq, m, l) == Sift(seq, m + 1 .. l) = [k \in 1 .. l - m |-> seq[m + k]]

LEMMA SiftedEnd ==
  ASSUME NEW seq, NEW l \in Nat, NEW m \in 0 .. l
  PROVE  SiftsEnd(seq, m, l)
<1> SUFFICES Sift(seq, m + 1 .. l) = [k \in 1 .. l - m |-> seq[m + k]]
  BY DEF SiftsEnd
<1> DEFINE places == m + 1 .. l
<1>1. Cardinality(places) = l - m /\ l - m \in Nat
  <2>1. m + 1 \in Int /\ l \in Int
    OBVIOUS
  <2>2. Cardinality(places) = IF m + 1 > l THEN 0 ELSE l - (m + 1) + 1
    BY <2>1, FS_Interval, Zenon
  <2> HIDE DEF places
  <2> QED
    BY <2>2
<1>2. ASSUME NEW i \in places PROVE Passed(places, i) = i - m
  <2>1. {j \in places : j <= i} = m + 1 .. i
    OBVIOUS
  <2>2. Cardinality(m + 1 .. i) = i - m
    BY FS_Interval
  <2> QED
    BY <2>1, <2>2 DEF Passed
<1>3. ASSUME NEW k \in 1 .. l - m
      PROVE  (CHOOSE i \in places : Passed(places, i) = k) = m + k
  <2>1. m + k \in places /\ (m + k) - m = k
    BY <1>3
  <2>2. \A i \in places : i - m = k => i = m + k
    OBVIOUS
  <2> HIDE DEF places
  <2>3. Passed(places, m + k) = k
    BY <1>2, <2>1
  <2>4. \A i \in places : Passed(places, i) = k => i = m + k
    BY <1>2, <2>2
  <2> QED
    BY <2>1, <2>3, <2>4, Zenon
<1>4. Sift(seq, places) = [k \in 1 .. l - m |->
                             seq[CHOOSE i \in places : Passed(places, i) = k]]
  BY <1>1 DEF Sift
<1> HIDE DEF places
<1> QED
  BY <1>3, <1>4, Zenon DEF places

(* An answer to what came after an id is of the latest ids, and where it
   leaves out any it is a whole one.                                        *)
LEMMA AnswersAreTheLatest ==
  ASSUME EventsInv, NEW since \in Nat
  PROVE  LET last == nextEventId - 1 IN
         \E n \in 0 .. MaxAnswer :
           /\ n <= last /\ RecentEvents(since) = Run(last - n, n)
           /\ since >= last => n = 0
           /\ since < last => /\ n # 0 /\ since <= last - n
                              /\ n < MaxAnswer => since = last - n
<1> DEFINE last == nextEventId - 1
<1>1. PICK l \in Nat : LogKeeps(l)
  BY DEF EventsInv
<1>2. /\ last \in Nat /\ MaxEvents \in Nat /\ MaxAnswer \in Nat \ {0} /\ MaxAnswer <= MaxEvents
      /\ l <= MaxEvents /\ l <= last /\ (l < MaxEvents => l = last)
      /\ events = Run(last - l, l)
  BY <1>1, LogAssumption DEF EventsInv, LogKeeps
<1> DEFINE m == IF since <= last - l THEN 0 ELSE IF since >= last THEN l ELSE since - (last - l)
<1>3. m \in 0 .. l /\ l - m \in Nat /\ last - l \in Nat
  BY <1>2
<1>4. {i \in DOMAIN events : events[i] > since} = m + 1 .. l
  <2>1. DOMAIN events = 1 .. l /\ \A i \in 1 .. l : events[i] = (last - l) + i
    BY <1>2 DEF Run
  <2>2. \A i \in 1 .. l : (last - l) + i > since <=> i >= m + 1
    BY <1>2
  <2>3. \A i : i \in m + 1 .. l <=> i \in 1 .. l /\ i >= m + 1
    BY <1>3
  <2> HIDE DEF m, last
  <2> QED
    BY <2>1, <2>2, <2>3
<1>5. Sift(events, m + 1 .. l) = Run(last - (l - m), l - m)
  <2>1. Sift(events, m + 1 .. l) = [k \in 1 .. l - m |-> events[m + k]]
    <3>1. m \in 0 .. l /\ l \in Nat
      BY <1>3
    <3> HIDE DEF m, last
    <3>2. SiftsEnd(events, m, l)
      BY <3>1, SiftedEnd, Zenon
    <3> QED
      BY <3>2, Zenon DEF SiftsEnd
  <2>2. \A k \in 1 .. l - m : m + k \in 1 .. l /\ (last - l) + (m + k) = (last - (l - m)) + k
    BY <1>2, <1>3
  <2>3. \A k \in 1 .. l - m : events[m + k] = (last - (l - m)) + k
    BY <1>2, <2>2 DEF Run
  <2> HIDE DEF m, last
  <2> QED
    BY <2>1, <2>3 DEF Run
<1> DEFINE n == IF l - m > MaxAnswer THEN MaxAnswer ELSE l - m
<1>6. RecentEvents(since) = Run(last - n, n)
  <2>1. RecentEvents(since) = LastOf(Run(last - (l - m), l - m), MaxAnswer)
    BY <1>4, <1>5 DEF RecentEvents
  <2>2. last - (l - m) \in Nat
    BY <1>2, <1>3
  <2>3. (last - (l - m)) + (l - m) - MaxAnswer = last - MaxAnswer
    BY <1>2, <1>3
  <2> HIDE DEF m, last
  <2> QED
    BY <1>2, <1>3, <2>1, <2>2, <2>3, LastOfRun
<1>7. /\ n \in 0 .. MaxAnswer /\ n <= last
      /\ since >= last => n = 0
      /\ since < last => /\ n # 0 /\ since <= last - n
                         /\ n < MaxAnswer => since = last - n
  BY <1>2
<1> HIDE DEF m, n
<1> SUFFICES \E k \in 0 .. MaxAnswer :
               /\ k <= last /\ RecentEvents(since) = Run(last - k, k)
               /\ since >= last => k = 0
               /\ since < last => /\ k # 0 /\ since <= last - k
                                  /\ k < MaxAnswer => since = last - k
  OBVIOUS
<1> QED
  BY <1>6, <1>7

LEMMA AppendingKeepsEvents ==
  ASSUME EventsInv, AppendEvent PROVE EventsInv'
<1> DEFINE last == nextEventId - 1
<1>1. PICK l \in Nat : LogKeeps(l)
  BY DEF EventsInv
<1>2. /\ last \in Nat /\ MaxEvents \in Nat \ {0} /\ nextEventId' = nextEventId + 1
      /\ l <= MaxEvents /\ l <= last /\ (l < MaxEvents => l = last)
      /\ events = Run(last - l, l) /\ events' = LastOf(Append(events, nextEventId), MaxEvents)
      /\ last - l \in Nat /\ l + 1 \in Nat
  BY <1>1, LogAssumption DEF EventsInv, LogKeeps, AppendEvent, Trimmed
<1>3. Append(events, nextEventId) = Run(last - l, l + 1)
  <2>1. /\ Run(last - l, l) \in Seq(Nat) /\ Len(Run(last - l, l)) = l
        /\ \A i \in 1 .. l : Run(last - l, l)[i] = (last - l) + i
    BY <1>2, RunsAreSequences
  <2>2. (last - l) + (l + 1) = nextEventId
    BY <1>2 DEF EventsInv
  <2> DEFINE ids == Run(last - l, l)
  <2>3. Append(ids, nextEventId) = [i \in 1 .. l + 1 |-> (last - l) + i]
    <3> HIDE DEF ids, last
    <3>1. Append(ids, nextEventId) =
            [i \in 1 .. l + 1 |-> IF i = l + 1 THEN nextEventId ELSE ids[i]]
      BY <2>1 DEF ids
    <3>2. \A i \in 1 .. l + 1 : (IF i = l + 1 THEN nextEventId ELSE ids[i]) = (last - l) + i
      BY <2>1, <2>2 DEF ids
    <3> QED
      BY <3>1, <3>2
  <2> QED
    BY <1>2, <2>3 DEF Run
<1>4. CASE l = MaxEvents
  <2>1. events' = Run((last - l) + (l + 1) - MaxEvents, MaxEvents)
    <3> HIDE DEF last
    <3>1. LastOf(Run(last - l, l + 1), MaxEvents) = Run((last - l) + (l + 1) - MaxEvents, MaxEvents)
      BY <1>2, <1>4, LastOfRun
    <3> QED
      BY <1>2, <1>3, <3>1
  <2>2. (last - l) + (l + 1) - MaxEvents = nextEventId' - 1 - MaxEvents
    BY <1>2, <1>4 DEF EventsInv
  <2>3. LogKeeps(MaxEvents)'
    BY <1>2, <1>4, <2>1, <2>2 DEF LogKeeps, EventsInv
  <2> QED
    BY <1>2, <2>3 DEF EventsInv
<1>5. CASE l # MaxEvents
  <2>1. events' = Run(last - l, l + 1)
    <3> HIDE DEF last
    <3>1. LastOf(Run(last - l, l + 1), MaxEvents) = Run(last - l, l + 1)
      BY <1>2, <1>5, LastOfRun
    <3> QED
      BY <1>2, <1>3, <3>1
  <2>2. last - l = nextEventId' - 1 - (l + 1)
    BY <1>2 DEF EventsInv
  <2>3. LogKeeps(l + 1)'
    BY <1>2, <1>5, <2>1, <2>2 DEF LogKeeps, EventsInv
  <2> QED
    BY <1>2, <2>3 DEF EventsInv
<1> QED
  BY <1>4, <1>5

-----------------------------------------------------------------------------
(* An answer that goes on from the last id, or is a whole one, adds no gap
   but before a whole answer.                                              *)
LEMMA AnswersAddBursts ==
  ASSUME NEW got \in Seq(Nat), NEW a \in Nat, NEW n \in 1 .. MaxAnswer, GapsAreBursts(got),
         got # <<>> => /\ got[Len(got)] <= a
                       /\ n < MaxAnswer => got[Len(got)] = a
  PROVE  GapsAreBursts(got \o Run(a, n))
<1> DEFINE ids == got \o Run(a, n)
           g == Len(got)
<1>1. g \in Nat /\ MaxAnswer \in Nat /\ n \in Nat
  BY LogAssumption
<1>2. Run(a, n) \in Seq(Nat) /\ Len(Run(a, n)) = n /\ \A i \in 1 .. n : Run(a, n)[i] = a + i
  BY <1>1, RunsAreSequences
<1>3. /\ Len(ids) = g + n
      /\ \A i \in 1 .. g : ids[i] = got[i] /\ got[i] \in Nat
      /\ \A i \in g + 1 .. g + n : ids[i] = a + (i - g)
  <2>1. \A i \in g + 1 .. g + n : i - g \in 1 .. n
    BY <1>1
  <2>2. /\ Len(ids) = g + n
        /\ \A i \in 1 .. g + n : ids[i] = IF i <= g THEN got[i] ELSE Run(a, n)[i - g]
    <3> DEFINE run == Run(a, n)
    <3> HIDE DEF run
    <3>1. /\ Len(got \o run) = Len(got) + Len(run)
          /\ \A i \in 1 .. Len(got) + Len(run) :
               (got \o run)[i] = IF i <= Len(got) THEN got[i] ELSE run[i - Len(got)]
      BY <1>2, ConcatProperties, Zenon DEF run
    <3> QED
      BY <1>2, <3>1 DEF run
  <2>3. \A i \in 1 .. g : got[i] \in Nat
    OBVIOUS
  <2>4. \A i \in g + 1 .. g + n : ids[i] = a + (i - g)
    <3> HIDE DEF ids, g
    <3> QED
      BY <1>1, <1>2, <2>1, <2>2
  <2> HIDE DEF ids, g
  <2> QED
    BY <1>1, <2>2, <2>3, <2>4
<1>4. g # 0 => got[g] \in Nat /\ got[g] <= a /\ (n < MaxAnswer => got[g] = a)
  BY <1>1
<1> HIDE DEF ids
<1> SUFFICES ASSUME NEW i \in 2 .. Len(ids)
             PROVE  /\ ids[i] > ids[i - 1]
                    /\ ids[i] > ids[i - 1] + 1 =>
                         /\ Len(ids) >= i + MaxAnswer - 1
                         /\ \A j \in i .. i + MaxAnswer - 1 : ids[j] = ids[i] + (j - i)
  BY DEF GapsAreBursts, ids
<1>5. CASE i <= g
  <2>1. /\ got[i] > got[i - 1]
        /\ got[i] > got[i - 1] + 1 =>
             /\ g >= i + MaxAnswer - 1
             /\ \A j \in i .. i + MaxAnswer - 1 : got[j] = got[i] + (j - i)
    BY <1>1, <1>3, <1>5 DEF GapsAreBursts
  <2>2. ids[i] = got[i] /\ ids[i - 1] = got[i - 1]
    <3>1. i \in 1 .. g /\ i - 1 \in 1 .. g
      BY <1>1, <1>3, <1>5
    <3> HIDE DEF g
    <3> QED
      BY <1>3, <3>1
  <2>3. g >= i + MaxAnswer - 1 => \A j \in i .. i + MaxAnswer - 1 : ids[j] = got[j]
    BY <1>1, <1>3, <1>5
  <2> HIDE DEF g
  <2> QED
    BY <1>1, <1>3, <2>1, <2>2, <2>3
<1>6. CASE i = g + 1
  <2> HIDE DEF g
  <2>0. i \in g + 1 .. g + n /\ i - g = 1 /\ i - 1 = g /\ g \in 1 .. g /\ g # 0
    BY <1>1, <1>3, <1>6
  <2>1. ids[i] = a + 1 /\ ids[i - 1] = got[g] /\ g # 0
    BY <1>3, <2>0, Zenon
  <2>2. ids[i] > ids[i - 1] + 1 => n = MaxAnswer
    BY <1>1, <1>4, <2>1
  <2>3. n = MaxAnswer => \A j \in i .. i + MaxAnswer - 1 : ids[j] = ids[i] + (j - i)
    BY <1>1, <1>3, <1>6, <2>1
  <2> QED
    BY <1>1, <1>3, <1>4, <1>6, <2>1, <2>2, <2>3
<1>7. CASE i > g + 1
  <2> HIDE DEF g
  <2>0. i \in g + 1 .. g + n /\ i - 1 \in g + 1 .. g + n
    BY <1>1, <1>3, <1>7
  <2>1. ids[i] = a + (i - g) /\ ids[i - 1] = a + (i - 1 - g)
    BY <1>3, <2>0, Zenon
  <2> QED
    BY <1>1, <1>3, <2>1
<1> QED
  BY <1>1, <1>3, <1>5, <1>6, <1>7

(* What appending an entry makes of a sequence.                             *)
Appends(seq, elt, all) ==
  /\ all # <<>> /\ Len(all) = Len(seq) + 1 /\ all[Len(seq) + 1] = elt
  /\ \A i \in 1 .. Len(seq) : all[i] = seq[i]

LEMMA AppendAppends ==
  ASSUME NEW S, NEW seq \in Seq(S), NEW elt \in S
  PROVE  Append(seq, elt) \in Seq(S) /\ Appends(seq, elt, Append(seq, elt))
<1> DEFINE all == Append(seq, elt)
<1>1. /\ all \in Seq(S) /\ all # <<>> /\ Len(all) = Len(seq) + 1
      /\ \A i \in 1 .. Len(seq) : all[i] = seq[i]
      /\ all[Len(seq) + 1] = elt
  BY AppendProperties
<1> QED
  BY <1>1, Zenon DEF Appends

(* What is written moves from what is to be written to what was.           *)
LEMMA WritingMovesOne ==
  ASSUME NEW got \in Seq(Nat), NEW batch \in Seq(Nat), batch # <<>>
  PROVE  LET all == Append(got, Head(batch)) IN
         /\ Head(batch) \in Nat /\ all \in Seq(Nat) /\ Tail(batch) \in Seq(Nat)
         /\ all # <<>> /\ all[Len(all)] = Head(batch)
         /\ Tail(batch) = <<>> <=> Len(batch) = 1
         /\ all \o Tail(batch) = got \o batch
<1> DEFINE id == Head(batch)
           rest == Tail(batch)
           all == Append(got, id)
<1>1. /\ id \in Nat /\ rest \in Seq(Nat) /\ Len(batch) \in Nat /\ Len(rest) = Len(batch) - 1
      /\ \A i \in 1 .. Len(rest) : rest[i] = batch[i + 1]
      /\ id = batch[1]
  BY HeadTailProperties
<1>r. Len(rest) \in Nat
  BY <1>1, LenProperties, Zenon
<1> HIDE DEF id, rest
<1>2. /\ all \in Seq(Nat) /\ all # <<>> /\ Len(all) = Len(got) + 1 /\ Len(got) \in Nat
      /\ all[Len(got) + 1] = id /\ \A i \in 1 .. Len(got) : all[i] = got[i]
  <2>1. id \in Nat /\ Len(got) \in Nat
    BY <1>1, LenProperties, Zenon
  <2>2. all \in Seq(Nat) /\ Appends(got, id, all)
    BY <2>1, AppendAppends, Zenon
  <2> HIDE DEF all
  <2> QED
    BY <2>1, <2>2 DEF Appends
<1> HIDE DEF all
<1>3. rest = <<>> <=> Len(rest) = 0
  <2>1. rest # <<>> => Len(rest) \in Nat \ {0}
    BY <1>1, EmptySeq, Zenon
  <2>2. rest = <<>> => Len(rest) = 0
    BY EmptySeq, Zenon
  <2> QED
    BY <2>1, <2>2
<1>4. /\ all \o rest \in Seq(Nat) /\ Len(all \o rest) = Len(all) + Len(rest)
      /\ \A i \in 1 .. Len(all) + Len(rest) :
           (all \o rest)[i] = IF i <= Len(all) THEN all[i] ELSE rest[i - Len(all)]
  BY <1>1, <1>2, ConcatProperties, Zenon
<1>5. /\ got \o batch \in Seq(Nat) /\ Len(got \o batch) = Len(got) + Len(batch)
      /\ \A i \in 1 .. Len(got) + Len(batch) :
           (got \o batch)[i] = IF i <= Len(got) THEN got[i] ELSE batch[i - Len(got)]
  BY ConcatProperties, Zenon
<1>6. Len(all) + Len(rest) = Len(got) + Len(batch)
  BY <1>1, <1>2
<1>7. ASSUME NEW i \in 1 .. Len(all) + Len(rest) PROVE (all \o rest)[i] = (got \o batch)[i]
  <2>0. /\ Len(got) \in Nat /\ Len(rest) \in Nat /\ Len(all) = Len(got) + 1 /\ Len(all) \in Nat
        /\ i \in Nat /\ i # 0 /\ i <= Len(all) + Len(rest)
    <3> DEFINE g == Len(got)
               n == Len(rest)
               m == Len(all)
    <3>1. g \in Nat /\ n \in Nat /\ m = g + 1 /\ i \in 1 .. m + n
      BY <1>r, <1>2, <1>7
    <3> HIDE DEF g, n, m
    <3>2. m \in Nat /\ i \in Nat /\ i # 0 /\ i <= m + n
      BY <3>1
    <3> QED
      BY <3>1, <3>2 DEF g, n, m
  <2>1. CASE i <= Len(got)
    BY <1>2, <1>4, <1>5, <1>6, <2>0, <2>1
  <2>2. CASE i = Len(got) + 1
    BY <1>1, <1>2, <1>4, <1>5, <1>6, <2>0, <2>2
  <2>3. CASE i > Len(got) + 1
    <3>1. i - Len(all) \in 1 .. Len(rest) /\ (i - Len(all)) + 1 = i - Len(got)
      BY <2>0, <2>3
    <3>2. rest[i - Len(all)] = batch[i - Len(got)]
      BY <1>1, <3>1
    <3>3. ~(i <= Len(all)) /\ ~(i <= Len(got))
      BY <2>0, <2>3
    <3>4. (all \o rest)[i] = rest[i - Len(all)]
      BY <1>4, <3>3, Zenon
    <3>5. (got \o batch)[i] = batch[i - Len(got)]
      BY <1>5, <1>6, <3>3, Zenon
    <3> QED
      BY <3>2, <3>4, <3>5, Zenon
  <2>4. i <= Len(got) \/ i = Len(got) + 1 \/ i > Len(got) + 1
    BY <2>0
  <2> QED
    BY <2>1, <2>2, <2>3, <2>4
<1>8. all \o rest = got \o batch
  <2> DEFINE s == all \o rest
             t == got \o batch
  <2>1. s \in Seq(Nat) /\ t \in Seq(Nat) /\ Len(s) = Len(t)
    BY <1>4, <1>5, <1>6, Zenon
  <2>2. \A i \in 1 .. Len(s) : s[i] = t[i]
    BY <1>4, <1>7, Zenon
  <2> HIDE DEF s, t
  <2>3. s = t
    BY <2>1, <2>2, SeqEqual, Zenon
  <2> QED
    BY <2>3 DEF s, t
<1>9. Len(rest) = 0 <=> Len(batch) = 1
  BY <1>1
<1>10. all[Len(all)] = id
  BY <1>2
<1> QED
  BY <1>1, <1>2, <1>3, <1>8, <1>9, <1>10, Zenon DEF all, rest, id

LEMMA StreamsKeepOrder ==
  ASSUME EventsInv, StreamsInv, NEW s \in Streams,
         Connect(s) \/ ReadEvents(s) \/ Keepalive(s) \/ WriteEvent(s) \/ LoseClient(s)
  PROVE  StreamsInv'
<1> DEFINE st == stream[s]
<1>1. /\ st \in StreamStates /\ InOrder(st) /\ stream \in [Streams -> StreamStates]
  BY DEF StreamsInv
<1>2. /\ stream' = [t \in Streams |-> stream'[t]]
      /\ \A t \in Streams \ {s} : stream'[t] = stream[t]
  BY <1>1 DEF Connect, ReadEvents, Keepalive, WriteEvent, LoseClient
<1>9. ASSUME stream'[s] \in StreamStates, InOrder(stream'[s]) PROVE StreamsInv'
  BY <1>2, <1>9 DEF StreamsInv
<1>3. GapsAreBursts(<<>>)
  BY DEF GapsAreBursts
<1>4. CASE Connect(s)
  <2>1. PICK since \in {0, st.lastId} :
          stream' = [stream EXCEPT ![s] = [at |-> "reading", lastId |-> since,
                                           batch |-> <<>>, got |-> <<>>]]
    BY <1>4 DEF Connect
  <2> DEFINE new == [at |-> "reading", lastId |-> since, batch |-> <<>>, got |-> <<>>]
  <2>2. new \in StreamStates
    BY <1>1 DEF StreamStates
  <2>3. InOrder(new)
    BY <1>3 DEF InOrder
  <2>4. stream'[s] = new
    BY <1>1, <2>1
  <2> HIDE DEF new
  <2> QED
    BY <1>9, <2>2, <2>3, <2>4
<1>5. CASE ReadEvents(s)
  <2> DEFINE answer == RecentEvents(st.lastId)
             new == [at |-> IF answer = <<>> THEN "waiting" ELSE "writing",
                     lastId |-> st.lastId, batch |-> answer, got |-> st.got]
  <2>1. /\ st.at = "reading" /\ st.batch = <<>> /\ st.lastId \in Nat /\ st.got \in Seq(Nat)
        /\ GapsAreBursts(st.got)
        /\ st.got # <<>> => st.lastId = st.got[Len(st.got)]
    <3>1. st.at = "reading" /\ st.batch = <<>> /\ st.lastId \in Nat /\ st.got \in Seq(Nat)
      BY <1>1, <1>5 DEF ReadEvents, InOrder, StreamStates
    <3>2. st.got \o st.batch = st.got
      BY <3>1
    <3> QED
      BY <1>1, <3>1, <3>2 DEF InOrder
  <2>2. stream'[s] = new
    <3>1. stream'[s] = [[st EXCEPT !.at = IF answer = <<>> THEN "waiting" ELSE "writing"]
                          EXCEPT !.batch = answer]
      BY <1>1, <1>5, Zenon DEF ReadEvents
    <3> HIDE DEF answer
    <3> QED
      BY <1>1, <3>1 DEF StreamStates
  <2>3. PICK n \in 0 .. MaxAnswer :
          LET last == nextEventId - 1 IN
          /\ n <= last /\ answer = Run(last - n, n)
          /\ st.lastId >= last => n = 0
          /\ st.lastId < last => /\ n # 0 /\ st.lastId <= last - n
                                 /\ n < MaxAnswer => st.lastId = last - n
    BY <2>1, AnswersAreTheLatest
  <2>4. /\ nextEventId - 1 - n \in Nat /\ n \in Nat /\ nextEventId - 1 \in Nat
    BY <2>3, LogAssumption DEF EventsInv
  <2>5. answer \in Seq(Nat) /\ (answer = <<>> <=> n = 0)
    <3>1. answer \in Seq(Nat) /\ Len(answer) = n
      BY <2>3, <2>4, RunsAreSequences
    <3> HIDE DEF answer
    <3> QED
      BY <3>1, <2>4
  <2>6. GapsAreBursts(st.got \o answer)
    <3>1. CASE n = 0
      <4> HIDE DEF answer
      <4>1. st.got \o answer = st.got
        BY <2>1, <2>5, <3>1
      <4> QED
        BY <2>1, <4>1
    <3>2. CASE n # 0
      <4>1. n \in 1 .. MaxAnswer /\ st.lastId <= nextEventId - 1 - n
            /\ (n < MaxAnswer => st.lastId = nextEventId - 1 - n)
        BY <2>1, <2>3, <2>4, <3>2
      <4>2. answer = Run(nextEventId - 1 - n, n)
        BY <2>3
      <4> HIDE DEF answer
      <4> QED
        BY <2>1, <2>3, <2>4, <4>1, <4>2, AnswersAddBursts
    <3> QED
      BY <3>1, <3>2
  <2>7. new \in StreamStates
    <3> HIDE DEF answer
    <3> QED
      BY <2>1, <2>5 DEF StreamStates
  <2>8. InOrder(new)
    <3> HIDE DEF answer
    <3> QED
      BY <2>1, <2>6 DEF InOrder
  <2> HIDE DEF new
  <2> QED
    BY <1>9, <2>2, <2>7, <2>8
<1>6. CASE Keepalive(s)
  <2> DEFINE new == [at |-> "reading", lastId |-> st.lastId, batch |-> st.batch, got |-> st.got]
  <2>1. stream'[s] = new /\ st.at = "waiting"
    <3>1. stream'[s] = [st EXCEPT !.at = "reading"] /\ st.at = "waiting"
      BY <1>1, <1>6, Zenon DEF Keepalive
    <3> QED
      BY <1>1, <3>1 DEF StreamStates
  <2>2. new \in StreamStates
    BY <1>1 DEF StreamStates
  <2>3. InOrder(new)
    BY <1>1, <2>1 DEF InOrder
  <2> HIDE DEF new
  <2> QED
    BY <1>9, <2>1, <2>2, <2>3
<1>7. CASE WriteEvent(s)
  <2> DEFINE id == Head(st.batch)
             new == [at |-> IF Len(st.batch) = 1 THEN "reading" ELSE "writing",
                     lastId |-> id, batch |-> Tail(st.batch), got |-> Append(st.got, id)]
  <2>1. /\ st.at = "writing" /\ st.batch # <<>> /\ st.batch \in Seq(Nat) /\ st.got \in Seq(Nat)
        /\ GapsAreBursts(st.got \o st.batch)
    BY <1>1, <1>7 DEF WriteEvent, InOrder, StreamStates
  <2>2. stream'[s] = new
    <3>1. stream'[s] = [[[[st EXCEPT !.at = IF Len(st.batch) = 1 THEN "reading" ELSE "writing"]
                            EXCEPT !.batch = Tail(st.batch)] EXCEPT !.lastId = id]
                            EXCEPT !.got = Append(st.got, id)]
      BY <1>1, <1>7, Zenon DEF WriteEvent, Written
    <3> QED
      BY <1>1, <3>1 DEF StreamStates
  <2>3. /\ id \in Nat /\ Tail(st.batch) \in Seq(Nat) /\ Append(st.got, id) \in Seq(Nat)
        /\ Append(st.got, id)[Len(Append(st.got, id))] = id
        /\ Tail(st.batch) = <<>> <=> Len(st.batch) = 1
        /\ Append(st.got, id) # <<>>
    BY <2>1, WritingMovesOne
  <2>4. Append(st.got, id) \o Tail(st.batch) = st.got \o st.batch
    BY <2>1, WritingMovesOne
  <2>5. new \in StreamStates
    BY <2>3 DEF StreamStates
  <2>6. InOrder(new)
    BY <2>1, <2>3, <2>4 DEF InOrder
  <2> HIDE DEF new
  <2> QED
    BY <1>9, <2>2, <2>5, <2>6
<1>8. CASE LoseClient(s)
  <2> DEFINE new == [at |-> "closed", lastId |-> st.lastId, batch |-> <<>>, got |-> <<>>]
  <2>1. stream'[s] = new
    <3>1. stream'[s] = [[[st EXCEPT !.at = "closed"] EXCEPT !.batch = <<>>] EXCEPT !.got = <<>>]
      BY <1>1, <1>8, Zenon DEF LoseClient
    <3> QED
      BY <1>1, <3>1 DEF StreamStates
  <2>2. new \in StreamStates
    BY <1>1 DEF StreamStates
  <2>3. InOrder(new)
    BY <1>3 DEF InOrder
  <2> HIDE DEF new
  <2> QED
    BY <1>9, <2>1, <2>2, <2>3
<1> QED
  BY <1>4, <1>5, <1>6, <1>7, <1>8

LEMMA AppendingKeepsStreams ==
  ASSUME StreamsInv, AppendEvent PROVE StreamsInv'
<1>1. ASSUME NEW s \in Streams PROVE stream'[s] \in StreamStates /\ InOrder(stream'[s])
  <2> DEFINE st == stream[s]
  <2>1. st \in StreamStates /\ InOrder(st)
    BY DEF StreamsInv
  <2>2. CASE st.at = "waiting"
    <3> DEFINE new == [at |-> "reading", lastId |-> st.lastId, batch |-> st.batch, got |-> st.got]
    <3>1. stream'[s] = new
      <4>1. stream'[s] = [st EXCEPT !.at = "reading"]
        BY <2>2, Zenon DEF AppendEvent
      <4> QED
        BY <2>1, <4>1 DEF StreamStates
    <3>2. new \in StreamStates
      BY <2>1 DEF StreamStates
    <3>3. InOrder(new)
      BY <2>1, <2>2 DEF InOrder
    <3> HIDE DEF new
    <3> QED
      BY <3>1, <3>2, <3>3
  <2>3. CASE st.at # "waiting"
    BY <2>1, <2>3 DEF AppendEvent
  <2> QED
    BY <2>2, <2>3
<1>2. stream' = [s \in Streams |-> stream'[s]]
  BY DEF AppendEvent
<1> QED
  BY <1>1, <1>2 DEF StreamsInv

(* The log and its streams, whatever the page does.                         *)
LEMMA LogKeepsStreams == LogSpec => [](EventsInv /\ StreamsInv)
<1>1. LogInit => EventsInv /\ StreamsInv
  <2> SUFFICES ASSUME LogInit PROVE EventsInv /\ StreamsInv
    OBVIOUS
  <2>1. LogKeeps(0)
    BY LogAssumption DEF LogInit, LogKeeps, Run
  <2>2. NoStream \in StreamStates
    BY DEF NoStream, StreamStates
  <2>3. InOrder(NoStream)
    BY DEF NoStream, InOrder, GapsAreBursts
  <2> QED
    BY <2>1, <2>2, <2>3 DEF LogInit, EventsInv, StreamsInv
<1>2. EventsInv /\ StreamsInv /\ [LogNext]_logVars => (EventsInv /\ StreamsInv)'
  <2> SUFFICES ASSUME EventsInv, StreamsInv, [LogNext]_logVars PROVE (EventsInv /\ StreamsInv)'
    OBVIOUS
  <2>1. CASE AppendEvent
    BY <2>1, AppendingKeepsEvents, AppendingKeepsStreams
  <2>2. ASSUME NEW s \in Streams, Connect(s) \/ StreamStep(s) \/ LoseClient(s)
        PROVE  (EventsInv /\ StreamsInv)'
    <3>1. UNCHANGED <<events, nextEventId>>
      BY <2>2 DEF Connect, StreamStep, LoseClient, ReadEvents, Keepalive, WriteEvent
    <3>2. EventsInv'
      BY <3>1 DEF EventsInv, LogKeeps
    <3>3. StreamsInv'
      BY <2>2, StreamsKeepOrder DEF StreamStep
    <3> QED
      BY <3>2, <3>3
  <2>3. ASSUME NEW r \in Refreshes,
               Ask(r) \/ AnswerEvents(r) \/ AnswerNext(r) \/ ShowAnswer(r) \/ LoseAnswer(r)
        PROVE  (EventsInv /\ StreamsInv)'
    <3>1. UNCHANGED <<events, nextEventId, stream>>
      BY <2>3 DEF Ask, AnswerEvents, AnswerNext, ShowAnswer, LoseAnswer
    <3> QED
      BY <3>1 DEF EventsInv, LogKeeps, StreamsInv
  <2>4. CASE UNCHANGED logVars
    BY <2>4 DEF logVars, EventsInv, LogKeeps, StreamsInv
  <2> QED
    BY <2>1, <2>2, <2>3, <2>4 DEF LogNext, StreamNext, PageNext
<1> QED
  BY <1>1, <1>2, PTL DEF LogSpec

(* No stream loses an event but to a burst: what a connection was written is
   in order, and after a gap a whole answer follows without another.        *)
THEOREM StreamsLoseOnlyToBursts == LogSpec => []StreamLosesOnlyToBursts
<1>1. EventsInv /\ StreamsInv => StreamLosesOnlyToBursts
  BY DEF StreamsInv, InOrder, GapsAreBursts, StreamLosesOnlyToBursts
<1> QED
  BY <1>1, LogKeepsStreams, PTL


-----------------------------------------------------------------------------
(* What is covered stays covered while ids and jumps are added.             *)
LEMMA CoveringLasts ==
  ASSUME NEW n \in Nat, NEW m \in Nat, n <= m,
         NEW page, NEW new, NEW jumps, NEW more, jumps \subseteq more,
         Roomy(m, new) => Roomy(n, page) /\ Members(page) \subseteq Members(new)
  PROVE  /\ \A id : Covers(id, n, page, jumps) => Covers(id, m, new, more)
         /\ \A call \in CallStates :
              Continues(call, n, page, jumps) => Continues(call, m, new, more)
<1>1. ASSUME NEW id, Covers(id, n, page, jumps) PROVE Covers(id, m, new, more)
  BY <1>1, Zenon DEF Covers
<1>2. m <= MaxAnswer + 1 => n <= MaxAnswer + 1
  BY LogAssumption
<1>3. \A call \in CallStates : call.read <= n => call.read <= m
  BY DEF CallStates
<1> QED
  BY <1>1, <1>2, <1>3, Zenon DEF Continues

(* The page, with what it is given after what it has.                       *)
LEMMA PageGrows ==
  ASSUME NEW page \in Seq(Nat), NEW answer \in Seq(Nat)
  PROVE  LET new == LastOf(page \o answer, MaxShown) IN
         /\ new \in Seq(Nat)
         /\ Len(new) < MaxShown => /\ Len(page) < MaxShown
                                   /\ Members(page) \subseteq Members(new)
                                   /\ Members(answer) \subseteq Members(new)
<1> DEFINE both == page \o answer
<1>1. /\ both \in Seq(Nat) /\ Len(both) = Len(page) + Len(answer)
      /\ \A i \in 1 .. Len(page) + Len(answer) :
           both[i] = IF i <= Len(page) THEN page[i] ELSE answer[i - Len(page)]
  BY ConcatProperties, Zenon
<1>2. Len(page) \in Nat /\ Len(answer) \in Nat /\ MaxShown \in Nat
  BY LogAssumption
<1> HIDE DEF both
<1> DEFINE new == LastOf(both, MaxShown)
<1>d. /\ DOMAIN page = 1 .. Len(page) /\ DOMAIN answer = 1 .. Len(answer)
      /\ DOMAIN both = 1 .. Len(both)
  BY <1>1, LenProperties, Zenon
<1>3. new \in Seq(Nat)
  <2>1. \A i \in 1 .. Len(both) : both[i] \in Nat
    BY <1>1
  <2>2. Len(both) \in Nat
    BY <1>1, <1>2
  <2>3. \A a \in 1 .. Len(both) + 1 : SubSeq(both, a, Len(both)) \in Seq(Nat)
    BY <1>1, <2>1, <2>2
  <2>4. (IF Len(both) > MaxShown THEN Len(both) - MaxShown + 1 ELSE 1) \in 1 .. Len(both) + 1
    BY <1>2, <2>2
  <2> QED
    BY <2>3, <2>4, Zenon DEF LastOf
<1>4. CASE Len(both) > MaxShown
  <2>1. Len(new) = MaxShown
    BY <1>1, <1>2, <1>4 DEF LastOf
  <2> HIDE DEF new
  <2> QED
    BY <1>2, <1>3, <2>1 DEF new, both
<1>5. CASE ~(Len(both) > MaxShown)
  <2>1. new = both
    BY <1>1, <1>2, <1>5 DEF LastOf
  <2> HIDE DEF new
  <2>2. Len(new) < MaxShown => Len(page) < MaxShown
    BY <1>1, <1>2, <2>1
  <2>3. ASSUME NEW i \in DOMAIN page PROVE page[i] \in Members(both)
    <3>1. i \in 1 .. Len(page) /\ i \in DOMAIN both /\ i \in 1 .. Len(page) + Len(answer)
      BY <1>d, <1>1, <1>2
    <3>2. both[i] = page[i]
      BY <1>1, <3>1
    <3> QED
      BY <3>1, <3>2 DEF Members
  <2>4. ASSUME NEW i \in DOMAIN answer PROVE answer[i] \in Members(both)
    <3>1. /\ Len(page) + i \in DOMAIN both /\ Len(page) + i \in 1 .. Len(page) + Len(answer)
          /\ ~(Len(page) + i <= Len(page)) /\ (Len(page) + i) - Len(page) = i
      <4>1. \A a, b \in Nat : \A j \in 1 .. b :
              a + j \in 1 .. a + b /\ ~(a + j <= a) /\ (a + j) - a = j
        OBVIOUS
      <4>2. i \in 1 .. Len(answer) /\ DOMAIN both = 1 .. Len(page) + Len(answer)
        BY <1>d, <1>1
      <4> QED
        BY <1>2, <4>1, <4>2
    <3>2. both[Len(page) + i] = answer[i]
      BY <1>1, <3>1
    <3> QED
      BY <3>1, <3>2 DEF Members
  <2>5. Members(page) \subseteq Members(both) /\ Members(answer) \subseteq Members(both)
    BY <2>3, <2>4 DEF Members
  <2> QED
    BY <1>3, <2>1, <2>2, <2>5 DEF new, both
<1> QED
  BY <1>4, <1>5

(* As long as not more was appended than an answer holds, it has all that
   came after the id it was asked for.                                      *)
LEMMA AnswersAreWhole ==
  ASSUME EventsInv, NEW since \in Nat, nextEventId <= MaxAnswer + 1
  PROVE  since + 1 .. nextEventId - 1 \subseteq Members(RecentEvents(since))
<1> DEFINE last == nextEventId - 1
<1>1. PICK n \in 0 .. MaxAnswer :
        /\ n <= last /\ RecentEvents(since) = Run(last - n, n)
        /\ since >= last => n = 0
        /\ since < last => /\ n # 0 /\ since <= last - n
                           /\ n < MaxAnswer => since = last - n
  BY AnswersAreTheLatest
<1>2. last \in Nat /\ last <= MaxAnswer /\ MaxAnswer \in Nat /\ n \in Nat
  BY LogAssumption, <1>1 DEF EventsInv
<1> SUFFICES ASSUME NEW i \in since + 1 .. last PROVE i \in Members(Run(last - n, n))
  BY <1>1
<1> HIDE DEF last
<1>3. i - (last - n) \in 1 .. n /\ (last - n) + (i - (last - n)) = i
  BY <1>1, <1>2
<1> QED
  BY <1>3 DEF Run, Members

LEMMA PageKeepsUp ==
  ASSUME EventsInv, PageInv, NEW r \in Refreshes,
         Ask(r) \/ AnswerEvents(r) \/ AnswerNext(r) \/ ShowAnswer(r) \/ LoseAnswer(r)
  PROVE  PageInv'
<1> DEFINE call == refresh[r]
<1>1. /\ call \in CallStates /\ refresh \in [Refreshes -> CallStates]
      /\ cursor \in Nat /\ onPage \in Seq(Nat) /\ nextEventId \in Nat /\ nextEventId <= nextEventId
      /\ Covers(cursor, nextEventId, onPage, jumped)
      /\ \A q \in Refreshes : Continues(refresh[q], nextEventId, onPage, jumped)
  BY DEF PageInv, EventsInv
<1>2. NoCall \in CallStates /\ \A n, page, jumps : Continues(NoCall, n, page, jumps)
  BY DEF NoCall, CallStates, Continues
<1>3. /\ refresh' = [q \in Refreshes |-> refresh'[q]]
      /\ \A q \in Refreshes \ {r} : refresh'[q] = refresh[q]
  BY <1>1 DEF Ask, AnswerEvents, AnswerNext, ShowAnswer, LoseAnswer
<1>4. UNCHANGED nextEventId
  BY DEF Ask, AnswerEvents, AnswerNext, ShowAnswer, LoseAnswer
<1>5. ASSUME UNCHANGED <<cursor, onPage, jumped>>, refresh'[r] \in CallStates,
             Continues(refresh'[r], nextEventId, onPage, jumped)
      PROVE  PageInv'
  <2>1. refresh' \in [Refreshes -> CallStates]
    BY <1>1, <1>3, <1>5
  <2>2. \A q \in Refreshes : Continues(refresh'[q], nextEventId, onPage, jumped)
    BY <1>1, <1>3, <1>5
  <2> QED
    BY <1>1, <1>4, <1>5, <2>1, <2>2 DEF PageInv
<1>6. CASE Ask(r)
  <2> DEFINE new == [at |-> "asked", since |-> cursor, answer |-> call.answer,
                     read |-> call.read, next |-> call.next]
  <2>1. refresh'[r] = new
    <3>1. refresh'[r] = [[call EXCEPT !.at = "asked"] EXCEPT !.since = cursor]
      BY <1>1, <1>6, Zenon DEF Ask
    <3> QED
      BY <1>1, <3>1 DEF CallStates
  <2>2. new \in CallStates
    BY <1>1 DEF CallStates
  <2>3. Continues(new, nextEventId, onPage, jumped)
    BY <1>1 DEF Continues
  <2> HIDE DEF new
  <2> QED
    BY <1>5, <1>6, <2>1, <2>2, <2>3 DEF Ask
<1>7. CASE AnswerEvents(r)
  <2> DEFINE answer == RecentEvents(call.since)
             new == [at |-> "read", since |-> call.since, answer |-> answer,
                     read |-> nextEventId, next |-> call.next]
  <2>1. refresh'[r] = new /\ call.at = "asked"
    <3>1. /\ refresh'[r] = [[[call EXCEPT !.at = "read"] EXCEPT !.answer = answer]
                              EXCEPT !.read = nextEventId]
          /\ call.at = "asked"
      BY <1>1, <1>7, Zenon DEF AnswerEvents, IsAt
    <3> HIDE DEF answer
    <3> QED
      BY <1>1, <3>1 DEF CallStates
  <2>2. call.since \in Nat /\ Covers(call.since, nextEventId, onPage, jumped)
    BY <1>1, <2>1 DEF CallStates, Continues
  <2>3. answer \in Seq(Nat)
    <3>1. PICK n \in 0 .. MaxAnswer :
            n <= nextEventId - 1 /\ answer = Run(nextEventId - 1 - n, n)
      BY <2>2, AnswersAreTheLatest
    <3>2. n \in Nat /\ nextEventId - 1 - n \in Nat
      BY <3>1, LogAssumption DEF EventsInv
    <3> QED
      BY <3>1, <3>2, RunsAreSequences
  <2>4. nextEventId <= MaxAnswer + 1 =>
          call.since + 1 .. nextEventId - 1 \subseteq Members(answer)
    BY <2>2, AnswersAreWhole
  <2> HIDE DEF answer
  <2>5. new \in CallStates
    BY <1>1, <2>3 DEF CallStates
  <2>6. Continues(new, nextEventId, onPage, jumped)
    BY <1>1, <2>2, <2>4 DEF Continues
  <2> HIDE DEF new
  <2> QED
    BY <1>5, <1>7, <2>1, <2>5, <2>6 DEF AnswerEvents
<1>8. CASE AnswerNext(r)
  <2> DEFINE new == [at |-> "answered", since |-> call.since, answer |-> call.answer,
                     read |-> call.read, next |-> nextEventId]
  <2>1. refresh'[r] = new /\ call.at = "read"
    <3>1. /\ refresh'[r] = [[call EXCEPT !.at = "answered"] EXCEPT !.next = nextEventId]
          /\ call.at = "read"
      BY <1>1, <1>8, Zenon DEF AnswerNext, IsAt
    <3> QED
      BY <1>1, <3>1 DEF CallStates
  <2>2. new \in CallStates
    BY <1>1 DEF CallStates
  <2>3. Continues(new, nextEventId, onPage, jumped)
    BY <1>1, <2>1 DEF Continues
  <2> HIDE DEF new
  <2> QED
    BY <1>5, <1>8, <2>1, <2>2, <2>3 DEF AnswerNext
<1>9. CASE ShowAnswer(r)
  <2>1. /\ call.at = "answered" /\ onPage' = LastOf(onPage \o call.answer, MaxShown)
        /\ cursor' = call.next /\ jumped' = jumped \union (call.read .. call.next)
        /\ refresh'[r] = NoCall
    BY <1>1, <1>9 DEF ShowAnswer, IsAt
  <2>2. /\ call.answer \in Seq(Nat) /\ call.since \in Nat /\ call.read \in Nat /\ call.next \in Nat
        /\ Covers(call.since, nextEventId, onPage, jumped)
        /\ nextEventId <= MaxAnswer + 1 =>
             call.since + 1 .. call.read - 1 \subseteq Members(call.answer)
        /\ call.read <= call.next
    BY <1>1, <2>1 DEF CallStates, Continues
  <2>3. /\ onPage' \in Seq(Nat)
        /\ Len(onPage') < MaxShown => /\ Len(onPage) < MaxShown
                                      /\ Members(onPage) \subseteq Members(onPage')
                                      /\ Members(call.answer) \subseteq Members(onPage')
    BY <1>1, <2>1, <2>2, PageGrows
  <2>4. Roomy(nextEventId, onPage') =>
          Roomy(nextEventId, onPage) /\ Members(onPage) \subseteq Members(onPage')
    BY <2>3, Zenon DEF Roomy
  <2>5. \A q \in Refreshes : Continues(refresh[q], nextEventId, onPage', jumped')
    <3>1. jumped \subseteq jumped'
      BY <2>1
    <3> QED
      BY <1>1, <2>4, <3>1, CoveringLasts
  <2>6. Covers(call.next, nextEventId, onPage', jumped')
    <3>1. call.next \in jumped'
      BY <2>1, <2>2
    <3>2. ASSUME Roomy(nextEventId, onPage'), NEW i \in 1 .. call.next - 1
          PROVE  i \in Members(onPage') \union jumped'
      <4>1. /\ i < call.since => i \in 1 .. call.since - 1
            /\ i = call.since => i # 0
            /\ i > call.since /\ i < call.read => i \in call.since + 1 .. call.read - 1
            /\ i >= call.read => i \in call.read .. call.next
        <5>1. \A a, b, c \in Nat : \A j \in 1 .. c - 1 :
                /\ j < a => j \in 1 .. a - 1
                /\ j = a => j # 0
                /\ j > a /\ j < b => j \in a + 1 .. b - 1
                /\ j >= b => j \in b .. c
          OBVIOUS
        <5>2. call.since \in Nat /\ call.read \in Nat /\ call.next \in Nat
          BY <2>2
        <5> HIDE DEF call
        <5> QED
          BY <3>2, <5>1, <5>2
      <4>2. i < call.since \/ i = call.since \/ (i > call.since /\ i < call.read) \/ i >= call.read
        BY <2>2
      <4>3. /\ 1 .. call.since - 1 \subseteq Members(onPage) \union jumped
            /\ call.since = 0 \/ call.since \in jumped
            /\ call.since + 1 .. call.read - 1 \subseteq Members(call.answer)
            /\ Members(onPage) \subseteq Members(onPage')
            /\ Members(call.answer) \subseteq Members(onPage')
            /\ jumped' = jumped \union (call.read .. call.next)
        BY <2>1, <2>2, <2>3, <2>4, <3>2 DEF Covers, Roomy
      <4> QED
        BY <4>1, <4>2, <4>3
    <3> QED
      BY <3>1, <3>2 DEF Covers
  <2>7. \A q \in Refreshes : Continues(refresh'[q], nextEventId, onPage', jumped')
    BY <1>2, <1>3, <2>1, <2>5
  <2>8. refresh' \in [Refreshes -> CallStates]
    BY <1>1, <1>2, <1>3, <2>1
  <2> QED
    BY <1>4, <2>1, <2>2, <2>3, <2>6, <2>7, <2>8 DEF PageInv
<1>10. CASE LoseAnswer(r)
  <2>1. refresh'[r] = NoCall
    BY <1>1, <1>10 DEF LoseAnswer
  <2> QED
    BY <1>2, <1>5, <1>10, <2>1 DEF LoseAnswer
<1> QED
  BY <1>6, <1>7, <1>8, <1>9, <1>10

(* The page's cursor passes no event that the page never got but those it was
   made to jump.                                                            *)
THEOREM PagesMissOnlyJumps == LogSpec => []PageMissesOnlyJumps
<1>1. LogInit => PageInv
  <2> SUFFICES ASSUME LogInit PROVE PageInv
    OBVIOUS
  <2>1. NoCall \in CallStates /\ \A n, page, jumps : Continues(NoCall, n, page, jumps)
    BY DEF NoCall, CallStates, Continues
  <2>2. \A n, page, jumps : Covers(0, n, page, jumps)
    BY DEF Covers
  <2> QED
    BY <2>1, <2>2 DEF LogInit, PageInv
<1>2. EventsInv /\ PageInv /\ [LogNext]_logVars => PageInv'
  <2> SUFFICES ASSUME EventsInv, PageInv, [LogNext]_logVars PROVE PageInv'
    OBVIOUS
  <2>1. CASE AppendEvent
    <3>1. /\ nextEventId \in Nat /\ nextEventId' \in Nat /\ nextEventId <= nextEventId'
          /\ UNCHANGED <<refresh, cursor, onPage, jumped>>
      BY <2>1 DEF AppendEvent, EventsInv
    <3>2. Roomy(nextEventId', onPage) => Roomy(nextEventId, onPage)
      BY <3>1, LogAssumption DEF Roomy
    <3>3. /\ Covers(cursor, nextEventId', onPage, jumped)
          /\ \A r \in Refreshes : Continues(refresh[r], nextEventId', onPage, jumped)
      <4>1. /\ \A id : Covers(id, nextEventId, onPage, jumped)
                         => Covers(id, nextEventId', onPage, jumped)
            /\ \A call \in CallStates : Continues(call, nextEventId, onPage, jumped)
                                     => Continues(call, nextEventId', onPage, jumped)
        BY <3>1, <3>2, CoveringLasts
      <4> QED
        BY <4>1 DEF PageInv
    <3> QED
      BY <3>1, <3>3 DEF PageInv
  <2>2. ASSUME NEW s \in Streams, Connect(s) \/ StreamStep(s) \/ LoseClient(s)
        PROVE  PageInv'
    <3>1. UNCHANGED <<nextEventId, refresh, cursor, onPage, jumped>>
      BY <2>2 DEF Connect, StreamStep, LoseClient, ReadEvents, Keepalive, WriteEvent
    <3> QED
      BY <3>1 DEF PageInv
  <2>3. ASSUME NEW r \in Refreshes,
               Ask(r) \/ AnswerEvents(r) \/ AnswerNext(r) \/ ShowAnswer(r) \/ LoseAnswer(r)
        PROVE  PageInv'
    BY <2>3, PageKeepsUp
  <2>4. CASE UNCHANGED logVars
    BY <2>4 DEF logVars, PageInv
  <2> QED
    BY <2>1, <2>2, <2>3, <2>4 DEF LogNext, StreamNext, PageNext
<1>3. PageInv => PageMissesOnlyJumps
  BY Zenon DEF PageInv, Covers, Roomy, Members, PageMissesOnlyJumps
<1> QED
  BY <1>1, <1>2, <1>3, LogKeepsStreams, PTL DEF LogSpec

-----------------------------------------------------------------------------
(***************************************************************************)
(* The search. A chunk off the queue is with one worker until it is done or  *)
(* cancelled, and what the workers have put into the list is, chunk by      *)
(* chunk, a beginning of what a reader in file order would find.           *)
(***************************************************************************)
AllHits == UNION {HitsOf(f) : f \in Files}
HitsUpTo(all, f) == {h \in all : h[1] <= f}
ChunkHits(all, k) == {h \in all : FirstFile(k) <= h[1] /\ h[1] <= LastFile(k)}

(* A scan has put into the list what it has passed of its chunk.           *)
Passing(all, list, at) ==
  /\ FirstFile(at.chunk) <= at.file /\ at.file <= LastFile(at.chunk) /\ at.line # 0
  /\ \A h \in ChunkHits(all, at.chunk) :
       h[1] < at.file \/ (h[1] = at.file /\ h[2] < at.line) => h \in list

Busy(at) == at.at # "idle"

WorkerTypes == [at : {"idle", "taken", "scanning"}, chunk : Nat, file : Nat, line : Nat]
FutureStates == {"pending", "running", "done", "cancelled"}

PoolTypes ==
  /\ future \in [Chunks -> FutureStates] /\ popped \in 0 .. ChunkCount
  /\ worker \in [Workers -> WorkerTypes]

(* A chunk off the queue is with one worker until it is done or cancelled. *)
PoolInv ==
  /\ \A w \in Workers : Busy(worker[w]) => worker[w].chunk \in 1 .. popped
  /\ \A w, v \in Workers :
       Busy(worker[w]) /\ Busy(worker[v]) /\ worker[w].chunk = worker[v].chunk => w = v
  /\ \A w \in Workers :
       worker[w].at = "taken" => future[worker[w].chunk] \in {"pending", "cancelled"}
  /\ \A w \in Workers :
       worker[w].at = "scanning" =>
         /\ future[worker[w].chunk] = "running"
         /\ Passing(AllHits, found, worker[w])
  /\ \A k \in Chunks :
       /\ popped < k => future[k] \in {"pending", "cancelled"}
       /\ k <= popped /\ future[k] \in {"pending", "running"} =>
            \E w \in Workers : Busy(worker[w]) /\ worker[w].chunk = k
       /\ future[k] = "done" => ChunkHits(AllHits, k) \subseteq found
  /\ found \subseteq HitsUpTo(AllHits, LastFile(popped))

(* The first p chunks are enough, and none of them is left out but one that
   was cancelled in the hands of a worker.                                 *)
EnoughIn(p) ==
  /\ Cardinality(found \cap HitsUpTo(AllHits, LastFile(p))) >= Limit
  /\ \A k \in 1 .. p : future[k] = "cancelled" => snatched

Uncancelled == \A k \in Chunks : future[k] # "cancelled"

CallerInv ==
  \/ /\ caller.at = "scanning" /\ caller.of \in Files
     /\ \A w \in Workers : worker[w].at = "idle"
     /\ found = HitsUpTo(AllHits, caller.of - 1)
  \/ /\ caller.at = "waiting" /\ caller.of \in Chunks
     /\ PoolInv /\ Uncancelled
     /\ \A k \in Chunks : k < caller.of => future[k] = "done"
  \/ /\ caller.at = "cancelling" /\ caller.of \in Chunks
     /\ PoolInv /\ \E p \in 1 .. popped : EnoughIn(p)
  \/ caller.at = "joining" /\ PoolInv /\ found = AllHits /\ Cardinality(AllHits) < Limit
  \/ caller.at = "leaving" /\ PoolInv /\ \E p \in 1 .. popped : EnoughIn(p)
  \/ /\ caller.at = "complete" /\ found = AllHits /\ Cardinality(AllHits) < Limit
     /\ \A w \in Workers : worker[w].at = "idle"
  \/ /\ caller.at = "truncated" /\ (snatched \/ FirstOf(found) = FirstOf(AllHits))
     /\ \A w \in Workers : worker[w].at = "idle"

SearchInv ==
  /\ hits \in [Files -> 0 .. MaxHits] /\ PoolTypes
  /\ caller \in [at : {"scanning", "waiting", "cancelling", "joining", "leaving",
                       "complete", "truncated"}, of : Nat]
  /\ snatched \in BOOLEAN
  /\ found \subseteq AllHits /\ CallerInv

-----------------------------------------------------------------------------
(* Where the chunks begin and end.                                         *)
LEMMA ChunksAreInOrder ==
  /\ ChunkCount \in Nat \ {0} /\ LastFile(ChunkCount) = FileCount /\ LastFile(0) = 0
  /\ \A k \in Chunks : /\ FirstFile(k) \in Files /\ LastFile(k) \in Files
                       /\ FirstFile(k) <= LastFile(k)
  /\ \A j, k \in Chunks : j < k => LastFile(j) < FirstFile(k)
<1>1. FileCount \in Nat \ {0} /\ ChunkSize \in Nat \ {0}
  BY SearchAssumption
<1>2. /\ ChunkCount \in Nat
      /\ FileCount <= ChunkCount * ChunkSize
      /\ ChunkCount * ChunkSize <= FileCount + ChunkSize - 1
  BY <1>1 DEF ChunkCount
<1>3. ChunkCount # 0
  BY <1>1, <1>2
<1>4. \A j, k \in Int : j + 1 <= k => j * ChunkSize + ChunkSize <= k * ChunkSize
  BY <1>1
<1>5. \A k \in Nat : (k - 1) * ChunkSize + ChunkSize = k * ChunkSize
  BY <1>1
<1>6. \A k \in Nat : k * ChunkSize \in Nat /\ (k - 1) * ChunkSize \in Int
  BY <1>1
<1>7. \A k \in Chunks : k < ChunkCount => k * ChunkSize < FileCount
  <2> SUFFICES ASSUME NEW k \in Chunks, k < ChunkCount PROVE k * ChunkSize < FileCount
    OBVIOUS
  <2>1. k * ChunkSize + ChunkSize <= ChunkCount * ChunkSize
    BY <1>2, <1>4 DEF Chunks
  <2> QED
    BY <1>1, <1>2, <1>6, <2>1 DEF Chunks
<1>8. \A k \in Chunks : (k - 1) * ChunkSize < FileCount /\ (k - 1) * ChunkSize >= 0
  <2> SUFFICES ASSUME NEW k \in Chunks
               PROVE  (k - 1) * ChunkSize < FileCount /\ (k - 1) * ChunkSize >= 0
    OBVIOUS
  <2>1. (k - 1) * ChunkSize + ChunkSize <= ChunkCount * ChunkSize
    BY <1>2, <1>4 DEF Chunks
  <2>2. k - 1 \in Nat
    BY <1>2 DEF Chunks
  <2> QED
    BY <1>1, <1>2, <1>6, <2>1, <2>2
<1>9. \A j, k \in Chunks : j < k => j * ChunkSize <= (k - 1) * ChunkSize
  <2> SUFFICES ASSUME NEW j \in Chunks, NEW k \in Chunks, j < k
               PROVE  j * ChunkSize <= (k - 1) * ChunkSize
    OBVIOUS
  <2>1. j * ChunkSize + ChunkSize <= k * ChunkSize
    BY <1>2, <1>4 DEF Chunks
  <2> QED
    BY <1>1, <1>2, <1>5, <1>6, <2>1 DEF Chunks
<1>10. LastFile(ChunkCount) = FileCount /\ LastFile(0) = 0
  BY <1>1, <1>3 DEF LastFile
<1>11. ASSUME NEW k \in Chunks
       PROVE  /\ FirstFile(k) \in Files /\ LastFile(k) \in Files
              /\ FirstFile(k) <= LastFile(k)
  BY <1>1, <1>2, <1>5, <1>6, <1>7, <1>8 DEF FirstFile, LastFile, Files, Chunks
<1>12. ASSUME NEW j \in Chunks, NEW k \in Chunks, j < k PROVE LastFile(j) < FirstFile(k)
  BY <1>2, <1>6, <1>9, <1>12 DEF FirstFile, LastFile, Chunks
<1> QED
  BY <1>2, <1>3, <1>10, <1>11, <1>12

LEMMA LastFilesAreInOrder ==
  \A j, k \in 0 .. ChunkCount : j <= k => LastFile(j) <= LastFile(k)
<1> SUFFICES ASSUME NEW j \in 0 .. ChunkCount, NEW k \in 0 .. ChunkCount, j < k
             PROVE  LastFile(j) <= LastFile(k)
  <2>1. \A i \in 0 .. ChunkCount : LastFile(i) \in Nat
    BY ChunksAreInOrder DEF Chunks, Files
  <2> QED
    BY <2>1, ChunksAreInOrder
<1>1. k \in Chunks /\ LastFile(k) \in Nat /\ FirstFile(k) \in Nat
  BY ChunksAreInOrder DEF Chunks, Files
<1>2. CASE j = 0
  BY <1>1, <1>2, ChunksAreInOrder
<1>3. CASE j # 0
  <2>1. j \in Chunks /\ LastFile(j) \in Nat
    BY <1>3, ChunksAreInOrder DEF Chunks, Files
  <2> QED
    BY <1>1, <2>1, ChunksAreInOrder
<1> QED
  BY <1>2, <1>3

LEMMA LeastNatural ==
  ASSUME NEW S \in SUBSET Nat, S # {} PROVE \E x \in S : \A y \in S : x <= y
<1>1. PICK x \in S : \A y \in S : <<y, x>> \notin OpToRel(<, Nat)
  BY NatLessThanWellFounded, WFMin, Zenon
<1>2. \A y \in S : ~(y < x)
  BY <1>1, Zenon DEF OpToRel
<1> QED
  BY <1>2

LEMMA FilesAreInChunks ==
  \A f \in Files : \E k \in Chunks : FirstFile(k) <= f /\ f <= LastFile(k)
<1> SUFFICES ASSUME NEW f \in Files
             PROVE  \E k \in Chunks : FirstFile(k) <= f /\ f <= LastFile(k)
  OBVIOUS
<1> DEFINE S == {k \in Chunks : f <= LastFile(k)}
<1>1. /\ ChunkCount \in S /\ S \subseteq Chunks /\ S \in SUBSET Nat
      /\ f \in Nat \ {0} /\ FileCount \in Nat
  BY ChunksAreInOrder, SearchAssumption DEF Chunks, Files
<1>2. PICK k \in S : \A j \in S : k <= j
  BY <1>1, LeastNatural
<1>3. k \in Chunks /\ f <= LastFile(k)
  BY <1>1, <1>2
<1>4. FirstFile(k) <= f
  <2>1. k \in Nat \ {0} /\ ChunkCount \in Nat /\ k <= ChunkCount
    BY <1>3, ChunksAreInOrder DEF Chunks
  <2>2. CASE k = 1
    BY <1>1, <2>2, SearchAssumption DEF FirstFile
  <2>3. CASE k # 1
    <3>1. k - 1 \in Chunks
      BY <2>1, <2>3 DEF Chunks
    <3>2. ~(f <= LastFile(k - 1))
      BY <1>2, <2>1, <3>1
    <3>3. LastFile(k - 1) = (k - 1) * ChunkSize /\ (k - 1) * ChunkSize \in Nat
      BY <2>1, <3>1, SearchAssumption DEF LastFile, Chunks
    <3> QED
      BY <1>1, <3>2, <3>3 DEF FirstFile
  <2> QED
    BY <2>2, <2>3
<1> QED
  BY <1>3, <1>4

-----------------------------------------------------------------------------
LEMMA HitsAreOrderedAndFinite ==
  ASSUME hits \in [Files -> 0 .. MaxHits]
  PROVE  /\ IsFiniteSet(AllHits)
         /\ \A h \in AllHits : /\ h = <<h[1], h[2]>> /\ h[1] \in Files
                               /\ h[2] \in 1 .. hits[h[1]]
         /\ \A f \in Files : \A n \in 1 .. hits[f] : <<f, n>> \in AllHits
<1>1. FileCount \in Nat /\ MaxHits \in Nat
  BY SearchAssumption
<1>2. \A f \in Files : hits[f] \in Nat /\ hits[f] <= MaxHits
  BY <1>1
<1>3. AllHits \subseteq Files \X (1 .. MaxHits)
  <2> SUFFICES ASSUME NEW f \in Files, NEW n \in 1 .. hits[f]
               PROVE  <<f, n>> \in Files \X (1 .. MaxHits)
    BY DEF AllHits, HitsOf
  <2> QED
    BY <1>1, <1>2
<1>4. IsFiniteSet(Files \X (1 .. MaxHits))
  <2>1. IsFiniteSet(Files) /\ IsFiniteSet(1 .. MaxHits)
    BY <1>1, FS_Interval DEF Files
  <2> QED
    BY <2>1, FS_Product, Zenon
<1>5. IsFiniteSet(AllHits)
  BY <1>3, <1>4, FS_Subset, Zenon
<1>6. \A f \in Files : \A n \in 1 .. hits[f] : <<f, n>> \in AllHits
  BY DEF AllHits, HitsOf
<1>7. \A h \in AllHits : /\ h = <<h[1], h[2]>> /\ h[1] \in Files
                         /\ h[2] \in 1 .. hits[h[1]]
  BY DEF AllHits, HitsOf
<1> QED
  BY <1>5, <1>6, <1>7

LEMMA PartsAreFinite ==
  ASSUME NEW B, IsFiniteSet(B), NEW A \in SUBSET B
  PROVE  IsFiniteSet(A) /\ Cardinality(A) \in Nat /\ Cardinality(B) \in Nat
         /\ Cardinality(A) <= Cardinality(B)
BY FS_Subset, FS_CardinalityType, Zenon

(* Whatever else is found, the first of the hits are among those of a part
   that holds enough of them and all that come before them.                *)
LEMMA FirstAreInEnough ==
  ASSUME NEW B, IsFiniteSet(B), NEW A \in SUBSET B, NEW S \in SUBSET A,
         \A h \in B : h = <<h[1], h[2]>> /\ h[1] \in Nat /\ h[2] \in Nat,
         Cardinality(S) >= Limit,
         \A a \in S, b \in B : Before(b, a) => b \in S
  PROVE  FirstOf(A) = FirstOf(B)
<1> DEFINE First == {a \in S : Cardinality({b \in S : Before(b, a)}) < Limit}
<1>1. Limit \in Nat
  BY SearchAssumption
<1>2. \A a, b \in B : a = b \/ Before(a, b) \/ Before(b, a)
  BY DEF Before
<1>3. ASSUME NEW C \in SUBSET B, S \subseteq C PROVE FirstOf(C) = First
  <2> DEFINE ahead(a) == {b \in C : Before(b, a)}
  <2>1. ASSUME NEW a \in S PROVE ahead(a) = {b \in S : Before(b, a)}
    BY <1>3, <2>1, Zenon
  <2>2. ASSUME NEW a \in C, a \notin S PROVE ~(Cardinality(ahead(a)) < Limit)
    <3>1. S \in SUBSET ahead(a)
      <4> SUFFICES ASSUME NEW s \in S PROVE Before(s, a)
        BY <1>3, Zenon
      <4>1. s \in B /\ a \in B /\ s # a
        BY <1>3, <2>2, Zenon
      <4>2. ~Before(a, s)
        BY <2>2, <4>1, Zenon
      <4> QED
        BY <1>2, <4>1, <4>2, Zenon
    <3>2. ahead(a) \in SUBSET B
      BY <1>3, Zenon
    <3>3. IsFiniteSet(ahead(a))
      BY <3>2, FS_Subset, Zenon
    <3>4. /\ Cardinality(S) \in Nat /\ Cardinality(ahead(a)) \in Nat
          /\ Cardinality(S) <= Cardinality(ahead(a))
      BY <3>1, <3>3, PartsAreFinite, Zenon
    <3> HIDE DEF ahead
    <3> QED
      BY <1>1, <3>4
  <2>3. FirstOf(C) = {a \in C : Cardinality(ahead(a)) < Limit}
    BY DEF FirstOf
  <2> HIDE DEF ahead
  <2> QED
    BY <1>3, <2>1, <2>2, <2>3, Zenon
<1> HIDE DEF First
<1> QED
  BY <1>3, Zenon

(* The same for the files up to one.                                       *)
LEMMA FirstAreInFiles ==
  ASSUME hits \in [Files -> 0 .. MaxHits], NEW list \in SUBSET AllHits, NEW f \in Nat,
         HitsUpTo(AllHits, f) \subseteq list, Cardinality(HitsUpTo(AllHits, f)) >= Limit
  PROVE  FirstOf(list) = FirstOf(AllHits)
<1>1. \A h \in AllHits : h = <<h[1], h[2]>> /\ h[1] \in Nat /\ h[2] \in Nat
  <2>1. \A g \in Files : g \in Nat /\ hits[g] \in Nat
    BY SearchAssumption DEF Files
  <2> QED
    BY <2>1, HitsAreOrderedAndFinite
<1>2. \A a \in HitsUpTo(AllHits, f), b \in AllHits : Before(b, a) => b \in HitsUpTo(AllHits, f)
  BY <1>1 DEF HitsUpTo, Before
<1> QED
  BY <1>1, <1>2, HitsAreOrderedAndFinite, FirstAreInEnough, Zenon

-----------------------------------------------------------------------------
(* The pool, step by step, in a search whose hits are what they are.       *)
Static == hits \in [Files -> 0 .. MaxHits] /\ UNCHANGED hits

LEMMA HitsStay ==
  ASSUME UNCHANGED hits
  PROVE  AllHits' = AllHits
BY DEF AllHits, HitsOf

LEMMA TakingKeepsPool ==
  ASSUME PoolTypes, PoolInv, Static, found \subseteq AllHits, NEW w \in Workers, TakeChunk(w)
  PROVE  PoolTypes' /\ PoolInv'
<1> DEFINE taken == [at |-> "taken", chunk |-> popped + 1, file |-> 0, line |-> 0]
<1>0. AllHits' = AllHits
  BY HitsStay DEF Static
<1>1. ChunkCount \in Nat /\ popped \in 0 .. ChunkCount /\ popped + 1 \in Chunks
      /\ popped' = popped + 1 /\ UNCHANGED <<future, found, hits>>
  BY ChunksAreInOrder DEF TakeChunk, PoolTypes, Chunks
<1>2. /\ worker' = [worker EXCEPT ![w] = taken] /\ taken \in WorkerTypes
      /\ worker'[w] = taken /\ \A v \in Workers \ {w} : worker'[v] = worker[v]
      /\ worker[w].at = "idle" /\ worker' \in [Workers -> WorkerTypes]
      /\ taken.at = "taken" /\ taken.chunk = popped + 1
  <2>2. worker' = [worker EXCEPT ![w] = taken] /\ worker[w].at = "idle"
    BY DEF TakeChunk
  <2>3. taken \in WorkerTypes
    BY <1>1 DEF WorkerTypes
  <2>4. worker \in [Workers -> WorkerTypes]
    BY DEF PoolTypes
  <2>5. taken.at = "taken" /\ taken.chunk = popped + 1
    OBVIOUS
  <2> HIDE DEF taken
  <2> QED
    BY <2>2, <2>3, <2>4, <2>5
<1>3. PoolTypes'
  BY <1>1, <1>2 DEF PoolTypes, Chunks
<1>4. future[popped + 1] \in {"pending", "cancelled"}
  BY <1>1 DEF PoolInv
<1>5. ASSUME NEW v \in Workers PROVE Busy(worker'[v]) => worker'[v].chunk \in 1 .. popped'
  BY <1>1, <1>2 DEF PoolInv, Busy
<1>6. ASSUME NEW v \in Workers, NEW u \in Workers,
             Busy(worker'[v]), Busy(worker'[u]), worker'[v].chunk = worker'[u].chunk
      PROVE  v = u
  <2>1. \A t \in Workers \ {w} :
          Busy(worker'[t]) => Busy(worker[t]) /\ worker'[t].chunk # popped + 1
    BY <1>1, <1>2 DEF PoolInv, Busy
  <2> QED
    BY <1>2, <1>6, <2>1 DEF PoolInv
<1>7. ASSUME NEW v \in Workers
      PROVE  /\ worker'[v].at = "taken" => future'[worker'[v].chunk] \in {"pending", "cancelled"}
             /\ worker'[v].at = "scanning" =>
                  /\ future'[worker'[v].chunk] = "running"
                  /\ Passing(AllHits, found', worker'[v])
  BY <1>1, <1>2, <1>4, <1>0 DEF PoolInv, Passing
<1>8. ASSUME NEW k \in Chunks
      PROVE  /\ popped' < k => future'[k] \in {"pending", "cancelled"}
             /\ k <= popped' /\ future'[k] \in {"pending", "running"} =>
                  \E v \in Workers : Busy(worker'[v]) /\ worker'[v].chunk = k
             /\ future'[k] = "done" => ChunkHits(AllHits, k) \subseteq found'
  <2>1. k \in Nat
    BY DEF Chunks
  <2>2. k = popped + 1 => Busy(worker'[w]) /\ worker'[w].chunk = k
    BY <1>2 DEF Busy
  <2>3. \A v \in Workers : Busy(worker[v]) => Busy(worker'[v]) /\ worker'[v].chunk = worker[v].chunk
    BY <1>2 DEF Busy
  <2> QED
    BY <1>1, <2>1, <2>2, <2>3, <1>0 DEF PoolInv
<1>9. found' \subseteq HitsUpTo(AllHits, LastFile(popped'))
  <2>1. \A k \in 0 .. ChunkCount : LastFile(k) \in Nat
    BY ChunksAreInOrder DEF Chunks, Files
  <2>2. LastFile(popped) <= LastFile(popped + 1)
    BY <1>1, LastFilesAreInOrder DEF Chunks
  <2>3. \A h \in AllHits : h[1] \in Nat
    <3>1. Files \subseteq Nat
      BY SearchAssumption DEF Files
    <3> QED
      BY <3>1, HitsAreOrderedAndFinite DEF Static
  <2>4. \A h \in found : h[1] <= LastFile(popped)
    BY DEF PoolInv, HitsUpTo
  <2>5. LastFile(popped) \in Nat /\ LastFile(popped + 1) \in Nat
    BY <1>1, <2>1 DEF Chunks
  <2>6. \A h \in found : h \in AllHits /\ h[1] <= LastFile(popped + 1)
    BY <2>2, <2>3, <2>4, <2>5
  <2> QED
    BY <1>1, <2>6, <1>0 DEF HitsUpTo
<1> QED
  BY <1>0, <1>3, <1>5, <1>6, <1>7, <1>8, <1>9 DEF PoolInv

LEMMA BeginningKeepsPool ==
  ASSUME PoolTypes, PoolInv, Static, found \subseteq AllHits, NEW w \in Workers, BeginChunk(w)
  PROVE  /\ PoolTypes' /\ PoolInv' /\ UNCHANGED <<popped, found>>
         /\ \A k \in Chunks : /\ future'[k] = "cancelled" <=> future[k] = "cancelled"
                              /\ future[k] = "done" => future'[k] = "done"
<1> DEFINE k == worker[w].chunk
<1>0. AllHits' = AllHits
  BY HitsStay DEF Static
<1>1. /\ UNCHANGED <<popped, found, hits>> /\ worker[w].at = "taken" /\ Busy(worker[w])
      /\ k \in 1 .. popped /\ k \in Chunks /\ future[k] \in {"pending", "cancelled"}
      /\ popped \in Nat
  BY ChunksAreInOrder DEF BeginChunk, PoolInv, PoolTypes, Busy, Chunks
<1>2. \A v \in Workers \ {w} : Busy(worker[v]) => worker[v].chunk # k
  BY <1>1 DEF PoolInv
<1>3. \A v \in Workers \ {w} : worker'[v] = worker[v]
  BY DEF BeginChunk, PoolTypes
<1>4. \A v \in Workers \ {w} : Busy(worker'[v]) <=> Busy(worker[v])
  BY <1>3 DEF Busy
<1>5. CASE future[k] = "cancelled"
  <2>1. worker' = [worker EXCEPT ![w] = Resting] /\ UNCHANGED future
    BY <1>5 DEF BeginChunk
  <2>2. worker'[w] = Resting /\ ~Busy(worker'[w]) /\ Resting \in WorkerTypes
    BY <2>1 DEF PoolTypes, Busy, Resting, WorkerTypes
  <2>3. PoolTypes'
    BY <1>1, <2>1, <2>2 DEF PoolTypes
  <2>4. PoolInv'
    <3>1. \A v \in Workers : Busy(worker'[v]) => v # w /\ Busy(worker[v]) /\ worker'[v] = worker[v]
      BY <1>3, <1>4, <2>2
    <3>2. \A v \in Workers : worker'[v].at \in {"taken", "scanning"} =>
                               v # w /\ worker'[v] = worker[v]
      BY <1>3, <2>2 DEF Resting
    <3>3. \A j \in Chunks : j <= popped' /\ future'[j] \in {"pending", "running"} =>
            \E v \in Workers : Busy(worker'[v]) /\ worker'[v].chunk = j
      BY <1>1, <1>3, <1>4, <1>5, <2>1 DEF PoolInv
    <3>4. found' \subseteq HitsUpTo(AllHits, LastFile(popped'))
      BY <1>1, <1>0 DEF PoolInv
    <3> QED
      BY <1>1, <2>1, <3>1, <3>2, <3>3, <3>4, <1>0 DEF PoolInv, Passing
  <2> QED
    BY <1>1, <2>1, <2>3, <2>4
<1>6. CASE future[k] = "pending"
  <2> DEFINE new == [at |-> "scanning", chunk |-> k, file |-> FirstFile(k), line |-> 1]
  <2>1. /\ worker' = [worker EXCEPT ![w] = new]
        /\ future' = [future EXCEPT ![k] = "running"]
    BY <1>6 DEF BeginChunk
  <2>2. FirstFile(k) \in Nat \ {0} /\ LastFile(k) \in Nat /\ FirstFile(k) <= LastFile(k)
    BY <1>1, ChunksAreInOrder DEF Files
  <2>3. worker'[w] = new /\ Busy(worker'[w]) /\ new \in WorkerTypes
    BY <1>1, <2>1, <2>2 DEF PoolTypes, Busy, WorkerTypes
  <2>4. /\ future'[k] = "running" /\ \A j \in Chunks \ {k} : future'[j] = future[j]
        /\ future' \in [Chunks -> FutureStates]
    BY <1>1, <2>1 DEF PoolTypes, FutureStates
  <2>5. PoolTypes'
    BY <1>1, <2>1, <2>3, <2>4 DEF PoolTypes
  <2>6. Passing(AllHits, found', new)
    <3>1. \A h \in AllHits : h[1] \in Nat /\ h[2] \in Nat \ {0}
      <4>1. \A f \in Files : f \in Nat /\ hits[f] \in Nat
        BY SearchAssumption DEF Files, Static
      <4> QED
        BY <4>1, HitsAreOrderedAndFinite DEF Static
    <3>2. \A h \in ChunkHits(AllHits, k) :
            ~(h[1] < FirstFile(k) \/ (h[1] = FirstFile(k) /\ h[2] < 1))
      BY <2>2, <3>1 DEF ChunkHits
    <3> QED
      BY <1>1, <2>2, <3>2 DEF Passing
  <2>7. PoolInv'
    <3>1. \A v \in Workers :
            Busy(worker'[v]) => Busy(worker[v]) /\ worker'[v].chunk = worker[v].chunk
      BY <1>1, <1>3, <1>4, <2>3
    <3>2. \A v \in Workers \ {w} : Busy(worker'[v]) =>
            future'[worker'[v].chunk] = future[worker[v].chunk]
      <4>1. \A v \in Workers : Busy(worker[v]) => worker[v].chunk \in Chunks
        BY ChunksAreInOrder DEF PoolInv, PoolTypes, Chunks
      <4> QED
        BY <1>2, <1>3, <1>4, <2>4, <4>1
    <3>3. \A v \in Workers : worker'[v].at = "taken" =>
            future'[worker'[v].chunk] \in {"pending", "cancelled"}
      BY <1>3, <2>3, <3>2 DEF PoolInv, Busy
    <3>4. \A v \in Workers : worker'[v].at = "scanning" =>
            /\ future'[worker'[v].chunk] = "running"
            /\ Passing(AllHits, found', worker'[v])
      BY <1>1, <1>3, <2>3, <2>4, <2>6, <3>2, <1>0 DEF PoolInv, Busy, Passing
    <3>5. \A j \in Chunks :
            /\ popped' < j => future'[j] \in {"pending", "cancelled"}
            /\ future'[j] = "done" => ChunkHits(AllHits, j) \subseteq found'
      BY <1>1, <2>4, <1>0 DEF PoolInv
    <3>6. \A j \in Chunks : j <= popped' /\ future'[j] \in {"pending", "running"} =>
            \E v \in Workers : Busy(worker'[v]) /\ worker'[v].chunk = j
      <4>1. \A v \in Workers :
              Busy(worker[v]) => Busy(worker'[v]) /\ worker'[v].chunk = worker[v].chunk
        BY <1>3, <1>4, <2>3
      <4> QED
        BY <1>1, <2>4, <4>1, <2>3 DEF PoolInv
    <3>7. found' \subseteq HitsUpTo(AllHits, LastFile(popped'))
      BY <1>1, <1>0 DEF PoolInv
    <3>8. \A v \in Workers : Busy(worker'[v]) => worker'[v].chunk \in 1 .. popped'
      BY <1>1, <3>1 DEF PoolInv
    <3>9. \A u, v \in Workers :
            Busy(worker'[u]) /\ Busy(worker'[v]) /\ worker'[u].chunk = worker'[v].chunk => u = v
      BY <3>1 DEF PoolInv
    <3> QED
      BY <1>0, <3>3, <3>4, <3>5, <3>6, <3>7, <3>8, <3>9 DEF PoolInv
  <2> QED
    BY <1>1, <1>6, <2>4, <2>5, <2>7
<1> QED
  BY <1>1, <1>5, <1>6

LEMMA AddingKeepsPool ==
  ASSUME PoolTypes, PoolInv, Static, found \subseteq AllHits, NEW w \in Workers, AddHit(w)
  PROVE  /\ PoolTypes' /\ PoolInv' /\ UNCHANGED <<popped, future>>
         /\ found \subseteq found' /\ found' \subseteq AllHits
<1> DEFINE at == worker[w]
           new == [at EXCEPT !.line = at.line + 1]
           hit == <<at.file, at.line>>
<1>0. AllHits' = AllHits
  BY HitsStay DEF Static
<1>1. /\ UNCHANGED <<popped, future, hits>> /\ at.at = "scanning" /\ at \in WorkerTypes
      /\ found' = found \cup {hit} /\ at.chunk \in 1 .. popped /\ at.chunk \in Chunks
      /\ worker' = [worker EXCEPT ![w].line = at.line + 1]
      /\ Passing(AllHits, found, at) /\ at.line <= hits[at.file] /\ popped \in 0 .. ChunkCount
  BY ChunksAreInOrder DEF AddHit, PoolInv, PoolTypes, Busy, Chunks
<1>2. new = [at |-> "scanning", chunk |-> at.chunk, file |-> at.file, line |-> at.line + 1]
  BY <1>1 DEF WorkerTypes
<1>3. worker'[w] = new /\ \A v \in Workers \ {w} : worker'[v] = worker[v]
  BY <1>1 DEF PoolTypes
<1>4. PoolTypes'
  <2>1. new \in WorkerTypes
    BY <1>1, <1>2 DEF WorkerTypes
  <2>2. worker' = [worker EXCEPT ![w] = new]
    BY <1>1 DEF PoolTypes
  <2> HIDE DEF new
  <2> QED
    BY <1>1, <2>1, <2>2 DEF PoolTypes
<1>5. FirstFile(at.chunk) \in Files /\ LastFile(at.chunk) \in Files /\ at.file \in Files
      /\ at.line \in Nat \ {0} /\ at.file \in Nat
  BY <1>1, ChunksAreInOrder, SearchAssumption DEF Passing, Files, WorkerTypes
<1>6. hit \in AllHits /\ hit[1] = at.file /\ hit[2] = at.line
  <2>1. hits[at.file] \in Nat
    BY <1>5, SearchAssumption DEF Static
  <2>2. at.line \in 1 .. hits[at.file]
    BY <1>1, <1>5, <2>1
  <2> QED
    BY <1>5, <2>2, HitsAreOrderedAndFinite DEF Static
<1>7. found' \subseteq HitsUpTo(AllHits, LastFile(popped))
  <2>1. at.file <= LastFile(popped)
    <3>1. at.chunk \in 0 .. ChunkCount /\ at.chunk <= popped /\ ChunkCount \in Nat
      BY <1>1, ChunksAreInOrder DEF Chunks
    <3>2. LastFile(at.chunk) <= LastFile(popped) /\ at.file <= LastFile(at.chunk)
      BY <1>1, <3>1, LastFilesAreInOrder DEF Passing
    <3>3. LastFile(popped) \in Nat /\ LastFile(at.chunk) \in Nat
      BY <1>1, <1>5, <3>1, ChunksAreInOrder DEF Chunks, Files
    <3> QED
      BY <1>5, <3>2, <3>3
  <2>2. hit \in HitsUpTo(AllHits, LastFile(popped))
    BY <1>6, <2>1 DEF HitsUpTo
  <2> QED
    BY <1>1, <2>2, Zenon DEF PoolInv
<1>8. Passing(AllHits, found', new)
  <2> SUFFICES ASSUME NEW h \in ChunkHits(AllHits, at.chunk),
                      h[1] < at.file \/ (h[1] = at.file /\ h[2] < at.line + 1)
               PROVE  h \in found \/ h = hit
    BY <1>1, <1>2, <1>5 DEF Passing
  <2>1. h[1] \in Nat /\ h[2] \in Nat /\ h = <<h[1], h[2]>>
    <3>1. \A f \in Files : f \in Nat /\ hits[f] \in Nat
      BY SearchAssumption DEF Files, Static
    <3>2. h \in AllHits
      BY DEF ChunkHits
    <3> QED
      BY <3>1, <3>2, HitsAreOrderedAndFinite DEF Static
  <2>2. h[1] < at.file \/ (h[1] = at.file /\ h[2] < at.line) \/ h = hit
    BY <1>5, <2>1
  <2> QED
    BY <1>1, <2>2 DEF Passing
<1>9. PoolInv'
  <2>1. \A v \in Workers : /\ worker'[v].at = worker[v].at
                           /\ worker'[v].chunk = worker[v].chunk
    BY <1>1, <1>2, <1>3
  <2>2. \A v \in Workers : Busy(worker'[v]) <=> Busy(worker[v])
    BY <2>1 DEF Busy
  <2>3. \A v \in Workers : worker'[v].at = "scanning" => Passing(AllHits, found', worker'[v])
    <3>1. \A v \in Workers : worker[v].at = "scanning" => Passing(AllHits, found', worker[v])
      BY <1>1 DEF PoolInv, Passing
    <3> QED
      BY <1>3, <1>8, <2>1, <3>1
  <2>4. \A k \in Chunks : k <= popped /\ future[k] \in {"pending", "running"} =>
         \E v \in Workers : Busy(worker'[v]) /\ worker'[v].chunk = k
    BY <2>1, <2>2 DEF PoolInv
  <2>5. \A k \in Chunks : future[k] = "done" => ChunkHits(AllHits, k) \subseteq found'
    BY <1>1, Zenon DEF PoolInv
  <2>6. /\ \A v \in Workers : Busy(worker'[v]) => worker'[v].chunk \in 1 .. popped
        /\ \A v, u \in Workers : Busy(worker'[v]) /\ Busy(worker'[u])
                                   /\ worker'[v].chunk = worker'[u].chunk => v = u
        /\ \A v \in Workers :
             worker'[v].at = "taken" => future[worker'[v].chunk] \in {"pending", "cancelled"}
        /\ \A v \in Workers :
             worker'[v].at = "scanning" => future[worker'[v].chunk] = "running"
    BY <2>1, <2>2 DEF PoolInv
  <2>7. UNCHANGED <<popped, future>>
    BY <1>1
  <2> QED
    BY <1>0, <1>7, <2>3, <2>4, <2>5, <2>6, <2>7 DEF PoolInv
<1> QED
  BY <1>1, <1>4, <1>6, <1>9

LEMMA EndingKeepsPool ==
  ASSUME PoolTypes, PoolInv, Static, found \subseteq AllHits, NEW w \in Workers, EndFile(w)
  PROVE  /\ PoolTypes' /\ PoolInv' /\ UNCHANGED <<popped, found>>
         /\ \A k \in Chunks : /\ future'[k] = "cancelled" <=> future[k] = "cancelled"
                              /\ future[k] = "done" => future'[k] = "done"
<1> DEFINE at == worker[w]
<1>0. AllHits' = AllHits
  BY HitsStay DEF Static
<1>1. /\ UNCHANGED <<popped, found, hits>> /\ at.at = "scanning" /\ at \in WorkerTypes
      /\ at.chunk \in 1 .. popped /\ at.chunk \in Chunks /\ future[at.chunk] = "running"
      /\ Passing(AllHits, found, at) /\ at.line > hits[at.file] /\ popped \in 0 .. ChunkCount
      /\ Busy(at)
  BY ChunksAreInOrder DEF EndFile, PoolInv, PoolTypes, Busy, Chunks
<1>2. FirstFile(at.chunk) \in Files /\ LastFile(at.chunk) \in Files /\ at.file \in Files
      /\ at.line \in Nat \ {0} /\ at.file \in Nat /\ LastFile(at.chunk) \in Nat
  BY <1>1, ChunksAreInOrder, SearchAssumption DEF Passing, Files, WorkerTypes
<1>3. \A h \in ChunkHits(AllHits, at.chunk) :
        /\ h[1] \in Nat /\ h[2] \in Nat /\ h[1] <= LastFile(at.chunk)
        /\ h[1] <= at.file => h \in found
  <2> SUFFICES ASSUME NEW h \in ChunkHits(AllHits, at.chunk)
               PROVE  /\ h[1] \in Nat /\ h[2] \in Nat /\ h[1] <= LastFile(at.chunk)
                      /\ h[1] <= at.file => h \in found
    OBVIOUS
  <2>1. \A f \in Files : f \in Nat /\ hits[f] \in Nat
    BY SearchAssumption DEF Files, Static
  <2>2. h \in AllHits /\ h[1] <= LastFile(at.chunk)
    BY DEF ChunkHits
  <2>3. h[1] \in Files /\ h[2] \in 1 .. hits[h[1]]
    BY <2>2, HitsAreOrderedAndFinite DEF Static
  <2>4. h[1] \in Nat /\ h[2] \in Nat /\ h[2] <= hits[h[1]]
    BY <2>1, <2>3
  <2>5. h[1] <= at.file => h[1] < at.file \/ (h[1] = at.file /\ h[2] < at.line)
    BY <1>1, <1>2, <2>1, <2>4
  <2> QED
    BY <1>1, <2>2, <2>4, <2>5 DEF Passing
<1>4. \A v \in Workers \ {w} : Busy(worker[v]) => worker[v].chunk # at.chunk
  BY <1>1 DEF PoolInv
<1>5. ~ChunkIsFull(at.chunk)
  BY FS_EmptySet, SearchAssumption DEF ChunkIsFull, OwnHits
<1>6. CASE at.file = LastFile(at.chunk)
  <2>1. /\ worker' = [worker EXCEPT ![w] = Resting]
        /\ future' = [future EXCEPT ![at.chunk] = "done"]
    BY <1>6 DEF EndFile
  <2>2. /\ worker'[w].at = "idle" /\ ~Busy(worker'[w]) /\ Resting \in WorkerTypes
        /\ \A v \in Workers \ {w} : worker'[v] = worker[v]
    BY <2>1 DEF PoolTypes, Busy, Resting, WorkerTypes
  <2>3. /\ future'[at.chunk] = "done"
        /\ \A j \in Chunks \ {at.chunk} : future'[j] = future[j]
        /\ future' \in [Chunks -> FutureStates]
    BY <1>1, <2>1 DEF PoolTypes, FutureStates
  <2>4. PoolTypes'
    BY <1>1, <2>1, <2>2, <2>3 DEF PoolTypes
  <2>5. ChunkHits(AllHits, at.chunk) \subseteq found
    BY <1>3, <1>6
  <2>6. PoolInv'
    <3>1. \A v \in Workers : Busy(worker'[v]) =>
            /\ Busy(worker[v]) /\ worker'[v] = worker[v]
            /\ future'[worker[v].chunk] = future[worker[v].chunk]
      <4>1. \A v \in Workers : Busy(worker[v]) => worker[v].chunk \in Chunks
        BY ChunksAreInOrder DEF PoolInv, PoolTypes, Chunks
      <4> QED
        BY <1>4, <2>2, <2>3, <4>1
    <3>2. \A v \in Workers : worker'[v].at \in {"taken", "scanning"} => Busy(worker'[v])
      BY DEF Busy
    <3>3. \A j \in Chunks :
            /\ popped' < j => future'[j] \in {"pending", "cancelled"}
            /\ j <= popped' /\ future'[j] \in {"pending", "running"} =>
                 \E v \in Workers : Busy(worker'[v]) /\ worker'[v].chunk = j
            /\ future'[j] = "done" => ChunkHits(AllHits, j) \subseteq found'
      <4> SUFFICES ASSUME NEW j \in Chunks, j # at.chunk
                   PROVE  /\ popped' < j => future'[j] \in {"pending", "cancelled"}
                          /\ j <= popped' /\ future'[j] \in {"pending", "running"} =>
                               \E v \in Workers : Busy(worker'[v]) /\ worker'[v].chunk = j
                          /\ future'[j] = "done" => ChunkHits(AllHits, j) \subseteq found'
        BY <1>1, <2>3, <2>5
      <4>1. future'[j] = future[j]
        BY <2>3
      <4>2. \A v \in Workers : Busy(worker[v]) /\ worker[v].chunk = j =>
                                 Busy(worker'[v]) /\ worker'[v].chunk = j
        BY <2>2
      <4> QED
        BY <1>1, <4>1, <4>2 DEF PoolInv
    <3> QED
      BY <1>0, <1>1, <3>1, <3>2, <3>3 DEF PoolInv
  <2> QED
    BY <1>1, <2>3, <2>4, <2>6
<1>7. CASE at.file # LastFile(at.chunk)
  <2> DEFINE new == [at |-> "scanning", chunk |-> at.chunk, file |-> at.file + 1, line |-> 1]
  <2>1. worker' = [worker EXCEPT ![w].file = at.file + 1, ![w].line = 1] /\ UNCHANGED future
    BY <1>5, <1>7 DEF EndFile
  <2>2. worker'[w] = new /\ \A v \in Workers \ {w} : worker'[v] = worker[v]
    <3>1. worker'[w] = [[at EXCEPT !.file = at.file + 1] EXCEPT !.line = 1]
      BY <2>1, Zenon DEF PoolTypes
    <3> QED
      BY <1>1, <2>1, <3>1 DEF PoolTypes, WorkerTypes
  <2>3. new \in WorkerTypes
    BY <1>1, <1>2 DEF WorkerTypes
  <2>4. worker' \in [Workers -> WorkerTypes]
    <3>1. worker' = [v \in Workers |-> worker'[v]]
      BY <2>1 DEF PoolTypes
    <3> HIDE DEF new
    <3>2. \A v \in Workers : worker'[v] \in WorkerTypes
      BY <2>2, <2>3 DEF PoolTypes
    <3> QED
      BY <3>1, <3>2
  <2>5. Passing(AllHits, found, new)
    <3>1. at.file + 1 <= LastFile(at.chunk) /\ FirstFile(at.chunk) <= at.file + 1
      BY <1>1, <1>2, <1>7 DEF Passing, Files
    <3>2. \A h \in ChunkHits(AllHits, at.chunk) :
            h[1] < at.file + 1 \/ (h[1] = at.file + 1 /\ h[2] < 1) => h \in found
      <4> SUFFICES ASSUME NEW h \in ChunkHits(AllHits, at.chunk),
                          h[1] < at.file + 1 \/ (h[1] = at.file + 1 /\ h[2] < 1)
                   PROVE  h \in found
        OBVIOUS
      <4>1. h[2] # 0
        <5>1. h \in AllHits
          BY DEF ChunkHits
        <5>2. h[2] \in 1 .. hits[h[1]]
          BY <5>1, HitsAreOrderedAndFinite DEF Static
        <5> QED
          BY <5>2
      <4> QED
        BY <1>2, <1>3, <4>1
    <3> QED
      BY <3>1, <3>2 DEF Passing
  <2>6. \A v \in Workers : /\ worker'[v].at = worker[v].at
                           /\ worker'[v].chunk = worker[v].chunk
    BY <1>1, <2>2
  <2>7. \A v \in Workers : Busy(worker'[v]) <=> Busy(worker[v])
    BY <2>6 DEF Busy
  <2>8. \A v \in Workers : worker'[v].at = "scanning" => Passing(AllHits, found', worker'[v])
    <3> HIDE DEF new
    <3> QED
      BY <1>1, <2>2, <2>5, <2>6 DEF PoolInv
  <2>9. \A k \in Chunks : k <= popped /\ future[k] \in {"pending", "running"} =>
         \E v \in Workers : Busy(worker'[v]) /\ worker'[v].chunk = k
    BY <2>6, <2>7 DEF PoolInv
  <2>10. /\ \A v \in Workers : Busy(worker'[v]) => worker'[v].chunk \in 1 .. popped
         /\ \A v, u \in Workers : Busy(worker'[v]) /\ Busy(worker'[u])
                                    /\ worker'[v].chunk = worker'[u].chunk => v = u
         /\ \A v \in Workers :
              worker'[v].at = "taken" => future[worker'[v].chunk] \in {"pending", "cancelled"}
         /\ \A v \in Workers :
              worker'[v].at = "scanning" => future[worker'[v].chunk] = "running"
    BY <2>6, <2>7 DEF PoolInv
  <2>11. PoolInv'
    <3>1. UNCHANGED <<popped, future, found>>
      BY <1>1, <2>1
    <3> QED
      BY <1>0, <2>8, <2>9, <2>10, <3>1 DEF PoolInv
  <2> QED
    BY <1>1, <2>1, <2>4, <2>11 DEF PoolTypes
<1> QED
  BY <1>6, <1>7

-----------------------------------------------------------------------------
(* Hits are only added, and nothing is cancelled but by the caller, so that
   what was enough stays enough.                                           *)
LEMMA WorkersKeepSearch ==
  ASSUME SearchInv, Static, UNCHANGED <<caller, snatched>>,
         caller.at \in {"waiting", "cancelling", "joining", "leaving"},
         PoolTypes', PoolInv', popped <= popped',
         found \subseteq found', found' \subseteq AllHits,
         \A k \in Chunks : /\ future'[k] = "cancelled" <=> future[k] = "cancelled"
                           /\ future[k] = "done" => future'[k] = "done"
  PROVE  SearchInv'
<1>0. AllHits' = AllHits /\ IsFiniteSet(AllHits)
  BY HitsStay, HitsAreOrderedAndFinite DEF Static
<1>1. ASSUME NEW p \in 1 .. popped, EnoughIn(p)
      PROVE  p \in 1 .. popped' /\ EnoughIn(p)'
  <2> DEFINE first == HitsUpTo(AllHits, LastFile(p))
  <2>1. p \in 1 .. popped' /\ \A k \in 1 .. p : k \in Chunks
    BY ChunksAreInOrder DEF SearchInv, PoolTypes, Chunks
  <2>2. Cardinality(found' \cap first) >= Limit
    <3>1. Cardinality(found \cap first) >= Limit /\ Limit \in Nat
      BY <1>1, SearchAssumption DEF EnoughIn
    <3>2. found' \cap first \in SUBSET AllHits /\ found \cap first \in SUBSET (found' \cap first)
      BY Zenon
    <3>3. IsFiniteSet(found' \cap first) /\ Cardinality(found' \cap first) \in Nat
      BY <1>0, <3>2, PartsAreFinite, Zenon
    <3>4. /\ Cardinality(found \cap first) <= Cardinality(found' \cap first)
          /\ Cardinality(found \cap first) \in Nat
      BY <3>2, <3>3, PartsAreFinite, Zenon
    <3> HIDE DEF first
    <3> QED
      BY <3>1, <3>3, <3>4
  <2>3. \A k \in 1 .. p : future'[k] = "cancelled" => snatched'
    BY <1>1, <2>1 DEF EnoughIn
  <2> QED
    BY <1>0, <2>1, <2>2, <2>3 DEF EnoughIn
<1>2. CallerInv'
  <2>1. CASE caller.at = "waiting"
    <3>1. /\ caller.of \in Chunks /\ Uncancelled
          /\ \A k \in Chunks : k < caller.of => future[k] = "done"
      BY <2>1 DEF SearchInv, CallerInv
    <3> QED
      BY <2>1, <3>1 DEF CallerInv, Uncancelled
  <2>2. CASE caller.at \in {"cancelling", "leaving"}
    <3>1. /\ \E p \in 1 .. popped : EnoughIn(p)
          /\ caller.at = "cancelling" => caller.of \in Chunks
      BY <2>2 DEF SearchInv, CallerInv
    <3>2. \E p \in 1 .. popped' : EnoughIn(p)'
      BY <1>1, <3>1
    <3> QED
      BY <2>2, <3>1, <3>2 DEF CallerInv
  <2>3. CASE caller.at = "joining"
    <3>1. found = AllHits /\ Cardinality(AllHits) < Limit
      BY <2>3 DEF SearchInv, CallerInv
    <3> QED
      BY <1>0, <2>3, <3>1 DEF CallerInv
  <2> QED
    BY <2>1, <2>2, <2>3
<1> QED
  BY <1>0, <1>2 DEF SearchInv, Static

(* While no worker is busy none does anything but take a chunk.            *)
LEMMA WorkingIsInPool ==
  ASSUME SearchInv, NEW w \in Workers,
         TakeChunk(w) \/ BeginChunk(w) \/ AddHit(w) \/ EndFile(w)
  PROVE  caller.at \in {"waiting", "cancelling", "joining", "leaving"} /\ PoolInv
<1>1. worker[w].at # "idle" \/ Parallel
  BY DEF TakeChunk, BeginChunk, AddHit, EndFile
<1>2. caller.at \in {"waiting", "cancelling", "joining", "leaving"}
  BY <1>1 DEF SearchInv, CallerInv, Parallel
<1> QED
  BY <1>2 DEF SearchInv, CallerInv

LEMMA WorkingKeepsSearch ==
  ASSUME SearchInv, NEW w \in Workers,
         TakeChunk(w) \/ BeginChunk(w) \/ AddHit(w) \/ EndFile(w)
  PROVE  SearchInv'
<1>1. /\ Static /\ UNCHANGED <<caller, snatched>> /\ PoolTypes /\ found \subseteq AllHits
      /\ caller.at \in {"waiting", "cancelling", "joining", "leaving"} /\ PoolInv
  BY WorkingIsInPool DEF TakeChunk, BeginChunk, AddHit, EndFile, Static, SearchInv
<1>2. popped \in Nat
  BY <1>1, ChunksAreInOrder DEF PoolTypes
<1>3. CASE TakeChunk(w)
  <2>1. PoolTypes' /\ PoolInv'
    BY <1>1, <1>3, TakingKeepsPool
  <2>2. popped' = popped + 1 /\ UNCHANGED <<future, found>>
    BY <1>3 DEF TakeChunk
  <2> QED
    BY <1>1, <1>2, <2>1, <2>2, WorkersKeepSearch
<1>4. CASE BeginChunk(w)
  BY <1>1, <1>2, <1>4, BeginningKeepsPool, WorkersKeepSearch
<1>5. CASE AddHit(w)
  BY <1>1, <1>2, <1>5, AddingKeepsPool, WorkersKeepSearch
<1>6. CASE EndFile(w)
  BY <1>1, <1>2, <1>6, EndingKeepsPool, WorkersKeepSearch
<1> QED
  BY <1>3, <1>4, <1>5, <1>6

LEMMA ScanningKeepsSearch ==
  ASSUME SearchInv, ScanFile PROVE SearchInv'
<1> DEFINE f == caller.of
<1>0. /\ UNCHANGED <<hits, future, popped, worker, snatched>> /\ caller.at = "scanning"
      /\ found' = found \cup HitsOf(f) /\ hits \in [Files -> 0 .. MaxHits]
      /\ AllHits' = AllHits /\ IsFiniteSet(AllHits)
  BY HitsStay, HitsAreOrderedAndFinite DEF ScanFile, SearchInv
<1>1. /\ f \in Files /\ f \in Nat \ {0} /\ FileCount \in Nat \ {0} /\ f <= FileCount
      /\ \A w \in Workers : worker[w].at = "idle"
      /\ found = HitsUpTo(AllHits, f - 1)
  BY <1>0, SearchAssumption DEF SearchInv, CallerInv, Files
<1>2. found' = HitsUpTo(AllHits, f)
  <2>1. \A h : h \in HitsOf(f) <=> h \in AllHits /\ h[1] = f
    BY <1>0, <1>1 DEF AllHits, HitsOf
  <2>2. \A h \in AllHits : h[1] \in Nat
    <3>1. Files \subseteq Nat
      BY <1>1 DEF Files
    <3> QED
      BY <1>0, <3>1, HitsAreOrderedAndFinite
  <2>3. \A h \in AllHits : h[1] <= f <=> (h[1] <= f - 1 \/ h[1] = f)
    BY <1>1, <2>2
  <2> QED
    BY <1>0, <1>1, <2>1, <2>3, Zenon DEF HitsUpTo
<1>3. found' \subseteq AllHits /\ Cardinality(found') \in Nat /\ Limit \in Nat
  <2>1. found' \in SUBSET AllHits
    BY <1>2 DEF HitsUpTo
  <2> QED
    BY <1>0, <2>1, PartsAreFinite, SearchAssumption
<1>4. PoolTypes' /\ hits' \in [Files -> 0 .. MaxHits] /\ snatched' \in BOOLEAN
      /\ found' \subseteq AllHits' /\ \A w \in Workers : worker'[w].at = "idle"
  BY <1>0, <1>1, <1>3 DEF PoolTypes, SearchInv
<1>5. CASE Cardinality(found') >= Limit
  <2>1. caller' = [at |-> "truncated", of |-> 0]
    BY <1>5 DEF ScanFile
  <2>2. FirstOf(found') = FirstOf(AllHits)
    BY <1>0, <1>1, <1>2, <1>3, <1>5, FirstAreInFiles
  <2> QED
    BY <1>0, <1>4, <2>1, <2>2 DEF SearchInv, CallerInv
<1>6. CASE ~(Cardinality(found') >= Limit) /\ f = FileCount
  <2>1. caller' = [at |-> "complete", of |-> 0]
    BY <1>6 DEF ScanFile
  <2>2. found' = AllHits
    <3>1. \A h \in AllHits : h[1] <= FileCount
      BY <1>0, HitsAreOrderedAndFinite DEF Files
    <3> QED
      BY <1>2, <1>6, <3>1, Zenon DEF HitsUpTo
  <2>3. Cardinality(AllHits) < Limit
    BY <1>3, <1>6, <2>2
  <2> QED
    BY <1>0, <1>4, <2>1, <2>2, <2>3 DEF SearchInv, CallerInv
<1>7. CASE ~(Cardinality(found') >= Limit) /\ f # FileCount
  <2>1. caller' = [caller EXCEPT !.of = f + 1]
    BY <1>7 DEF ScanFile
  <2>2. caller' = [at |-> "scanning", of |-> f + 1]
    BY <1>0, <2>1 DEF SearchInv
  <2>3. f + 1 \in Files /\ f + 1 \in Nat /\ (f + 1) - 1 = f
    BY <1>1, <1>7 DEF Files
  <2> QED
    BY <1>0, <1>2, <1>4, <2>2, <2>3 DEF SearchInv, CallerInv
<1> QED
  BY <1>5, <1>6, <1>7

(* What the pool has, if the caller has not touched it.                    *)
LEMMA PoolStays ==
  ASSUME SearchInv, UNCHANGED <<hits, future, popped, worker, found>>
  PROVE  /\ AllHits' = AllHits /\ IsFiniteSet(AllHits) /\ PoolTypes'
         /\ PoolInv => PoolInv'
         /\ hits' \in [Files -> 0 .. MaxHits] /\ found' \subseteq AllHits'
<1>1. AllHits' = AllHits /\ IsFiniteSet(AllHits)
  BY HitsStay, HitsAreOrderedAndFinite DEF SearchInv
<1> QED
  BY <1>1 DEF SearchInv, PoolTypes, PoolInv

LEMMA CollectingKeepsSearch ==
  ASSUME SearchInv, Collect PROVE SearchInv'
<1>0. /\ UNCHANGED <<hits, future, popped, worker, found, snatched>>
      /\ caller.at = "waiting" /\ future[caller.of] = "done" /\ snatched \in BOOLEAN
      /\ caller.of \in Chunks /\ PoolInv /\ Uncancelled /\ found \subseteq AllHits
      /\ \A k \in Chunks : k < caller.of => future[k] = "done"
  BY DEF Collect, SearchInv, CallerInv
<1>1. /\ AllHits' = AllHits /\ IsFiniteSet(AllHits) /\ PoolTypes' /\ PoolInv'
      /\ hits' \in [Files -> 0 .. MaxHits] /\ found' \subseteq AllHits'
  BY <1>0, PoolStays
<1>2. /\ ChunkCount \in Nat \ {0} /\ popped \in 0 .. ChunkCount /\ 1 \in Chunks
      /\ caller.of <= popped /\ caller.of \in Nat \ {0}
  BY <1>0, ChunksAreInOrder DEF SearchInv, PoolTypes, PoolInv, Chunks
<1>3. Cardinality(found) \in Nat /\ Limit \in Nat
  BY <1>0, <1>1, PartsAreFinite, SearchAssumption
<1>4. CASE Enough
  <2>1. caller' = [at |-> "cancelling", of |-> 1]
    BY <1>4 DEF Collect
  <2>2. popped \in 1 .. popped
    BY <1>2
  <2>3. EnoughIn(popped)
    <3>1. found \cap HitsUpTo(AllHits, LastFile(popped)) = found
      BY <1>0 DEF PoolInv
    <3>2. \A k \in 1 .. popped : k \in Chunks
      BY <1>2 DEF Chunks
    <3> QED
      BY <1>0, <1>4, <3>1, <3>2 DEF EnoughIn, Enough, Uncancelled
  <2>4. \E p \in 1 .. popped' : EnoughIn(p)'
    BY <1>0, <1>1, <2>2, <2>3 DEF EnoughIn
  <2> QED
    BY <1>0, <1>1, <1>2, <2>1, <2>4 DEF SearchInv, CallerInv
<1>5. CASE ~Enough /\ caller.of = ChunkCount
  <2>1. caller' = [at |-> "joining", of |-> 0]
    BY <1>5 DEF Collect
  <2>2. \A k \in Chunks : future[k] = "done"
    BY <1>0, <1>2, <1>5 DEF Chunks
  <2>3. found = AllHits
    <3>1. \A h \in AllHits : \E k \in Chunks : h \in ChunkHits(AllHits, k)
      BY FilesAreInChunks, HitsAreOrderedAndFinite DEF ChunkHits, SearchInv
    <3> QED
      BY <1>0, <2>2, <3>1 DEF PoolInv
  <2>4. Cardinality(AllHits) < Limit
    BY <1>3, <1>5, <2>3 DEF Enough
  <2> QED
    BY <1>0, <1>1, <2>1, <2>3, <2>4 DEF SearchInv, CallerInv
<1>6. CASE ~Enough /\ caller.of # ChunkCount
  <2>1. caller' = [caller EXCEPT !.of = caller.of + 1]
    BY <1>6 DEF Collect
  <2>2. caller' = [at |-> "waiting", of |-> caller.of + 1]
    BY <1>0, <2>1 DEF SearchInv
  <2>3. caller.of + 1 \in Chunks /\ caller.of + 1 \in Nat
    BY <1>0, <1>2, <1>6 DEF Chunks
  <2>4. \A k \in Chunks : k < caller.of + 1 => future[k] = "done"
    BY <1>0, <1>2 DEF Chunks
  <2>5. Uncancelled'
    BY <1>0 DEF Uncancelled
  <2> QED
    BY <1>0, <1>1, <2>2, <2>3, <2>4, <2>5 DEF SearchInv, CallerInv
<1> QED
  BY <1>4, <1>5, <1>6

LEMMA CancellingKeepsSearch ==
  ASSUME SearchInv, Cancel PROVE SearchInv'
<1> DEFINE k == caller.of
<1>0. /\ UNCHANGED <<hits, popped, worker, found>>
      /\ caller.at = "cancelling" /\ k \in Chunks /\ PoolInv /\ PoolTypes
      /\ future' = IF future[k] = "pending" THEN [future EXCEPT ![k] = "cancelled"] ELSE future
      /\ snatched' = (snatched \/ (future[k] = "pending" /\ k <= popped))
  BY DEF Cancel, SearchInv, CallerInv
<1>1. PICK p \in 1 .. popped : EnoughIn(p)
  BY <1>0 DEF SearchInv, CallerInv
<1>2. /\ AllHits' = AllHits /\ hits' \in [Files -> 0 .. MaxHits] /\ found' \subseteq AllHits'
      /\ snatched' \in BOOLEAN
  BY <1>0, HitsStay DEF SearchInv
<1>3. \A j \in Chunks : \/ future'[j] = future[j]
                        \/ j = k /\ future[j] = "pending" /\ future'[j] = "cancelled"
  BY <1>0 DEF PoolTypes
<1>4. PoolTypes'
  BY <1>0 DEF PoolTypes, FutureStates
<1>5. PoolInv'
  <2>1. \A w \in Workers : Busy(worker[w]) => worker[w].chunk \in Chunks
    BY <1>0, ChunksAreInOrder DEF PoolInv, PoolTypes, Chunks
  <2>2. \A w \in Workers :
          /\ worker[w].at = "taken" => future'[worker[w].chunk] \in {"pending", "cancelled"}
          /\ worker[w].at = "scanning" => future'[worker[w].chunk] = "running"
    <3> SUFFICES ASSUME NEW w \in Workers, Busy(worker[w])
                 PROVE /\ worker[w].at = "taken" =>
                            future'[worker[w].chunk] \in {"pending", "cancelled"}
                       /\ worker[w].at = "scanning" => future'[worker[w].chunk] = "running"
      BY DEF Busy
    <3>1. \/ future'[worker[w].chunk] = future[worker[w].chunk]
          \/ /\ future[worker[w].chunk] = "pending"
             /\ future'[worker[w].chunk] = "cancelled"
      BY <1>3, <2>1
    <3> QED
      BY <1>0, <3>1 DEF PoolInv
  <2>3. \A j \in Chunks :
          /\ popped < j => future'[j] \in {"pending", "cancelled"}
          /\ j <= popped /\ future'[j] \in {"pending", "running"} =>
               \E w \in Workers : Busy(worker[w]) /\ worker[w].chunk = j
          /\ future'[j] = "done" => ChunkHits(AllHits, j) \subseteq found
    BY <1>0, <1>3 DEF PoolInv
  <2> QED
    BY <1>0, <1>2, <2>2, <2>3 DEF PoolInv
<1>6. \E q \in 1 .. popped' : EnoughIn(q)'
  <2>1. popped \in Nat /\ \A j \in 1 .. p : j \in Chunks /\ j <= popped
    BY <1>0, ChunksAreInOrder DEF PoolTypes, Chunks
  <2>2. \A j \in 1 .. p : future'[j] = "cancelled" => snatched'
    <3> SUFFICES ASSUME NEW j \in 1 .. p, future'[j] = "cancelled", future[j] # "cancelled"
                 PROVE  snatched'
      BY <1>0, <1>1 DEF EnoughIn
    <3>1. j = k /\ future[k] = "pending" /\ k <= popped
      BY <1>3, <2>1
    <3> QED
      BY <1>0, <3>1
  <2>3. EnoughIn(p)'
    BY <1>0, <1>1, <1>2, <2>2 DEF EnoughIn
  <2> QED
    BY <1>0, <1>1, <2>3
<1>7. CASE k = ChunkCount
  <2>1. caller' = [at |-> "leaving", of |-> 0]
    BY <1>7 DEF Cancel
  <2> QED
    BY <1>2, <1>4, <1>5, <1>6, <2>1 DEF SearchInv, CallerInv
<1>8. CASE k # ChunkCount
  <2>1. caller' = [caller EXCEPT !.of = k + 1]
    BY <1>8 DEF Cancel
  <2>2. caller' = [at |-> "cancelling", of |-> k + 1]
    BY <1>0, <2>1 DEF SearchInv
  <2>3. k + 1 \in Chunks /\ k + 1 \in Nat
    BY <1>0, <1>8, ChunksAreInOrder DEF Chunks
  <2> QED
    BY <1>2, <1>4, <1>5, <1>6, <2>2, <2>3 DEF SearchInv, CallerInv
<1> QED
  BY <1>7, <1>8

LEMMA LeavingKeepsSearch ==
  ASSUME SearchInv, Leave PROVE SearchInv'
<1>0. /\ UNCHANGED <<hits, future, popped, worker, found, snatched>> /\ PoolInv /\ PoolTypes
      /\ caller.at \in {"joining", "leaving"} /\ PoolIsIdle /\ snatched \in BOOLEAN
      /\ found \subseteq AllHits
      /\ caller' = [at |-> IF caller.at = "joining" THEN "complete" ELSE "truncated", of |-> 0]
  BY DEF Leave, SearchInv, CallerInv
<1>1. /\ AllHits' = AllHits /\ IsFiniteSet(AllHits) /\ PoolTypes'
      /\ hits' \in [Files -> 0 .. MaxHits] /\ found' \subseteq AllHits'
  BY <1>0, PoolStays
<1>2. \A w \in Workers : worker[w].at = "idle" /\ ~Busy(worker[w])
  BY <1>0 DEF PoolIsIdle, Resting, Busy
<1>3. CASE caller.at = "joining"
  <2>1. found = AllHits /\ Cardinality(AllHits) < Limit
    BY <1>3 DEF SearchInv, CallerInv
  <2> QED
    BY <1>0, <1>1, <1>2, <1>3, <2>1 DEF SearchInv, CallerInv
<1>4. CASE caller.at = "leaving"
  <2>1. PICK p \in 1 .. popped : EnoughIn(p)
    BY <1>4 DEF SearchInv, CallerInv
  <2>2. /\ popped = ChunkCount /\ ChunkCount \in Nat \ {0} /\ p \in Chunks
        /\ LastFile(p) \in Nat
    BY <1>0, <2>1, ChunksAreInOrder DEF PoolIsIdle, Chunks, Files
  <2>3. snatched \/ FirstOf(found) = FirstOf(AllHits)
    <3> SUFFICES ASSUME ~snatched PROVE FirstOf(found) = FirstOf(AllHits)
      OBVIOUS
    <3> DEFINE first == HitsUpTo(AllHits, LastFile(p))
    <3>1. \A k \in 1 .. p : k \in Chunks /\ future[k] = "done"
      <4> SUFFICES ASSUME NEW k \in 1 .. p PROVE k \in Chunks /\ future[k] = "done"
        OBVIOUS
      <4>1. k \in Chunks /\ k <= popped
        BY <2>2 DEF Chunks
      <4>2. future[k] \in FutureStates /\ future[k] # "cancelled"
        BY <1>0, <2>1, <4>1 DEF EnoughIn, PoolTypes
      <4>3. future[k] \notin {"pending", "running"}
        BY <1>0, <1>2, <4>1 DEF PoolInv
      <4> QED
        BY <4>1, <4>2, <4>3 DEF FutureStates
    <3>2. first \subseteq found
      <4> SUFFICES ASSUME NEW h \in first PROVE h \in found
        OBVIOUS
      <4>1. h \in AllHits /\ h[1] \in Files /\ h[1] <= LastFile(p)
        BY HitsAreOrderedAndFinite DEF HitsUpTo, SearchInv
      <4>2. PICK k \in Chunks : FirstFile(k) <= h[1] /\ h[1] <= LastFile(k)
        BY <4>1, FilesAreInChunks
      <4>3. k <= p
        <5>1. p < k => LastFile(p) < FirstFile(k)
          BY <2>2, ChunksAreInOrder
        <5>2. FirstFile(k) \in Nat /\ h[1] \in Nat /\ k \in Nat /\ p \in Nat
          BY <2>2, <4>1, ChunksAreInOrder, SearchAssumption DEF Files, Chunks
        <5> QED
          BY <2>2, <4>1, <4>2, <5>1, <5>2
      <4>4. h \in ChunkHits(AllHits, k)
        BY <4>1, <4>2 DEF ChunkHits
      <4>5. k \in 1 .. p
        BY <4>3 DEF Chunks
      <4> QED
        BY <1>0, <3>1, <4>4, <4>5 DEF PoolInv
    <3>3. found \cap first = first
      BY <3>2, Zenon
    <3>4. Cardinality(first) >= Limit
      BY <2>1, <3>3 DEF EnoughIn
    <3> HIDE DEF first
    <3> QED
      BY <1>0, <2>2, <3>2, <3>4, FirstAreInFiles DEF SearchInv, first
  <2> QED
    BY <1>0, <1>1, <1>2, <1>4, <2>3 DEF SearchInv, CallerInv
<1> QED
  BY <1>0, <1>3, <1>4

(* However the threads run, the answer is what one reader in file order would
   give, and it says so when there is more (SourceSearch.AnswerIsFirstHits),
   unless a chunk was cancelled that a worker had just taken.              *)
THEOREM AnswersAreFirstHits == SearchSpec => []AnswerIsFirstHits
<1>1. SearchInit => SearchInv
  <2> SUFFICES ASSUME SearchInit PROVE SearchInv
    OBVIOUS
  <2>1. /\ hits \in [Files -> 0 .. MaxHits] /\ popped = 0 /\ found = {} /\ snatched = FALSE
        /\ future = [k \in Chunks |-> "pending"] /\ worker = [w \in Workers |-> Resting]
        /\ caller \in {[at |-> "waiting", of |-> 1], [at |-> "scanning", of |-> 1]}
    BY DEF SearchInit
  <2>2. /\ ChunkCount \in Nat \ {0} /\ 1 \in Chunks /\ FileCount \in Nat \ {0} /\ 1 \in Files
    BY ChunksAreInOrder, SearchAssumption DEF Chunks, Files
  <2>3. Resting \in WorkerTypes /\ Resting.at = "idle"
    BY DEF Resting, WorkerTypes
  <2>4. \A w \in Workers : worker[w].at = "idle" /\ ~Busy(worker[w])
    BY <2>1, <2>3 DEF Busy
  <2>5. PoolTypes
    BY <2>1, <2>2, <2>3 DEF PoolTypes, FutureStates
  <2>6. PoolInv
    BY <2>1, <2>4 DEF PoolInv, Chunks
  <2>7. CASE caller = [at |-> "waiting", of |-> 1]
    <3>1. Uncancelled /\ \A k \in Chunks : ~(k < 1)
      BY <2>1 DEF Uncancelled, Chunks
    <3>2. caller.at = "waiting" /\ caller.of = 1 /\ CallerInv
      BY <2>2, <2>6, <2>7, <3>1 DEF CallerInv
    <3> QED
      BY <2>1, <2>5, <2>7, <3>2 DEF SearchInv
  <2>8. CASE caller = [at |-> "scanning", of |-> 1]
    <3>1. \A h \in AllHits : ~(h[1] <= 0)
      BY <2>1, HitsAreOrderedAndFinite DEF Files
    <3>2. found = HitsUpTo(AllHits, 1 - 1)
      BY <2>1, <3>1 DEF HitsUpTo
    <3> QED
      BY <2>1, <2>2, <2>4, <2>5, <2>8, <3>2 DEF SearchInv, CallerInv
  <2> QED
    BY <2>1, <2>7, <2>8
<1>2. SearchInv /\ [SearchNext]_searchVars => SearchInv'
  <2> SUFFICES ASSUME SearchInv, [SearchNext]_searchVars PROVE SearchInv'
    OBVIOUS
  <2>1. CASE ScanFile \/ Collect \/ Cancel \/ Leave
    BY <2>1, ScanningKeepsSearch, CollectingKeepsSearch, CancellingKeepsSearch,
       LeavingKeepsSearch
  <2>2. ASSUME NEW w \in Workers, TakeChunk(w) \/ BeginChunk(w) \/ AddHit(w) \/ EndFile(w)
        PROVE  SearchInv'
    BY <2>2, WorkingKeepsSearch
  <2>3. CASE UNCHANGED searchVars
    <3>1. UNCHANGED <<hits, future, popped, worker, found, caller, snatched>>
      BY <2>3 DEF searchVars
    <3>2. /\ AllHits' = AllHits /\ PoolTypes'
          /\ PoolInv => PoolInv'
          /\ hits' \in [Files -> 0 .. MaxHits] /\ found' \subseteq AllHits'
      BY <3>1, PoolStays
    <3>3. CallerInv'
      BY <3>1, <3>2 DEF SearchInv, CallerInv, EnoughIn, Uncancelled
    <3> QED
      BY <3>1, <3>2, <3>3 DEF SearchInv
  <2> QED
    BY <2>1, <2>2, <2>3 DEF SearchNext
<1>3. SearchInv => AnswerIsFirstHits
  <2> SUFFICES ASSUME SearchInv, caller.at \in {"complete", "truncated"}, ~snatched
               PROVE  /\ FirstOf(found) = FirstOf(AllHits)
                      /\ Cardinality(AllHits) > Limit => caller.at = "truncated"
    BY DEF AnswerIsFirstHits, AllHits
  <2>1. Cardinality(AllHits) \in Nat /\ Limit \in Nat
    BY HitsAreOrderedAndFinite, FS_CardinalityType, SearchAssumption DEF SearchInv
  <2>2. CASE caller.at = "complete"
    BY <2>1, <2>2 DEF SearchInv, CallerInv
  <2>3. CASE caller.at = "truncated"
    BY <2>3 DEF SearchInv, CallerInv
  <2> QED
    BY <2>2, <2>3
<1> QED
  BY <1>1, <1>2, <1>3, PTL DEF SearchSpec

(***************************************************************************)
(* The candidates of a call.                                               *)
(***************************************************************************)
(* What MapThenSumSet chooses: a function that sums up every subset.        *)
Pick(s) == CHOOSE x \in s : TRUE
SumOf(w, sum, s)   == IF s = {} THEN 0 ELSE w[Pick(s)] + sum[s \ {Pick(s)}]
Summed(w, S, sum)  == sum = [s \in SUBSET S |-> SumOf(w, sum, s)]

LEMMA SumsAreFunctions ==
  ASSUME NEW w, NEW S, IsFiniteSet(S)
  PROVE  \E sum : /\ MapThenSumSet(LAMBDA b : w[b], S) = sum[S]
                  /\ Summed(w, S, sum)
<1> DEFINE Upto(n, sum) ==
             \A s \in SUBSET S : Cardinality(s) <= n => sum[s] = SumOf(w, sum, s)
           Bad == {n \in Nat : ~\E sum : Upto(n, sum)}
<1>1. \A s \in SUBSET S : IsFiniteSet(s) /\ Cardinality(s) \in Nat
  BY FS_Subset, FS_CardinalityType, Zenon
<1>2. Upto(0, [s \in SUBSET S |-> 0])
  <2>1. \A s \in SUBSET S : Cardinality(s) <= 0 => s = {}
    BY <1>1, FS_EmptySet
  <2> QED
    BY <2>1, Zenon DEF SumOf
<1>3. ASSUME NEW n \in Nat, NEW sum, Upto(n, sum) PROVE \E new : Upto(n + 1, new)
  <2> DEFINE new == [s \in SUBSET S |-> IF Cardinality(s) <= n THEN sum[s] ELSE SumOf(w, sum, s)]
  <2>1. ASSUME NEW s \in SUBSET S, s # {}, Cardinality(s) <= n + 1
        PROVE  LET rest == s \ {Pick(s)} IN rest \in SUBSET S /\ Cardinality(rest) <= n
    <3>1. Pick(s) \in s
      BY <2>1, Zenon DEF Pick
    <3>2. Cardinality(s \ {Pick(s)}) = Cardinality(s) - 1
      BY <1>1, <3>1, FS_RemoveElement, Zenon
    <3>3. Cardinality(s) - 1 <= n
      BY <1>1, <2>1
    <3> QED
      BY <3>2, <3>3, Zenon
  <2>2. ASSUME NEW s \in SUBSET S, Cardinality(s) <= n + 1 PROVE new[s] = SumOf(w, new, s)
    <3>1. new[s] = SumOf(w, sum, s)
      BY <1>3, Zenon
    <3>2. CASE s = {}
      BY <3>1, <3>2, Zenon DEF SumOf
    <3>3. CASE s # {}
      <4>1. new[s \ {Pick(s)}] = sum[s \ {Pick(s)}]
        BY <2>1, <2>2, <3>3, Zenon
      <4> QED
        BY <3>1, <3>3, <4>1, Zenon DEF SumOf
    <3> QED
      BY <3>2, <3>3
  <2> QED
    BY <2>2, Zenon
<1>4. Bad = {}
  <2> SUFFICES ASSUME Bad # {} PROVE FALSE
    OBVIOUS
  <2>1. PICK n \in Bad : \A m \in Bad : n <= m
    <3>1. Bad \in SUBSET Nat
      BY Zenon
    <3> HIDE DEF Bad
    <3> QED
      BY <3>1, LeastNatural, Zenon
  <2>2. n # 0
    BY <1>2, Zenon
  <2>3. n \in Nat /\ n - 1 \in Nat /\ (n - 1) + 1 = n /\ ~(n <= n - 1)
    BY <2>2
  <2>4. n - 1 \notin Bad
    BY <2>1, <2>3, Zenon
  <2>5. PICK sum : Upto(n - 1, sum)
    BY <2>3, <2>4, Zenon
  <2>6. \E new : Upto(n, new)
    <3> HIDE DEF Upto
    <3>1. \E new : Upto((n - 1) + 1, new)
      BY <1>3, <2>3, <2>5, Zenon
    <3> QED
      BY <2>3, <3>1, Zenon
  <2> QED
    BY <2>6, Zenon
<1>5. PICK sum : Upto(Cardinality(S), sum)
  BY <1>1, <1>4, Zenon
<1>6. \A s \in SUBSET S : Cardinality(s) <= Cardinality(S)
  BY FS_Subset, Zenon
<1> DEFINE all == [s \in SUBSET S |-> sum[s]]
<1>7. \A s \in SUBSET S : SumOf(w, all, s) = SumOf(w, sum, s)
  BY Zenon DEF SumOf
<1>8. Summed(w, S, all)
  BY <1>5, <1>6, <1>7, Zenon DEF Summed
<1> DEFINE chosen == CHOOSE f : Summed(w, S, f)
<1>9. Summed(w, S, chosen)
  BY <1>8, Zenon
<1>10. MapThenSumSet(LAMBDA b : w[b], S) = chosen[S]
  BY Zenon DEF MapThenSumSet, MapThenFoldSet, SumOf, Summed, Pick
<1> QED
  BY <1>9, <1>10, Zenon

AmountOf(w, S) == MapThenSumSet(LAMBDA x : w[x], S)

AddsUp(w, S, sum) ==
  /\ sum[{}] = 0
  /\ \A x \in S : w[x] \in Int => sum[{x}] = w[x]
  /\ \A x \in S, y \in S : x # y /\ w[x] \in Int /\ w[y] \in Int
                             => sum[{x, y}] = w[x] + w[y]

LEMMA SumsOfSubsets ==
  ASSUME NEW w, NEW S, NEW sum, Summed(w, S, sum) PROVE AddsUp(w, S, sum)
<1>1. \A s \in SUBSET S : sum[s] = SumOf(w, sum, s)
  BY Zenon DEF Summed
<1>2. sum[{}] = 0
  BY <1>1, Zenon DEF SumOf
<1>3. ASSUME NEW x \in S, w[x] \in Int PROVE sum[{x}] = w[x]
  <2>1. Pick({x}) = x /\ {x} \ {x} = {} /\ {x} # {}
    BY Zenon DEF Pick
  <2>2. sum[{x}] = w[x] + sum[{}]
    BY <1>1, <2>1, Zenon DEF SumOf
  <2> QED
    BY <1>2, <1>3, <2>2
<1>4. ASSUME NEW x \in S, NEW y \in S, x # y, w[x] \in Int, w[y] \in Int
      PROVE  sum[{x, y}] = w[x] + w[y]
  <2>1. Pick({x, y}) \in {x, y} /\ {x, y} # {} /\ {x, y} \ {x} = {y} /\ {x, y} \ {y} = {x}
    <3>1. Pick({x, y}) \in {x, y}
      BY Zenon DEF Pick
    <3> QED
      BY <1>4, <3>1
  <2>2. sum[{x, y}] = w[Pick({x, y})] + sum[{x, y} \ {Pick({x, y})}]
    BY <1>1, <2>1, Zenon DEF SumOf
  <2>3. CASE Pick({x, y}) = x
    BY <1>3, <1>4, <2>1, <2>2, <2>3
  <2>4. CASE Pick({x, y}) = y
    <3>1. sum[{x, y}] = w[y] + w[x]
      BY <1>3, <1>4, <2>1, <2>2, <2>4
    <3> QED
      BY <1>4, <3>1
  <2> QED
    BY <2>1, <2>3, <2>4
<1> QED
  BY <1>2, <1>3, <1>4 DEF AddsUp

LEMMA SumOfOne ==
  ASSUME NEW w, NEW a, w[a] \in Int PROVE AmountOf(w, {a}) = w[a]
<1> DEFINE S == {a}
<1>1. a \in S /\ IsFiniteSet(S)
  BY FS_Singleton
<1> HIDE DEF S
<1>2. PICK sum : MapThenSumSet(LAMBDA x : w[x], S) = sum[S] /\ Summed(w, S, sum)
  BY <1>1, SumsAreFunctions, Zenon
<1>3. AddsUp(w, S, sum)
  BY <1>2, SumsOfSubsets, Zenon
<1>4. sum[{a}] = w[a]
  BY <1>1, <1>3, Zenon DEF AddsUp
<1> QED
  BY <1>2, <1>4, Zenon DEF S, AmountOf

LEMMA SumOfTwo ==
  ASSUME NEW w, NEW a, NEW b, a # b, w[a] \in Int, w[b] \in Int
  PROVE  AmountOf(w, {a, b}) = w[a] + w[b]
<1> DEFINE S == {a, b}
<1>1. a \in S /\ b \in S /\ S = {a} \union {b}
  OBVIOUS
<1>2. IsFiniteSet(S)
  <2>1. IsFiniteSet({a}) /\ IsFiniteSet({a} \union {b})
    BY FS_Singleton, FS_AddElement, Zenon
  <2> QED
    BY <1>1, <2>1, Zenon
<1> HIDE DEF S
<1>3. PICK sum : MapThenSumSet(LAMBDA x : w[x], S) = sum[S] /\ Summed(w, S, sum)
  BY <1>2, SumsAreFunctions, Zenon
<1>4. AddsUp(w, S, sum)
  BY <1>3, SumsOfSubsets, Zenon
<1>5. sum[{a, b}] = w[a] + w[b]
  BY <1>1, <1>4, Zenon DEF AddsUp
<1> QED
  BY <1>3, <1>5, Zenon DEF S, AmountOf

ThreeAdd(w, a, b, c) == AmountOf(w, {a, b, c}) = w[a] + w[b] + w[c]

LEMMA SumOfThree ==
  ASSUME NEW w, NEW a, NEW b, NEW c, a # b, a # c, b # c,
         w[a] \in Int, w[b] \in Int, w[c] \in Int
  PROVE  ThreeAdd(w, a, b, c)
<1> DEFINE S == {a, b, c}
<1>1. /\ a \in S /\ b \in S /\ c \in S /\ S # {} /\ \A x \in S : x = a \/ x = b \/ x = c
      /\ S \ {a} = {b, c} /\ S \ {b} = {a, c} /\ S \ {c} = {a, b}
      /\ S = ({a} \union {b}) \union {c}
  OBVIOUS
<1>2. IsFiniteSet(S)
  <2>1. IsFiniteSet({a}) /\ IsFiniteSet({a} \union {b})
    BY FS_Singleton, FS_AddElement, Zenon
  <2>2. IsFiniteSet(({a} \union {b}) \union {c})
    BY <2>1, FS_AddElement, Zenon
  <2> QED
    BY <1>1, <2>2, Zenon
<1> HIDE DEF S
<1>3. PICK sum : MapThenSumSet(LAMBDA x : w[x], S) = sum[S] /\ Summed(w, S, sum)
  BY <1>2, SumsAreFunctions, Zenon
<1>4. AddsUp(w, S, sum)
  BY <1>3, SumsOfSubsets, Zenon
<1>5. Pick(S) = a \/ Pick(S) = b \/ Pick(S) = c
  BY <1>1, Zenon DEF Pick
<1>6. sum[S] = w[Pick(S)] + sum[S \ {Pick(S)}]
  BY <1>1, <1>3, Zenon DEF Summed, SumOf
<1>7. sum[{b, c}] = w[b] + w[c] /\ sum[{a, c}] = w[a] + w[c] /\ sum[{a, b}] = w[a] + w[b]
  BY <1>1, <1>4, Zenon DEF AddsUp
<1>8. \/ sum[S] = w[a] + (w[b] + w[c])
      \/ sum[S] = w[b] + (w[a] + w[c])
      \/ sum[S] = w[c] + (w[a] + w[b])
  BY <1>1, <1>5, <1>6, <1>7, Zenon
<1>9. sum[S] = w[a] + w[b] + w[c]
  BY <1>8
<1> QED
  BY <1>3, <1>9, Zenon DEF S, AmountOf, ThreeAdd

-----------------------------------------------------------------------------
(* What each basis is worth.                                               *)
Worth(basis) == AmountOf(Weights, basis)

Weighs(a, n) == Weights[a] = n /\ n \in Int
Apart(a, b)  == a # b

(* The provers do not look for such sums by themselves.                     *)
OneWeighs(a, n)        == Worth({a}) = n
TwoWeigh(a, b, n)      == Worth({a, b}) = n
ThreeWeigh(a, b, c, n) == Worth({a, b, c}) = n

LEMMA WorthOfOne ==
  ASSUME NEW a, NEW i, Weighs(a, i) PROVE OneWeighs(a, i)
BY SumOfOne, Zenon DEF Weighs, Worth, OneWeighs

LEMMA WorthOfTwo ==
  ASSUME NEW a, NEW b, NEW i, NEW j, Apart(a, b), Weighs(a, i), Weighs(b, j)
  PROVE  TwoWeigh(a, b, i + j)
<1>1. /\ Weights[a] = i /\ Weights[b] = j /\ Weights[a] \in Int /\ Weights[b] \in Int
      /\ a # b
  BY Zenon DEF Weighs, Apart
<1>2. AmountOf(Weights, {a, b}) = Weights[a] + Weights[b]
  BY <1>1, SumOfTwo, Zenon
<1> QED
  BY <1>1, <1>2, Zenon DEF Worth, TwoWeigh

LEMMA WorthOfThree ==
  ASSUME NEW a, NEW b, NEW c, NEW i, NEW j, NEW k, Apart(a, b), Apart(a, c), Apart(b, c),
         Weighs(a, i), Weighs(b, j), Weighs(c, k)
  PROVE  ThreeWeigh(a, b, c, i + j + k)
<1>1. /\ Weights[a] = i /\ Weights[b] = j /\ Weights[a] \in Int /\ Weights[b] \in Int
      /\ Weights[c] = k /\ Weights[c] \in Int /\ a # b /\ a # c /\ b # c
  BY Zenon DEF Weighs, Apart
<1>2. ThreeAdd(Weights, a, b, c)
  BY <1>1, SumOfThree, Zenon
<1> QED
  BY <1>1, <1>2, Zenon DEF Worth, ThreeWeigh, ThreeAdd

LEMMA WorthOfBases ==
  /\ Worth({"qualified_name"}) = 35
  /\ Worth({"qualified_name", "namespace_alias"}) = 39
  /\ Worth({"local_type_hint", "member_call"}) = 30
  /\ Worth({"module_visible"}) = 3
  /\ Worth({"same_class", "same_file"}) = 33
  /\ Worth({"nested_type_context", "same_file"}) = 17
  /\ Worth({"base_class_context", "same_file"}) = 19
  /\ Worth({"same_namespace", "same_file"}) = 27
  /\ Worth({"using_declaration"}) = 16
  /\ Worth({"using_namespace"}) = 10
  /\ Worth({"same_file"}) = 5
  /\ Worth({"this_scope", "current_class", "same_class"}) = 93
  /\ Worth({"this_scope", "current_class", "nested_type_context"}) = 77
  /\ Worth({"this_scope", "current_class", "base_class_context"}) = 79
<1>1. /\ Weighs("qualified_name", 35) /\ Weighs("this_scope", 35)
      /\ Weighs("current_class", 30) /\ Weighs("same_class", 28)
      /\ Weighs("same_namespace", 22) /\ Weighs("using_declaration", 16)
      /\ Weighs("using_namespace", 10) /\ Weighs("local_type_hint", 22)
      /\ Weighs("nested_type_context", 12) /\ Weighs("base_class_context", 14)
      /\ Weighs("member_call", 8) /\ Weighs("same_file", 5)
      /\ Weighs("module_visible", 3) /\ Weighs("namespace_alias", 4)
  BY DEF Weights, Weighs
<1>2. OneWeighs("qualified_name", 35)
  BY <1>1, WorthOfOne, Zenon
<1>3. TwoWeigh("qualified_name", "namespace_alias", 35 + 4)
  <2>1. Apart("qualified_name", "namespace_alias")
    BY DEF Apart
  <2> QED
    BY <1>1, <2>1, WorthOfTwo, Zenon
<1>4. TwoWeigh("local_type_hint", "member_call", 22 + 8)
  <2>1. Apart("local_type_hint", "member_call")
    BY DEF Apart
  <2> QED
    BY <1>1, <2>1, WorthOfTwo, Zenon
<1>5. OneWeighs("module_visible", 3)
  BY <1>1, WorthOfOne, Zenon
<1>6. TwoWeigh("same_class", "same_file", 28 + 5)
  <2>1. Apart("same_class", "same_file")
    BY DEF Apart
  <2> QED
    BY <1>1, <2>1, WorthOfTwo, Zenon
<1>7. TwoWeigh("nested_type_context", "same_file", 12 + 5)
  <2>1. Apart("nested_type_context", "same_file")
    BY DEF Apart
  <2> QED
    BY <1>1, <2>1, WorthOfTwo, Zenon
<1>8. TwoWeigh("base_class_context", "same_file", 14 + 5)
  <2>1. Apart("base_class_context", "same_file")
    BY DEF Apart
  <2> QED
    BY <1>1, <2>1, WorthOfTwo, Zenon
<1>9. TwoWeigh("same_namespace", "same_file", 22 + 5)
  <2>1. Apart("same_namespace", "same_file")
    BY DEF Apart
  <2> QED
    BY <1>1, <2>1, WorthOfTwo, Zenon
<1>10. OneWeighs("using_declaration", 16)
  BY <1>1, WorthOfOne, Zenon
<1>11. OneWeighs("using_namespace", 10)
  BY <1>1, WorthOfOne, Zenon
<1>12. OneWeighs("same_file", 5)
  BY <1>1, WorthOfOne, Zenon
<1>13. ThreeWeigh("this_scope", "current_class", "same_class", 35 + 30 + 28)
  <2>1. /\ Apart("this_scope", "current_class")
        /\ Apart("this_scope", "same_class")
        /\ Apart("current_class", "same_class")
    BY DEF Apart
  <2> QED
    BY <1>1, <2>1, WorthOfThree, Zenon
<1>14. ThreeWeigh("this_scope", "current_class", "nested_type_context", 35 + 30 + 12)
  <2>1. /\ Apart("this_scope", "current_class")
        /\ Apart("this_scope", "nested_type_context")
        /\ Apart("current_class", "nested_type_context")
    BY DEF Apart
  <2> QED
    BY <1>1, <2>1, WorthOfThree, Zenon
<1>15. ThreeWeigh("this_scope", "current_class", "base_class_context", 35 + 30 + 14)
  <2>1. /\ Apart("this_scope", "current_class")
        /\ Apart("this_scope", "base_class_context")
        /\ Apart("current_class", "base_class_context")
    BY DEF Apart
  <2> QED
    BY <1>1, <2>1, WorthOfThree, Zenon
<1> QED
  BY <1>2, <1>3, <1>4, <1>5, <1>6, <1>7, <1>8, <1>9, <1>10, <1>11, <1>12, <1>13, <1>14,
     <1>15 DEF OneWeighs, TwoWeigh, ThreeWeigh

-----------------------------------------------------------------------------
(* Scopes and their ends.                                                  *)
LEMMA ReversedIsSequence ==
  ASSUME NEW s \in Seq(STRING)
  PROVE  /\ Reverse(s) \in Seq(STRING) /\ Len(Reverse(s)) = Len(s)
         /\ \A i \in 1 .. Len(s) : Reverse(s)[i] = s[(Len(s) - i) + 1]
<1>1. \A i \in 1 .. Len(s) : (Len(s) - i) + 1 \in 1 .. Len(s)
  OBVIOUS
<1> QED
  BY <1>1 DEF Reverse

LEMMA EndsWithItself ==
  ASSUME NEW s \in Seq(STRING) PROVE IsSuffix(s, s)
<1>1. Reverse(s) \in Seq(STRING) /\ Len(Reverse(s)) \in Nat
  BY ReversedIsSequence
<1> QED
  BY <1>1 DEF IsSuffix, IsPrefix

LEMMA EndsWithItsLast ==
  ASSUME NEW s \in Seq(STRING), NEW t \in Seq(STRING) PROVE IsSuffix(t, s \o t)
<1> DEFINE st == s \o t
<1>1. /\ st \in Seq(STRING) /\ Len(st) = Len(s) + Len(t)
      /\ \A i \in 1 .. Len(t) : st[Len(s) + i] = t[i]
  OBVIOUS
<1> HIDE DEF st
<1> DEFINE rt == Reverse(t) rst == Reverse(st)
<1>2. /\ rt \in Seq(STRING) /\ Len(rt) = Len(t)
      /\ \A i \in 1 .. Len(t) : rt[i] = t[(Len(t) - i) + 1]
  BY ReversedIsSequence
<1>3. /\ rst \in Seq(STRING) /\ Len(rst) = Len(s) + Len(t)
      /\ \A i \in 1 .. Len(s) + Len(t) : rst[i] = st[(Len(s) + Len(t) - i) + 1]
  <2>1. /\ rst \in Seq(STRING) /\ Len(rst) = Len(st)
        /\ \A i \in 1 .. Len(st) : rst[i] = st[(Len(st) - i) + 1]
    BY <1>1, ReversedIsSequence, Zenon
  <2> HIDE DEF rst
  <2> QED
    BY <1>1, <2>1
<1> HIDE DEF rt, rst
<1>4. \A i \in 1 .. Len(t) : rst[i] = rt[i]
  <2> TAKE i \in 1 .. Len(t)
  <2>1. /\ (Len(t) - i) + 1 \in 1 .. Len(t) /\ i \in 1 .. Len(s) + Len(t)
        /\ (Len(s) + Len(t) - i) + 1 = Len(s) + ((Len(t) - i) + 1)
    OBVIOUS
  <2> QED
    BY <1>1, <1>2, <1>3, <2>1
<1>5. SubSeq(rt, 1, Len(rt)) = SubSeq(rst, 1, Len(rt))
  BY <1>2, <1>3, <1>4
<1>6. Len(rt) <= Len(rst)
  BY <1>2, <1>3
<1> QED
  BY <1>5, <1>6 DEF IsSuffix, IsPrefix, st, rt, rst

LEMMA SameItself ==
  ASSUME NEW s \in Seq(STRING), s # <<>> PROVE SameContainer(s, s)
BY EndsWithItself DEF SameContainer, SameEnd

LEMMA InsideIsLonger ==
  ASSUME NEW s \in Seq(STRING), NEW t \in Seq(STRING), IsPrefix(s, t), t # s
  PROVE  Len(s) < Len(t)
<1>1. CASE Len(s) = Len(t)
  <2>1. \A i \in 1 .. Len(s) : s[i] = t[i]
    BY <1>1 DEF IsPrefix
  <2>2. s = t
    BY <1>1, <2>1, SeqEqual
  <2> QED
    BY <2>2
<1> QED
  BY <1>1 DEF IsPrefix

-----------------------------------------------------------------------------
(* What a candidate scores.                                                *)
Reward(arity, call)  == IF arity = call.arity THEN 12 ELSE -8
Capped(sum)          == IF sum > 99 THEN 99 ELSE sum

LEMMA ScoreOf ==
  ASSUME NEW f, NEW basis, NEW call
  PROVE  Score(With(f, basis), call) = Capped(50 + Worth(basis) + Reward(f.arity, call))
<1>1. With(f, basis).of = f /\ With(f, basis).basis = basis
  BY DEF With
<1> QED
  BY <1>1, Zenon DEF Score, Capped, Reward, Worth, AmountOf

LEMMA BestIsFirst ==
  ASSUME NEW call, NEW f, NEW basis, With(f, basis) \in Candidates(call),
         \A e \in Candidates(call) : Score(With(f, basis), call) >= Score(e, call)
  PROVE  f \in FirstCandidates(call)
<1>1. With(f, basis).of = f
  BY DEF With
<1> QED
  BY <1>1, Zenon DEF FirstCandidates

(* Functions with one basis: the number of parameters decides.              *)
LEMMA FitDecides ==
  ASSUME NEW call, NEW f, NEW basis, NEW set, Worth(basis) \in Int,
         Candidates(call) = {With(g, basis) : g \in set}, f \in set, f.arity = call.arity
  PROVE  f \in FirstCandidates(call)
<1>1. With(f, basis) \in Candidates(call)
  BY Zenon
<1>2. ASSUME NEW g PROVE Score(With(f, basis), call) >= Score(With(g, basis), call)
  <2>1. /\ Score(With(f, basis), call) = Capped(50 + Worth(basis) + Reward(f.arity, call))
        /\ Score(With(g, basis), call) = Capped(50 + Worth(basis) + Reward(g.arity, call))
    BY ScoreOf, Zenon
  <2>2. Reward(f.arity, call) = 12 /\ Reward(g.arity, call) \in {12, -8}
    BY DEF Reward
  <2> QED
    BY <2>1, <2>2 DEF Capped
<1>3. \A e \in Candidates(call) : Score(With(f, basis), call) >= Score(e, call)
  BY <1>2, Zenon
<1> QED
  BY <1>1, <1>3, BestIsFirst, Zenon

-----------------------------------------------------------------------------
(* A world that can be put together.                                       *)
AnyFunctions == Named("f", Scopes) \union Named(Functor, Types)
AnyUsings    == [kind : {"declaration", "directive", "alias"},
                 target : Scopes \ (Types \union {<<>>})]

WorldInv ==
  /\ here \in Callers /\ (here = <<>> => current = <<>>)
  /\ here \in Types => \A base \in baseNames[here] : base \in Seq(STRING) /\ Len(base) = 1
  /\ functions \subseteq AnyFunctions /\ IsFiniteSet(functions)
  /\ usings \subseteq AnyUsings

LEMMA WorldIsBuilt == ResolverSpec => []WorldInv
<1>1. ResolverInit => WorldInv
  <2> SUFFICES ASSUME ResolverInit PROVE WorldInv
    OBVIOUS
  <2>1. here = <<>> => current = <<>>
    BY DEF ResolverInit, Namesakes
  <2>2. ASSUME here \in Types, NEW base \in baseNames[here]
        PROVE  base \in Seq(STRING) /\ Len(base) = 1
    <3>1. baseNames # NoBases
      BY <2>2 DEF NoBases
    <3>2. PICK t \in Namesakes, u \in {v \in Types : Len(v) = 1} :
            baseNames = [NoBases EXCEPT ![t] = {u}]
      BY <3>1 DEF ResolverInit, BaseClauses
    <3>3. base = u
      BY <2>2, <3>2 DEF NoBases
    <3> QED
      BY <3>3, ResolverAssumption
  <2> QED
    BY <2>1, <2>2, FS_EmptySet DEF ResolverInit, WorldInv
<1>2. WorldInv /\ [ResolverNext]_resolverVars => WorldInv'
  <2> SUFFICES ASSUME WorldInv, [ResolverNext]_resolverVars PROVE WorldInv'
    OBVIOUS
  <2>1. CASE Declare
    <3>1. PICK f \in AnyFunctions : functions' = functions \union {f}
      BY <2>1, Zenon DEF Declare, AnyFunctions
    <3>2. IsFiniteSet(functions \union {f})
      BY FS_AddElement, Zenon DEF WorldInv
    <3>3. functions \union {f} \subseteq AnyFunctions
      BY <3>1 DEF WorldInv
    <3>4. here' = here /\ current' = current /\ baseNames' = baseNames /\ usings' = usings
      BY <2>1 DEF Declare
    <3> QED
      BY <3>1, <3>2, <3>3, <3>4, Zenon DEF WorldInv, AnyFunctions, AnyUsings
  <2>2. CASE Use
    <3>1. PICK kind \in {"declaration", "directive", "alias"},
               target \in Scopes \ (Types \union {<<>>}) :
            usings' = usings \union {[kind |-> kind, target |-> target]}
      BY <2>2, Zenon DEF Use
    <3>2. [kind |-> kind, target |-> target] \in AnyUsings
      BY DEF AnyUsings
    <3>3. /\ here' = here /\ current' = current /\ baseNames' = baseNames
          /\ functions' = functions
      BY <2>2 DEF Use
    <3>4. usings' \subseteq AnyUsings
      BY <3>1, <3>2, Zenon DEF WorldInv
    <3> QED
      BY <3>3, <3>4, Zenon DEF WorldInv, AnyFunctions, AnyUsings
  <2>3. CASE UNCHANGED resolverVars
    BY <2>3, Zenon DEF resolverVars, WorldInv, AnyFunctions, AnyUsings
  <2> QED
    BY <2>1, <2>2, <2>3 DEF ResolverNext
<1> QED
  BY <1>1, <1>2, PTL DEF ResolverSpec

(* What the parts of a world are.                                          *)
LEMMA WorldIsTyped ==
  ASSUME WorldInv
  PROVE  /\ here \in Seq(STRING) /\ Scopes \subseteq Seq(STRING)
         /\ Bases \subseteq Types /\ Nested \subseteq Types /\ Types \subseteq Scopes
         /\ <<>> \notin Types
         /\ \A f \in functions : f.in \in Scopes
         /\ \A u \in usings : u.target \notin Types
         /\ (here = <<>> => Bases = {})
<1>1. Scopes \subseteq Seq(STRING) /\ Types \subseteq Scopes /\ Callers \subseteq Scopes
  BY ResolverAssumption
<1>2. \A f \in functions : f.in \in Scopes
  BY <1>1 DEF WorldInv, AnyFunctions, Named
<1>3. \A u \in usings : u.target \notin Types
  BY DEF WorldInv, AnyUsings
<1>4. here = <<>> => Bases = {}
  BY DEF WorldInv, Bases
<1> QED
  BY <1>1, <1>2, <1>3, <1>4, ResolverAssumption DEF WorldInv, Bases, Nested

(* Without functions that are alike, what looks like a member is one.       *)
LEMMA NoneAlike ==
  ASSUME WorldInv, ~Alike, NEW f \in functions
  PROVE  /\ SameContainer(f.in, here) => f.in = here
         /\ \A t \in Bases \union Nested :
              SameContainer(f.in, t) => f.in = here \/ f.in = t
BY DEF Alike

LEMMA FilesBases ==
  ASSUME WorldInv, ~Alike, NEW f \in functions
  PROVE  \/ /\ FileBasis(f) = {"same_class", "same_file"} /\ f.in = here /\ here # <<>>
            /\ IsMember(f)
         \/ /\ FileBasis(f) = {"nested_type_context", "same_file"}
            /\ f.in # here /\ f.in \in Nested /\ IsMember(f)
         \/ /\ FileBasis(f) = {"base_class_context", "same_file"}
            /\ f.in # here /\ f.in \in Bases /\ IsMember(f)
         \/ /\ FileBasis(f) = {"same_namespace", "same_file"}
            /\ ~IsMember(f) /\ InNamespace(f)
         \/ /\ FileBasis(f) = {"using_declaration"}
            /\ ~IsMember(f) /\ ~InNamespace(f) /\ Declared(f)
         \/ /\ FileBasis(f) = {"using_namespace"}
            /\ ~IsMember(f) /\ ~InNamespace(f) /\ ~Declared(f) /\ Directed(f)
         \/ /\ FileBasis(f) = {"same_file"}
            /\ ~IsMember(f) /\ ~InNamespace(f) /\ ~Declared(f) /\ ~Directed(f)
<1>1. here = <<>> => ~SameContainer(f.in, here)
  BY DEF SameContainer, SameEnd
<1>2. here \in Seq(STRING)
  BY WorldIsTyped
<1>3. here # <<>> => SameContainer(here, here)
  BY <1>2, SameItself, Zenon
<1>4. CASE SameContainer(f.in, here)
  <2>1. MemberBasis(f) = {"same_class"} /\ f.in = here /\ here # <<>>
    BY <1>1, <1>4, NoneAlike DEF MemberBasis
  <2>2. IsMember(f)
    BY <2>1 DEF IsMember
  <2>3. FileBasis(f) = {"same_class"} \union {"same_file"}
    BY <2>1, <2>2, Zenon DEF FileBasis
  <2> QED
    BY <2>1, <2>2, <2>3
<1>5. CASE ~SameContainer(f.in, here) /\ \E t \in Nested : SameContainer(f.in, t)
  <2>1. PICK t \in Nested : SameContainer(f.in, t)
    BY <1>5
  <2>2. f.in = here \/ f.in = t
    BY <2>1, NoneAlike
  <2>3. f.in # here
    <3>1. here # <<>>
      BY <2>1 DEF Nested
    <3> QED
      BY <1>3, <1>5, <3>1
  <2>4. MemberBasis(f) = {"nested_type_context"}
    BY <1>5 DEF MemberBasis
  <2>5. IsMember(f)
    BY <2>4 DEF IsMember
  <2>6. FileBasis(f) = {"nested_type_context"} \union {"same_file"}
    BY <2>4, <2>5, Zenon DEF FileBasis
  <2> QED
    BY <2>1, <2>2, <2>3, <2>5, <2>6
<1>6. CASE /\ ~SameContainer(f.in, here) /\ ~\E t \in Nested : SameContainer(f.in, t)
           /\ \E t \in Bases : SameContainer(f.in, t)
  <2>1. PICK t \in Bases : SameContainer(f.in, t)
    BY <1>6
  <2>2. f.in = here \/ f.in = t
    BY <2>1, NoneAlike
  <2>3. f.in # here
    <3>1. here # <<>>
      BY <2>1, WorldIsTyped
    <3> QED
      BY <1>3, <1>6, <3>1
  <2>4. MemberBasis(f) = {"base_class_context"}
    BY <1>6 DEF MemberBasis
  <2>5. IsMember(f)
    BY <2>4 DEF IsMember
  <2>6. FileBasis(f) = {"base_class_context"} \union {"same_file"}
    BY <2>4, <2>5, Zenon DEF FileBasis
  <2> QED
    BY <2>1, <2>2, <2>3, <2>5, <2>6
<1>7. CASE /\ ~SameContainer(f.in, here) /\ ~\E t \in Nested : SameContainer(f.in, t)
           /\ ~\E t \in Bases : SameContainer(f.in, t)
  <2>1. ~IsMember(f)
    BY <1>7 DEF IsMember, MemberBasis
  <2> QED
    BY <2>1 DEF FileBasis
<1> QED
  BY <1>4, <1>5, <1>6, <1>7

-----------------------------------------------------------------------------
(* The layers, and the one that what is meant was found in.                *)
Outer(n) == SubSeq(here, 1, Len(here) - n)

LEMMA OuterScopes ==
  ASSUME WorldInv
  PROVE  /\ \A n \in 0 .. Len(here) :
              Outward[n] = Outer(n) /\ Outer(n) \in Seq(STRING) /\ Len(Outer(n)) = Len(here) - n
         /\ Len(here) \in Nat /\ Outer(Len(here)) = <<>>
         /\ here # <<>> => Len(here) >= 1 /\ Namespace = Outer(1)
<1>1. here \in Seq(STRING)
  BY WorldIsTyped
<1>2. Len(here) \in Nat
  BY <1>1
<1>3. ASSUME NEW n \in 0 .. Len(here)
      PROVE  Outward[n] = Outer(n) /\ Outer(n) \in Seq(STRING) /\ Len(Outer(n)) = Len(here) - n
  <2>1. Outward[n] = Outer(n)
    BY DEF Outward, Outer
  <2>2. Outer(n) \in Seq(STRING) /\ Len(Outer(n)) = Len(here) - n
    BY <1>1 DEF Outer
  <2> QED
    BY <2>1, <2>2
<1>4. Outer(Len(here)) = <<>>
  <2>1. Len(here) \in 0 .. Len(here)
    BY <1>2
  <2>2. Outer(Len(here)) \in Seq(STRING) /\ Len(Outer(Len(here))) = 0
    BY <1>2, <1>3, <2>1
  <2> QED
    BY <2>2
<1>5. here # <<>> => Len(here) >= 1 /\ Namespace = Outer(1)
  BY <1>1 DEF Namespace, Front, Outer
<1> QED
  BY <1>2, <1>3, <1>4, <1>5

LEMMA TwoParts ==
  ASSUME NEW S, NEW a \in Seq(S), NEW b \in Seq(S)
  PROVE  /\ a \o b \in Seq(S) /\ Len(a \o b) = Len(a) + Len(b)
         /\ \A m \in 1 .. Len(a) : (a \o b)[m] = a[m]
         /\ \A m \in 1 .. Len(a) + Len(b) : m > Len(a) => (a \o b)[m] = b[m - Len(a)]
<1>1. a \o b \in Seq(S) /\ Len(a \o b) = Len(a) + Len(b)
  BY ConcatProperties
<1>2. \A m \in 1 .. Len(a) + Len(b) :
        (a \o b)[m] = IF m <= Len(a) THEN a[m] ELSE b[m - Len(a)]
  BY ConcatProperties
<1>3. \A m \in 1 .. Len(a) : m \in 1 .. Len(a) + Len(b) /\ m <= Len(a)
  OBVIOUS
<1>4. \A m \in 1 .. Len(a) + Len(b) : m > Len(a) => ~(m <= Len(a))
  OBVIOUS
<1> QED
  BY <1>1, <1>2, <1>3, <1>4, Zenon

Chained(S, all, a, b, c) ==
  /\ all \in Seq(S) /\ Len(all) = 1 + Len(b) + Len(c) /\ all[1] = a[1]
  /\ Len(b) = 1 => all[2] = b[1]
  /\ \A m \in DOMAIN all : m > 1 + Len(b) => all[m] = c[m - (1 + Len(b))]

LEMMA ThreeParts ==
  ASSUME NEW S, NEW a \in Seq(S), NEW b \in Seq(S), NEW c \in Seq(S), Len(a) = 1
  PROVE  Chained(S, a \o b \o c, a, b, c)
<1> DEFINE ab == a \o b
<1>1. /\ ab \in Seq(S) /\ Len(ab) = 1 + Len(b) /\ ab[1] = a[1]
      /\ Len(b) = 1 => ab[2] = b[1]
  <2>1. /\ ab \in Seq(S) /\ Len(ab) = Len(a) + Len(b)
        /\ \A m \in 1 .. Len(a) : ab[m] = a[m]
        /\ \A m \in 1 .. Len(a) + Len(b) : m > Len(a) => ab[m] = b[m - Len(a)]
    BY TwoParts, Zenon
  <2>2. Len(b) \in Nat
    OBVIOUS
  <2> HIDE DEF ab
  <2>3. /\ ab \in Seq(S) /\ Len(ab) = 1 + Len(b)
        /\ \A m \in 1 .. 1 : ab[m] = a[m]
        /\ \A m \in 1 .. 1 + Len(b) : m > 1 => ab[m] = b[m - 1]
    BY <2>1, Zenon
  <2>4. ab[1] = a[1]
    BY <2>3
  <2>5. Len(b) = 1 => ab[2] = b[1]
    <3>1. Len(b) = 1 => 2 \in 1 .. 1 + Len(b) /\ 2 > 1 /\ 2 - 1 = 1
      BY <2>2
    <3> QED
      BY <2>3, <3>1
  <2> QED
    BY <2>3, <2>4, <2>5
<1> HIDE DEF ab
<1>2. /\ ab \o c \in Seq(S) /\ Len(ab \o c) = 1 + Len(b) + Len(c)
      /\ \A m \in 1 .. Len(ab) : (ab \o c)[m] = ab[m]
      /\ \A m \in DOMAIN (ab \o c) : m > Len(ab) => (ab \o c)[m] = c[m - Len(ab)]
  <2> DEFINE whole == ab \o c
  <2>1. /\ whole \in Seq(S) /\ Len(whole) = Len(ab) + Len(c)
        /\ \A m \in 1 .. Len(ab) : whole[m] = ab[m]
        /\ \A m \in 1 .. Len(ab) + Len(c) : m > Len(ab) => whole[m] = c[m - Len(ab)]
    BY <1>1, TwoParts, Zenon
  <2> HIDE DEF whole
  <2>2. DOMAIN whole = 1 .. Len(ab) + Len(c)
    BY <2>1
  <2> QED
    BY <1>1, <2>1, <2>2 DEF whole
<1>3. 1 \in 1 .. Len(ab) /\ (Len(b) = 1 => 2 \in 1 .. Len(ab))
  BY <1>1
<1> QED
  BY <1>1, <1>2, <1>3 DEF ab, Chained

(* The bases of a class are types, no longer than its name.                *)
LEMMA ClassBasesAre ==
  ASSUME WorldInv
  PROVE  /\ ClassBases \subseteq Types /\ (here \notin Types => ClassBases = {})
         /\ ClassBases \cap Nested = {}
<1> SUFFICES ASSUME NEW t \in ClassBases
             PROVE  here \in Types /\ t \in Types /\ t \notin Nested
  BY DEF ClassBases
<1>1. here \in Types
  BY DEF ClassBases
<1>2. PICK base \in baseNames[here] : t \in BaseMeant(base)
  BY <1>1 DEF ClassBases
<1>3. base \in Seq(STRING) /\ Len(base) = 1 /\ here \in Seq(STRING) /\ Len(here) \in Nat
  BY <1>1, WorldIsTyped DEF WorldInv
<1> DEFINE at == {n \in 1 .. Len(here) : Outward[n] \o base \in Types}
<1>4. at \in SUBSET Nat /\ at # {} /\ t = Outward[Least(at)] \o base
  BY <1>2 DEF BaseMeant
<1> HIDE DEF at
<1>5. Least(at) \in at
  <2>1. \E n \in at : \A m \in at : n <= m
    BY <1>4, LeastNatural, Zenon
  <2> QED
    BY <2>1, Zenon DEF Least
<1>6. PICK n \in 1 .. Len(here) : t = Outward[n] \o base /\ t \in Types
  BY <1>4, <1>5 DEF at
<1>7. Outward[n] = Outer(n) /\ Outer(n) \in Seq(STRING) /\ Len(Outer(n)) = Len(here) - n
  BY <1>6, OuterScopes
<1>8. t \in Seq(STRING) /\ Len(t) <= Len(here)
  <2> DEFINE outer == Outer(n)
  <2>1. outer \in Seq(STRING) /\ Len(outer) = Len(here) - n /\ t = outer \o base
    BY <1>6, <1>7
  <2>2. Len(outer) \in Nat /\ n \in Nat \ {0} /\ Len(outer) + n = Len(here)
    BY <1>3, <1>6, <2>1
  <2> HIDE DEF outer
  <2>3. outer \o base \in Seq(STRING) /\ Len(outer \o base) = Len(outer) + Len(base)
    BY <1>3, <2>1, ConcatProperties
  <2>4. t \in Seq(STRING) /\ Len(t) = Len(outer) + 1
    BY <1>3, <2>1, <2>3
  <2> QED
    BY <1>3, <2>2, <2>4
<1>9. t \notin Nested
  <2> SUFFICES ASSUME t \in Nested PROVE FALSE
    OBVIOUS
  <2>1. IsPrefix(here, t) /\ t # here
    BY DEF Nested
  <2>2. Len(here) < Len(t)
    BY <1>3, <1>8, <2>1, InsideIsLonger
  <2> QED
    BY <1>3, <1>8, <2>2
<1> QED
  BY <1>1, <1>6, <1>9

LEMMA LayersAre ==
  ASSUME WorldInv
  PROVE  /\ Layers \in Seq(SUBSET Seq(STRING)) /\ Len(Layers) >= 1 /\ Layers[1] = {here}
         /\ here \in Types => Len(Layers) >= 2 /\ Layers[2] = ClassBases
         /\ \A m \in DOMAIN Layers :
              \/ m = 1
              \/ m = 2 /\ here \in Types /\ Layers[m] = ClassBases
              \/ \E n \in 1 .. Len(here) : Layers[m] = {Outer(n)}
<1> DEFINE S == SUBSET Seq(STRING)
           first == <<{here}>>
           second == IF here \in Types THEN <<ClassBases>> ELSE <<>>
           rest == [n \in 1 .. Len(here) |-> {Outward[n]}]
<1>1. /\ here \in Seq(STRING) /\ Len(here) \in Nat /\ ClassBases \in S
      /\ \A n \in 1 .. Len(here) : Outward[n] = Outer(n) /\ Outer(n) \in Seq(STRING)
  BY WorldIsTyped, ClassBasesAre, OuterScopes
<1>2. first \in Seq(S) /\ Len(first) = 1 /\ first[1] = {here}
  BY <1>1
<1>3. /\ second \in Seq(S) /\ Len(second) \in {0, 1}
      /\ here \in Types => Len(second) = 1 /\ second[1] = ClassBases
      /\ here \notin Types => Len(second) = 0
  <2>1. CASE here \in Types
    BY <1>1, <2>1
  <2>2. CASE here \notin Types
    BY <2>2
  <2> QED
    BY <2>1, <2>2
<1>4. /\ rest \in Seq(S) /\ Len(rest) = Len(here)
      /\ \A n \in 1 .. Len(here) : rest[n] = {Outer(n)}
  BY <1>1
<1>5. Layers = first \o second \o rest
  BY DEF Layers
<1> HIDE DEF S, first, second, rest
<1>6. /\ Layers \in Seq(S) /\ Len(Layers) = 1 + Len(second) + Len(here)
      /\ Layers[1] = first[1]
      /\ Len(second) = 1 => Layers[2] = second[1]
      /\ \A m \in DOMAIN Layers :
           m > 1 + Len(second) => Layers[m] = rest[m - (1 + Len(second))]
  <2>1. Chained(S, Layers, first, second, rest)
    BY <1>2, <1>3, <1>4, <1>5, ThreeParts, Zenon
  <2> QED
    BY <1>4, <2>1, Zenon DEF Chained
<1>7. ASSUME NEW m \in DOMAIN Layers
      PROVE  \/ m = 1
             \/ m = 2 /\ here \in Types /\ Layers[m] = ClassBases
             \/ \E n \in 1 .. Len(here) : Layers[m] = {Outer(n)}
  <2>1. m \in 1 .. 1 + Len(second) + Len(here)
    BY <1>6
  <2>2. CASE m <= 1 + Len(second)
    <3> DEFINE k == Len(second)
    <3>1. m \in Nat \ {0} /\ (k = 0 \/ k = 1) /\ m <= 1 + k
      BY <1>1, <1>3, <2>1, <2>2
    <3> HIDE DEF k
    <3>2. \A x \in Nat \ {0} : \A y \in {0, 1} : x <= 1 + y => x = 1 \/ (x = 2 /\ y = 1)
      OBVIOUS
    <3>3. m = 1 \/ (m = 2 /\ k = 1)
      BY <3>1, <3>2, Zenon
    <3> QED
      BY <1>3, <1>6, <3>3 DEF k
  <2>3. CASE m > 1 + Len(second)
    <3> DEFINE n == m - (1 + Len(second))
    <3>1. n \in 1 .. Len(here)
      BY <1>1, <1>3, <2>1, <2>3
    <3>2. Layers[m] = {Outer(n)}
      BY <1>4, <1>6, <2>3, <3>1
    <3> QED
      BY <3>1, <3>2, Zenon
  <2> QED
    BY <1>3, <2>1, <2>2, <2>3
<1> QED
  BY <1>1, <1>2, <1>3, <1>6, <1>7 DEF S

LEMMA InnermostIsALayer ==
  ASSUME NEW name, NEW layers \in Seq(SUBSET Seq(STRING)), NEW f \in Innermost(name, layers)
  PROVE  \E m \in DOMAIN layers :
           /\ Innermost(name, layers) = Found(name, layers[m]) /\ f \in Found(name, layers[m])
           /\ \A k \in DOMAIN layers : Found(name, layers[k]) # {} => m <= k
<1> DEFINE full == {n \in DOMAIN layers : Found(name, layers[n]) # {}}
<1>1. full \in SUBSET Nat
  BY SMT
<1>2. full # {} /\ Innermost(name, layers) = Found(name, layers[Least(full)])
  BY Zenon DEF Innermost
<1> HIDE DEF full
<1>3. \E n \in full : \A m \in full : n <= m
  BY <1>1, <1>2, LeastNatural, Zenon
<1>4. Least(full) \in full /\ \A m \in full : Least(full) <= m
  BY <1>3, Zenon DEF Least
<1>5. f \in Found(name, layers[Least(full)])
  BY <1>2, Zenon
<1> QED
  BY <1>2, <1>4, <1>5, Zenon DEF full

(* Of what fits, there is one.                                             *)
LEMMA SoleFit ==
  ASSUME WorldInv, NEW sought \in SUBSET functions, NEW n,
         NEW f \in (LET fit == {g \in sought : g.arity = n}
                    IN  IF Cardinality(fit) = 1 THEN fit ELSE {})
  PROVE  f \in sought /\ f.arity = n /\ \A g \in sought : g.arity = n => g = f
<1> DEFINE fit == {g \in sought : g.arity = n}
<1>1. IsFiniteSet(fit)
  <2>1. fit \in SUBSET functions
    OBVIOUS
  <2> QED
    BY <2>1, FS_Subset, Zenon DEF WorldInv
<1>2. Cardinality(fit) = 1 /\ f \in fit
  BY Zenon
<1>3. \E x : fit = {x}
  <2> HIDE DEF fit
  <2> QED
    BY <1>1, <1>2, FS_Singleton, Zenon
<1>4. ASSUME NEW g \in sought, g.arity = n PROVE g = f
  <2>1. g \in fit
    BY <1>4
  <2>2. PICK x : fit = {x}
    BY <1>3, Zenon
  <2> HIDE DEF fit
  <2> QED
    BY <1>2, <2>1, <2>2
<1>5. f \in sought /\ f.arity = n
  BY <1>2, Zenon
<1> QED
  BY <1>4, <1>5

(* The edge of a call among whose candidates is what it means.              *)
LEMMA SoleTarget ==
  ASSUME NEW call, NEW f, IsFiniteSet(Candidates(call)),
         NEW c \in Candidates(call), c.of = f,
         Edge(call).status \in {"exact", "probable"}
  PROVE  Edge(call).to = {f}
<1> DEFINE all == Candidates(call)
<1>1. Cardinality(all) \in Nat
  BY FS_CardinalityType, Zenon
<1>2. Cardinality(all) = 1
  <2> DEFINE n == Cardinality(all)
  <2>1. n # 1 => Edge(call).status \in {"ambiguous", "unresolved", "external"}
    <3> HIDE DEF all
    <3>1. CASE n > 1
      <4>1. n # 1
        BY <1>1, <3>1
      <4> QED
        BY <3>1, <4>1 DEF Edge, all
    <3>2. CASE n # 1 /\ ~(n > 1)
      BY <3>2 DEF Edge, all
    <3> QED
      BY <1>1, <3>1, <3>2
  <2> QED
    BY <2>1
<1>3. PICK x : all = {x}
  <2> HIDE DEF all
  <2> QED
    BY <1>2, FS_Singleton, Zenon DEF all
<1>4. {d.of : d \in all} = {f}
  BY <1>3
<1>5. Edge(call).to = {d.of : d \in all}
  <2>1. ~(Cardinality(all) > 1)
    BY <1>2
  <2> HIDE DEF all
  <2> QED
    BY <1>2, <2>1 DEF Edge, all
<1> QED
  BY <1>4, <1>5

ImageOf(f, S) == {f[x] : x \in S}

LEMMA ImagesAreFinite ==
  ASSUME NEW S, IsFiniteSet(S), NEW f PROVE IsFiniteSet(ImageOf(f, S))
<1> DEFINE T == {f[x] : x \in S}
           g == [x \in S |-> f[x]]
<1>1. g \in Surjection(S, T)
  BY Zenon DEF Surjection
<1> HIDE DEF T, g
<1> QED
  BY <1>1, FS_Surjection, Zenon DEF T, ImageOf

AllWith(set, basis) == {With(f, basis) : f \in set}

LEMMA CandidatesAreFinite ==
  ASSUME WorldInv, NEW call, call.form \in {"qualified", "this", "member", "plain"}
  PROVE  IsFiniteSet(Candidates(call))
<1>1. \A set \in SUBSET functions : IsFiniteSet(set)
  BY FS_Subset, Zenon DEF WorldInv
<1>2. ASSUME NEW set \in SUBSET functions, NEW basis
      PROVE  IsFiniteSet(AllWith(set, basis))
  <2> DEFINE w == [f \in set |-> With(f, basis)]
  <2>1. AllWith(set, basis) = ImageOf(w, set)
    BY Zenon DEF AllWith, ImageOf
  <2> HIDE DEF w
  <2>2. IsFiniteSet(ImageOf(w, set))
    BY <1>1, ImagesAreFinite, Zenon
  <2> QED
    BY <2>1, <2>2
<1>3. CASE call.form = "qualified"
  <2>1. PICK basis : Candidates(call) =
                       AllWith({g \in NamesIn(functions, call.name) :
                                 g.in = Expanded(call.path)}, basis)
    BY <1>3, Zenon DEF Candidates, QualifiedCandidates, AllWith
  <2> QED
    BY <1>2, <2>1 DEF NamesIn
<1>4. CASE call.form = "member"
  <2>1. Candidates(call) =
          AllWith({g \in NamesIn(functions, call.name) :
                     \E type \in call.locals : SameContainer(g.in, type)},
                  {"local_type_hint", "member_call"})
    BY <1>4, Zenon DEF Candidates, MemberCandidates, AllWith
  <2> QED
    BY <1>2, <2>1 DEF NamesIn
<1>5. CASE call.form = "this"
  <2> DEFINE set == {g \in NamesIn(Own, call.name) : IsMember(g)}
             w == [f \in set |-> With(f, {"this_scope", "current_class"} \union MemberBasis(f))]
  <2>1. Candidates(call) = ImageOf(w, set)
    BY <1>5, Zenon DEF Candidates, ThisCandidates, ImageOf
  <2>2. set \in SUBSET functions
    BY DEF NamesIn, Own
  <2> HIDE DEF set, w
  <2> QED
    BY <1>1, <2>1, <2>2, ImagesAreFinite, Zenon
<1>6. CASE call.form = "plain"
  <2> DEFINE inFile == NamesIn(Own, call.name)
             best == {g \in inFile : \A h \in inFile : Group(g) <= Group(h)}
             w == [f \in best |-> With(f, FileBasis(f))]
  <2>1. Candidates(call) = PlainCandidates(call)
    BY <1>6 DEF Candidates
  <2>2. CASE inFile = {}
    <3>1. Candidates(call) = AllWith(NamesIn(Mates, call.name), {"module_visible"})
      BY <2>1, <2>2, Zenon DEF PlainCandidates, AllWith
    <3>2. NamesIn(Mates, call.name) \in SUBSET functions
      BY DEF NamesIn, Mates
    <3> QED
      BY <1>2, <3>1, <3>2, Zenon
  <2>3. CASE inFile # {}
    <3>1. Candidates(call) = ImageOf(w, best)
      BY <2>1, <2>3, Zenon DEF PlainCandidates, ImageOf
    <3>2. best \in SUBSET functions
      BY DEF NamesIn, Own
    <3> HIDE DEF best, w
    <3> QED
      BY <1>1, <3>1, <3>2, ImagesAreFinite, Zenon
  <2> QED
    BY <2>2, <2>3
<1> QED
  BY <1>3, <1>4, <1>5, <1>6

-----------------------------------------------------------------------------
(* What a call means is a candidate, and one of the first if nothing that   *)
(* is known to outrank it is there.                                        *)
Served(f, call) ==
  /\ \E c \in Candidates(call) : c.of = f
  /\ Alike \/ Outdone(f) \/ f \in FirstCandidates(call)

Seen(call) ==
  CASE call.form = "plain"     -> Innermost(call.name, Layers)
    [] call.form = "this"      -> Innermost(call.name, SubSeq(Layers, 1, 2))
    [] call.form = "qualified" -> InScope(call, Expanded(call.path))
    [] call.form = "member"    -> UNION {InScope(call, t) : t \in call.locals}

LEMMA MeantFits ==
  ASSUME WorldInv, NEW call, Seen(call) \in SUBSET functions, NEW f \in Meant(call)
  PROVE  /\ f \in Seen(call) /\ f \in functions /\ f.arity = call.arity
         /\ \A g \in Seen(call) : g.arity = call.arity => g = f
<1> DEFINE sought == Seen(call)
<1>1. f \in (LET fit == {g \in sought : g.arity = call.arity}
             IN  IF Cardinality(fit) = 1 THEN fit ELSE {})
  BY Zenon DEF Meant, Seen
<1>2. f \in sought /\ f.arity = call.arity /\ \A g \in sought : g.arity = call.arity => g = f
  <2> HIDE DEF sought
  <2> QED
    BY <1>1, SoleFit, Zenon DEF sought
<1> QED
  BY <1>2

LEMMA SameBasisServes ==
  ASSUME NEW call, NEW basis, NEW set, Worth(basis) \in Int,
         Candidates(call) = AllWith(set, basis), NEW f \in set, f.arity = call.arity
  PROVE  Served(f, call)
<1>1. With(f, basis) \in Candidates(call) /\ With(f, basis).of = f
  BY Zenon DEF AllWith, With
<1>2. f \in FirstCandidates(call)
  BY FitDecides, Zenon DEF AllWith
<1> QED
  BY <1>1, <1>2, Zenon DEF Served

LEMMA QualifiedIsServed ==
  ASSUME WorldInv, NEW call, call.form = "qualified", NEW f \in Meant(call),
         f.in = Expanded(call.path)
  PROVE  Served(f, call)
<1> DEFINE set   == {g \in NamesIn(functions, call.name) : g.in = Expanded(call.path)}
           basis == {"qualified_name"} \union
                      (IF Expanded(call.path) = call.path THEN {} ELSE {"namespace_alias"})
<1>1. Seen(call) = InScope(call, Expanded(call.path))
  BY DEF Seen
<1>2. Seen(call) \in SUBSET functions /\ \A g \in Seen(call) : g.name = call.name
  BY <1>1 DEF InScope, NamesIn
<1>3. f \in Seen(call) /\ f \in functions /\ f.arity = call.arity
  BY <1>2, MeantFits
<1>4. f \in set
  BY <1>2, <1>3 DEF NamesIn
<1>5. Worth(basis) \in Int
  <2>1. basis = {"qualified_name"} \/ basis = {"qualified_name", "namespace_alias"}
    OBVIOUS
  <2> HIDE DEF basis
  <2>2. Worth(basis) = 35 \/ Worth(basis) = 39
    BY <2>1, WorthOfBases, Zenon
  <2> QED
    BY <2>2
<1>6. Candidates(call) = AllWith(set, basis)
  BY Zenon DEF Candidates, QualifiedCandidates, AllWith
<1> HIDE DEF set, basis
<1> QED
  BY <1>3, <1>4, <1>5, <1>6, SameBasisServes, Zenon

LEMMA ScopesMeantEndAlike ==
  ASSUME WorldInv, NEW path \in Seq(STRING), path # <<>>
  PROVE  SameContainer(ScopeMeant(path), path)
<1> DEFINE at == {n \in DOMAIN Outward : Outward[n] \o path \in Scopes}
<1>1. CASE at = {}
  BY <1>1, SameItself DEF ScopeMeant
<1>2. CASE at # {}
  <2>1. ScopeMeant(path) = Outward[Least(at)] \o path
    BY <1>2, Zenon DEF ScopeMeant
  <2>2. DOMAIN Outward = 0 .. Len(here) /\ at \in SUBSET Nat
    BY DEF Outward
  <2> HIDE DEF at
  <2>3. Least(at) \in at
    <3>1. \E n \in at : \A m \in at : n <= m
      BY <1>2, <2>2, LeastNatural, Zenon
    <3> QED
      BY <3>1, Zenon DEF Least
  <2>4. Outward[Least(at)] \in Seq(STRING)
    BY <2>2, <2>3, OuterScopes DEF at
  <2> DEFINE u == Outward[Least(at)]
  <2>5. IsSuffix(path, u \o path)
    BY <2>4, EndsWithItsLast, Zenon
  <2>6. u \o path # <<>>
    <3>1. u \in Seq(STRING)
      BY <2>4
    <3> HIDE DEF u
    <3>2. Len(u \o path) = Len(u) + Len(path) /\ Len(u) \in Nat /\ Len(path) \in Nat \ {0}
      BY <3>1
    <3> QED
      BY <3>2
  <2> QED
    BY <2>1, <2>5, <2>6 DEF SameContainer, SameEnd
<1> QED
  BY <1>1, <1>2

LEMMA MemberIsServed ==
  ASSUME WorldInv, NEW call, call.form = "member", NEW f \in Meant(call),
         \A t \in call.locals : t \in Seq(STRING) /\ t # <<>>
  PROVE  Served(f, call)
<1> DEFINE set   == {g \in NamesIn(functions, call.name) :
                       \E type \in call.locals : SameContainer(g.in, type)}
           basis == {"local_type_hint", "member_call"}
<1>1. Seen(call) = UNION {InScope(call, t) : t \in call.locals}
  BY DEF Seen
<1>2. Seen(call) \in SUBSET functions
  BY <1>1 DEF InScope, NamesIn
<1>3. f \in Seen(call) /\ f \in functions /\ f.arity = call.arity
  BY <1>2, MeantFits
<1>4. PICK t \in call.locals : f \in InScope(call, t)
  BY <1>1, <1>3, Zenon
<1>5. f \in NamesIn(functions, call.name) /\ SameContainer(f.in, t)
  BY <1>4, ScopesMeantEndAlike DEF InScope
<1>6. f \in set
  BY <1>5, Zenon
<1>7. Worth(basis) \in Int
  BY WorthOfBases
<1>8. Candidates(call) = AllWith(set, basis)
  BY Zenon DEF Candidates, MemberCandidates, AllWith
<1> HIDE DEF set, basis
<1> QED
  BY <1>3, <1>6, <1>7, <1>8, SameBasisServes, Zenon

(* In the class of a call are its own functions and those of its bases.     *)
LEMMA ClassLayers ==
  ASSUME WorldInv, here \in Types
  PROVE  LET inner == SubSeq(Layers, 1, 2)
         IN  /\ inner \in Seq(SUBSET Seq(STRING)) /\ DOMAIN inner = 1 .. 2
             /\ inner[1] = {here} /\ inner[2] = ClassBases
<1>1. /\ Layers \in Seq(SUBSET Seq(STRING)) /\ Len(Layers) >= 2
      /\ Layers[1] = {here} /\ Layers[2] = ClassBases
  BY LayersAre
<1> QED
  BY <1>1

LEMMA NotBrought ==
  ASSUME WorldInv, NEW f, NEW layer, layer \subseteq {here} \union ClassBases, here # <<>>
  PROVE  ~Brought(layer, f)
<1>1. <<>> \notin ClassBases
  BY ClassBasesAre, WorldIsTyped
<1> QED
  BY <1>1 DEF Brought

LEMMA MembersOfClass ==
  ASSUME WorldInv, NEW f \in functions, here \in Types, f.in \in {here} \union Bases
  PROVE  /\ IsMember(f)
         /\ MemberBasis(f) \in {{"same_class"}, {"nested_type_context"}, {"base_class_context"}}
<1>1. f.in \in Seq(STRING) /\ f.in # <<>>
  BY WorldIsTyped
<1>2. SameContainer(f.in, f.in)
  BY <1>1, SameItself
<1>3. SameContainer(f.in, here) \/ \E t \in Bases : SameContainer(f.in, t)
  BY <1>2
<1>4. MemberBasis(f) \in {{"same_class"}, {"nested_type_context"}, {"base_class_context"}}
  BY <1>3 DEF MemberBasis
<1>5. MemberBasis(f) # {}
  BY <1>4
<1> QED
  BY <1>4, <1>5 DEF IsMember

LEMMA ThisScoresTop ==
  ASSUME NEW f, NEW call,
         MemberBasis(f) \in {{"same_class"}, {"nested_type_context"}, {"base_class_context"}}
  PROVE  Score(With(f, {"this_scope", "current_class"} \union MemberBasis(f)), call) = 99
<1> DEFINE basis == {"this_scope", "current_class"} \union MemberBasis(f)
<1>1. \/ basis = {"this_scope", "current_class", "same_class"}
      \/ basis = {"this_scope", "current_class", "nested_type_context"}
      \/ basis = {"this_scope", "current_class", "base_class_context"}
  OBVIOUS
<1>2. Score(With(f, basis), call) = Capped(50 + Worth(basis) + Reward(f.arity, call))
  BY ScoreOf, Zenon
<1> HIDE DEF basis
<1>3. Worth(basis) = 93 \/ Worth(basis) = 77 \/ Worth(basis) = 79
  <2>1. /\ Worth({"this_scope", "current_class", "same_class"}) = 93
        /\ Worth({"this_scope", "current_class", "nested_type_context"}) = 77
        /\ Worth({"this_scope", "current_class", "base_class_context"}) = 79
    BY WorthOfBases, Zenon
  <2>2. CASE basis = {"this_scope", "current_class", "same_class"}
    BY <2>1, <2>2
  <2>3. CASE basis = {"this_scope", "current_class", "nested_type_context"}
    BY <2>1, <2>3
  <2>4. CASE basis = {"this_scope", "current_class", "base_class_context"}
    BY <2>1, <2>4
  <2> QED
    BY <1>1, <2>2, <2>3, <2>4
<1>4. Reward(f.arity, call) \in {12, -8}
  BY DEF Reward
<1>5. Score(With(f, basis), call) = 99
  BY <1>2, <1>3, <1>4 DEF Capped
<1> QED
  BY <1>5 DEF basis

LEMMA ThisIsServed ==
  ASSUME WorldInv, NEW call, call.form = "this", here \in Types, NEW f \in Meant(call), f.own,
         ~Mistaken(f)
  PROVE  Served(f, call)
<1> DEFINE inner == SubSeq(Layers, 1, 2)
           basis(g) == {"this_scope", "current_class"} \union MemberBasis(g)
<1>1. Seen(call) = Innermost(call.name, inner)
  BY DEF Seen
<1>2. inner \in Seq(SUBSET Seq(STRING)) /\ DOMAIN inner = 1 .. 2
      /\ inner[1] = {here} /\ inner[2] = ClassBases
  BY ClassLayers
<1> HIDE DEF inner
<1>3. \A g \in Innermost(call.name, inner) :
        \E m \in DOMAIN inner : g \in Found(call.name, inner[m])
  BY <1>2, InnermostIsALayer, Zenon
<1>4. Seen(call) \in SUBSET functions
  BY <1>1, <1>3 DEF Found, NamesIn
<1>5. f \in Seen(call) /\ f \in functions /\ f.arity = call.arity
  BY <1>4, MeantFits
<1>6. PICK m \in DOMAIN inner : f \in Found(call.name, inner[m])
  BY <1>1, <1>3, <1>5, Zenon
<1>7. inner[m] \subseteq {here} \union ClassBases
  BY <1>2
<1>8. here # <<>>
  BY WorldIsTyped
<1>9. ~Brought(inner[m], f)
  BY <1>7, <1>8, NotBrought
<1>10. f.in \in {here} \union Bases /\ f \in NamesIn(functions, call.name)
  BY <1>6, <1>7, <1>9 DEF Found, Mistaken
<1>11. f \in {g \in NamesIn(Own, call.name) : IsMember(g)}
  BY <1>10, MembersOfClass DEF NamesIn, Own
<1>12. Candidates(call) = {With(g, basis(g)) : g \in {h \in NamesIn(Own, call.name) : IsMember(h)}}
  BY Zenon DEF Candidates, ThisCandidates
<1>13. ASSUME NEW g \in functions, IsMember(g) PROVE Score(With(g, basis(g)), call) = 99
  <2>1. MemberBasis(g) \in {{"same_class"}, {"nested_type_context"}, {"base_class_context"}}
    BY <1>13 DEF IsMember, MemberBasis
  <2> QED
    BY <2>1, ThisScoresTop
<1>14. \A e \in Candidates(call) : Score(e, call) = 99
  <2> TAKE e \in Candidates(call)
  <2>1. PICK g \in {h \in NamesIn(Own, call.name) : IsMember(h)} : e = With(g, basis(g))
    BY <1>12, Zenon
  <2>2. g \in functions /\ IsMember(g)
    BY DEF NamesIn, Own
  <2> QED
    BY <1>13, <2>1, <2>2, Zenon
<1>15. With(f, basis(f)) \in Candidates(call) /\ With(f, basis(f)).of = f
  BY <1>11, <1>12 DEF With
<1>16. \A e \in Candidates(call) : Score(With(f, basis(f)), call) >= Score(e, call)
  BY <1>14, <1>15
<1>17. f \in FirstCandidates(call)
  BY <1>15, <1>16, BestIsFirst, Zenon
<1> QED
  BY <1>15, <1>17, Zenon DEF Served

(* An unqualified call: in which layer what is meant was found, and what    *)
(* that layer hides.                                                       *)
LEMMA PlainIsFound ==
  ASSUME WorldInv, NEW call, call.form = "plain", NEW f \in Meant(call)
  PROVE  /\ f \in NamesIn(functions, call.name) /\ f.arity = call.arity
         /\ \E m \in DOMAIN Layers :
              /\ f \in Found(call.name, Layers[m])
              /\ \A g \in Found(call.name, Layers[m]) : g.arity = call.arity => g = f
              /\ \A k \in DOMAIN Layers : Found(call.name, Layers[k]) # {} => m <= k
<1>1. Seen(call) = Innermost(call.name, Layers)
  BY DEF Seen
<1>2. ASSUME NEW g \in Innermost(call.name, Layers)
      PROVE  \E m \in DOMAIN Layers :
               /\ Innermost(call.name, Layers) = Found(call.name, Layers[m])
               /\ g \in Found(call.name, Layers[m])
               /\ \A k \in DOMAIN Layers : Found(call.name, Layers[k]) # {} => m <= k
  BY LayersAre, InnermostIsALayer, Zenon
<1>3. Seen(call) \in SUBSET functions
  BY <1>1, <1>2 DEF Found, NamesIn
<1>4. /\ f \in Seen(call) /\ f.arity = call.arity
      /\ \A g \in Seen(call) : g.arity = call.arity => g = f
  BY <1>3, MeantFits
<1>5. PICK m \in DOMAIN Layers :
        /\ Innermost(call.name, Layers) = Found(call.name, Layers[m])
        /\ f \in Found(call.name, Layers[m])
        /\ \A k \in DOMAIN Layers : Found(call.name, Layers[k]) # {} => m <= k
  BY <1>1, <1>2, <1>4, Zenon
<1>6. f \in NamesIn(functions, call.name)
  BY <1>5 DEF Found
<1> QED
  BY <1>1, <1>4, <1>5, <1>6, Zenon

(* What is meant but is not the class's own: none of the name is its own.   *)
LEMMA OwnIsFirst ==
  ASSUME WorldInv, NEW call, call.form = "plain", NEW f \in Meant(call),
         NEW g \in NamesIn(functions, call.name), g.in = here, here # <<>>
  PROVE  f.in = here
<1>1. PICK m \in DOMAIN Layers :
        /\ f \in Found(call.name, Layers[m])
        /\ \A k \in DOMAIN Layers : Found(call.name, Layers[k]) # {} => m <= k
  BY PlainIsFound, Zenon
<1>2. /\ 1 \in DOMAIN Layers /\ Layers[1] = {here} /\ DOMAIN Layers = 1 .. Len(Layers)
      /\ Len(Layers) \in Nat
  BY LayersAre
<1>3. Found(call.name, Layers[1]) # {}
  BY <1>2 DEF Found
<1>4. m = 1
  <2>1. m <= 1
    BY <1>1, <1>2, <1>3, Zenon
  <2>2. m \in 1 .. Len(Layers)
    BY <1>2
  <2> QED
    BY <1>2, <2>1, <2>2
<1>5. ~Brought(Layers[1], f)
  BY <1>2, NotBrought
<1> QED
  BY <1>1, <1>2, <1>4, <1>5 DEF Found

(* What is meant is reached by using statements: the scopes it may be in,   *)
(* and those it shares with what else they bring.                          *)
LEMMA WhereItIsFound ==
  ASSUME WorldInv, NEW call, call.form = "plain", NEW f \in Meant(call)
  PROVE  \/ f.in \in {here} \union ClassBases
         \/ \E n \in 1 .. Len(here) : f.in = Outer(n)
         \/ \E u \in usings : u.kind # "alias" /\ u.target = f.in
<1>1. PICK m \in DOMAIN Layers : f \in Found(call.name, Layers[m])
  BY PlainIsFound, Zenon
<1>2. \/ Layers[m] \in {{here}, ClassBases}
      \/ \E n \in 1 .. Len(here) : Layers[m] = {Outer(n)}
  BY LayersAre
<1> QED
  BY <1>1, <1>2 DEF Found, Brought

LEMMA BroughtTogether ==
  ASSUME WorldInv, NEW call, call.form = "plain", NEW f \in Meant(call),
         NEW g \in NamesIn(functions, call.name), g.arity = call.arity, Declared(g), g # f
  PROVE  \/ f.in \in {here} \union ClassBases /\ here # <<>>
         \/ \E n \in 1 .. Len(here) - 1 : f.in = Outer(n)
<1>1. PICK m \in DOMAIN Layers :
        /\ f \in Found(call.name, Layers[m])
        /\ \A h \in Found(call.name, Layers[m]) : h.arity = call.arity => h = f
  BY PlainIsFound, Zenon
<1>2. <<>> \notin Layers[m]
  <2>1. \E u \in usings : u.kind # "alias" /\ u.target = g.in
    BY DEF Declared
  <2>2. <<>> \in Layers[m] => g \in Found(call.name, Layers[m])
    BY <2>1 DEF Found, Brought
  <2> QED
    BY <1>1, <2>2
<1>3. f.in \in Layers[m]
  BY <1>1, <1>2 DEF Found, Brought
<1>4. Len(here) \in Nat /\ Outer(Len(here)) = <<>>
  BY OuterScopes
<1>5. CASE \E n \in 1 .. Len(here) : Layers[m] = {Outer(n)}
  <2>1. PICK n \in 1 .. Len(here) : Layers[m] = {Outer(n)}
    BY <1>5
  <2>2. n # Len(here)
    BY <1>2, <1>4, <2>1
  <2>3. n \in 1 .. Len(here) - 1
    BY <1>4, <2>2
  <2> QED
    BY <1>3, <2>1, <2>3
<1>6. CASE Layers[m] \in {{here}, ClassBases}
  <2>1. here # <<>>
    BY <1>2, <1>3, <1>6, ClassBasesAre, WorldIsTyped
  <2> QED
    BY <1>3, <1>6, <2>1
<1> QED
  BY <1>5, <1>6, LayersAre

(* Where none is alike: what the file's candidates can score.               *)
LEMMA FileScores ==
  ASSUME NEW f, NEW call, NEW basis, NEW n \in Int, Worth(basis) = n, n <= 33, n >= 5
  PROVE  Score(With(f, basis), call) = 50 + n + Reward(f.arity, call)
<1>1. Score(With(f, basis), call) = Capped(50 + n + Reward(f.arity, call))
  BY ScoreOf, Zenon
<1>2. Reward(f.arity, call) \in {12, -8}
  BY DEF Reward
<1> QED
  BY <1>1, <1>2 DEF Capped

FileWorth(f) == Worth(FileBasis(f))

LEMMA FilesWorths ==
  ASSUME WorldInv, ~Alike, NEW f \in functions
  PROVE  \/ FileWorth(f) = 33 /\ Group(f) = 1 /\ f.in = here /\ here # <<>>
         \/ FileWorth(f) = 17 /\ Group(f) = 1 /\ f.in # here /\ f.in \in Nested
         \/ FileWorth(f) = 19 /\ Group(f) = 1 /\ f.in # here /\ f.in \in Bases
         \/ FileWorth(f) = 27 /\ Group(f) = 1 /\ ~IsMember(f) /\ InNamespace(f)
         \/ /\ FileWorth(f) = 16 /\ Group(f) = 2 /\ ~IsMember(f) /\ ~InNamespace(f)
            /\ Declared(f)
         \/ /\ FileWorth(f) = 10 /\ Group(f) = 2 /\ ~IsMember(f) /\ ~InNamespace(f)
            /\ ~Declared(f) /\ Directed(f)
         \/ FileWorth(f) = 5 /\ Group(f) = 3 /\ ~IsMember(f) /\ ~InNamespace(f)
<1>1. /\ Worth({"same_class", "same_file"}) = 33
      /\ Worth({"nested_type_context", "same_file"}) = 17
      /\ Worth({"base_class_context", "same_file"}) = 19
      /\ Worth({"same_namespace", "same_file"}) = 27
      /\ Worth({"using_declaration"}) = 16
      /\ Worth({"using_namespace"}) = 10
      /\ Worth({"same_file"}) = 5
  BY WorthOfBases, Zenon
<1>2. /\ IsMember(f) \/ InNamespace(f) => Group(f) = 1
      /\ ~(IsMember(f) \/ InNamespace(f)) /\ (Declared(f) \/ Directed(f)) => Group(f) = 2
      /\ ~(IsMember(f) \/ InNamespace(f)) /\ ~(Declared(f) \/ Directed(f)) => Group(f) = 3
  BY DEF Group
<1> DEFINE basis == FileBasis(f)
<1>3. \/ basis = {"same_class", "same_file"} /\ f.in = here /\ here # <<>> /\ IsMember(f)
      \/ /\ basis = {"nested_type_context", "same_file"}
         /\ f.in # here /\ f.in \in Nested /\ IsMember(f)
      \/ /\ basis = {"base_class_context", "same_file"}
         /\ f.in # here /\ f.in \in Bases /\ IsMember(f)
      \/ basis = {"same_namespace", "same_file"} /\ ~IsMember(f) /\ InNamespace(f)
      \/ basis = {"using_declaration"} /\ ~IsMember(f) /\ ~InNamespace(f) /\ Declared(f)
      \/ /\ basis = {"using_namespace"}
         /\ ~IsMember(f) /\ ~InNamespace(f) /\ ~Declared(f) /\ Directed(f)
      \/ /\ basis = {"same_file"}
         /\ ~IsMember(f) /\ ~InNamespace(f) /\ ~Declared(f) /\ ~Directed(f)
  BY FilesBases, Zenon
<1>4. FileWorth(f) = Worth(basis)
  BY DEF FileWorth
<1> HIDE DEF basis
<1> QED
  BY <1>1, <1>2, <1>3, <1>4, Zenon

(* Of two of the file's candidates, what is meant scores no less.           *)
LEMMA NoneScoresMore ==
  ASSUME WorldInv, ~Alike, NEW call, call.form = "plain", NEW f \in Meant(call), ~Outdone(f),
         ~Mistaken(f), f.own, NEW g \in NamesIn(Own, call.name), Group(f) = Group(g)
  PROVE  FileWorth(f) + 12 >= FileWorth(g) + Reward(g.arity, call)
<1>1. /\ f \in functions /\ f.name = call.name /\ f.arity = call.arity
      /\ g \in functions /\ g.name = call.name /\ g.own
  BY PlainIsFound DEF NamesIn, Own
<1>2. g \in NamesIn(functions, call.name) /\ g \in NamesIn(Own, f.name)
  BY <1>1 DEF NamesIn
<1>3. /\ g.arity = call.arity => Reward(g.arity, call) = 12
      /\ g.arity # call.arity => Reward(g.arity, call) = -8
  BY DEF Reward
<1>4. FileWorth(f) \in 5 .. 33 /\ FileWorth(g) \in 5 .. 33
  <2>1. ASSUME NEW h \in functions PROVE FileWorth(h) \in {33, 17, 19, 27, 16, 10, 5}
    BY FilesWorths
  <2> QED
    BY <1>1, <2>1
<1>5. CASE FileWorth(f) >= FileWorth(g)
  BY <1>3, <1>4, <1>5
<1>6. CASE g.arity # call.arity /\ FileWorth(g) <= FileWorth(f) + 20
  BY <1>3, <1>4, <1>6
<1>7. CASE f.in \in ClassBases /\ f.in # here
  <2>1. here \in Types /\ here # <<>> /\ f.in \in Bases /\ f.in \notin Nested
    BY <1>7, ClassBasesAre, WorldIsTyped DEF Mistaken
  <2>2. g.in # here
    BY <1>2, <1>7, <2>1, OwnIsFirst
  <2>3. FileWorth(f) >= 19
    <3>1. IsMember(f)
      BY <1>1, <1>7, <2>1, MembersOfClass
    <3> QED
      BY <1>1, <1>7, <2>1, <3>1, FilesWorths
  <2>4. CASE g.arity # call.arity
    <3>1. FileWorth(g) <= FileWorth(f) + 20
      BY <1>4, <2>3
    <3> QED
      BY <1>6, <2>4, <3>1
  <2>5. CASE g.arity = call.arity
    <3>1. ~InNamespace(g)
      BY <1>1, <1>2, <1>7, <2>5 DEF Outdone
    <3>2. FileWorth(g) \in {17, 19, 16, 10, 5}
      BY <1>1, <2>2, <3>1, FilesWorths
    <3>3. FileWorth(f) >= FileWorth(g)
      BY <1>4, <2>3, <3>2
    <3> QED
      BY <1>5, <3>3
  <2> QED
    BY <2>4, <2>5
<1>8. CASE f.in = here /\ here # <<>>
  <2>1. FileWorth(f) = 33
    <3>1. SameContainer(f.in, here)
      BY <1>8, SameItself, WorldIsTyped
    <3>2. IsMember(f)
      BY <3>1 DEF IsMember, MemberBasis
    <3> QED
      BY <1>1, <1>8, <3>2, FilesWorths
  <2> QED
    BY <1>4, <1>5, <2>1
<1>9. ASSUME ~(f.in \in ClassBases /\ f.in # here), ~(f.in = here /\ here # <<>>)
      PROVE  FileWorth(f) + 12 >= FileWorth(g) + Reward(g.arity, call)
  <2>1. CASE FileWorth(f) \in {33, 17, 19}
    <3>1. f.in # here /\ f.in \in Nested
      BY <1>1, <1>9, <2>1, FilesWorths DEF Mistaken
    <3>2. here \in Seq(STRING) /\ f.in \in Seq(STRING) /\ Len(here) < Len(f.in)
      <4>1. IsPrefix(here, f.in) /\ f.in # here
        BY <3>1 DEF Nested
      <4>2. here \in Seq(STRING) /\ f.in \in Seq(STRING)
        BY <1>1, WorldIsTyped
      <4> QED
        BY <4>1, <4>2, InsideIsLonger
    <3>3. ~\E u \in usings : u.kind # "alias" /\ u.target = f.in
      BY <3>1, WorldIsTyped
    <3>4. PICK n \in 1 .. Len(here) : f.in = Outer(n)
      BY <1>9, <3>1, <3>3, WhereItIsFound DEF Mistaken
    <3>5. Len(f.in) = Len(here) - n /\ Len(here) \in Nat
      BY <3>4, OuterScopes
    <3> QED
      BY <3>2, <3>5
  <2>2. CASE FileWorth(f) = 27
    <3>1. InNamespace(f)
      BY <1>1, <2>2, FilesWorths
    <3>2. here # <<>>
      BY <3>1 DEF InNamespace, Namespace
    <3>3. g.in # here
      BY <1>2, <1>9, <3>2, OwnIsFirst
    <3>4. FileWorth(g) \in {17, 19, 27, 16, 10, 5}
      BY <1>1, <3>3, FilesWorths
    <3> QED
      BY <1>5, <2>2, <3>4
  <2>3. CASE FileWorth(f) = 5
    <3>1. FileWorth(g) = 5
      BY <1>1, <2>3, FilesWorths
    <3> QED
      BY <1>5, <2>3, <3>1
  <2>4. CASE FileWorth(f) \in {16, 10}
    <3>1. /\ Group(f) = 2 /\ ~InNamespace(f)
          /\ FileWorth(f) = 16 \/ (FileWorth(f) = 10 /\ ~Declared(f) /\ Directed(f))
      BY <1>1, <2>4, FilesWorths
    <3>2. FileWorth(g) = 10 \/ (FileWorth(g) = 16 /\ Declared(g))
      <4>1. g \in functions /\ Group(g) = 2 /\ 2 # 1 /\ 2 # 3
        BY <1>1, <3>1
      <4> QED
        BY <4>1, FilesWorths, Zenon
    <3>3. CASE FileWorth(f) >= FileWorth(g)
      BY <1>5, <3>3
    <3>4. CASE g.arity # call.arity
      BY <1>6, <3>1, <3>2, <3>4
    <3>5. CASE FileWorth(f) = 10 /\ FileWorth(g) = 16 /\ g.arity = call.arity
      <4>1. Declared(g) /\ g # f /\ Directed(f)
        BY <3>1, <3>2, <3>5
      <4>2. PICK n \in 1 .. Len(here) - 1 : f.in = Outer(n)
        BY <1>2, <1>9, <3>5, <4>1, BroughtTogether
      <4>3. /\ Len(here) \in Nat /\ n \in 0 .. Len(here)
            /\ Outward[n] = Outer(n) /\ Outer(n) \in Seq(STRING) /\ Len(Outer(n)) = Len(here) - n
        BY OuterScopes
      <4>4. n # 1
        <5>1. Outer(n) # <<>>
          BY <4>3
        <5>2. here # <<>>
          BY <4>2
        <5> QED
          BY <3>1, <4>2, <5>1, <5>2, OuterScopes DEF InNamespace
      <4>5. n \in 2 .. Len(here) - 1
        BY <4>3, <4>4
      <4>6. Outdone(f)
        BY <1>1, <1>2, <3>5, <4>1, <4>2, <4>3, <4>5 DEF Outdone
      <4> QED
        BY <4>6
    <3> QED
      BY <3>1, <3>2, <3>3, <3>4, <3>5
  <2> QED
    BY <1>1, <2>1, <2>2, <2>3, <2>4, FilesWorths
<1> QED
  BY <1>7, <1>8, <1>9

LEMMA PlainIsServed ==
  ASSUME WorldInv, NEW call, call.form = "plain", NEW f \in Meant(call), Near(f, call)
  PROVE  Served(f, call)
<1> DEFINE inFile == NamesIn(Own, call.name)
           best == {g \in inFile : \A h \in inFile : Group(g) <= Group(h)}
<1>1. f \in NamesIn(functions, call.name) /\ f.arity = call.arity
  BY PlainIsFound
<1>2. ~Mistaken(f) /\ (inFile = {} \/ (f.own /\ \A g \in inFile : Group(f) <= Group(g)))
  BY Zenon DEF Near
<1>3. Candidates(call) = PlainCandidates(call)
  BY DEF Candidates
<1>4. CASE inFile = {}
  <2>1. Candidates(call) = AllWith(NamesIn(Mates, call.name), {"module_visible"})
    BY <1>3, <1>4, Zenon DEF PlainCandidates, AllWith
  <2>2. f \in NamesIn(Mates, call.name)
    BY <1>1, <1>4 DEF NamesIn, Mates
  <2>3. Worth({"module_visible"}) \in Int
    BY WorthOfBases
  <2> QED
    BY <1>1, <2>1, <2>2, <2>3, SameBasisServes, Zenon
<1>5. CASE inFile # {}
  <2>1. Candidates(call) = {With(g, FileBasis(g)) : g \in best}
    BY <1>3, <1>5, Zenon DEF PlainCandidates
  <2>2. f.own /\ f \in best
    BY <1>1, <1>2, <1>5 DEF NamesIn, Own
  <2>3. With(f, FileBasis(f)) \in Candidates(call) /\ With(f, FileBasis(f)).of = f
    BY <2>1, <2>2 DEF With
  <2>4. ASSUME ~Alike, ~Outdone(f) PROVE f \in FirstCandidates(call)
    <3>1. ASSUME NEW h \in functions
          PROVE  /\ FileWorth(h) \in 5 .. 33 /\ Group(h) \in Nat
                 /\ Score(With(h, FileBasis(h)), call) = 50 + FileWorth(h) + Reward(h.arity, call)
      <4>1. FileWorth(h) \in {33, 17, 19, 27, 16, 10, 5} /\ Group(h) \in {1, 2, 3}
        BY <2>4, FilesWorths
      <4> DEFINE n == FileWorth(h)
      <4>2. n \in Int /\ n <= 33 /\ n >= 5 /\ n \in 5 .. 33
        BY <4>1
      <4>3. Worth(FileBasis(h)) = n
        BY DEF FileWorth
      <4> HIDE DEF n
      <4>4. Score(With(h, FileBasis(h)), call) = 50 + n + Reward(h.arity, call)
        BY <4>2, <4>3, FileScores, Zenon
      <4> QED
        BY <4>1, <4>2, <4>4 DEF n
    <3>2. ASSUME NEW g \in best
          PROVE  Score(With(f, FileBasis(f)), call) >= Score(With(g, FileBasis(g)), call)
      <4>1. g \in functions /\ f \in functions /\ g \in inFile /\ f \in inFile
        BY <2>2 DEF NamesIn, Own
      <4>2. Group(f) <= Group(g) /\ Group(g) <= Group(f)
        BY <2>2, <4>1
      <4>3. Group(f) = Group(g)
        BY <3>1, <4>1, <4>2
      <4>4. FileWorth(f) + 12 >= FileWorth(g) + Reward(g.arity, call)
        BY <1>2, <2>2, <2>4, <4>1, <4>3, NoneScoresMore
      <4>5. Reward(f.arity, call) = 12 /\ Reward(g.arity, call) \in {12, -8}
        BY <1>1 DEF Reward
      <4>6. FileWorth(f) \in Int /\ FileWorth(g) \in Int
        BY <3>1, <4>1
      <4> QED
        BY <3>1, <4>1, <4>4, <4>5, <4>6
    <3>3. \A e \in Candidates(call) : Score(With(f, FileBasis(f)), call) >= Score(e, call)
      BY <2>1, <3>2, Zenon
    <3> QED
      BY <2>3, <3>3, BestIsFirst, Zenon
  <2> QED
    BY <2>3, <2>4, Zenon DEF Served
<1> QED
  BY <1>4, <1>5

(* A call that a text may hold.                                            *)
LEMMA NamesOfTypes ==
  ASSUME WorldInv, NEW t \in TypeNames PROVE t \in Seq(STRING) /\ t # <<>>
<1>1. PICK u \in Types, n \in 1 .. 2 : t = SubSeq(u, n, Len(u))
  BY DEF TypeNames
<1>2. u \in Seq(STRING)
  BY WorldIsTyped
<1>3. n \in 1 .. Len(u) + 1 \/ SubSeq(u, n, Len(u)) = <<>>
  BY <1>2
<1> QED
  BY <1>1, <1>2, <1>3 DEF TypeNames

LEMMA TakenCalls ==
  ASSUME WorldInv, NEW c \in Calls
  PROVE  LET call == Taken(c)
         IN  /\ call.form \in {"plain", "this", "qualified", "member"}
             /\ call.form = "this" => here \in Types
             /\ call.form = "member" =>
                  \A t \in call.locals : t \in Seq(STRING) /\ t # <<>>
<1>1. CASE \E n \in 0 .. 1 : c = Call("plain", <<>>, n, {})
  BY <1>1 DEF Taken, Call
<1>2. CASE here \in Types /\ \E n \in 0 .. 1 : c = Call("this", <<>>, n, {})
  BY <1>2 DEF Taken, Call
<1>3. CASE \E p \in ScopeNames \union {<<"A">>}, n \in 0 .. 1 : c = Call("qualified", p, n, {})
  BY <1>3 DEF Taken, Call
<1>4. CASE \E form \in {"plain", "member"}, n \in 0 .. 1, t \in TypeNames :
             c = Call(form, <<>>, n, {t})
  <2>1. PICK form \in {"plain", "member"}, n \in 0 .. 1, t \in TypeNames :
               c = Call(form, <<>>, n, {t})
    BY <1>4
  <2>2. t \in Seq(STRING) /\ t # <<>>
    BY NamesOfTypes
  <2>3. Taken(c).form = "member" /\ Taken(c).locals = {t}
    BY <2>1 DEF Taken, Call
  <2> QED
    BY <2>2, <2>3
<1> DEFINE plains == {Call("plain", <<>>, n, {}) : n \in 0 .. 1}
           thises == {Call("this", <<>>, n, {}) : n \in IF here \in Types THEN 0 .. 1 ELSE {}}
           qualifieds == {Call("qualified", p, n, {}) :
                            p \in ScopeNames \union {<<"A">>}, n \in 0 .. 1}
           forms == {"plain", "member"}
           numbers == 0 .. 1
           make(form, n, t) == Call(form, <<>>, n, {t})
           others == {make(form, n, t) : form \in forms, n \in numbers, t \in TypeNames}
<1>5. c \in plains \/ c \in thises \/ c \in qualifieds \/ c \in others
  <2>1. Calls = plains \union thises \union qualifieds \union others
    BY DEF Calls
  <2> HIDE DEF plains, thises, qualifieds, others
  <2> QED
    BY <2>1
<1>6. c \in plains => \E n \in 0 .. 1 : c = Call("plain", <<>>, n, {})
  BY Zenon
<1>7. c \in thises => here \in Types /\ \E n \in 0 .. 1 : c = Call("this", <<>>, n, {})
  <2>1. CASE here \in Types
    BY <2>1
  <2>2. CASE here \notin Types
    BY <2>2
  <2> QED
    BY <2>1, <2>2
<1>8. c \in qualifieds =>
        \E p \in ScopeNames \union {<<"A">>}, n \in 0 .. 1 : c = Call("qualified", p, n, {})
  BY SMT
<1> HIDE DEF forms, numbers, make
<1>9. c \in others => \E form \in forms, n \in numbers, t \in TypeNames : c = make(form, n, t)
  BY SMT
<1> HIDE DEF plains, thises, qualifieds, others
<1>10. c \in others =>
         \E form \in {"plain", "member"}, n \in 0 .. 1, t \in TypeNames :
           c = Call(form, <<>>, n, {t})
  BY <1>9, Zenon DEF forms, numbers, make
<1> QED
  BY <1>1, <1>2, <1>3, <1>4, <1>5, <1>6, <1>7, <1>8, <1>10

(* For any scopes, types and callers and any number of functions and using  *)
(* statements, and whichever type of the file is taken for the class of the  *)
(* call: what a call means in C++ is found where the index has it and does   *)
(* not take the bases of another type for those of the class; nothing ranks  *)
(* above it but what is alike or outranks it, and a sole target is what is   *)
(* meant.                                                                  *)
THEOREM MeantIsServed == ResolverSpec => []MeantIsFirst
<1>1. WorldInv => MeantIsFirst
  <2> SUFFICES ASSUME WorldInv, NEW c \in Calls, NEW f \in Meant(Taken(c)), Near(f, Taken(c))
               PROVE  LET call == Taken(c)
                      IN  /\ \E candidate \in Candidates(call) : candidate.of = f
                          /\ Alike \/ Outdone(f) \/ f \in FirstCandidates(call)
                          /\ Edge(call).status \in {"exact", "probable"} => Edge(call).to = {f}
    BY Zenon DEF MeantIsFirst
  <2> DEFINE call == Taken(c)
  <2>1. /\ call.form \in {"plain", "this", "qualified", "member"}
        /\ call.form = "this" => here \in Types
        /\ call.form = "member" => \A t \in call.locals : t \in Seq(STRING) /\ t # <<>>
    BY TakenCalls, Zenon
  <2> HIDE DEF call
  <2>2. f \in Meant(call) /\ Near(f, call)
    BY DEF call
  <2>3. Served(f, call)
    <3>1. CASE call.form = "plain"
      BY <2>2, <3>1, PlainIsServed
    <3>2. CASE call.form = "this"
      <4>1. f.own /\ ~Mistaken(f)
        BY <2>2, <3>2 DEF Near
      <4> QED
        BY <2>1, <2>2, <3>2, <4>1, ThisIsServed
    <3>3. CASE call.form = "qualified"
      <4>1. f.in = Expanded(call.path)
        BY <2>2, <3>3 DEF Near
      <4> QED
        BY <2>2, <3>3, <4>1, QualifiedIsServed
    <3>4. CASE call.form = "member"
      BY <2>1, <2>2, <3>4, MemberIsServed
    <3> QED
      BY <2>1, <3>1, <3>2, <3>3, <3>4
  <2>4. IsFiniteSet(Candidates(call))
    BY <2>1, CandidatesAreFinite
  <2>5. Edge(call).status \in {"exact", "probable"} => Edge(call).to = {f}
    BY <2>3, <2>4, SoleTarget, Zenon DEF Served
  <2> QED
    BY <2>3, <2>5, Zenon DEF Served, call
<1> QED
  BY <1>1, WorldIsBuilt, PTL
(***************************************************************************)
(* The line numbers of a diff.                                             *)
(***************************************************************************)
(* Greatest and least of a set of numbers.                                  *)
LEMMA GreatestIsMax ==
  ASSUME NEW n \in Nat, NEW S \in SUBSET (0 .. n), S # {}
  PROVE  Max(S) \in S /\ \A y \in S : Max(S) >= y
<1> DEFINE T == {n - x : x \in S}
<1>1. T \in SUBSET Nat /\ T # {}
  <2>1. \A x \in S : n - x \in Nat
    OBVIOUS
  <2> QED
    BY <2>1, Zenon
<1>2. PICK t \in T : \A u \in T : t <= u
  BY <1>1, LeastNatural, Zenon
<1>3. PICK x \in S : t = n - x
  BY <1>2
<1>4. \A y \in S : n - x <= n - y
  BY <1>2, <1>3
<1>5. \A y \in S : x >= y
  <2>1. \A y \in S : x \in Nat /\ y \in Nat /\ n - x <= n - y
    BY <1>4
  <2> QED
    BY <2>1
<1> QED
  BY <1>5, Zenon DEF Max

LEMMA MaxOfTwo ==
  ASSUME NEW a \in Int, NEW b \in Int
  PROVE  Max({a, b}) = IF a >= b THEN a ELSE b
<1>1. \E x \in {a, b} : \A y \in {a, b} : x >= y
  OBVIOUS
<1>2. Max({a, b}) \in {a, b} /\ \A y \in {a, b} : Max({a, b}) >= y
  BY <1>1, Zenon DEF Max
<1> QED
  BY <1>2

LEMMA MinOfTwo ==
  ASSUME NEW a \in Int, NEW b \in Int
  PROVE  Min({a, b}) = IF a <= b THEN a ELSE b
<1>1. \E x \in {a, b} : \A y \in {a, b} : x =< y
  OBVIOUS
<1>2. Min({a, b}) \in {a, b} /\ \A y \in {a, b} : Min({a, b}) =< y
  BY <1>1, Zenon DEF Min
<1> QED
  BY <1>2

-----------------------------------------------------------------------------
(* Where the hunks of a script lie.                                         *)
LEMMA FirstChangeStarts ==
  ASSUME NEW n \in Nat, DOMAIN script = 1 .. n, NEW c \in Nat, NEW j \in Changes
  PROVE  \E i \in HunkStarts(c) : i <= j
<1>1. Changes \in SUBSET (1 .. n)
  BY Zenon DEF Changes
<1>2. Changes \in SUBSET Nat /\ Changes # {}
  BY <1>1
<1>3. PICK i \in Changes : \A k \in Changes : i <= k
  BY <1>2, LeastNatural, Zenon
<1>4. \A k \in Changes : ~(k < i)
  BY <1>2, <1>3
<1> QED
  BY <1>3, <1>4, Zenon DEF HunkStarts

FirstLine(i, c) == Max({1, i - c})
LastLine(i, c)  == Min({Len(script), HunkEnd(i, c) + c})

(* A hunk ends at the last change before the next hunk starts.              *)
LEMMA HunkEndsAtChange ==
  ASSUME NEW n \in Nat, DOMAIN script = 1 .. n, NEW c \in Nat, NEW i \in HunkStarts(c)
  PROVE  /\ i \in Changes /\ HunkEnd(i, c) \in Changes /\ i <= HunkEnd(i, c)
         /\ \A k \in HunkStarts(c) : i < k => HunkEnd(i, c) < k
         /\ \A j \in Changes : i <= j /\ (\A k \in HunkStarts(c) : i < k => j < k)
                               => j <= HunkEnd(i, c)
<1> DEFINE T == {j \in Changes : i <= j /\ \A k \in HunkStarts(c) : i < k => j < k}
<1>1. i \in Changes /\ HunkEnd(i, c) = Max(T)
  BY Zenon DEF HunkStarts, HunkEnd
<1>2. Changes \in SUBSET (1 .. n)
  BY Zenon DEF Changes
<1>3. Changes \in SUBSET (0 .. n) /\ i <= i
  BY <1>1, <1>2
<1>4. i \in T
  BY <1>1, <1>3, Zenon
<1>5. T \in SUBSET (0 .. n)
  BY <1>3, Zenon
<1>6. \A j : j \in T <=> j \in Changes /\ i <= j /\ \A k \in HunkStarts(c) : i < k => j < k
  OBVIOUS
<1> HIDE DEF T
<1>7. PICK m \in T : m = Max(T) /\ \A y \in T : m >= y
  BY <1>4, <1>5, GreatestIsMax, Zenon
<1>8. \A y \in T : y <= m
  <2>1. \A y \in T : y \in Nat /\ m \in Nat /\ m >= y
    BY <1>5, <1>7
  <2> QED
    BY <2>1
<1> QED
  BY <1>1, <1>6, <1>7, <1>8, Zenon

(* Its lines are lines of the script, and all of its context is.            *)
LEMMA HunkLines ==
  ASSUME NEW n \in Nat, DOMAIN script = 1 .. n, Len(script) = n, NEW c \in Nat,
         NEW i \in HunkStarts(c)
  PROVE  /\ i \in 1 .. n /\ HunkEnd(i, c) \in i .. n
         /\ FirstLine(i, c) \in 1 .. i /\ LastLine(i, c) \in HunkEnd(i, c) .. n
         /\ FirstLine(i, c) >= i - c /\ LastLine(i, c) <= HunkEnd(i, c) + c
<1>1. PICK e : e = HunkEnd(i, c)
  OBVIOUS
<1>2. Changes \in SUBSET (1 .. n)
  BY Zenon DEF Changes
<1>3. i \in Changes /\ e \in Changes /\ i <= e
  BY <1>1, HunkEndsAtChange, Zenon
<1>4. i \in 1 .. n /\ e \in i .. n
  BY <1>2, <1>3
<1>5. FirstLine(i, c) = IF 1 >= i - c THEN 1 ELSE i - c
  <2>1. 1 \in Int /\ i - c \in Int
    BY <1>4
  <2> QED
    BY <2>1, MaxOfTwo, Zenon DEF FirstLine
<1>6. LastLine(i, c) = IF n <= e + c THEN n ELSE e + c
  <2>1. n \in Int /\ e + c \in Int
    BY <1>4
  <2> QED
    BY <1>1, <2>1, MinOfTwo, Zenon DEF LastLine
<1>7. FirstLine(i, c) \in 1 .. i /\ FirstLine(i, c) >= i - c
  BY <1>4, <1>5
<1>8. LastLine(i, c) \in e .. n /\ LastLine(i, c) <= e + c
  BY <1>4, <1>6
<1> QED
  BY <1>1, <1>4, <1>7, <1>8, Zenon

(* No line is in two hunks: one would have been the context of both.        *)
LEMMA HunksAreApart ==
  ASSUME NEW n \in Nat, DOMAIN script = 1 .. n, Len(script) = n, NEW c \in Nat,
         NEW i \in HunkStarts(c), NEW k \in HunkStarts(c), i < k
  PROVE  LastLine(i, c) < FirstLine(k, c)
<1>1. PICK e, a, b : e = HunkEnd(i, c) /\ a = LastLine(i, c) /\ b = FirstLine(k, c)
  OBVIOUS
<1>2. e \in i .. n /\ i \in 1 .. n /\ a \in e .. n /\ a <= e + c
  BY <1>1, HunkLines, Zenon
<1>3. k \in 1 .. n /\ b \in 1 .. k /\ b >= k - c
  BY <1>1, HunkLines, Zenon
<1>4. e \in Changes /\ e < k
  BY <1>1, HunkEndsAtChange, Zenon
<1>5. k - e - 1 > 2 * c
  BY <1>4, Zenon DEF HunkStarts, Parted
<1>6. a < b
  BY <1>2, <1>3, <1>5
<1> QED
  BY <1>1, <1>6, Zenon

(* No changed line is outside the hunks.                                    *)
LEMMA ChangesAreInHunks ==
  ASSUME NEW n \in Nat, DOMAIN script = 1 .. n, Len(script) = n, NEW c \in Nat,
         NEW j \in Changes
  PROVE  \E i \in HunkStarts(c) : j \in FirstLine(i, c) .. LastLine(i, c)
<1> DEFINE S == {i \in HunkStarts(c) : i <= j}
<1>1. Changes \in SUBSET (1 .. n)
  BY Zenon DEF Changes
<1>2. HunkStarts(c) \subseteq Changes
  BY Zenon DEF HunkStarts
<1>3. S \subseteq 0 .. n /\ j \in 1 .. n
  <2>1. \A i \in 1 .. n : i \in 0 .. n
    OBVIOUS
  <2> QED
    BY <1>1, <1>2, <2>1, Zenon
<1>4. S # {}
  BY FirstChangeStarts, Zenon
<1>5. S \in SUBSET (0 .. n)
  BY <1>3, Zenon
<1>6. PICK i \in S : \A y \in S : i >= y
  BY <1>4, <1>5, GreatestIsMax, Zenon
<1>7. i \in HunkStarts(c) /\ i <= j
  BY <1>6, Zenon
<1>8. \A k \in HunkStarts(c) : i < k => j < k
  <2>1. ASSUME NEW k \in HunkStarts(c), i < k, ~(j < k) PROVE FALSE
    <3>1. k \in 1 .. n /\ i \in 1 .. n
      BY <1>1, <1>2, <1>7
    <3>2. k <= j
      BY <1>3, <2>1, <3>1
    <3>3. i >= k
      BY <1>6, <3>2, Zenon
    <3> QED
      BY <2>1, <3>1, <3>3
  <2> QED
    BY <2>1, Zenon
<1>9. PICK e : e = HunkEnd(i, c)
  OBVIOUS
<1>10. j <= e
  BY <1>7, <1>8, <1>9, HunkEndsAtChange, Zenon
<1>11. PICK a, b : a = FirstLine(i, c) /\ b = LastLine(i, c)
  OBVIOUS
<1>12. a \in 1 .. i /\ b \in e .. n /\ i \in 1 .. n /\ e \in i .. n
  BY <1>7, <1>9, <1>11, HunkLines, Zenon
<1>13. j \in a .. b
  BY <1>3, <1>7, <1>10, <1>12
<1> QED
  BY <1>7, <1>11, <1>13, Zenon

-----------------------------------------------------------------------------
(* The starts of the hunks, one after the other.                            *)
Rank(S, i) == Cardinality({j \in S : j <= i})

(* The members of a set of lines have different ranks, which ascend.        *)
LEMMA RanksDiffer ==
  ASSUME NEW n \in Nat, NEW S \in SUBSET (1 .. n)
  PROVE  /\ IsFiniteSet(S) /\ Cardinality(S) \in Nat
         /\ \A i \in S : Rank(S, i) \in 1 .. Cardinality(S)
         /\ \A i, k \in S : i < k => Rank(S, i) < Rank(S, k)
<1>1. IsFiniteSet(S) /\ Cardinality(S) \in Nat
  <2>1. IsFiniteSet(1 .. n)
    BY FS_Interval
  <2> QED
    BY <2>1, FS_Subset, FS_CardinalityType, Zenon
<1>2. ASSUME NEW i \in S PROVE Rank(S, i) \in 1 .. Cardinality(S)
  <2> DEFINE B == {j \in S : j <= i}
  <2>1. B \in SUBSET S /\ B # {}
    OBVIOUS
  <2> HIDE DEF B
  <2>2. IsFiniteSet(B) /\ Cardinality(B) <= Cardinality(S)
    BY <1>1, <2>1, FS_Subset, Zenon
  <2>3. Cardinality(B) # 0 /\ Cardinality(B) \in Nat
    BY <2>1, <2>2, FS_EmptySet, FS_CardinalityType, Zenon
  <2>4. Cardinality(B) \in 1 .. Cardinality(S)
    BY <1>1, <2>2, <2>3
  <2> QED
    BY <2>4, Zenon DEF Rank, B
<1>3. ASSUME NEW i \in S, NEW k \in S, i < k PROVE Rank(S, i) < Rank(S, k)
  <2> DEFINE A == {j \in S : j <= i}
             B == {j \in S : j <= k}
  <2>1. \A j \in S : j <= i => j <= k
    BY <1>3
  <2>2. k \in B /\ k \notin A
    BY <1>3
  <2>3. A \in SUBSET B /\ B \in SUBSET S
    BY <2>1, Zenon
  <2> HIDE DEF A, B
  <2>4. IsFiniteSet(B)
    BY <1>1, <2>3, FS_Subset, Zenon
  <2>5. IsFiniteSet(A) /\ Cardinality(A) <= Cardinality(B) /\ Cardinality(B) # Cardinality(A)
    BY <2>2, <2>3, <2>4, FS_Subset, Zenon
  <2>6. Cardinality(A) \in Nat /\ Cardinality(B) \in Nat
    BY <2>4, <2>5, FS_CardinalityType, Zenon
  <2>7. Cardinality(A) < Cardinality(B)
    BY <2>5, <2>6
  <2> QED
    BY <2>7, Zenon DEF Rank, A, B
<1> QED
  BY <1>1, <1>2, <1>3, Zenon

(* So taking them by rank reaches each of them once, in ascending order.    *)
LEMMA OrderIsComplete ==
  ASSUME NEW n \in Nat, NEW S \in SUBSET (1 .. n)
  PROVE  \E m \in Nat :
           /\ m = Cardinality(S) /\ DOMAIN InTurn(S) = 1 .. m
           /\ \A k \in 1 .. m : InTurn(S)[k] \in S
           /\ \A i \in S : \E k \in 1 .. m : InTurn(S)[k] = i
           /\ \A k, l \in 1 .. m : k < l => InTurn(S)[k] < InTurn(S)[l]
<1>1. PICK m \in Nat : m = Cardinality(S)
  BY RanksDiffer, Zenon
<1>2. IsFiniteSet(S) /\ \A i \in S : Rank(S, i) \in 1 .. m
  BY <1>1, RanksDiffer, Zenon
<1>3. \A i, k \in S : i < k => Rank(S, i) < Rank(S, k)
  BY RanksDiffer, Zenon
<1>4. \A i, k \in S : Rank(S, i) = Rank(S, k) => i = k
  <2>1. \A i, k \in S : i < k \/ k < i \/ i = k
    OBVIOUS
  <2>2. \A x, y \in 1 .. m : x < y => x # y
    OBVIOUS
  <2> QED
    BY <1>2, <1>3, <2>1, <2>2, Zenon
<1>5. PICK f : f = [i \in S |-> Rank(S, i)]
  OBVIOUS
<1>6. PICK T : T = 1 .. m
  OBVIOUS
<1>7. f \in [S -> T] /\ \A i \in S : f[i] = Rank(S, i)
  BY <1>2, <1>5, <1>6, Zenon
<1>8. f \in Injection(S, T)
  <2>1. DOMAIN f = S
    BY <1>5
  <2>2. IsInjective(f)
    <3>1. \A a, b \in S : f[a] = f[b] => a = b
      BY <1>4, <1>7, Zenon
    <3> QED
      BY <2>1, <3>1, Zenon DEF IsInjective
  <2> QED
    BY <1>7, <2>2, Zenon DEF Injection
<1>9. IsFiniteSet(T) /\ Cardinality(T) = m
  BY <1>6, FS_Interval
<1>10. f \in Surjection(S, T)
  BY <1>1, <1>8, <1>9, FS_Injection, Zenon
<1>11. \A k \in T : \E i \in S : Rank(S, i) = k
  <2>1. \A k \in T : \E i \in S : f[i] = k
    BY <1>10, Zenon DEF Surjection
  <2> QED
    BY <1>7, <2>1, Zenon
<1>12. PICK o : o = InTurn(S)
  OBVIOUS
<1>13. o = [k \in 1 .. m |-> CHOOSE i \in S : Rank(S, i) = k]
  BY <1>1, <1>12, Zenon DEF InTurn, Rank
<1>14. \A k \in 1 .. m : o[k] \in S /\ Rank(S, o[k]) = k
  <2>1. ASSUME NEW k \in 1 .. m PROVE o[k] \in S /\ Rank(S, o[k]) = k
    <3>1. \E i \in S : Rank(S, i) = k
      BY <1>6, <1>11, Zenon
    <3>2. o[k] = CHOOSE i \in S : Rank(S, i) = k
      BY <1>13, Zenon
    <3> QED
      BY <3>1, <3>2, Zenon
  <2> QED
    BY <2>1, Zenon
<1>15. \A i \in S : o[Rank(S, i)] = i
  BY <1>2, <1>4, <1>14, Zenon
<1>16. \A k, l \in 1 .. m : k < l => o[k] < o[l]
  <2>1. ASSUME NEW k \in 1 .. m, NEW l \in 1 .. m, k < l, ~(o[k] < o[l]) PROVE FALSE
    <3>1. o[k] \in S /\ o[l] \in S /\ Rank(S, o[k]) = k /\ Rank(S, o[l]) = l
      BY <1>14, Zenon
    <3>2. PICK a \in S, b \in S : a = o[k] /\ b = o[l]
      BY <3>1, Zenon
    <3>3. b < a \/ a = b
      BY <2>1, <3>2
    <3>4. ~(l < k) /\ l # k
      BY <2>1
    <3>5. b < a => l < k
      BY <1>3, <3>1, <3>2, Zenon
    <3>6. a = b => k = l
      BY <3>1, <3>2, Zenon
    <3> QED
      BY <3>3, <3>4, <3>5, <3>6, Zenon
  <2> QED
    BY <2>1, Zenon
<1>17. DOMAIN o = 1 .. m
  BY <1>13
<1> QED
  BY <1>1, <1>2, <1>12, <1>14, <1>15, <1>16, <1>17, Zenon

-----------------------------------------------------------------------------
(* Reading a diff line by line, and gluing its parts.                       *)
Folded(d, it, s)  == IF s = {} THEN <<>> ELSE TakeLine(it[s \ {Max(s)}], d[Max(s)])
Folding(d, S, it) == it = [s \in SUBSET S |-> Folded(d, it, s)]

(* There is the function that the fold of a diff is computed by.            *)
LEMMA DiffsCanBeFolded ==
  ASSUME NEW n \in Nat, NEW d, NEW S, S = 1 .. n PROVE \E it : Folding(d, S, it)
<1> DEFINE Upto(m, it) ==
             \A s \in SUBSET S : Cardinality(s) <= m => it[s] = Folded(d, it, s)
           Bad == {m \in Nat : ~\E it : Upto(m, it)}
<1>1. \A s \in SUBSET S : IsFiniteSet(s) /\ Cardinality(s) \in Nat
  <2>1. IsFiniteSet(S)
    BY FS_Interval
  <2> QED
    BY <2>1, FS_Subset, FS_CardinalityType, Zenon
<1>2. Upto(0, [s \in SUBSET S |-> <<>>])
  <2>1. \A s \in SUBSET S : Cardinality(s) <= 0 => s = {}
    BY <1>1, FS_EmptySet
  <2> QED
    BY <2>1, Zenon DEF Folded
<1>3. \A s \in SUBSET S : s # {} => Max(s) \in s
  <2>1. 1 .. n \in SUBSET (0 .. n)
    OBVIOUS
  <2>2. S \in SUBSET (0 .. n)
    BY <2>1, Zenon
  <2> QED
    BY <2>2, GreatestIsMax, Zenon
<1>4. ASSUME NEW m \in Nat, NEW it, Upto(m, it) PROVE \E new : Upto(m + 1, new)
  <2> DEFINE new == [s \in SUBSET S |-> IF Cardinality(s) <= m THEN it[s] ELSE Folded(d, it, s)]
  <2>1. ASSUME NEW s \in SUBSET S, s # {}, Cardinality(s) <= m + 1
        PROVE  LET rest == s \ {Max(s)} IN rest \in SUBSET S /\ Cardinality(rest) <= m
    <3>1. Max(s) \in s
      BY <1>3, <2>1, Zenon
    <3>2. Cardinality(s \ {Max(s)}) = Cardinality(s) - 1
      BY <1>1, <3>1, FS_RemoveElement, Zenon
    <3>3. Cardinality(s) - 1 <= m
      BY <1>1, <2>1
    <3> QED
      BY <3>2, <3>3, Zenon
  <2>2. ASSUME NEW s \in SUBSET S, Cardinality(s) <= m + 1 PROVE new[s] = Folded(d, new, s)
    <3>1. new[s] = Folded(d, it, s)
      BY <1>4, Zenon
    <3>2. CASE s = {}
      BY <3>1, <3>2, Zenon DEF Folded
    <3>3. CASE s # {}
      <4>1. new[s \ {Max(s)}] = it[s \ {Max(s)}]
        BY <2>1, <2>2, <3>3, Zenon
      <4> QED
        BY <3>1, <3>3, <4>1, Zenon DEF Folded
    <3> QED
      BY <3>2, <3>3
  <2> QED
    BY <2>2, Zenon
<1>5. Bad = {}
  <2> SUFFICES ASSUME Bad # {} PROVE FALSE
    OBVIOUS
  <2>1. PICK m \in Bad : \A k \in Bad : m <= k
    <3>1. Bad \in SUBSET Nat
      BY Zenon
    <3> HIDE DEF Bad
    <3> QED
      BY <3>1, LeastNatural, Zenon
  <2>2. m # 0
    BY <1>2, Zenon
  <2>3. m \in Nat /\ m - 1 \in Nat /\ (m - 1) + 1 = m /\ ~(m <= m - 1)
    BY <2>2
  <2>4. m - 1 \notin Bad
    BY <2>1, <2>3, Zenon
  <2>5. PICK it : Upto(m - 1, it)
    BY <2>3, <2>4, Zenon
  <2>6. \E new : Upto(m, new)
    <3> HIDE DEF Upto
    <3>1. \E new : Upto((m - 1) + 1, new)
      BY <1>4, <2>3, <2>5, Zenon
    <3> QED
      BY <2>3, <3>1, Zenon
  <2> QED
    BY <2>6, Zenon
<1>6. PICK it : Upto(Cardinality(S), it)
  BY <1>1, <1>5, Zenon
<1>7. \A s \in SUBSET S : Cardinality(s) <= Cardinality(S)
  BY <1>1, FS_Subset, Zenon
<1> DEFINE all == [s \in SUBSET S |-> it[s]]
<1>8. \A s \in SUBSET S : Folded(d, all, s) = Folded(d, it, s)
  <2>1. \A s \in SUBSET S : all[s \ {Max(s)}] = it[s \ {Max(s)}]
    BY Zenon
  <2> QED
    BY <2>1, Zenon DEF Folded
<1>9. Folding(d, S, all)
  BY <1>6, <1>7, <1>8, Zenon DEF Folding
<1> QED
  BY <1>9, Zenon

(* What has been parsed after each line of a diff.                          *)
ReadsLines(n, d, h) == h[0] = <<>> /\ \A k \in 1 .. n : h[k] = TakeLine(h[k - 1], d[k])

LEMMA HunksAreReadLineByLine ==
  ASSUME NEW n \in Nat, NEW d, DOMAIN d = 1 .. n
  PROVE  \E h : ReadsLines(n, d, h) /\ ParsedHunks(d) = h[n]
<1>1. PICK S : S = 1 .. n
  OBVIOUS
<1> DEFINE it == CHOOSE f : Folding(d, S, f)
<1>2. Folding(d, S, it)
  BY <1>1, DiffsCanBeFolded, Zenon
<1>3. ParsedHunks(d) = it[S]
  BY <1>1, Zenon DEF ParsedHunks, FoldLeft, MapThenFoldSet, Folding, Folded
<1>4. PICK f : f = it
  OBVIOUS
<1>5. \A s \in SUBSET S : f[s] = Folded(d, f, s)
  BY <1>2, <1>4, Zenon DEF Folding
<1> HIDE DEF it
<1> DEFINE h == [k \in 0 .. n |-> f[1 .. k]]
<1>6. h[0] = <<>>
  <2>1. 1 .. 0 = {} /\ 0 \in 0 .. n
    OBVIOUS
  <2>2. {} \in SUBSET S
    OBVIOUS
  <2>3. f[{}] = <<>>
    BY <1>5, <2>2, Zenon DEF Folded
  <2> QED
    BY <2>1, <2>3, Zenon
<1>7. ASSUME NEW k \in 1 .. n PROVE h[k] = TakeLine(h[k - 1], d[k])
  <2>1. /\ 1 .. k \in SUBSET S /\ 1 .. k # {} /\ (1 .. k) \ {k} = 1 .. (k - 1)
        /\ k \in 0 .. n /\ k - 1 \in 0 .. n
    <3>1. /\ k \in 1 .. k /\ (1 .. k) \ {k} = 1 .. (k - 1)
          /\ k \in 0 .. n /\ k - 1 \in 0 .. n
      OBVIOUS
    <3>2. \A x \in 1 .. k : x \in 1 .. n
      OBVIOUS
    <3> QED
      BY <1>1, <3>1, <3>2, Zenon
  <2>2. Max(1 .. k) = k
    <3>1. k \in Nat /\ 1 .. k \in SUBSET (0 .. k) /\ k \in 1 .. k
      OBVIOUS
    <3>2. Max(1 .. k) \in 1 .. k /\ Max(1 .. k) >= k
      BY <2>1, <3>1, GreatestIsMax, Zenon
    <3> QED
      BY <3>1, <3>2
  <2>3. f[1 .. k] = TakeLine(f[1 .. (k - 1)], d[k])
    BY <1>5, <2>1, <2>2, Zenon DEF Folded
  <2> QED
    BY <2>1, <2>3, Zenon
<1>8. ParsedHunks(d) = h[n]
  <2>1. n \in 0 .. n
    OBVIOUS
  <2> QED
    BY <1>1, <1>3, <1>4, <2>1, Zenon
<1>9. ReadsLines(n, d, h)
  <2> HIDE DEF h
  <2> QED
    BY <1>6, <1>7, Zenon DEF ReadsLines
<1> QED
  BY <1>8, <1>9, Zenon

Glued(parts, F, i)  == IF i = 1 THEN parts[i] ELSE F[i - 1] \o parts[i]
Gluing(m, parts, F) == F = [i \in 1 .. m |-> Glued(parts, F, i)]

(* There is the function that parts are glued by.                           *)
LEMMA PartsCanBeGlued ==
  ASSUME NEW m \in Nat, NEW parts PROVE \E F : Gluing(m, parts, F)
<1> DEFINE Upto(k, F) == \A i \in 1 .. m : i <= k => F[i] = Glued(parts, F, i)
           Bad == {k \in Nat : ~\E F : Upto(k, F)}
<1>1. Upto(0, parts)
  OBVIOUS
<1>2. ASSUME NEW k \in Nat, NEW F, Upto(k, F) PROVE \E G : Upto(k + 1, G)
  <2> DEFINE G == [i \in 1 .. m |-> IF i <= k THEN F[i] ELSE Glued(parts, F, i)]
  <2>1. ASSUME NEW i \in 1 .. m, i <= k + 1 PROVE G[i] = Glued(parts, G, i)
    <3>1. G[i] = Glued(parts, F, i)
      BY <1>2, Zenon
    <3>2. CASE i = 1
      BY <3>1, <3>2, Zenon DEF Glued
    <3>3. CASE i # 1
      <4>1. i - 1 \in 1 .. m /\ i - 1 <= k
        BY <2>1, <3>3
      <4>2. G[i - 1] = F[i - 1]
        BY <4>1, Zenon
      <4> QED
        BY <3>1, <3>3, <4>2, Zenon DEF Glued
    <3> QED
      BY <3>2, <3>3
  <2> QED
    BY <2>1, Zenon
<1>3. Bad = {}
  <2> SUFFICES ASSUME Bad # {} PROVE FALSE
    OBVIOUS
  <2>1. PICK k \in Bad : \A l \in Bad : k <= l
    <3>1. Bad \in SUBSET Nat
      BY Zenon
    <3> HIDE DEF Bad
    <3> QED
      BY <3>1, LeastNatural, Zenon
  <2>2. k # 0
    BY <1>1, Zenon
  <2>3. k \in Nat /\ k - 1 \in Nat /\ (k - 1) + 1 = k /\ ~(k <= k - 1)
    BY <2>2
  <2>4. k - 1 \notin Bad
    BY <2>1, <2>3, Zenon
  <2>5. PICK F : Upto(k - 1, F)
    BY <2>3, <2>4, Zenon
  <2>6. \E G : Upto(k, G)
    <3> HIDE DEF Upto
    <3>1. \E G : Upto((k - 1) + 1, G)
      BY <1>2, <2>3, <2>5, Zenon
    <3> QED
      BY <2>3, <3>1, Zenon
  <2> QED
    BY <2>6, Zenon
<1>4. PICK F : Upto(m, F)
  BY <1>3, Zenon
<1> DEFINE all == [i \in 1 .. m |-> F[i]]
<1>5. ASSUME NEW i \in 1 .. m PROVE all[i] = Glued(parts, all, i)
  <2>1. i <= m
    OBVIOUS
  <2>2. all[i] = Glued(parts, F, i)
    BY <1>4, <2>1, Zenon
  <2>3. i = 1 \/ i - 1 \in 1 .. m
    OBVIOUS
  <2>4. i = 1 \/ all[i - 1] = F[i - 1]
    BY <2>3, Zenon
  <2> QED
    BY <2>2, <2>4, Zenon DEF Glued
<1>6. Gluing(m, parts, all)
  BY <1>5, Zenon DEF Gluing
<1> QED
  BY <1>6, Zenon

(* Parts put together are what it glues.                                    *)
LEMMA FlatIsGlued ==
  ASSUME NEW m \in Nat, m # 0, NEW parts, Len(parts) = m
  PROVE  \E F : Gluing(m, parts, F) /\ FlattenSeq(parts) = F[m]
<1> DEFINE it == CHOOSE F : Gluing(m, parts, F)
<1>1. Gluing(m, parts, it)
  BY PartsCanBeGlued, Zenon
<1>2. FlattenSeq(parts) = it[m]
  BY Zenon DEF FlattenSeq, Gluing, Glued
<1> QED
  BY <1>1, <1>2, Zenon

-----------------------------------------------------------------------------
(* One line of a diff, and one hunk of it.                                  *)
IsHeader(l) == l.mark = "@@"

(* The three cases of TakeLine.                                             *)
LEMMA HeaderOpensHunk ==
  ASSUME NEW hunks, NEW l, IsHeader(l)
  PROVE  TakeLine(hunks, l) = Append(hunks, [old |-> l.old, new |-> l.new, lines |-> <<>>])
<1>1. l.mark \notin Marks
  BY Zenon DEF Marks, IsHeader
<1> QED
  BY <1>1, Zenon DEF TakeLine, IsHeader

LEMMA BodyIsAppended ==
  ASSUME NEW hunks, NEW l, l.mark \in Marks, hunks # <<>>
  PROVE  TakeLine(hunks, l) = [hunks EXCEPT ![Len(hunks)].lines = Append(@, l)]
<1>1. l.mark # "@@"
  BY Zenon DEF Marks
<1> QED
  BY <1>1, Zenon DEF TakeLine

LEMMA OthersAreSkipped ==
  ASSUME NEW l, ~IsHeader(l) PROVE TakeLine(<<>>, l) = <<>>
BY Zenon DEF TakeLine, IsHeader

Sides == [start : Nat, lines : Nat]
Hunks == [old : Sides, new : Sides, lines : Seq(Lines(Marks))]
HunkOf(old, new, lines) == [old |-> old, new |-> new, lines |-> lines]

LEMMA LinesAreReplaced ==
  ASSUME NEW a, NEW b, NEW c, NEW z
  PROVE  [[old |-> a, new |-> b, lines |-> c] EXCEPT !.lines = z]
           = [old |-> a, new |-> b, lines |-> z]
OBVIOUS

Grows(hs, old, new, lines, l) ==
  LET hunks == Append(hs, HunkOf(old, new, lines))
  IN /\ [hunks EXCEPT ![Len(hunks)].lines = Append(@, l)]
          = Append(hs, HunkOf(old, new, Append(lines, l)))
     /\ hunks # <<>>

(* A line of a hunk's body grows the last hunk and leaves the others.       *)
LEMMA LastHunkGrows ==
  ASSUME NEW V, NEW U, NEW l \in V, NEW old \in U, NEW new \in U, NEW lines \in Seq(V),
         NEW S, S = [old : U, new : U, lines : Seq(V)], NEW hs \in Seq(S)
  PROVE  Grows(hs, old, new, lines, l)
<1>0. PICK hunks : hunks = Append(hs, HunkOf(old, new, lines))
  OBVIOUS
<1>1. PICK x, y : x = HunkOf(old, new, lines) /\ y = HunkOf(old, new, Append(lines, l))
  OBVIOUS
<1>2. Append(lines, l) \in Seq(V)
  OBVIOUS
<1>3. x \in S /\ y \in S
  BY <1>1, <1>2, Zenon DEF HunkOf
<1>4. y = [x EXCEPT !.lines = Append(@, l)]
  <2>1. x = [old |-> old, new |-> new, lines |-> lines]
        /\ y = [old |-> old, new |-> new, lines |-> Append(lines, l)]
    BY <1>1, Zenon DEF HunkOf
  <2>2. x.lines = lines
    BY <2>1
  <2>3. y = [x EXCEPT !.lines = Append(lines, l)]
    <3>1. PICK z : z = Append(lines, l)
      OBVIOUS
    <3>2. [[old |-> old, new |-> new, lines |-> lines] EXCEPT !.lines = z]
            = [old |-> old, new |-> new, lines |-> z]
      BY LinesAreReplaced, Zenon
    <3> QED
      BY <2>1, <3>1, <3>2, Zenon
  <2> QED
    BY <2>2, <2>3, Zenon
<1>5. PICK m \in Nat : m = Len(hs)
  OBVIOUS
<1>6. hunks = Append(hs, x)
  BY <1>0, <1>1, Zenon
<1>7. Len(hunks) = m + 1 /\ DOMAIN hunks = 1 .. m + 1 /\ hunks[m + 1] = x
      /\ \A i \in 1 .. m : hunks[i] = hs[i]
  BY <1>3, <1>5, <1>6
<1>8. PICK g : g = Append(hs, y)
  OBVIOUS
<1>9. /\ g \in Seq(S) /\ DOMAIN g = 1 .. m + 1 /\ g[m + 1] = y
      /\ \A i \in 1 .. m : g[i] = hs[i]
      /\ g = [i \in 1 .. m + 1 |-> g[i]]
  <2>1. g \in Seq(S) /\ Len(g) = m + 1
    BY <1>3, <1>5, <1>8
  <2>2. g[m + 1] = y
    BY <1>3, <1>5, <1>8
  <2>3. \A i \in 1 .. m : g[i] = hs[i]
    BY <1>3, <1>5, <1>8
  <2>4. DOMAIN g = 1 .. m + 1 /\ g = [i \in 1 .. Len(g) |-> g[i]]
    BY <2>1
  <2> QED
    BY <2>1, <2>2, <2>3, <2>4, Zenon
<1>10. PICK f : f = [hunks EXCEPT ![m + 1] = y]
  OBVIOUS
<1>11. f = [i \in 1 .. m + 1 |-> f[i]]
  BY <1>7, <1>10
<1>12. \A i \in 1 .. m + 1 : f[i] = g[i]
  <2>1. m + 1 \in DOMAIN hunks /\ f[m + 1] = y
    BY <1>7, <1>10
  <2>2. \A i \in 1 .. m : i \in 1 .. m + 1 /\ i # m + 1
    OBVIOUS
  <2>3. \A i \in 1 .. m : f[i] = hunks[i]
    BY <1>7, <1>10, <2>2, Zenon
  <2>4. \A i \in 1 .. m + 1 : i \in 1 .. m \/ i = m + 1
    OBVIOUS
  <2>5. \A i \in 1 .. m : f[i] = g[i]
    BY <1>7, <1>9, <2>3, Zenon
  <2> QED
    BY <1>9, <2>1, <2>4, <2>5, Zenon
<1>13. f = g
  <2>1. [i \in 1 .. m + 1 |-> f[i]] = [i \in 1 .. m + 1 |-> g[i]]
    BY <1>12, Zenon
  <2> QED
    BY <1>9, <1>11, <2>1, Zenon
<1>14. [hunks EXCEPT ![Len(hunks)].lines = Append(@, l)] = f
  BY <1>4, <1>7, <1>10, Zenon
<1>15. hunks # <<>>
  BY <1>3, <1>6
<1> QED
  BY <1>0, <1>1, <1>8, <1>9, <1>13, <1>14, <1>15, Zenon DEF Grows

(* A sequence is its prefixes, each one line longer than the last.          *)
LEMMA PrefixesGrow ==
  ASSUME NEW V, NEW s \in Seq(V)
  PROVE  /\ SubSeq(s, 1, 0) = <<>> /\ SubSeq(s, 1, Len(s)) = s
         /\ \A j \in Nat : j < Len(s) =>
              /\ s[j + 1] \in V /\ SubSeq(s, 1, j) \in Seq(V)
              /\ SubSeq(s, 1, j + 1) = Append(SubSeq(s, 1, j), s[j + 1])
<1>1. PICK n \in Nat : n = Len(s)
  OBVIOUS
<1>2. \A i \in 1 .. n : s[i] \in V
  BY <1>1, ElementOfSeq, Zenon
<1>3. SubSeq(s, 1, 0) = <<>>
  OBVIOUS
<1>4. SubSeq(s, 1, Len(s)) = s
  <2>1. SubSeq(s, 1, n) \in Seq(V)
    BY <1>1, <1>2
  <2>2. Len(SubSeq(s, 1, n)) = n
    BY <1>1, <1>2
  <2>3. \A i \in 1 .. n : SubSeq(s, 1, n)[i] = s[i]
    BY <1>1, <1>2
  <2> QED
    BY <1>1, <2>1, <2>2, <2>3, SeqEqual, Zenon
<1>5. ASSUME NEW j \in Nat, j < Len(s)
      PROVE  /\ s[j + 1] \in V /\ SubSeq(s, 1, j) \in Seq(V)
             /\ SubSeq(s, 1, j + 1) = Append(SubSeq(s, 1, j), s[j + 1])
  <2>1. PICK p, q : p = SubSeq(s, 1, j) /\ q = SubSeq(s, 1, j + 1)
    OBVIOUS
  <2>2. j + 1 \in 1 .. n /\ s[j + 1] \in V
    BY <1>1, <1>2, <1>5
  <2>3. p \in Seq(V)
    BY <1>1, <1>2, <1>5, <2>1
  <2>4. Len(p) = j
    BY <1>1, <1>2, <1>5, <2>1
  <2>5. \A i \in 1 .. j : p[i] = s[i]
    BY <1>1, <1>2, <1>5, <2>1
  <2>6. q \in Seq(V)
    BY <1>1, <1>2, <1>5, <2>1
  <2>7. Len(q) = j + 1
    BY <1>1, <1>2, <1>5, <2>1
  <2>8. \A i \in 1 .. j + 1 : q[i] = s[i]
    BY <1>1, <1>2, <1>5, <2>1
  <2>9. PICK a : a = Append(p, s[j + 1])
    OBVIOUS
  <2>10. a \in Seq(V) /\ Len(a) = j + 1
    BY <2>2, <2>3, <2>4, <2>9
  <2>11. \A i \in 1 .. j + 1 : a[i] = s[i]
    BY <2>2, <2>3, <2>4, <2>5, <2>9
  <2>12. \A i \in 1 .. Len(q) : q[i] = a[i]
    BY <2>7, <2>8, <2>11, Zenon
  <2>13. q = a
    BY <2>6, <2>7, <2>10, <2>12, SeqEqual, Zenon
  <2> QED
    BY <2>1, <2>2, <2>3, <2>9, <2>13, Zenon
<1> QED
  BY <1>3, <1>4, <1>5, Zenon

(* The lines of a hunk follow the first p lines of a diff of n lines.       *)
Follows(n, d, p, body) ==
  /\ body \in Seq(Lines(Marks)) /\ p + 1 + Len(body) <= n
  /\ IsHeader(d[p + 1]) /\ d[p + 1].old \in Sides /\ d[p + 1].new \in Sides
  /\ \A j \in 1 .. Len(body) : d[p + 1 + j] = body[j]

IsRead(d, h, p, body) ==
  h[p + 1 + Len(body)] = Append(h[p], HunkOf(d[p + 1].old, d[p + 1].new, body))

(* A header and the body after it are read as one hunk.                     *)
LEMMA HunkIsRead ==
  ASSUME NEW n \in Nat, NEW d, NEW h, ReadsLines(n, d, h),
         NEW p \in Nat, NEW body, Follows(n, d, p, body), h[p] \in Seq(Hunks)
  PROVE  IsRead(d, h, p, body)
<1>0. PICK b : b = Len(body)
  OBVIOUS
<1>a. /\ body \in Seq(Lines(Marks)) /\ p + 1 + b <= n
      /\ IsHeader(d[p + 1]) /\ d[p + 1].old \in Sides /\ d[p + 1].new \in Sides
      /\ \A j \in 1 .. b : d[p + 1 + j] = body[j]
  BY <1>0, Zenon DEF Follows
<1>b. b \in Nat
  BY <1>0, <1>a, LenProperties, Zenon
<1>1. PICK V, o, w, hs : V = Lines(Marks) /\ o = d[p + 1].old /\ w = d[p + 1].new /\ hs = h[p]
  OBVIOUS
<1>2. body \in Seq(V) /\ o \in Sides /\ w \in Sides /\ hs \in Seq(Hunks)
  BY <1>1, <1>a, Zenon
<1>3. Hunks = [old : Sides, new : Sides, lines : Seq(V)]
  BY <1>1, Zenon DEF Hunks
<1>4. \A l \in V : l.mark \in Marks
  <2>1. ASSUME NEW l \in V PROVE l.mark \in Marks
    <3>1. PICK m \in Marks, s \in BOOLEAN : l = [mark |-> m, signed |-> s]
      BY <1>1, <2>1 DEF Lines
    <3>2. l.mark = m
      BY <3>1
    <3> QED
      BY <3>2, Zenon
  <2> QED
    BY <2>1, Zenon
<1>5. \A k \in 1 .. n : h[k] = TakeLine(h[k - 1], d[k])
  BY Zenon DEF ReadsLines
<1> DEFINE Grown(j) == Append(hs, HunkOf(o, w, SubSeq(body, 1, j)))
           Bad == {j \in Nat : j <= b /\ h[p + 1 + j] # Grown(j)}
<1>6. h[p + 1 + 0] = Grown(0)
  <2>1. p + 1 \in 1 .. n /\ p + 1 - 1 = p /\ p + 1 + 0 = p + 1
    BY <1>a, <1>b
  <2>2. h[p + 1] = TakeLine(hs, d[p + 1])
    <3>1. PICK k : k = p + 1
      OBVIOUS
    <3>2. k \in 1 .. n /\ k - 1 = p
      BY <2>1, <3>1
    <3>3. h[k] = TakeLine(h[k - 1], d[k])
      BY <1>5, <3>2, Zenon
    <3> QED
      BY <1>1, <3>1, <3>2, <3>3, Zenon
  <2>3. h[p + 1] = Append(hs, [old |-> d[p + 1].old, new |-> d[p + 1].new, lines |-> <<>>])
    BY <1>a, <2>2, HeaderOpensHunk, Zenon
  <2>4. h[p + 1] = Append(hs, HunkOf(o, w, <<>>))
    BY <1>1, <2>3, Zenon DEF HunkOf
  <2>5. SubSeq(body, 1, 0) = <<>>
    BY <1>2, PrefixesGrow, Zenon
  <2> QED
    BY <2>1, <2>4, <2>5, Zenon
<1>7. ASSUME NEW j \in Nat, j < b, h[p + 1 + j] = Grown(j) PROVE h[p + 1 + (j + 1)] = Grown(j + 1)
  <2>1. /\ p + 1 + (j + 1) \in 1 .. n /\ p + 1 + (j + 1) - 1 = p + 1 + j
        /\ j + 1 \in 1 .. b /\ j < Len(body)
    BY <1>0, <1>a, <1>b, <1>7
  <2>2. PICK x, l : x = SubSeq(body, 1, j) /\ l = body[j + 1]
    OBVIOUS
  <2>3. l \in V /\ x \in Seq(V) /\ SubSeq(body, 1, j + 1) = Append(x, l)
    <3>1. /\ body[j + 1] \in V /\ SubSeq(body, 1, j) \in Seq(V)
          /\ SubSeq(body, 1, j + 1) = Append(SubSeq(body, 1, j), body[j + 1])
      BY <1>2, <2>1, PrefixesGrow, Zenon
    <3> QED
      BY <2>2, <3>1, Zenon
  <2>4. h[p + 1 + (j + 1)] = TakeLine(h[p + 1 + j], l)
    <3>1. PICK k : k = p + 1 + (j + 1)
      OBVIOUS
    <3>2. k \in 1 .. n /\ k - 1 = p + 1 + j
      BY <2>1, <3>1
    <3>3. h[k] = TakeLine(h[k - 1], d[k])
      BY <1>5, <3>2, Zenon
    <3>4. d[k] = l
      BY <1>a, <2>1, <2>2, <3>1, Zenon
    <3> QED
      BY <3>1, <3>2, <3>3, <3>4, Zenon
  <2>5. h[p + 1 + j] = Append(hs, HunkOf(o, w, x))
    BY <1>7, <2>2, Zenon
  <2>6. PICK old : old = h[p + 1 + j]
    OBVIOUS
  <2>7. /\ old # <<>>
        /\ [old EXCEPT ![Len(old)].lines = Append(@, l)] = Append(hs, HunkOf(o, w, Append(x, l)))
    <3>1. old = Append(hs, HunkOf(o, w, x))
      BY <2>5, <2>6, Zenon
    <3>2. Grows(hs, o, w, x, l)
      <4>1. PICK S, U : S = Hunks /\ U = Sides
        OBVIOUS
      <4>2. S = [old : U, new : U, lines : Seq(V)] /\ o \in U /\ w \in U /\ hs \in Seq(S)
        BY <1>2, <1>3, <4>1, Zenon
      <4> QED
        BY <2>3, <4>2, LastHunkGrows, Zenon
    <3> QED
      BY <3>1, <3>2, Zenon DEF Grows
  <2>8. TakeLine(old, l) = [old EXCEPT ![Len(old)].lines = Append(@, l)]
    BY <1>4, <2>3, <2>7, BodyIsAppended, Zenon
  <2> QED
    BY <2>3, <2>4, <2>6, <2>7, <2>8, Zenon
<1>8. Bad = {}
  <2> SUFFICES ASSUME Bad # {} PROVE FALSE
    OBVIOUS
  <2>1. PICK j \in Bad : \A k \in Bad : j <= k
    <3>1. Bad \in SUBSET Nat
      BY Zenon
    <3> HIDE DEF Bad
    <3> QED
      BY <3>1, LeastNatural, Zenon
  <2>2. j \in Nat /\ j <= b /\ h[p + 1 + j] # Grown(j)
    BY <2>1, Zenon
  <2>3. j # 0
    BY <1>6, <2>2, Zenon
  <2>4. j - 1 \in Nat /\ (j - 1) + 1 = j /\ ~(j <= j - 1) /\ j - 1 < b /\ j - 1 <= b
    BY <1>b, <2>2, <2>3
  <2>5. h[p + 1 + (j - 1)] = Grown(j - 1)
    BY <2>1, <2>4, Zenon
  <2> HIDE DEF Grown
  <2>6. h[p + 1 + ((j - 1) + 1)] = Grown((j - 1) + 1)
    BY <1>7, <2>4, <2>5, Zenon
  <2> QED
    BY <2>2, <2>4, <2>6, Zenon
<1>9. h[p + 1 + b] = Grown(b)
  <2>1. b <= b
    BY <1>b
  <2> QED
    BY <1>b, <1>8, <2>1, Zenon
<1>10. SubSeq(body, 1, b) = body
  BY <1>0, <1>2, PrefixesGrow, Zenon
<1> QED
  BY <1>0, <1>1, <1>9, <1>10, Zenon DEF IsRead

-----------------------------------------------------------------------------
(* Where each part of a glued sequence stands.                              *)
AllParts(T, m, parts) == \A i \in 1 .. m : parts[i] \in Seq(T)

GluedByStep(T, m, parts, F) ==
  /\ \A i \in 1 .. m : F[i] \in Seq(T)
  /\ m # 0 => F[1] = parts[1]
  /\ \A i \in 1 .. m : i # 1 => i - 1 \in 1 .. m /\ F[i] = F[i - 1] \o parts[i]

(* What is glued so far is a sequence, one part longer each time.           *)
LEMMA GluedIsSequence ==
  ASSUME NEW T, NEW m \in Nat, NEW parts, AllParts(T, m, parts),
         NEW F, Gluing(m, parts, F)
  PROVE  GluedByStep(T, m, parts, F)
<1>0. \A i \in 1 .. m : parts[i] \in Seq(T)
  BY Zenon DEF AllParts
<1>1. \A i \in 1 .. m : F[i] = IF i = 1 THEN parts[i] ELSE F[i - 1] \o parts[i]
  BY Zenon DEF Gluing, Glued
<1>2. m # 0 => F[1] = parts[1]
  <2>1. m # 0 => 1 \in 1 .. m
    OBVIOUS
  <2> QED
    BY <1>1, <2>1, Zenon
<1>3. \A i \in 1 .. m : i # 1 => i - 1 \in 1 .. m /\ F[i] = F[i - 1] \o parts[i]
  <2>1. \A i \in 1 .. m : i # 1 => i - 1 \in 1 .. m
    OBVIOUS
  <2> QED
    BY <1>1, <2>1, Zenon
<1> DEFINE Bad == {i \in 1 .. m : F[i] \notin Seq(T)}
<1>4. Bad = {}
  <2> SUFFICES ASSUME Bad # {} PROVE FALSE
    OBVIOUS
  <2>1. PICK i \in Bad : \A k \in Bad : i <= k
    <3>1. 1 .. m \in SUBSET Nat
      OBVIOUS
    <3>2. Bad \in SUBSET Nat
      BY <3>1, Zenon
    <3> HIDE DEF Bad
    <3> QED
      BY <3>2, LeastNatural, Zenon
  <2>2. i \in 1 .. m /\ F[i] \notin Seq(T)
    BY <2>1, Zenon
  <2>3. CASE i = 1
    <3>1. m # 0
      BY <2>2
    <3> QED
      BY <1>0, <1>2, <2>2, <2>3, <3>1, Zenon
  <2>4. CASE i # 1
    <3>1. i - 1 \in 1 .. m /\ F[i] = F[i - 1] \o parts[i]
      BY <1>3, <2>2, <2>4, Zenon
    <3>2. ~(i <= i - 1)
      BY <2>2
    <3>3. F[i - 1] \in Seq(T)
      BY <2>1, <3>1, <3>2, Zenon
    <3>4. \A a, b \in Seq(T) : a \o b \in Seq(T)
      OBVIOUS
    <3>5. parts[i] \in Seq(T)
      BY <1>0, <2>2, Zenon
    <3> QED
      BY <2>2, <3>1, <3>3, <3>4, <3>5, Zenon
  <2> QED
    BY <2>3, <2>4, Zenon
<1> QED
  BY <1>2, <1>3, <1>4, Zenon DEF GluedByStep

Joined(a, b, c) ==
  /\ Len(a) \in Nat /\ Len(b) \in Nat /\ Len(c) = Len(a) + Len(b)
  /\ \A y \in 1 .. Len(a) : c[y] = a[y]
  /\ \A y \in 1 .. Len(b) : c[Len(a) + y] = b[y]

LEMMA JoinedEntries ==
  ASSUME NEW T, NEW a \in Seq(T), NEW b \in Seq(T), NEW c, c = a \o b
  PROVE  Joined(a, b, c)
<1>1. c \in Seq(T) /\ Len(c) = Len(a) + Len(b) /\ Len(a) \in Nat /\ Len(b) \in Nat
  OBVIOUS
<1>2. \A y \in 1 .. Len(a) : c[y] = a[y]
  OBVIOUS
<1>3. \A y \in 1 .. Len(b) : c[Len(a) + y] = b[y]
  OBVIOUS
<1> QED
  BY <1>1, <1>2, <1>3, Zenon DEF Joined

IsPrefixed(a, b) ==
  /\ Len(a) \in Nat /\ Len(b) \in Nat /\ Len(a) <= Len(b)
  /\ \A y \in 1 .. Len(a) : b[y] = a[y]

(* It is a prefix of everything that is glued later.                        *)
LEMMA PrefixesStay ==
  ASSUME NEW T, NEW m \in Nat, NEW parts, AllParts(T, m, parts),
         NEW F, Gluing(m, parts, F), NEW i \in 1 .. m
  PROVE  IsPrefixed(F[i], F[m])
<1> DEFINE Kept(k) == Len(F[i]) <= Len(F[k]) /\ \A y \in 1 .. Len(F[i]) : F[k][y] = F[i][y]
           Bad == {k \in i .. m : ~Kept(k)}
<1>0. /\ \A k \in 1 .. m : F[k] \in Seq(T)
      /\ m # 0 => F[1] = parts[1]
      /\ \A k \in 1 .. m : k # 1 => k - 1 \in 1 .. m /\ F[k] = F[k - 1] \o parts[k]
  <2>1. GluedByStep(T, m, parts, F)
    BY GluedIsSequence, Zenon
  <2> QED
    BY <2>1, Zenon DEF GluedByStep
<1>1. \A k \in 1 .. m : F[k] \in Seq(T) /\ Len(F[k]) \in Nat
  BY <1>0, LenProperties, Zenon
<1>2. Kept(i)
  BY <1>1
<1>3. Bad = {}
  <2> SUFFICES ASSUME Bad # {} PROVE FALSE
    OBVIOUS
  <2>1. PICK k \in Bad : \A l \in Bad : k <= l
    <3>1. i .. m \in SUBSET Nat
      OBVIOUS
    <3>2. Bad \in SUBSET Nat
      BY <3>1, Zenon
    <3> HIDE DEF Bad
    <3> QED
      BY <3>2, LeastNatural, Zenon
  <2>2. k \in i .. m /\ ~Kept(k) /\ k # i
    BY <1>2, <2>1, Zenon
  <2>3. k \in 1 .. m /\ k # 1 /\ k - 1 \in i .. m /\ ~(k <= k - 1)
    BY <2>2
  <2>4. Kept(k - 1)
    BY <2>1, <2>3, Zenon
  <2>5. k - 1 \in 1 .. m /\ F[k] = F[k - 1] \o parts[k]
    BY <1>0, <2>3, Zenon
  <2>6. PICK a, b, c : a = F[k - 1] /\ b = parts[k] /\ c = F[k]
    OBVIOUS
  <2>7. a \in Seq(T) /\ b \in Seq(T) /\ c = a \o b
    BY <1>1, <2>3, <2>5, <2>6, Zenon DEF AllParts
  <2>8. /\ Len(a) \in Nat /\ Len(b) \in Nat /\ Len(c) = Len(a) + Len(b)
        /\ \A y \in 1 .. Len(a) : c[y] = a[y]
    <3>1. Joined(a, b, c)
      BY <2>7, JoinedEntries, Zenon
    <3> QED
      BY <3>1, Zenon DEF Joined
  <2>9. Len(F[i]) <= Len(a) /\ \A y \in 1 .. Len(F[i]) : a[y] = F[i][y]
    BY <2>4, <2>6, Zenon
  <2>10. Len(F[i]) \in Nat
    BY <1>1, Zenon
  <2>11. \A y \in 1 .. Len(F[i]) : y \in 1 .. Len(a)
    BY <2>8, <2>9, <2>10
  <2>12. Len(F[i]) <= Len(c)
    BY <2>8, <2>9, <2>10
  <2>13. \A y \in 1 .. Len(F[i]) : c[y] = F[i][y]
    BY <2>8, <2>9, <2>11, Zenon
  <2> QED
    BY <2>2, <2>6, <2>12, <2>13, Zenon
<1>4. m \in i .. m /\ m \in 1 .. m
  OBVIOUS
<1>5. Kept(m)
  BY <1>3, <1>4, Zenon
<1> QED
  BY <1>1, <1>4, <1>5, Zenon DEF IsPrefixed

(* The part i stands after the first o[i - 1] entries.                      *)
Stands(o, parts, glued, i) ==
  /\ o[i - 1] \in Nat /\ o[i] \in Nat /\ o[i] = o[i - 1] + Len(parts[i]) /\ o[i] <= Len(glued)
  /\ \A x \in 1 .. Len(parts[i]) : glued[o[i - 1] + x] = parts[i][x]

LEMMA PartsStand ==
  ASSUME NEW T, NEW m \in Nat, m # 0, NEW parts, AllParts(T, m, parts),
         NEW F, Gluing(m, parts, F)
  PROVE  \E o : /\ o[0] = 0 /\ o[m] = Len(F[m])
                /\ \A i \in 1 .. m : Stands(o, parts, F[m], i)
<1>3. /\ \A i \in 1 .. m : F[i] \in Seq(T)
      /\ m # 0 => F[1] = parts[1]
      /\ \A i \in 1 .. m : i # 1 => i - 1 \in 1 .. m /\ F[i] = F[i - 1] \o parts[i]
  <2>1. GluedByStep(T, m, parts, F)
    BY GluedIsSequence, Zenon
  <2> QED
    BY <2>1, Zenon DEF GluedByStep
<1> DEFINE o == [i \in 0 .. m |-> IF i = 0 THEN 0 ELSE Len(F[i])]
<1>1. o[0] = 0 /\ o[m] = Len(F[m])
  <2>1. 0 \in 0 .. m /\ m \in 0 .. m
    OBVIOUS
  <2> QED
    BY <2>1, Zenon
<1>2. ASSUME NEW i \in 1 .. m PROVE Stands(o, parts, F[m], i)
  <2>1. PICK c, g, p : c = F[i] /\ g = F[m] /\ p = parts[i]
    OBVIOUS
  <2>2. /\ Len(c) \in Nat /\ Len(g) \in Nat /\ Len(c) <= Len(g)
        /\ \A y \in 1 .. Len(c) : g[y] = c[y]
    <3>1. IsPrefixed(F[i], F[m])
      BY PrefixesStay, Zenon
    <3> QED
      BY <2>1, <3>1, Zenon DEF IsPrefixed
  <2>3. p \in Seq(T) /\ c \in Seq(T)
    BY <1>3, <2>1, Zenon DEF AllParts
  <2>4. Len(p) \in Nat
    BY <2>3, LenProperties, Zenon
  <2>5. i \in 0 .. m /\ i # 0 /\ i - 1 \in 0 .. m
    OBVIOUS
  <2>6. o[i] = Len(c)
    BY <2>1, <2>5, Zenon
  <2>7. PICK q : q = o[i - 1]
    OBVIOUS
  <2>8. /\ q \in Nat /\ Len(c) = q + Len(p)
        /\ \A y \in 1 .. Len(p) : c[q + y] = p[y]
    <3>1. CASE i = 1
      <4>1. c = p
        BY <1>3, <2>1, <3>1, Zenon
      <4>2. i - 1 = 0 /\ q = 0
        BY <1>1, <2>7, <3>1
      <4> QED
        BY <2>4, <4>1, <4>2
    <3>2. CASE i # 1
      <4>1. i - 1 \in 1 .. m /\ c = F[i - 1] \o p
        BY <1>3, <2>1, <3>2, Zenon
      <4>2. PICK a : a = F[i - 1]
        OBVIOUS
      <4>3. a \in Seq(T)
        BY <1>3, <4>1, <4>2, Zenon
      <4>4. i - 1 # 0
        BY <3>2
      <4>5. q = Len(a)
        BY <2>5, <2>7, <4>2, <4>4, Zenon
      <4>6. c = a \o p
        BY <4>1, <4>2, Zenon
      <4> QED
        <5>1. /\ Len(a) \in Nat /\ Len(c) = Len(a) + Len(p)
              /\ \A y \in 1 .. Len(p) : c[Len(a) + y] = p[y]
          <6>1. Joined(a, p, c)
            BY <2>3, <4>3, <4>6, JoinedEntries, Zenon
          <6> QED
            BY <6>1, Zenon DEF Joined
        <5> QED
          BY <4>5, <5>1, Zenon
    <3> QED
      BY <3>1, <3>2, Zenon
  <2>9. \A x \in 1 .. Len(p) : q + x \in 1 .. Len(c)
    BY <2>4, <2>8
  <2>10. \A x \in 1 .. Len(p) : g[q + x] = p[x]
    BY <2>2, <2>8, <2>9, Zenon
  <2> HIDE DEF o
  <2> QED
    BY <2>1, <2>2, <2>6, <2>7, <2>8, <2>10, Zenon DEF Stands
<1> HIDE DEF o
<1> QED
  BY <1>1, <1>2, Zenon

-----------------------------------------------------------------------------
(* A diff is read back hunk by hunk.                                        *)
HeadOf(old, new) == [mark |-> "@@", old |-> old, new |-> new]

Heads     == {HeadOf(a, b) : a \in Sides, b \in Sides}
Openers   == {FileHeader[1], FileHeader[2], FileHeader[3]}
DiffLines == Lines(Marks) \union Heads \union Openers

(* What a diff's lines can be, and what its first three are.                *)
LEMMA DiffLinesHold ==
  /\ \A l \in Lines(Marks) : l \in DiffLines
  /\ \A l \in Heads : l \in DiffLines
  /\ \A l \in Openers : l \in DiffLines
<1>1. PICK A : A = Lines(Marks)
  OBVIOUS
<1>2. DiffLines = A \union Heads \union Openers
  BY <1>1 DEF DiffLines
<1>3. (\A l \in A : l \in DiffLines) /\ (\A l \in Heads : l \in DiffLines)
      /\ (\A l \in Openers : l \in DiffLines)
  BY <1>2
<1> QED
  BY <1>1, <1>3, Zenon

LEMMA HeadIsHeader ==
  ASSUME NEW a, NEW b
  PROVE  IsHeader(HeadOf(a, b)) /\ HeadOf(a, b).old = a /\ HeadOf(a, b).new = b
BY Zenon DEF IsHeader, HeadOf

LEMMA FileHeaderHasNoHunk ==
  \E x, y, z : /\ FileHeader = <<x, y, z>> /\ x \in DiffLines /\ y \in DiffLines /\ z \in DiffLines
               /\ ~IsHeader(x) /\ ~IsHeader(y) /\ ~IsHeader(z)
<1>1. PICK x, y, z : /\ x = [mark |-> "diff", signed |-> FALSE]
                     /\ y = [mark |-> "-", signed |-> TRUE]
                     /\ z = [mark |-> "+", signed |-> TRUE]
  BY Zenon
<1>2. FileHeader = <<x, y, z>>
  BY <1>1, Zenon DEF FileHeader
<1>3. ~IsHeader(x) /\ ~IsHeader(y) /\ ~IsHeader(z)
  <2>1. x.mark = "diff" /\ y.mark = "-" /\ z.mark = "+"
    BY <1>1, Zenon
  <2> QED
    BY <2>1, Zenon DEF IsHeader
<1>4. \A a, b, c : <<a, b, c>>[1] = a /\ <<a, b, c>>[2] = b /\ <<a, b, c>>[3] = c
  OBVIOUS
<1>5. FileHeader[1] = x /\ FileHeader[2] = y /\ FileHeader[3] = z
  BY <1>2, <1>4, Zenon
<1>6. x \in DiffLines /\ y \in DiffLines /\ z \in DiffLines
  <2>1. x \in Openers
    BY <1>5, Zenon DEF Openers
  <2>2. y \in Openers
    BY <1>5, Zenon DEF Openers
  <2>3. z \in Openers
    BY <1>5, Zenon DEF Openers
  <2> QED
    BY <2>1, <2>2, <2>3, DiffLinesHold, Zenon
<1> QED
  BY <1>2, <1>3, <1>6, Zenon

HunkPart(part, hunk) ==
  hunk \in Hunks /\ part = <<HeadOf(hunk.old, hunk.new)>> \o hunk.lines

PartShape(part, hunk) ==
  /\ hunk.old \in Sides /\ hunk.new \in Sides /\ hunk.lines \in Seq(Lines(Marks))
  /\ hunk = HunkOf(hunk.old, hunk.new, hunk.lines)
  /\ part \in Seq(DiffLines) /\ Len(hunk.lines) \in Nat
  /\ Len(part) = 1 + Len(hunk.lines)
  /\ part[1] = HeadOf(hunk.old, hunk.new)
  /\ \A j \in 1 .. Len(hunk.lines) : part[1 + j] = hunk.lines[j]

(* A hunk of a diff is a header and lines.                                  *)
LEMMA PartHasLines ==
  ASSUME NEW part, NEW hunk, HunkPart(part, hunk) PROVE PartShape(part, hunk)
<1>1. PICK V : V = Lines(Marks)
  OBVIOUS
<1>2. hunk \in [old : Sides, new : Sides, lines : Seq(V)]
  BY <1>1, Zenon DEF HunkPart, Hunks
<1>3. /\ hunk.old \in Sides /\ hunk.new \in Sides /\ hunk.lines \in Seq(V)
      /\ hunk = [old |-> hunk.old, new |-> hunk.new, lines |-> hunk.lines]
  BY <1>2
<1>4. PICK x, l, T : x = HeadOf(hunk.old, hunk.new) /\ l = hunk.lines /\ T = DiffLines
  OBVIOUS
<1>5. V \in SUBSET T /\ x \in T
  <2>1. \A v \in V : v \in T
    BY <1>1, <1>4, DiffLinesHold, Zenon
  <2>2. HeadOf(hunk.old, hunk.new) \in Heads
    BY <1>3 DEF Heads
  <2>3. x \in T
    BY <1>4, <2>2, DiffLinesHold, Zenon
  <2> QED
    BY <2>1, <2>3, Zenon
<1>6. l \in Seq(T)
  <2>1. l \in Seq(V)
    BY <1>3, <1>4, Zenon
  <2> QED
    BY <1>5, <2>1
<1>7. part = <<x>> \o l
  BY <1>4, Zenon DEF HunkPart
<1>8. part \in Seq(T)
  BY <1>5, <1>6, <1>7
<1>9. Len(part) = 1 + Len(l) /\ Len(l) \in Nat
  BY <1>5, <1>6, <1>7
<1>10. part[1] = x
  BY <1>5, <1>6, <1>7
<1>11. \A j \in 1 .. Len(l) : part[1 + j] = l[j]
  BY <1>5, <1>6, <1>7
<1> QED
  BY <1>1, <1>3, <1>4, <1>8, <1>9, <1>10, <1>11, Zenon DEF HunkOf, PartShape

PartFollows(n, d, p, part) ==
  p + Len(part) <= n /\ \A x \in 1 .. Len(part) : d[p + x] = part[x]
PartRead(h, p, part, hunk) == h[p + Len(part)] = Append(h[p], hunk)

LEMMA PartIsRead ==
  ASSUME NEW n \in Nat, NEW d, NEW h, ReadsLines(n, d, h),
         NEW p \in Nat, NEW part, NEW hunk, HunkPart(part, hunk),
         PartFollows(n, d, p, part), h[p] \in Seq(Hunks)
  PROVE  PartRead(h, p, part, hunk)
<1>0. p + Len(part) <= n /\ \A x \in 1 .. Len(part) : d[p + x] = part[x]
  BY Zenon DEF PartFollows
<1>1. PICK l, b, u, v : l = hunk.lines /\ b = Len(l) /\ u = hunk.old /\ v = hunk.new
  OBVIOUS
<1>2. /\ u \in Sides /\ v \in Sides /\ l \in Seq(Lines(Marks)) /\ hunk = HunkOf(u, v, l)
      /\ b \in Nat /\ Len(part) = 1 + b /\ part[1] = HeadOf(u, v)
      /\ \A j \in 1 .. b : part[1 + j] = l[j]
  <2>1. /\ hunk.old \in Sides /\ hunk.new \in Sides /\ hunk.lines \in Seq(Lines(Marks))
        /\ hunk = HunkOf(hunk.old, hunk.new, hunk.lines)
        /\ Len(hunk.lines) \in Nat
        /\ Len(part) = 1 + Len(hunk.lines)
        /\ part[1] = HeadOf(hunk.old, hunk.new)
        /\ \A j \in 1 .. Len(hunk.lines) : part[1 + j] = hunk.lines[j]
    <3>1. PartShape(part, hunk)
      BY PartHasLines, Zenon
    <3> QED
      BY <3>1, Zenon DEF PartShape
  <2> QED
    BY <1>1, <2>1, Zenon
<1>3. /\ 1 \in 1 .. Len(part) /\ p + 1 + b <= n /\ p + 1 + b = p + Len(part)
      /\ \A j \in 1 .. b : 1 + j \in 1 .. Len(part) /\ p + (1 + j) = p + 1 + j
  <2>1. b \in Nat /\ Len(part) = 1 + b /\ p + Len(part) <= n
    BY <1>0, <1>2, Zenon
  <2> QED
    BY <2>1
<1>4. d[p + 1] = HeadOf(u, v)
  BY <1>0, <1>2, <1>3, Zenon
<1>5. \A j \in 1 .. b : d[p + 1 + j] = l[j]
  <2>1. ASSUME NEW j \in 1 .. b PROVE d[p + 1 + j] = l[j]
    <3>1. d[p + (1 + j)] = part[1 + j]
      BY <1>0, <1>3, Zenon
    <3> QED
      BY <1>2, <1>3, <3>1, Zenon
  <2> QED
    BY <2>1, Zenon
<1>6. IsHeader(d[p + 1]) /\ d[p + 1].old = u /\ d[p + 1].new = v
  <2>1. IsHeader(HeadOf(u, v)) /\ HeadOf(u, v).old = u /\ HeadOf(u, v).new = v
    BY HeadIsHeader
  <2> QED
    BY <1>4, <2>1, Zenon
<1>7. h[p + 1 + b] = Append(h[p], HunkOf(d[p + 1].old, d[p + 1].new, l))
  <2>1. Follows(n, d, p, l)
    BY <1>1, <1>2, <1>3, <1>5, <1>6, Zenon DEF Follows
  <2>2. IsRead(d, h, p, l)
    BY <2>1, HunkIsRead, Zenon
  <2> QED
    BY <1>1, <2>2, Zenon DEF IsRead
<1> QED
  BY <1>2, <1>3, <1>6, <1>7, Zenon DEF PartRead

HeaderSkipped(n, g, d) ==
  /\ n = 3 + Len(g) /\ DOMAIN d = 1 .. n
  /\ \A y \in 1 .. Len(g) : d[3 + y] = g[y]
  /\ \A h : ReadsLines(n, d, h) => h[3] = <<>>

(* A diff begins with three lines that no hunk is made of.                  *)
LEMMA HeaderIsSkipped ==
  ASSUME NEW g \in Seq(DiffLines), NEW d, d = FileHeader \o g
  PROVE  \E n \in Nat : HeaderSkipped(n, g, d)
<1>1. PICK x, y, z : /\ FileHeader = <<x, y, z>> /\ x \in DiffLines /\ y \in DiffLines
                     /\ z \in DiffLines /\ ~IsHeader(x) /\ ~IsHeader(y) /\ ~IsHeader(z)
  BY FileHeaderHasNoHunk, Zenon
<1>2. PICK T, f : T = DiffLines /\ f = <<x, y, z>>
  OBVIOUS
<1>3. x \in T /\ y \in T /\ z \in T /\ g \in Seq(T) /\ d = f \o g
  BY <1>1, <1>2, Zenon
<1>4. f \in Seq(T) /\ Len(f) = 3 /\ f[1] = x /\ f[2] = y /\ f[3] = z
  BY <1>2, <1>3
<1>5. PICK n \in Nat : n = 3 + Len(g)
  OBVIOUS
<1>6. /\ Len(d) = 3 + Len(g) /\ \A i \in 1 .. 3 : d[i] = f[i]
      /\ \A i \in 1 .. Len(g) : d[3 + i] = g[i]
  <2>1. /\ Len(d) = Len(f) + Len(g) /\ \A i \in 1 .. Len(f) : d[i] = f[i]
        /\ \A i \in 1 .. Len(g) : d[Len(f) + i] = g[i]
    <3>1. Joined(f, g, d)
      BY <1>3, <1>4, JoinedEntries, Zenon
    <3> QED
      BY <3>1, Zenon DEF Joined
  <2> QED
    BY <1>4, <2>1, Zenon
<1>7. DOMAIN d = 1 .. n
  <2>1. d \in Seq(T)
    BY <1>3, <1>4
  <2> QED
    BY <1>5, <1>6, <2>1
<1>8. ASSUME NEW h, ReadsLines(n, d, h) PROVE h[3] = <<>>
  <2>1. h[0] = <<>> /\ \A k \in 1 .. n : h[k] = TakeLine(h[k - 1], d[k])
    BY <1>8, Zenon DEF ReadsLines
  <2>2. 1 \in 1 .. n /\ 2 \in 1 .. n /\ 3 \in 1 .. n
    BY <1>5
  <2>3. 1 \in 1 .. 3 /\ 2 \in 1 .. 3 /\ 3 \in 1 .. 3 /\ 1 - 1 = 0 /\ 2 - 1 = 1 /\ 3 - 1 = 2
    OBVIOUS
  <2>4. d[1] = x /\ d[2] = y /\ d[3] = z
    BY <1>4, <1>6, <2>3, Zenon
  <2>5. /\ TakeLine(<<>>, x) = <<>> /\ TakeLine(<<>>, y) = <<>> /\ TakeLine(<<>>, z) = <<>>
    BY <1>1, OthersAreSkipped, Zenon
  <2>6. h[1] = TakeLine(h[1 - 1], d[1])
    BY <2>1, <2>2, Zenon
  <2>7. h[1] = <<>>
    BY <2>1, <2>3, <2>4, <2>5, <2>6, Zenon
  <2>8. h[2] = TakeLine(h[2 - 1], d[2])
    BY <2>1, <2>2, Zenon
  <2>9. h[2] = <<>>
    BY <2>3, <2>4, <2>5, <2>7, <2>8, Zenon
  <2>10. h[3] = TakeLine(h[3 - 1], d[3])
    BY <2>1, <2>2, Zenon
  <2> QED
    BY <2>3, <2>4, <2>5, <2>9, <2>10, Zenon
<1> QED
  BY <1>5, <1>6, <1>7, <1>8, Zenon DEF HeaderSkipped

Firsts(w, i) == [k \in 1 .. i |-> w[k]]

(* A sequence of i things is one of i - 1 with the last one appended.       *)
LEMMA OneMore ==
  ASSUME NEW S, NEW i \in Nat, i # 0, NEW w, \A k \in 1 .. i : w[k] \in S
  PROVE  /\ Firsts(w, i - 1) \in Seq(S)
         /\ Append(Firsts(w, i - 1), w[i]) = Firsts(w, i)
<1>1. PICK j \in Nat : j = i - 1
  OBVIOUS
<1>2. PICK a, b : a = [k \in 1 .. j |-> w[k]] /\ b = [k \in 1 .. j + 1 |-> w[k]]
  OBVIOUS
<1>3. (\A k \in 1 .. j : w[k] \in S) /\ w[j + 1] \in S /\ (\A k \in 1 .. j + 1 : w[k] \in S)
      /\ j + 1 = i
  BY <1>1
<1>4. a \in Seq(S) /\ Len(a) = j
  BY <1>2, <1>3
<1>5. b \in Seq(S) /\ Len(b) = j + 1
  BY <1>2, <1>3
<1>6. PICK c : c = Append(a, w[j + 1])
  OBVIOUS
<1>7. c \in Seq(S) /\ Len(c) = j + 1
  BY <1>3, <1>4, <1>6
<1>8. \A k \in 1 .. j + 1 : c[k] = b[k]
  BY <1>2, <1>3, <1>4, <1>6
<1>9. \A k \in 1 .. Len(c) : c[k] = b[k]
  BY <1>7, <1>8, Zenon
<1>10. c = b
  BY <1>5, <1>7, <1>9, SeqEqual, Zenon
<1> QED
  BY <1>1, <1>2, <1>3, <1>4, <1>6, <1>10, Zenon DEF Firsts

(* What is read back from a diff is its hunks, all of them and in order.    *)
LEMMA PartsAreRead ==
  ASSUME NEW m \in Nat, m # 0, NEW parts, Len(parts) = m, NEW w,
         \A i \in 1 .. m : HunkPart(parts[i], w[i])
  PROVE  ParsedHunks(FileHeader \o FlattenSeq(parts)) = Firsts(w, m)
<1>1. PICK F : Gluing(m, parts, F) /\ FlattenSeq(parts) = F[m]
  BY FlatIsGlued, Zenon
<1>2. \A i \in 1 .. m : PartShape(parts[i], w[i])
  BY PartHasLines, Zenon
<1>3. AllParts(DiffLines, m, parts)
  BY <1>2, Zenon DEF AllParts, PartShape
<1>4. m \in 1 .. m
  OBVIOUS
<1>5. PICK g, d : g = F[m] /\ d = FileHeader \o g
  OBVIOUS
<1>6. g \in Seq(DiffLines)
  <2>1. GluedByStep(DiffLines, m, parts, F)
    BY <1>1, <1>3, GluedIsSequence, Zenon
  <2> QED
    BY <1>4, <1>5, <2>1, Zenon DEF GluedByStep
<1>a. PICK n \in Nat : HeaderSkipped(n, g, d)
  BY <1>5, <1>6, HeaderIsSkipped, Zenon
<1>7. /\ n = 3 + Len(g) /\ DOMAIN d = 1 .. n
      /\ \A y \in 1 .. Len(g) : d[3 + y] = g[y]
      /\ \A h : ReadsLines(n, d, h) => h[3] = <<>>
  BY <1>a, Zenon DEF HeaderSkipped
<1>8. PICK h : ReadsLines(n, d, h) /\ ParsedHunks(d) = h[n]
  BY <1>7, HunksAreReadLineByLine, Zenon
<1>9. PICK o : o[0] = 0 /\ o[m] = Len(g) /\ \A i \in 1 .. m : Stands(o, parts, g, i)
  BY <1>1, <1>3, <1>5, PartsStand, Zenon
<1>10. Len(g) \in Nat
  BY <1>6, LenProperties, Zenon
<1>11. \A i \in 1 .. m : w[i] \in Hunks
  BY Zenon DEF HunkPart
<1> DEFINE Done(i) == h[3 + o[i]] = Firsts(w, i)
           Bad == {i \in 0 .. m : ~Done(i)}
<1>12. Done(0)
  <2>1. 3 + 0 = 3 /\ 1 .. 0 = {}
    OBVIOUS
  <2>2. Firsts(w, 0) = <<>>
    <3>1. [k \in 1 .. 0 |-> w[k]] = <<>>
      OBVIOUS
    <3> QED
      BY <3>1, Zenon DEF Firsts
  <2> QED
    BY <1>7, <1>8, <1>9, <2>1, <2>2, Zenon
<1>13. ASSUME NEW i \in 1 .. m, Done(i - 1) PROVE Done(i)
  <2>1. i \in Nat /\ i # 0 /\ \A k \in 1 .. i : k \in 1 .. m
    OBVIOUS
  <2>2. \A k \in 1 .. i : w[k] \in Hunks
    BY <1>11, <2>1, Zenon
  <2>3. /\ Firsts(w, i - 1) \in Seq(Hunks)
        /\ Append(Firsts(w, i - 1), w[i]) = Firsts(w, i)
    BY <2>1, <2>2, OneMore, Zenon
  <2>4. PICK q, r, p : q = o[i - 1] /\ r = o[i] /\ p = parts[i]
    OBVIOUS
  <2>5. /\ q \in Nat /\ r \in Nat /\ r = q + Len(p) /\ r <= Len(g)
        /\ \A x \in 1 .. Len(p) : g[q + x] = p[x]
    <3>1. Stands(o, parts, g, i)
      BY <1>9, Zenon
    <3> QED
      BY <2>4, <3>1, Zenon DEF Stands
  <2>6. Len(p) \in Nat
    <3>1. p \in Seq(DiffLines)
      BY <1>3, <2>4, Zenon DEF AllParts
    <3> QED
      BY <3>1, LenProperties, Zenon
  <2>7. /\ 3 + q \in Nat /\ 3 + q + Len(p) <= n /\ 3 + q + Len(p) = 3 + r
        /\ \A x \in 1 .. Len(p) : q + x \in 1 .. Len(g) /\ 3 + (q + x) = 3 + q + x
    <3>1. Len(g) \in Nat /\ n = 3 + Len(g)
      BY <1>7, <1>10, Zenon
    <3> QED
      BY <2>5, <2>6, <3>1
  <2>8. \A x \in 1 .. Len(p) : d[3 + q + x] = p[x]
    <3>1. ASSUME NEW x \in 1 .. Len(p) PROVE d[3 + q + x] = p[x]
      <4>1. d[3 + (q + x)] = g[q + x]
        BY <1>7, <2>7, Zenon
      <4> QED
        BY <2>5, <2>7, <4>1, Zenon
    <3> QED
      BY <3>1, Zenon
  <2>9. h[3 + q] = Firsts(w, i - 1)
    BY <1>13, <2>4, Zenon
  <2>10. HunkPart(p, w[i])
    BY <2>4, Zenon
  <2>11. h[3 + q + Len(p)] = Append(h[3 + q], w[i])
    <3>1. PICK a : a = 3 + q
      OBVIOUS
    <3>2. a \in Nat /\ PartFollows(n, d, a, p) /\ h[a] \in Seq(Hunks)
      BY <2>3, <2>7, <2>8, <2>9, <3>1, Zenon DEF PartFollows
    <3>3. PartRead(h, a, p, w[i])
      BY <1>8, <2>10, <3>2, PartIsRead, Zenon
    <3> QED
      BY <3>1, <3>3, Zenon DEF PartRead
  <2> QED
    BY <2>3, <2>4, <2>7, <2>9, <2>11, Zenon
<1>14. Bad = {}
  <2> SUFFICES ASSUME Bad # {} PROVE FALSE
    OBVIOUS
  <2>1. PICK i \in Bad : \A k \in Bad : i <= k
    <3>1. 0 .. m \in SUBSET Nat
      OBVIOUS
    <3>2. Bad \in SUBSET Nat
      BY <3>1, Zenon
    <3> HIDE DEF Bad
    <3> QED
      BY <3>2, LeastNatural, Zenon
  <2>2. i \in 0 .. m /\ ~Done(i) /\ i # 0
    BY <1>12, <2>1, Zenon
  <2>3. i \in 1 .. m /\ i - 1 \in 0 .. m /\ ~(i <= i - 1)
    BY <2>2
  <2>4. Done(i - 1)
    BY <2>1, <2>3, Zenon
  <2> HIDE DEF Done
  <2> QED
    BY <1>13, <2>2, <2>3, <2>4, Zenon
<1>15. Done(m)
  <2>1. m \in 0 .. m
    OBVIOUS
  <2> QED
    BY <1>14, <2>1, Zenon
<1> QED
  BY <1>1, <1>5, <1>7, <1>8, <1>9, <1>15, Zenon

-----------------------------------------------------------------------------
(* The hunks of a script, and that these are what is parsed.                *)
OldMarks == {" ", "-"}
NewMarks == {" ", "+"}

LinesBefore(i, c) == SubSeq(script, 1, FirstLine(i, c) - 1)
Body(i, c)   == SubSeq(script, FirstLine(i, c), LastLine(i, c))
OldSide(i, c) == Side(Count(LinesBefore(i, c), OldMarks) + 1, Count(Body(i, c), OldMarks))
NewSide(i, c) == Side(Count(LinesBefore(i, c), NewMarks) + 1, Count(Body(i, c), NewMarks))
HunkAt(i, c)  == HunkOf(OldSide(i, c), NewSide(i, c), Body(i, c))

IsScript == script \in Seq(Lines(Marks))

LEMMA ScriptHasLines ==
  ASSUME IsScript
  PROVE  \E n \in Nat : n = Len(script) /\ DOMAIN script = 1 .. n
BY Zenon, LenProperties DEF IsScript

LEMMA CountIsNatural ==
  ASSUME NEW V, NEW s \in Seq(V), NEW M PROVE Count(s, M) \in Nat
<1>1. Len(s) \in Nat /\ DOMAIN s = 1 .. Len(s)
  BY LenProperties, Zenon
<1>2. IsFiniteSet(1 .. Len(s))
  BY <1>1, FS_Interval
<1>3. {i \in DOMAIN s : s[i].mark \in M} \in SUBSET (1 .. Len(s))
  BY <1>1, Zenon
<1> QED
  BY <1>2, <1>3, FS_Subset, FS_CardinalityType, Zenon DEF Count

LEMMA SideIsSide ==
  ASSUME NEW a \in Nat, NEW b \in Nat PROVE Side(a + 1, b) \in Sides
<1>1. a + 1 \in Nat /\ a + 1 - 1 \in Nat
  OBVIOUS
<1> QED
  BY <1>1 DEF Side, Sides

LEMMA SlicesAreSequences ==
  ASSUME NEW V, NEW s \in Seq(V), NEW a \in Nat, NEW b \in Nat, a >= 1, b <= Len(s)
  PROVE  /\ SubSeq(s, a, b) \in Seq(V) /\ (a <= b + 1 => Len(SubSeq(s, a, b)) = b + 1 - a)
         /\ \A j \in 1 .. b + 1 - a : SubSeq(s, a, b)[j] = s[a - 1 + j]
<1>1. PICK n \in Nat : n = Len(s)
  OBVIOUS
<1>2. \A i \in 1 .. n : s[i] \in V
  BY <1>1, ElementOfSeq, Zenon
<1>3. SubSeq(s, a, b) \in Seq(V)
  BY <1>1, <1>2
<1>4. a <= b + 1 => Len(SubSeq(s, a, b)) = b + 1 - a
  BY <1>1, <1>2
<1>5. \A j \in 1 .. b + 1 - a : SubSeq(s, a, b)[j] = s[a - 1 + j]
  BY <1>1, <1>2
<1> QED
  BY <1>3, <1>4, <1>5, Zenon

(* What git writes for a hunk is such a part.                               *)
LEMMA HunkIsPart ==
  ASSUME IsScript, NEW c \in Nat, NEW i \in HunkStarts(c)
  PROVE  HunkPart(GitHunk(i, c), HunkAt(i, c))
<1>1. PICK n \in Nat : n = Len(script) /\ DOMAIN script = 1 .. n
  BY ScriptHasLines, Zenon
<1>2. PICK a, b : a = FirstLine(i, c) /\ b = LastLine(i, c)
  OBVIOUS
<1>3. /\ i \in 1 .. n /\ HunkEnd(i, c) \in i .. n
      /\ FirstLine(i, c) \in 1 .. i /\ LastLine(i, c) \in HunkEnd(i, c) .. n
  BY <1>1, HunkLines, Zenon
<1>4. /\ a \in Nat /\ b \in Nat /\ a - 1 \in Nat /\ 1 <= a /\ b <= n
      /\ a - 1 <= n /\ 1 \in Nat /\ 1 >= 1
      /\ a >= 1
  <2>1. PICK e : e = HunkEnd(i, c)
    OBVIOUS
  <2>2. i \in 1 .. n /\ e \in i .. n /\ a \in 1 .. i /\ b \in e .. n
    BY <1>2, <1>3, <2>1, Zenon
  <2> QED
    BY <2>2
<1>5. PICK V : V = Lines(Marks) /\ script \in Seq(V)
  BY Zenon DEF IsScript
<1>6. SubSeq(script, 1, a - 1) \in Seq(V) /\ SubSeq(script, a, b) \in Seq(V)
  BY <1>1, <1>4, <1>5, SlicesAreSequences, Zenon
<1>7. LinesBefore(i, c) \in Seq(V) /\ Body(i, c) \in Seq(V)
  BY <1>2, <1>6, Zenon DEF LinesBefore, Body
<1>8. OldSide(i, c) \in Sides /\ NewSide(i, c) \in Sides
  <2>1. \A M : Count(LinesBefore(i, c), M) \in Nat /\ Count(Body(i, c), M) \in Nat
    BY <1>7, CountIsNatural, Zenon
  <2> QED
    BY <2>1, SideIsSide, Zenon DEF OldSide, NewSide
<1>9. PICK u, v, l : u = OldSide(i, c) /\ v = NewSide(i, c) /\ l = Body(i, c)
  OBVIOUS
<1>10. HunkAt(i, c) = [old |-> u, new |-> v, lines |-> l]
  BY <1>9, Zenon DEF HunkAt, HunkOf
<1>11. HunkAt(i, c) \in Hunks
  <2>1. [old |-> u, new |-> v, lines |-> l] \in [old : Sides, new : Sides, lines : Seq(V)]
    BY <1>7, <1>8, <1>9
  <2> QED
    BY <1>5, <1>10, <2>1, Zenon DEF Hunks
<1>12. HunkAt(i, c).old = u /\ HunkAt(i, c).new = v /\ HunkAt(i, c).lines = l
  BY <1>10
<1>13. GitHunk(i, c) = <<HeadOf(u, v)>> \o l
  BY <1>9, Zenon DEF GitHunk, HeadOf, OldSide, NewSide, Body, LinesBefore, FirstLine, LastLine,
                     OldMarks, NewMarks
<1> QED
  BY <1>11, <1>12, <1>13, Zenon DEF HunkPart

(* What is parsed: the hunks of the starts s[1], s[2] and so on.            *)
IsParsed(c, m, s, w) ==
  /\ m \in Nat /\ Parsed(c) = Firsts(w, m)
  /\ \A k \in 1 .. m : s[k] \in HunkStarts(c) /\ w[k] = HunkAt(s[k], c)
  /\ \A i \in HunkStarts(c) : \E k \in 1 .. m : s[k] = i
  /\ \A k, l \in 1 .. m : k < l => s[k] < s[l]

(* Of any script and context, the hunks parsed are the hunks of its starts. *)
LEMMA DiffsAreParsed ==
  ASSUME IsScript, NEW c \in Nat PROVE \E m, s, w : IsParsed(c, m, s, w)
<1>1. PICK n \in Nat : n = Len(script) /\ DOMAIN script = 1 .. n
  BY ScriptHasLines, Zenon
<1>2. PICK S : S = HunkStarts(c)
  OBVIOUS
<1>3. S \in SUBSET (1 .. n)
  BY <1>1, <1>2, Zenon DEF HunkStarts, Changes
<1>4. PICK m : /\ m = Cardinality(S) /\ DOMAIN InTurn(S) = 1 .. m
               /\ \A k \in 1 .. m : InTurn(S)[k] \in S
               /\ \A i \in S : \E k \in 1 .. m : InTurn(S)[k] = i
               /\ \A k, l \in 1 .. m : k < l => InTurn(S)[k] < InTurn(S)[l]
  BY <1>3, OrderIsComplete, Zenon
<1>5. PICK s, w, parts : /\ s = InTurn(S) /\ w = [k \in 1 .. m |-> HunkAt(s[k], c)]
                         /\ parts = [k \in 1 .. m |-> GitHunk(s[k], c)]
  OBVIOUS
<1>6. m \in Nat
  BY <1>3, <1>4, RanksDiffer, Zenon
<1>7. GitDiff(c) = IF s = <<>> THEN <<>> ELSE FileHeader \o FlattenSeq(parts)
  BY <1>2, <1>4, <1>5, Zenon DEF GitDiff
<1>8. Parsed(c) = Firsts(w, m)
  <2>1. CASE m = 0
    <3>1. s = <<>>
      <4>1. s = [k \in 1 .. m |-> s[k]]
        BY <1>4, <1>5, Zenon DEF InTurn
      <4> QED
        BY <2>1, <4>1
    <3>2. \E h : ReadsLines(0, <<>>, h) /\ ParsedHunks(<<>>) = h[0]
      <4>1. DOMAIN <<>> = 1 .. 0 /\ 0 \in Nat
        OBVIOUS
      <4> QED
        BY <4>1, HunksAreReadLineByLine, Zenon
    <3>3. Parsed(c) = <<>>
      BY <1>7, <3>1, <3>2, Zenon DEF Parsed, ReadsLines
    <3>4. [k \in 1 .. 0 |-> w[k]] = <<>>
      OBVIOUS
    <3> QED
      BY <2>1, <3>3, <3>4, Zenon DEF Firsts
  <2>2. CASE m # 0
    <3>1. s # <<>>
      <4>1. 1 \in DOMAIN s /\ DOMAIN <<>> = {}
        BY <1>4, <1>5, <1>6, <2>2
      <4> QED
        BY <4>1, Zenon
    <3>2. Len(parts) = m
      BY <1>5, <1>6
    <3>3. \A k \in 1 .. m : HunkPart(parts[k], w[k])
      <4>1. ASSUME NEW k \in 1 .. m PROVE HunkPart(parts[k], w[k])
        <5>1. s[k] \in HunkStarts(c)
          BY <1>2, <1>4, <1>5, Zenon
        <5>2. HunkPart(GitHunk(s[k], c), HunkAt(s[k], c))
          BY <5>1, HunkIsPart, Zenon
        <5> QED
          BY <1>5, <5>2, Zenon
      <4> QED
        BY <4>1, Zenon
    <3>4. ParsedHunks(FileHeader \o FlattenSeq(parts)) = Firsts(w, m)
      BY <1>6, <2>2, <3>2, <3>3, PartsAreRead, Zenon
    <3> QED
      BY <1>7, <3>1, <3>4, Zenon DEF Parsed
  <2> QED
    BY <2>1, <2>2
<1>9. \A k \in 1 .. m : s[k] \in HunkStarts(c) /\ w[k] = HunkAt(s[k], c)
  BY <1>2, <1>4, <1>5, Zenon
<1>10. \A i \in HunkStarts(c) : \E k \in 1 .. m : s[k] = i
  BY <1>2, <1>4, <1>5, Zenon
<1>11. \A k, l \in 1 .. m : k < l => s[k] < s[l]
  BY <1>4, <1>5, Zenon
<1> QED
  BY <1>6, <1>8, <1>9, <1>10, <1>11, Zenon DEF IsParsed

-----------------------------------------------------------------------------
(* Counting the lines of a part of a script.                                *)
LEMMA SameCount ==
  ASSUME NEW S, NEW T, IsFiniteSet(S), NEW f,
         f \in [S -> T], \A x, y \in S : f[x] = f[y] => x = y,
         \A z \in T : \E x \in S : f[x] = z
  PROVE  IsFiniteSet(T) /\ Cardinality(T) = Cardinality(S)
<1>1. DOMAIN f = S
  BY Zenon
<1>2. IsInjective(f)
  BY <1>1, Zenon DEF IsInjective
<1>3. f \in Injection(S, T)
  BY <1>2, Zenon DEF Injection
<1>4. f \in Surjection(S, T)
  BY Zenon DEF Surjection
<1>5. Bijection(S, T) # {}
  BY <1>3, <1>4, Zenon DEF Bijection
<1> QED
  BY <1>5, FS_Bijection, Zenon DEF ExistsBijection

Within(S, a, b) == {j \in 1 .. b : a + j \in S}
Beyond(S, a, b) == {p \in S : a < p /\ p <= a + b}

(* The rank of a line is that of an earlier one and what is between them.   *)
LEMMA RanksAdd ==
  ASSUME NEW n \in Nat, NEW S \in SUBSET (1 .. n), NEW a \in Nat, NEW b \in Nat
  PROVE  /\ IsFiniteSet(Within(S, a, b)) /\ Cardinality(Within(S, a, b)) \in Nat
         /\ Rank(S, a) \in Nat
         /\ Rank(S, a + b) = Rank(S, a) + Cardinality(Within(S, a, b))
         /\ IsFiniteSet(Beyond(S, a, b))
         /\ Cardinality(Beyond(S, a, b)) = Cardinality(Within(S, a, b))
<1> DEFINE A == {p \in S : p <= a}
           B == {p \in S : a < p /\ p <= a + b}
           C == {p \in S : p <= a + b}
           J == Within(S, a, b)
<1>1. IsFiniteSet(S)
  BY RanksDiffer, Zenon
<1>2. A \in SUBSET S /\ B \in SUBSET S
  BY Zenon
<1>3. A \union B = C /\ A \intersect B = {}
  <2>1. \A p \in S : (p <= a \/ (a < p /\ p <= a + b)) <=> p <= a + b
    OBVIOUS
  <2>2. \A p \in S : ~(p <= a /\ a < p)
    OBVIOUS
  <2> QED
    BY <2>1, <2>2, Zenon
<1>4. IsFiniteSet(J)
  <2>1. J \in SUBSET (1 .. b)
    BY Zenon DEF Within
  <2>2. IsFiniteSet(1 .. b)
    BY FS_Interval
  <2> QED
    BY <2>1, <2>2, FS_Subset, Zenon
<1>5. IsFiniteSet(B) /\ Cardinality(B) = Cardinality(J)
  <2> DEFINE f == [j \in J |-> a + j]
  <2>1. \A j \in J : j \in 1 .. b /\ a + j \in S
    BY Zenon DEF Within
  <2>2. \A j \in J : a + j \in B
    BY <2>1
  <2>3. f \in [J -> B]
    BY <2>2, Zenon
  <2>4. \A x, y \in J : a + x = a + y => x = y
    BY <2>1
  <2>5. \A x, y \in J : f[x] = f[y] => x = y
    BY <2>4, Zenon
  <2>6. \A z \in B : z - a \in J /\ a + (z - a) = z
    <3>1. ASSUME NEW z \in B PROVE z - a \in J /\ a + (z - a) = z
      <4>1. z \in S /\ z \in Nat /\ a < z /\ z <= a + b
        BY <3>1
      <4>2. z - a \in 1 .. b /\ a + (z - a) = z
        BY <4>1
      <4> QED
        BY <4>1, <4>2, Zenon DEF Within
    <3> QED
      BY <3>1, Zenon
  <2>7. \A z \in B : \E x \in J : f[x] = z
    BY <2>6, Zenon
  <2> HIDE DEF f, J, B
  <2> QED
    BY <1>4, <2>3, <2>5, <2>7, SameCount, Zenon
<1>6. IsFiniteSet(A)
  BY <1>1, <1>2, FS_Subset, Zenon
<1> HIDE DEF A, B, C, J
<1>7. Cardinality(A) \in Nat /\ Cardinality(B) \in Nat /\ Cardinality({}) = 0
  BY <1>5, <1>6, FS_CardinalityType, FS_EmptySet, Zenon
<1>8. Cardinality(A \union B) = Cardinality(A) + Cardinality(B) - Cardinality(A \intersect B)
  BY <1>5, <1>6, FS_Union, Zenon
<1>9. Cardinality(C) = Cardinality(A) + Cardinality(B) - 0
  BY <1>3, <1>7, <1>8, Zenon
<1>10. Cardinality(C) = Cardinality(A) + Cardinality(B)
  BY <1>7, <1>9
<1>11. Rank(S, a) = Cardinality(A) /\ Rank(S, a + b) = Cardinality(C)
  BY Zenon DEF Rank, A, C
<1> QED
  BY <1>4, <1>5, <1>7, <1>10, <1>11, Zenon DEF J, B, Beyond

IsSlice(s, t, a, b) == DOMAIN t = 1 .. b /\ \A j \in 1 .. b : t[j] = s[a + j]

LEMMA SliceEntries ==
  ASSUME NEW V, NEW s \in Seq(V), NEW a \in Nat, NEW b \in Nat, a + b <= Len(s),
         NEW t, t = SubSeq(s, a + 1, a + b)
  PROVE  IsSlice(s, t, a, b)
<1>1. PICK n \in Nat : n = Len(s)
  OBVIOUS
<1>2. \A i \in 1 .. n : s[i] \in V
  BY <1>1, ElementOfSeq, Zenon
<1>3. t \in Seq(V)
  BY <1>1, <1>2
<1>4. Len(t) = b
  BY <1>1, <1>2
<1>5. \A j \in 1 .. b : t[j] = s[a + j]
  BY <1>1, <1>2
<1> QED
  BY <1>3, <1>4, <1>5, LenProperties, Zenon DEF IsSlice

Marked(M) == {p \in DOMAIN script : script[p].mark \in M}

(* Lines counted before a hunk and in it are ranks of the script's lines.   *)
LEMMA CountIsRank ==
  ASSUME IsScript, NEW a \in Nat, a <= Len(script), NEW M
  PROVE  Count(SubSeq(script, 1, a), M) = Rank(Marked(M), a)
<1>1. PICK n \in Nat : n = Len(script) /\ DOMAIN script = 1 .. n
  BY ScriptHasLines, Zenon
<1>2. PICK V, s : V = Lines(Marks) /\ s = SubSeq(script, 1, a) /\ script \in Seq(V)
  BY Zenon DEF IsScript
<1>3. /\ 0 \in Nat /\ 0 + a <= Len(script) /\ 0 + 1 = 1 /\ 0 + a = a
      /\ \A j \in 1 .. a : 0 + j = j
  BY <1>1
<1>4. IsSlice(script, s, 0, a)
  BY <1>2, <1>3, SliceEntries, Zenon
<1>5. DOMAIN s = 1 .. a /\ \A j \in 1 .. a : s[j] = script[j]
  BY <1>3, <1>4, Zenon DEF IsSlice
<1>6. \A j : j \in 1 .. a <=> j \in 1 .. n /\ j <= a
  BY <1>1
<1>7. {i \in DOMAIN s : s[i].mark \in M} = {j \in Marked(M) : j <= a}
  <2>1. \A j : (j \in DOMAIN s /\ s[j].mark \in M) <=> (j \in Marked(M) /\ j <= a)
    <3>1. \A j : j \in Marked(M) <=> (j \in 1 .. n /\ script[j].mark \in M)
      BY <1>1, Zenon DEF Marked
    <3> QED
      BY <1>5, <1>6, <3>1, Zenon
  <2> QED
    BY <2>1, Zenon
<1> QED
  BY <1>2, <1>7, Zenon DEF Count, Rank

LEMMA CountOfSlice ==
  ASSUME IsScript, NEW a \in Nat, NEW b \in Nat, a + b <= Len(script), NEW M
  PROVE  Count(SubSeq(script, a + 1, a + b), M) = Cardinality(Within(Marked(M), a, b))
<1>1. PICK n \in Nat : n = Len(script) /\ DOMAIN script = 1 .. n
  BY ScriptHasLines, Zenon
<1>2. PICK V, s : V = Lines(Marks) /\ s = SubSeq(script, a + 1, a + b) /\ script \in Seq(V)
  BY Zenon DEF IsScript
<1>3. \A j \in 1 .. b : a + j \in 1 .. n
  BY <1>1
<1>4. IsSlice(script, s, a, b)
  BY <1>2, SliceEntries, Zenon
<1>5. DOMAIN s = 1 .. b /\ \A j \in 1 .. b : s[j] = script[a + j]
  BY <1>4, Zenon DEF IsSlice
<1>6. {i \in DOMAIN s : s[i].mark \in M} = {j \in 1 .. b : a + j \in Marked(M)}
  BY <1>1, <1>3, <1>5, Zenon DEF Marked
<1> QED
  BY <1>2, <1>6, Zenon DEF Count, Within

-----------------------------------------------------------------------------
(* The numbers of the added lines of a hunk.                                *)
IsPlus(l)  == l.mark = "+"
IsMinus(l) == l.mark = "-"

(* Without lines like a file's header, + and context take up a new line.    *)
LEMMA LinesCount ==
  ASSUME Unsigned, NEW p \in DOMAIN script
  PROVE  /\ Counts(script[p])
         /\ Occupies(script[p]) <=> p \in Marked(NewMarks)
         /\ IsPlus(script[p]) => p \in Marked(NewMarks)
<1>1. Counts(script[p])
  BY Zenon DEF Unsigned, Counts
<1>2. Occupies(script[p]) <=> script[p].mark \in NewMarks
  BY <1>1, Zenon DEF Occupies, NewMarks
<1>3. IsPlus(script[p]) => script[p].mark \in NewMarks
  BY Zenon DEF IsPlus, NewMarks
<1> QED
  BY <1>1, <1>2, <1>3, Zenon DEF Marked

LEMMA NewLineIsRank ==
  ASSUME IsScript, NEW p \in DOMAIN script
  PROVE  NewLine(p) = Rank(Marked(NewMarks), p - 1) + 1
<1>1. PICK n \in Nat : n = Len(script) /\ DOMAIN script = 1 .. n
  BY ScriptHasLines, Zenon
<1>2. p - 1 \in Nat /\ p - 1 <= n
  BY <1>1
<1>3. Count(SubSeq(script, 1, p - 1), NewMarks) = Rank(Marked(NewMarks), p - 1)
  BY <1>1, <1>2, CountIsRank, Zenon
<1> QED
  BY <1>3, Zenon DEF NewLine, NewMarks

Numbered(hunk, k) == hunk.new.start + Cardinality({j \in 1 .. k - 1 : Occupies(hunk.lines[j])})

LEMMA NumbersAreOf ==
  ASSUME NEW hunk
  PROVE  /\ \A k \in DOMAIN hunk.lines : IsPlus(hunk.lines[k]) /\ Counts(hunk.lines[k])
              => Numbered(hunk, k) \in AddedLineNumbers(hunk)
         /\ \A x \in AddedLineNumbers(hunk) : \E k \in DOMAIN hunk.lines :
              IsPlus(hunk.lines[k]) /\ Counts(hunk.lines[k]) /\ x = Numbered(hunk, k)
BY Zenon DEF AddedLineNumbers, IsPlus, Numbered

(* What a hunk says of the lines after the first a, up to a + b.            *)
Numbers(hunk, a, b) ==
  AddedLineNumbers(hunk) = {NewLine(p) : p \in {q \in a + 1 .. a + b : IsPlus(script[q])}}

StartsAt(hunk, a, b) ==
  /\ IsSlice(script, hunk.lines, a, b)
  /\ \A j \in 1 .. b : IsPlus(script[a + j])
       => hunk.new.start = Rank(Marked(NewMarks), a) + 1

(* A hunk that starts at the right line numbers its added lines right.      *)
LEMMA LinesAreNumbered ==
  ASSUME IsScript, Unsigned, NEW a \in Nat, NEW b \in Nat, a + b <= Len(script),
         NEW hunk, StartsAt(hunk, a, b)
  PROVE  Numbers(hunk, a, b)
<1>1. PICK n \in Nat : n = Len(script) /\ DOMAIN script = 1 .. n
  BY ScriptHasLines, Zenon
<1>2. PICK l, first, N : l = hunk.lines /\ first = hunk.new.start /\ N = Marked(NewMarks)
  OBVIOUS
<1>3. DOMAIN l = 1 .. b /\ \A j \in 1 .. b : l[j] = script[a + j]
  BY <1>2, Zenon DEF StartsAt, IsSlice
<1>4. \A j \in 1 .. b : a + j \in 1 .. n /\ a + j \in a + 1 .. a + b
  BY <1>1
<1>5. \A j \in 1 .. b : Counts(l[j]) /\ (Occupies(l[j]) <=> a + j \in N)
  <2>1. ASSUME NEW j \in 1 .. b PROVE Counts(l[j]) /\ (Occupies(l[j]) <=> a + j \in N)
    <3>1. a + j \in DOMAIN script
      BY <1>1, <1>4, Zenon
    <3>2. /\ Counts(script[a + j])
          /\ Occupies(script[a + j]) <=> a + j \in Marked(NewMarks)
      BY <3>1, LinesCount, Zenon
    <3> QED
      BY <1>2, <1>3, <3>2, Zenon
  <2> QED
    BY <2>1, Zenon
<1>6. N \in SUBSET (1 .. n)
  BY <1>1, <1>2, Zenon DEF Marked
<1>7. ASSUME NEW k \in 1 .. b, IsPlus(l[k]) PROVE Numbered(hunk, k) = NewLine(a + k)
  <2>1. k - 1 \in Nat /\ a + (k - 1) = a + k - 1 /\ \A j \in 1 .. k - 1 : j \in 1 .. b
    OBVIOUS
  <2>2. {j \in 1 .. k - 1 : Occupies(l[j])} = Within(N, a, k - 1)
    BY <1>5, <2>1, Zenon DEF Within
  <2>3. /\ Cardinality(Within(N, a, k - 1)) \in Nat /\ Rank(N, a) \in Nat
        /\ Rank(N, a + (k - 1)) = Rank(N, a) + Cardinality(Within(N, a, k - 1))
    BY <1>6, <2>1, RanksAdd, Zenon
  <2>4. first = Rank(N, a) + 1
    BY <1>2, <1>3, <1>7, Zenon DEF StartsAt
  <2>5. a + k \in DOMAIN script
    BY <1>1, <1>4, Zenon
  <2>6. NewLine(a + k) = Rank(N, a + k - 1) + 1
    <3>1. PICK p \in DOMAIN script : p = a + k
      BY <2>5, Zenon
    <3>2. NewLine(p) = Rank(Marked(NewMarks), p - 1) + 1
      BY NewLineIsRank, Zenon
    <3>3. p - 1 = a + k - 1
      BY <3>1
    <3> QED
      BY <1>2, <3>1, <3>2, <3>3, Zenon
  <2>7. Numbered(hunk, k) = first + Cardinality(Within(N, a, k - 1))
    BY <1>2, <2>2, Zenon DEF Numbered
  <2>8. Rank(N, a + k - 1) = Rank(N, a) + Cardinality(Within(N, a, k - 1))
    BY <2>1, <2>3, Zenon
  <2>9. PICK r, s, t : r = Rank(N, a) /\ s = Cardinality(Within(N, a, k - 1))
                       /\ t = Rank(N, a + k - 1)
    OBVIOUS
  <2>10. r \in Nat /\ s \in Nat /\ t = r + s
    BY <2>3, <2>8, <2>9, Zenon
  <2>11. r + 1 + s = t + 1
    BY <2>10
  <2> QED
    BY <2>4, <2>6, <2>7, <2>9, <2>11, Zenon
<1> DEFINE P == {q \in a + 1 .. a + b : IsPlus(script[q])}
<1>8. ASSUME NEW x \in AddedLineNumbers(hunk) PROVE \E p \in P : x = NewLine(p)
  <2>1. PICK k \in DOMAIN hunk.lines : IsPlus(hunk.lines[k]) /\ x = Numbered(hunk, k)
    BY <1>8, NumbersAreOf, Zenon
  <2>2. k \in 1 .. b /\ IsPlus(l[k])
    BY <1>2, <1>3, <2>1, Zenon
  <2>3. a + k \in P
    BY <1>3, <1>4, <2>2, Zenon
  <2> QED
    BY <1>7, <2>1, <2>2, <2>3, Zenon
<1>9. ASSUME NEW p \in P PROVE NewLine(p) \in AddedLineNumbers(hunk)
  <2>1. PICK k : k = p - a
    OBVIOUS
  <2>2. k \in 1 .. b /\ a + k = p
    BY <2>1
  <2>3. IsPlus(l[k])
    BY <1>3, <2>2, Zenon
  <2>4. k \in DOMAIN hunk.lines /\ IsPlus(hunk.lines[k]) /\ Counts(hunk.lines[k])
    BY <1>2, <1>3, <1>5, <2>2, <2>3, Zenon
  <2>5. Numbered(hunk, k) \in AddedLineNumbers(hunk)
    BY <2>4, NumbersAreOf, Zenon
  <2> QED
    BY <1>7, <2>2, <2>3, <2>5, Zenon
<1>10. AddedLineNumbers(hunk) = {NewLine(p) : p \in P}
  <2> HIDE DEF P
  <2> QED
    BY <1>8, <1>9, Zenon
<1> QED
  BY <1>10, Zenon DEF Numbers

(* Git's hunks start at the right line, also when a side of them is empty.  *)
NewSideOf(a, b) ==
  Side(Rank(Marked(NewMarks), a) + 1, Cardinality(Within(Marked(NewMarks), a, b)))

LEMMA HunkStartsAt ==
  ASSUME IsScript, NEW c \in Nat, NEW i \in HunkStarts(c)
  PROVE  \E a, b \in Nat : /\ a + b <= Len(script) /\ StartsAt(HunkAt(i, c), a, b)
                           /\ a + 1 = FirstLine(i, c) /\ a + b = LastLine(i, c)
                           /\ HunkAt(i, c).new = NewSideOf(a, b)
<1>1. PICK n \in Nat : n = Len(script) /\ DOMAIN script = 1 .. n
  BY ScriptHasLines, Zenon
<1>2. PICK f, g, e : f = FirstLine(i, c) /\ g = LastLine(i, c) /\ e = HunkEnd(i, c)
  OBVIOUS
<1>3. i \in 1 .. n /\ e \in i .. n /\ f \in 1 .. i /\ g \in e .. n
  <2>1. /\ i \in 1 .. n /\ HunkEnd(i, c) \in i .. n
        /\ FirstLine(i, c) \in 1 .. i /\ LastLine(i, c) \in HunkEnd(i, c) .. n
    BY <1>1, HunkLines, Zenon
  <2> QED
    BY <1>2, <2>1, Zenon
<1>4. PICK a, b \in Nat : a = f - 1 /\ b = g - a
  <2>1. f - 1 \in Nat /\ g - (f - 1) \in Nat
    BY <1>3
  <2> QED
    BY <2>1, Zenon
<1>5. a + 1 = f /\ a + b = g /\ a + b <= n /\ a <= n /\ a = f - 1
  BY <1>3, <1>4
<1>6. PICK hunk, N : hunk = HunkAt(i, c) /\ N = Marked(NewMarks)
  OBVIOUS
<1>7. hunk.lines = Body(i, c) /\ hunk.new = NewSide(i, c)
  BY <1>6 DEF HunkAt, HunkOf
<1>8. Body(i, c) = SubSeq(script, a + 1, a + b) /\ LinesBefore(i, c) = SubSeq(script, 1, a)
  BY <1>2, <1>5, Zenon DEF Body, LinesBefore
<1>9. IsSlice(script, hunk.lines, a, b)
  <2>1. PICK V, t : V = Lines(Marks) /\ t = SubSeq(script, a + 1, a + b) /\ script \in Seq(V)
    BY Zenon DEF IsScript
  <2>2. IsSlice(script, t, a, b)
    BY <1>1, <1>5, <2>1, SliceEntries, Zenon
  <2> QED
    BY <1>7, <1>8, <2>1, <2>2, Zenon
<1>10. Count(LinesBefore(i, c), NewMarks) = Rank(N, a)
  <2>1. Count(SubSeq(script, 1, a), NewMarks) = Rank(Marked(NewMarks), a)
    BY <1>1, <1>5, CountIsRank, Zenon
  <2> QED
    BY <1>6, <1>8, <2>1, Zenon
<1>11. Count(Body(i, c), NewMarks) = Cardinality(Within(N, a, b))
  <2>1. Count(SubSeq(script, a + 1, a + b), NewMarks) = Cardinality(Within(Marked(NewMarks), a, b))
    BY <1>1, <1>5, CountOfSlice, Zenon
  <2> QED
    BY <1>6, <1>8, <2>1, Zenon
<1>r. NewSide(i, c) = Side(Rank(N, a) + 1, Cardinality(Within(N, a, b)))
  BY <1>10, <1>11, Zenon DEF NewSide
<1>12. ASSUME NEW j \in 1 .. b, IsPlus(script[a + j]) PROVE hunk.new.start = Rank(N, a) + 1
  <2>1. a + j \in DOMAIN script
    BY <1>1, <1>5
  <2>2. a + j \in N
    BY <1>6, <1>12, <2>1, Zenon DEF IsPlus, NewMarks, Marked
  <2>3. j \in Within(N, a, b)
    BY <2>2, Zenon DEF Within
  <2>4. N \in SUBSET (1 .. n)
    BY <1>1, <1>6, Zenon DEF Marked
  <2>5. IsFiniteSet(Within(N, a, b))
    BY <2>4, RanksAdd, Zenon
  <2>6. Cardinality(Within(N, a, b)) # 0
    BY <2>3, <2>5, FS_EmptySet, Zenon
  <2>8. \A r, s : s # 0 => Side(r, s).start = r
    BY DEF Side
  <2>9. Side(Rank(N, a) + 1, Cardinality(Within(N, a, b))).start = Rank(N, a) + 1
    BY <2>6, <2>8, Zenon
  <2> QED
    BY <1>7, <1>r, <2>9, Zenon
<1>13. StartsAt(HunkAt(i, c), a, b)
  BY <1>6, <1>9, <1>12, Zenon DEF StartsAt
<1>14. HunkAt(i, c).new = NewSideOf(a, b)
  BY <1>6, <1>7, <1>r, Zenon DEF NewSideOf
<1> QED
  BY <1>1, <1>2, <1>5, <1>13, <1>14, Zenon

LEMMA AddedIsNumbered ==
  /\ \A p \in DOMAIN script : IsPlus(script[p]) => NewLine(p) \in Added
  /\ \A x \in Added : \E p \in DOMAIN script : IsPlus(script[p]) /\ x = NewLine(p)
BY Zenon DEF Added, IsPlus

LEMMA PlusIsChange ==
  ASSUME NEW p \in DOMAIN script, IsPlus(script[p]) \/ IsMinus(script[p]) PROVE p \in Changes
BY Zenon DEF Changes, IsPlus, IsMinus

LEMMA AddedOfHunk ==
  ASSUME IsScript, Unsigned, NEW c \in Nat, NEW i \in HunkStarts(c)
  PROVE  AddedLineNumbers(HunkAt(i, c))
           = {NewLine(p) : p \in {q \in FirstLine(i, c) .. LastLine(i, c) : IsPlus(script[q])}}
<1>1. PICK a \in Nat, b \in Nat :
        /\ a + b <= Len(script) /\ StartsAt(HunkAt(i, c), a, b)
        /\ a + 1 = FirstLine(i, c) /\ a + b = LastLine(i, c)
  BY HunkStartsAt, Zenon
<1>2. Numbers(HunkAt(i, c), a, b)
  BY <1>1, LinesAreNumbered, Zenon
<1> QED
  BY <1>1, <1>2, Zenon DEF Numbers

(* Every added line is in a hunk, which gives it its number.                *)
LEMMA HunksNumberTheAdded ==
  ASSUME IsScript, Unsigned, NEW c \in Nat, NEW m, NEW s, NEW w, IsParsed(c, m, s, w)
  PROVE  UNION {AddedLineNumbers(Parsed(c)[k]) : k \in DOMAIN Parsed(c)} = Added
<1>1. PICK n \in Nat : n = Len(script) /\ DOMAIN script = 1 .. n
  BY ScriptHasLines, Zenon
<1>2. /\ Parsed(c) = [k \in 1 .. m |-> w[k]]
      /\ \A k \in 1 .. m : s[k] \in HunkStarts(c) /\ w[k] = HunkAt(s[k], c)
      /\ \A i \in HunkStarts(c) : \E k \in 1 .. m : s[k] = i
  BY Zenon DEF IsParsed, Firsts
<1>3. PICK hunks : hunks = Parsed(c)
  OBVIOUS
<1>4. DOMAIN hunks = 1 .. m /\ \A k \in 1 .. m : hunks[k] = HunkAt(s[k], c)
  BY <1>2, <1>3, Zenon
<1>5. \A i \in HunkStarts(c) :
        AddedLineNumbers(HunkAt(i, c))
          = {NewLine(p) : p \in {q \in FirstLine(i, c) .. LastLine(i, c) : IsPlus(script[q])}}
  BY AddedOfHunk, Zenon
<1>6. ASSUME NEW k \in DOMAIN hunks, NEW x \in AddedLineNumbers(hunks[k]) PROVE x \in Added
  <2>1. s[k] \in HunkStarts(c) /\ x \in AddedLineNumbers(HunkAt(s[k], c))
    BY <1>2, <1>4, <1>6, Zenon
  <2>2. PICK i \in HunkStarts(c) : i = s[k]
    BY <2>1, Zenon
  <2>3. x \in AddedLineNumbers(HunkAt(i, c))
    BY <2>1, <2>2, Zenon
  <2>4. PICK p \in FirstLine(i, c) .. LastLine(i, c) : IsPlus(script[p]) /\ x = NewLine(p)
    BY <1>5, <2>3, Zenon
  <2>5. p \in DOMAIN script
    <3>1. PICK f, g, e : f = FirstLine(i, c) /\ g = LastLine(i, c) /\ e = HunkEnd(i, c)
      OBVIOUS
    <3>2. i \in 1 .. n /\ e \in i .. n /\ f \in 1 .. i /\ g \in e .. n
      <4>1. /\ i \in 1 .. n /\ HunkEnd(i, c) \in i .. n
            /\ FirstLine(i, c) \in 1 .. i /\ LastLine(i, c) \in HunkEnd(i, c) .. n
        BY <1>1, HunkLines, Zenon
      <4> QED
        BY <3>1, <4>1, Zenon
    <3>3. p \in f .. g
      BY <3>1, Zenon
    <3> QED
      BY <1>1, <3>2, <3>3
  <2> QED
    BY <2>4, <2>5, AddedIsNumbered, Zenon
<1>7. ASSUME NEW x \in Added PROVE \E k \in DOMAIN hunks : x \in AddedLineNumbers(hunks[k])
  <2>1. PICK p \in DOMAIN script : IsPlus(script[p]) /\ x = NewLine(p)
    BY AddedIsNumbered, Zenon
  <2>2. p \in Changes
    BY <2>1, PlusIsChange, Zenon
  <2>3. PICK i \in HunkStarts(c) : p \in FirstLine(i, c) .. LastLine(i, c)
    BY <1>1, <2>2, ChangesAreInHunks, Zenon
  <2>4. x \in AddedLineNumbers(HunkAt(i, c))
    BY <1>5, <2>1, <2>3, Zenon
  <2>5. PICK k \in 1 .. m : s[k] = i
    BY <1>2, Zenon
  <2> QED
    BY <1>4, <2>4, <2>5, Zenon
<1>8. UNION {AddedLineNumbers(hunks[k]) : k \in DOMAIN hunks} = Added
  <2>1. \A x : x \in UNION {AddedLineNumbers(hunks[k]) : k \in DOMAIN hunks}
                 <=> \E k \in DOMAIN hunks : x \in AddedLineNumbers(hunks[k])
    BY Zenon
  <2>2. \A x : x \in UNION {AddedLineNumbers(hunks[k]) : k \in DOMAIN hunks} <=> x \in Added
    BY <1>6, <1>7, <2>1, Zenon
  <2> QED
    BY <2>2, Zenon
<1> QED
  BY <1>3, <1>8, Zenon

(* A file that git does not know is numbered from its first line.           *)
LEMMA UntrackedIsNumbered ==
  ASSUME IsScript, Unsigned PROVE AddedLineNumbers(UntrackedHunk(script)) = Added
<1>1. PICK n \in Nat : n = Len(script) /\ DOMAIN script = 1 .. n
  BY ScriptHasLines, Zenon
<1>2. PICK hunk, N : hunk = UntrackedHunk(script) /\ N = Marked(NewMarks)
  OBVIOUS
<1>3. hunk.lines = script /\ hunk.new.start = 1
  BY <1>2 DEF UntrackedHunk
<1>4. 0 \in Nat /\ 0 + n <= Len(script) /\ 0 + 1 = 1 /\ 0 + n = n /\ \A j \in 1 .. n : 0 + j = j
  BY <1>1
<1>5. Rank(N, 0) + 1 = 1
  <2>1. N \in SUBSET (1 .. n)
    BY <1>1, <1>2, Zenon DEF Marked
  <2>2. \A j \in 1 .. n : ~(j <= 0)
    OBVIOUS
  <2>3. {j \in N : j <= 0} = {}
    BY <2>1, <2>2, Zenon
  <2>4. Rank(N, 0) = 0
    BY <2>3, FS_EmptySet, Zenon DEF Rank
  <2> QED
    BY <2>4
<1>6. StartsAt(hunk, 0, n)
  <2>1. IsSlice(script, hunk.lines, 0, n)
    BY <1>1, <1>3, <1>4, Zenon DEF IsSlice
  <2> QED
    BY <1>2, <1>3, <1>5, <2>1, Zenon DEF StartsAt
<1>7. Numbers(hunk, 0, n)
  BY <1>4, <1>6, LinesAreNumbered, Zenon
<1>8. AddedLineNumbers(hunk) = {NewLine(p) : p \in {q \in 1 .. n : IsPlus(script[q])}}
  BY <1>4, <1>7, Zenon DEF Numbers
<1>9. {NewLine(p) : p \in {q \in 1 .. n : IsPlus(script[q])}} = Added
  BY <1>1, Zenon DEF Added, IsPlus
<1> QED
  BY <1>2, <1>8, <1>9, Zenon

-----------------------------------------------------------------------------
(* Adding up what the hunks remove.                                         *)
Together(R, t) == UNION {R[k] : k \in t}

(* A sum of the sizes of sets that are apart is the size of their union.    *)
LEMMA SumOfApart ==
  ASSUME NEW S, IsFiniteSet(S), NEW w, NEW R,
         \A k \in S : IsFiniteSet(R[k]) /\ w[k] = Cardinality(R[k]),
         \A k, l \in S : k # l => R[k] \intersect R[l] = {},
         NEW sum, Summed(w, S, sum)
  PROVE  sum[S] = Cardinality(Together(R, S))
<1> DEFINE Fine(t) == IsFiniteSet(Together(R, t)) /\ sum[t] = Cardinality(Together(R, t))
           Bad == {n \in Nat : \E t \in SUBSET S : Cardinality(t) = n /\ ~Fine(t)}
<1>1. \A t \in SUBSET S : IsFiniteSet(t) /\ Cardinality(t) \in Nat
  BY FS_Subset, FS_CardinalityType, Zenon
<1>2. \A t \in SUBSET S : sum[t] = SumOf(w, sum, t)
  BY Zenon DEF Summed
<1>3. Fine({})
  <2>1. Together(R, {}) = {}
    BY DEF Together
  <2>2. sum[{}] = 0
    BY <1>2, Zenon DEF SumOf
  <2> QED
    BY <2>1, <2>2, FS_EmptySet, Zenon
<1>4. ASSUME NEW t \in SUBSET S, NEW x \in t, x = Pick(t), Fine(t \ {x}) PROVE Fine(t)
  <2>1. PICK A, B : A = R[x] /\ B = Together(R, t \ {x})
    OBVIOUS
  <2>2. Together(R, t) = A \union B
    BY <2>1 DEF Together
  <2>3. A \intersect B = {}
    <3>1. ASSUME NEW z \in A, z \in B PROVE FALSE
      <4>1. PICK k \in t \ {x} : z \in R[k]
        BY <2>1, <3>1 DEF Together
      <4>2. k \in S /\ x \in S /\ k # x
        BY <4>1, Zenon
      <4> QED
        BY <2>1, <3>1, <4>1, <4>2, Zenon
    <3> QED
      BY <3>1, Zenon
  <2>4. IsFiniteSet(A) /\ IsFiniteSet(B) /\ w[x] = Cardinality(A) /\ sum[t \ {x}] = Cardinality(B)
    <3>1. x \in S
      BY Zenon
    <3> QED
      BY <1>4, <2>1, <3>1, Zenon
  <2>5. /\ IsFiniteSet(A \union B)
        /\ Cardinality(A \union B) = Cardinality(A) + Cardinality(B) - Cardinality(A \intersect B)
    BY <2>4, FS_Union, Zenon
  <2>6. Cardinality(A) \in Nat /\ Cardinality(B) \in Nat /\ Cardinality({}) = 0
    BY <2>4, FS_CardinalityType, FS_EmptySet, Zenon
  <2>7. Cardinality(A \union B) = Cardinality(A) + Cardinality(B)
    <3>1. Cardinality(A \union B) = Cardinality(A) + Cardinality(B) - 0
      BY <2>3, <2>5, <2>6, Zenon
    <3> QED
      BY <2>6, <3>1
  <2>8. t # {}
    BY Zenon
  <2>9. sum[t] = w[x] + sum[t \ {x}]
    BY <1>2, <1>4, <2>8, Zenon DEF SumOf
  <2> QED
    BY <2>2, <2>4, <2>5, <2>7, <2>9, Zenon
<1>5. Bad = {}
  <2> SUFFICES ASSUME Bad # {} PROVE FALSE
    OBVIOUS
  <2>1. PICK n \in Bad : \A k \in Bad : n <= k
    <3>1. Bad \in SUBSET Nat
      BY Zenon
    <3> HIDE DEF Bad
    <3> QED
      BY <3>1, LeastNatural, Zenon
  <2>2. PICK t \in SUBSET S : Cardinality(t) = n /\ ~Fine(t)
    BY <2>1, Zenon
  <2>3. t # {}
    BY <1>3, <2>2, Zenon
  <2>4. PICK x \in t : x = Pick(t)
    BY <2>3, Zenon DEF Pick
  <2>5. Cardinality(t \ {x}) = n - 1
    BY <1>1, <2>2, <2>4, FS_RemoveElement, Zenon
  <2>6. n \in Nat /\ t \ {x} \in SUBSET S
    BY <2>1, Zenon
  <2>7. Cardinality(t \ {x}) \in Nat
    BY <1>1, <2>6, Zenon
  <2>8. n - 1 \in Nat /\ ~(n <= n - 1)
    BY <2>5, <2>6, <2>7
  <2>9. Fine(t \ {x})
    BY <2>1, <2>5, <2>6, <2>8, Zenon
  <2> HIDE DEF Fine
  <2> QED
    BY <1>4, <2>2, <2>4, <2>9, Zenon
<1>6. S \in SUBSET S
  OBVIOUS
<1>7. Fine(S)
  BY <1>1, <1>5, <1>6, Zenon
<1> QED
  BY <1>7, Zenon

RemovedOf(hunks) == MapThenSumSet(LAMBDA i : RemovedLineCount(hunks[i]), DOMAIN hunks)

(* The removed lines of hunks are such a sum, taken by a fold.              *)
LEMMA RemovedIsSum ==
  ASSUME NEW hunks, IsFiniteSet(DOMAIN hunks)
  PROVE  \E sum, w : /\ w = [i \in DOMAIN hunks |-> RemovedLineCount(hunks[i])]
                     /\ Summed(w, DOMAIN hunks, sum) /\ RemovedOf(hunks) = sum[DOMAIN hunks]
<1>1. PICK S, w : S = DOMAIN hunks /\ w = [i \in S |-> RemovedLineCount(hunks[i])]
  OBVIOUS
<1> DEFINE Sums(f) == f = [s \in SUBSET S |-> IF s = {} THEN 0
                              ELSE RemovedLineCount(hunks[Pick(s)]) + f[s \ {Pick(s)}]]
<1>2. \A f : Sums(f) <=> Summed(w, S, f)
  <2>1. \A s \in SUBSET S : s # {} => Pick(s) \in S
    BY Zenon DEF Pick
  <2>2. \A s \in SUBSET S : s # {} => w[Pick(s)] = RemovedLineCount(hunks[Pick(s)])
    BY <1>1, <2>1, Zenon
  <2>3. ASSUME NEW f
        PROVE  [s \in SUBSET S |-> IF s = {} THEN 0
                   ELSE RemovedLineCount(hunks[Pick(s)]) + f[s \ {Pick(s)}]]
                 = [s \in SUBSET S |-> SumOf(w, f, s)]
    <3>1. \A s \in SUBSET S :
            SumOf(w, f, s) = IF s = {} THEN 0
                             ELSE RemovedLineCount(hunks[Pick(s)]) + f[s \ {Pick(s)}]
      BY <2>2, Zenon DEF SumOf
    <3> QED
      BY <3>1, Zenon
  <2> QED
    BY <2>3, Zenon DEF Summed
<1> DEFINE it == CHOOSE f : Sums(f)
<1>3. \E f : Sums(f)
  <2>1. \E f : Summed(w, S, f)
    BY <1>1, SumsAreFunctions, Zenon
  <2> HIDE DEF Sums
  <2> QED
    BY <1>2, <2>1, Zenon
<1>4. Sums(it)
  BY <1>3, Zenon
<1>5. RemovedOf(hunks) = it[S]
  BY <1>1, Zenon DEF RemovedOf, MapThenSumSet, MapThenFoldSet, Pick
<1> HIDE DEF it, Sums
<1> QED
  BY <1>1, <1>2, <1>4, <1>5, Zenon

LEMMA RemovedLines ==
  ASSUME Unsigned
  PROVE  /\ \A p \in DOMAIN script :
              (script[p].mark = "-" /\ Counts(script[p])) <=> p \in Removed
         /\ Removed \subseteq DOMAIN script
         /\ \A p \in Removed : IsMinus(script[p])
<1>1. \A p \in DOMAIN script : Counts(script[p])
  BY LinesCount, Zenon
<1> QED
  BY <1>1, Zenon DEF Removed, IsMinus

(* A hunk counts the removed lines between its ends.                        *)
LEMMA HunkCountsRemoved ==
  ASSUME IsScript, Unsigned, NEW a \in Nat, NEW b \in Nat, a + b <= Len(script),
         NEW hunk, StartsAt(hunk, a, b)
  PROVE  /\ IsFiniteSet(Beyond(Removed, a, b))
         /\ RemovedLineCount(hunk) = Cardinality(Beyond(Removed, a, b))
<1>1. PICK n \in Nat : n = Len(script) /\ DOMAIN script = 1 .. n
  BY ScriptHasLines, Zenon
<1>2. DOMAIN hunk.lines = 1 .. b /\ \A j \in 1 .. b : hunk.lines[j] = script[a + j]
  BY Zenon DEF StartsAt, IsSlice
<1>3. \A j \in 1 .. b : a + j \in DOMAIN script
  BY <1>1
<1>4. \A j \in 1 .. b : (hunk.lines[j].mark = "-" /\ Counts(hunk.lines[j])) <=> a + j \in Removed
  BY <1>2, <1>3, RemovedLines, Zenon
<1>5. {j \in DOMAIN hunk.lines : hunk.lines[j].mark = "-" /\ Counts(hunk.lines[j])}
        = Within(Removed, a, b)
  BY <1>2, <1>4, Zenon DEF Within
<1>6. Removed \in SUBSET (1 .. n)
  BY <1>1, RemovedLines, Zenon
<1>7. /\ IsFiniteSet(Beyond(Removed, a, b))
      /\ Cardinality(Beyond(Removed, a, b)) = Cardinality(Within(Removed, a, b))
  BY <1>6, RanksAdd, Zenon
<1> QED
  BY <1>5, <1>7, Zenon DEF RemovedLineCount

(* Hunks together count the removed lines that are in one of them.          *)
RemovedIn(c, m, s) ==
  {p \in Removed : \E k \in 1 .. m : p \in FirstLine(s[k], c) .. LastLine(s[k], c)}

IsHunks(c, m, s, hunks) ==
  /\ DOMAIN hunks = 1 .. m
  /\ \A k \in 1 .. m : s[k] \in HunkStarts(c) /\ hunks[k] = HunkAt(s[k], c)
  /\ \A k, l \in 1 .. m : k < l => s[k] < s[l]

LEMMA HunksCount ==
  ASSUME IsScript, Unsigned, NEW c \in Nat, NEW m \in Nat, NEW s, NEW hunks,
         IsHunks(c, m, s, hunks)
  PROVE  RemovedOf(hunks) = Cardinality(RemovedIn(c, m, s))
<1>1. PICK n \in Nat : n = Len(script) /\ DOMAIN script = 1 .. n
  BY ScriptHasLines, Zenon
<1>2. PICK S : S = 1 .. m
  OBVIOUS
<1>3. \A k, l \in 1 .. m : k < l => s[k] < s[l]
  BY Zenon DEF IsHunks
<1>4. DOMAIN hunks = S /\ \A k \in S : s[k] \in HunkStarts(c) /\ hunks[k] = HunkAt(s[k], c)
  BY <1>2, Zenon DEF IsHunks
<1>5. IsFiniteSet(S)
  BY <1>2, FS_Interval
<1> DEFINE Part(i) == {p \in Removed : p \in FirstLine(i, c) .. LastLine(i, c)}
<1>6. ASSUME NEW i \in HunkStarts(c)
      PROVE  /\ IsFiniteSet(Part(i))
             /\ RemovedLineCount(HunkAt(i, c)) = Cardinality(Part(i))
  <2>1. PICK a \in Nat, b \in Nat :
          /\ a + b <= Len(script) /\ StartsAt(HunkAt(i, c), a, b)
          /\ a + 1 = FirstLine(i, c) /\ a + b = LastLine(i, c)
    BY HunkStartsAt, Zenon
  <2>2. /\ IsFiniteSet(Beyond(Removed, a, b))
        /\ RemovedLineCount(HunkAt(i, c)) = Cardinality(Beyond(Removed, a, b))
    BY <2>1, HunkCountsRemoved, Zenon
  <2>3. \A p \in Removed : p \in 1 .. n
    BY <1>1, RemovedLines, Zenon
  <2>4. \A p \in 1 .. n : p \in a + 1 .. a + b <=> (a < p /\ p <= a + b)
    OBVIOUS
  <2>5. Beyond(Removed, a, b) = Part(i)
    BY <2>1, <2>3, <2>4, Zenon DEF Beyond
  <2> QED
    BY <2>2, <2>5, Zenon
<1>7. ASSUME NEW i \in HunkStarts(c), NEW j \in HunkStarts(c), i < j
      PROVE  Part(i) \intersect Part(j) = {}
  <2>1. PICK a, b, d, e : /\ a = FirstLine(i, c) /\ b = LastLine(i, c)
                          /\ d = FirstLine(j, c) /\ e = LastLine(j, c)
    OBVIOUS
  <2>2. b < d
    BY <1>1, <1>7, <2>1, HunksAreApart, Zenon
  <2>3. b \in Nat /\ d \in Nat
    <3>1. PICK f, g : f = HunkEnd(i, c) /\ g = HunkEnd(j, c)
      OBVIOUS
    <3>2. /\ i \in 1 .. n /\ HunkEnd(i, c) \in i .. n /\ LastLine(i, c) \in HunkEnd(i, c) .. n
      BY <1>1, HunkLines, Zenon
    <3>3. j \in 1 .. n /\ FirstLine(j, c) \in 1 .. j
      BY <1>1, HunkLines, Zenon
    <3>4. i \in 1 .. n /\ f \in i .. n /\ b \in f .. n /\ j \in 1 .. n /\ d \in 1 .. j
      BY <2>1, <3>1, <3>2, <3>3, Zenon
    <3> QED
      BY <3>4
  <2>4. \A p \in 1 .. n : ~(p \in a .. b /\ p \in d .. e)
    BY <2>2, <2>3
  <2>5. \A p \in Removed : p \in 1 .. n
    BY <1>1, RemovedLines, Zenon
  <2> QED
    BY <2>1, <2>4, <2>5, Zenon
<1> HIDE DEF Part
<1>8. PICK R : R = [k \in S |-> Part(s[k])]
  OBVIOUS
<1>9. \A k \in S : s[k] \in HunkStarts(c) /\ R[k] = Part(s[k])
  BY <1>4, <1>8, Zenon
<1>10. PICK sum, v : /\ v = [i \in S |-> RemovedLineCount(hunks[i])]
                     /\ Summed(v, S, sum) /\ RemovedOf(hunks) = sum[S]
  BY <1>4, <1>5, RemovedIsSum, Zenon
<1>11. \A k \in S : IsFiniteSet(R[k]) /\ v[k] = Cardinality(R[k])
  BY <1>4, <1>6, <1>9, <1>10, Zenon
<1>12. \A k, l \in S : k # l => R[k] \intersect R[l] = {}
  <2>1. ASSUME NEW k \in S, NEW l \in S, k < l PROVE R[k] \intersect R[l] = {}
    <3>1. PICK i \in HunkStarts(c), j \in HunkStarts(c) : i = s[k] /\ j = s[l]
      BY <1>9, Zenon
    <3>2. i < j
      BY <1>2, <1>3, <2>1, <3>1, Zenon
    <3>3. Part(i) \intersect Part(j) = {}
      BY <1>7, <3>2, Zenon
    <3> QED
      BY <1>9, <3>1, <3>3, Zenon
  <2>2. \A k, l \in S : k # l => k < l \/ l < k
    BY <1>2
  <2>3. \A A, B : A \intersect B = {} => B \intersect A = {}
    OBVIOUS
  <2> QED
    BY <2>1, <2>2, <2>3, Zenon
<1>13. sum[S] = Cardinality(Together(R, S))
  BY <1>5, <1>10, <1>11, <1>12, SumOfApart, Zenon
<1>14. Together(R, S) = RemovedIn(c, m, s)
  <2>1. \A p : p \in Together(R, S) <=> \E k \in S : p \in R[k]
    BY Zenon DEF Together
  <2>2. \A p : p \in RemovedIn(c, m, s) <=> \E k \in S : p \in R[k]
    BY <1>2, <1>9, Zenon DEF RemovedIn, Part
  <2> QED
    BY <2>1, <2>2, Zenon
<1> QED
  BY <1>10, <1>13, <1>14, Zenon

(* The hunks of a diff count every removed line once.                       *)
LEMMA HunksCountTheRemoved ==
  ASSUME IsScript, Unsigned, NEW c \in Nat, NEW m, NEW s, NEW w, IsParsed(c, m, s, w)
  PROVE  RemovedOf(Parsed(c)) = Cardinality(Removed)
<1>1. PICK n \in Nat : n = Len(script) /\ DOMAIN script = 1 .. n
  BY ScriptHasLines, Zenon
<1>2. m \in Nat /\ IsHunks(c, m, s, Parsed(c))
  BY Zenon DEF IsParsed, IsHunks, Firsts
<1>3. RemovedOf(Parsed(c)) = Cardinality(RemovedIn(c, m, s))
  BY <1>2, HunksCount, Zenon
<1>4. ASSUME NEW p \in Removed
      PROVE  \E k \in 1 .. m : p \in FirstLine(s[k], c) .. LastLine(s[k], c)
  <2>1. p \in DOMAIN script /\ IsMinus(script[p])
    BY RemovedLines, Zenon
  <2>2. p \in Changes
    BY <2>1, PlusIsChange, Zenon
  <2>3. PICK i \in HunkStarts(c) : p \in FirstLine(i, c) .. LastLine(i, c)
    BY <1>1, <2>2, ChangesAreInHunks, Zenon
  <2> QED
    BY <2>3, Zenon DEF IsParsed
<1>5. RemovedIn(c, m, s) = Removed
  BY <1>4, Zenon DEF RemovedIn
<1> QED
  BY <1>3, <1>5, Zenon

-----------------------------------------------------------------------------
(* So the property holds of any sequence of lines.                          *)
LEMMA NumbersOfScripts ==
  ASSUME IsScript PROVE NumbersAreExact
<1> SUFFICES ASSUME Unsigned
             PROVE  /\ \A context \in Contexts :
                         LET hunks == Parsed(context)
                         IN /\ UNION {AddedLineNumbers(hunks[i]) : i \in DOMAIN hunks} = Added
                            /\ RemovedOf(hunks) = Cardinality(Removed)
                    /\ AddedLineNumbers(UntrackedHunk(script)) = Added
  BY Zenon DEF NumbersAreExact, RemovedOf
<1>1. ASSUME NEW c \in Contexts
      PROVE  /\ UNION {AddedLineNumbers(Parsed(c)[i]) : i \in DOMAIN Parsed(c)} = Added
             /\ RemovedOf(Parsed(c)) = Cardinality(Removed)
  <2>1. c \in Nat
    BY <1>1, ChangeAssumption DEF Contexts
  <2>2. PICK m, s, w : IsParsed(c, m, s, w)
    BY <2>1, DiffsAreParsed, Zenon
  <2> QED
    BY <2>1, <2>2, HunksNumberTheAdded, HunksCountTheRemoved, Zenon
<1>2. AddedLineNumbers(UntrackedHunk(script)) = Added
  BY UntrackedIsNumbered, Zenon
<1> QED
  BY <1>1, <1>2, Zenon

LEMMA ScriptsAreLines == ChangeSpec => []IsScript
<1>1. ChangeInit => IsScript
  <2>1. \A V : <<>> \in Seq(V)
    OBVIOUS
  <2> QED
    BY <2>1, Zenon DEF ChangeInit, IsScript
<1>2. IsScript /\ [ChangeNext]_changeVars => IsScript'
  <2> SUFFICES ASSUME IsScript, [ChangeNext]_changeVars PROVE IsScript'
    OBVIOUS
  <2>1. CASE ChangeNext
    <3>1. PICK l \in Lines(Marks) : script' = Append(script, l)
      BY <2>1, Zenon DEF ChangeNext
    <3>2. PICK V : V = Lines(Marks)
      OBVIOUS
    <3>3. script \in Seq(V) /\ l \in V
      BY <3>1, <3>2, Zenon DEF IsScript
    <3>4. script' \in Seq(V)
      BY <3>1, <3>3
    <3> QED
      BY <3>2, <3>4, Zenon DEF IsScript
  <2>2. CASE UNCHANGED changeVars
    BY <2>2, Zenon DEF changeVars, IsScript
  <2> QED
    BY <2>1, <2>2, Zenon
<1> QED
  BY <1>1, <1>2, PTL DEF ChangeSpec

(* Whatever was added to and removed from a file, and whatever the context:  *)
(* the numbers read back from the hunks of its diff are those of the added   *)
(* lines, and every removed line is counted once, unless a changed line      *)
(* begins like a file's header.                                             *)
THEOREM LineNumbersAreExact == ChangeSpec => []NumbersAreExact
<1>1. IsScript => NumbersAreExact
  BY NumbersOfScripts, Zenon
<1> QED
  BY <1>1, ScriptsAreLines, PTL

-----------------------------------------------------------------------------
(* The lines that a hunk covers.                                            *)
RankAddsUp(S, a, b) ==
  /\ Cardinality(Within(S, a, b)) \in Nat /\ Rank(S, a) \in Nat
  /\ Rank(S, a + b) = Rank(S, a) + Cardinality(Within(S, a, b))
  /\ IsFiniteSet(Within(S, a, b))

LEMMA RanksAddUp ==
  ASSUME NEW n \in Nat, NEW S \in SUBSET (1 .. n), NEW a \in Nat, NEW b \in Nat
  PROVE  RankAddsUp(S, a, b)
BY RanksAdd, Zenon DEF RankAddsUp

LEMMA RanksAscend ==
  ASSUME NEW n \in Nat, NEW S \in SUBSET (1 .. n), NEW a \in Nat, NEW b \in Nat,
         NEW p \in a + 1 .. a + b
  PROVE  /\ Rank(S, a) \in Nat /\ Rank(S, p - 1) \in Nat /\ Rank(S, a + b) \in Nat
         /\ Rank(S, a) <= Rank(S, p - 1) /\ Rank(S, p - 1) <= Rank(S, a + b)
         /\ p \in S => Rank(S, p - 1) < Rank(S, a + b)
<1>1. PICK q \in Nat, d \in Nat, e \in Nat, z \in Nat :
        q = p - 1 /\ q = a + d /\ z = a + b /\ z = q + e /\ q + 1 = p /\ 1 \in 1 .. e
  <2>1. p - 1 \in Nat /\ p - 1 - a \in Nat /\ a + b - (p - 1) \in Nat /\ a + b \in Nat
        /\ p - 1 = a + (p - 1 - a) /\ a + b = (p - 1) + (a + b - (p - 1))
        /\ (p - 1) + 1 = p /\ 1 \in 1 .. (a + b - (p - 1))
    OBVIOUS
  <2> QED
    BY <2>1, Zenon
<1>r. RankAddsUp(S, a, d) /\ RankAddsUp(S, q, e)
  BY RanksAddUp, Zenon
<1>2. /\ IsFiniteSet(Within(S, a, d)) /\ Cardinality(Within(S, a, d)) \in Nat
      /\ Rank(S, a) \in Nat
      /\ Rank(S, a + d) = Rank(S, a) + Cardinality(Within(S, a, d))
  BY <1>r, Zenon DEF RankAddsUp
<1>3. /\ IsFiniteSet(Within(S, q, e)) /\ Cardinality(Within(S, q, e)) \in Nat
      /\ Rank(S, q) \in Nat
      /\ Rank(S, q + e) = Rank(S, q) + Cardinality(Within(S, q, e))
  BY <1>r, Zenon DEF RankAddsUp
<1>4. p \in S => Cardinality(Within(S, q, e)) # 0
  <2>1. p \in S => 1 \in Within(S, q, e)
    BY <1>1, Zenon DEF Within
  <2> QED
    BY <1>3, <2>1, FS_EmptySet, Zenon
<1>5. PICK ra, rq, rz, x, y :
        /\ ra = Rank(S, a) /\ rq = Rank(S, q) /\ rz = Rank(S, z)
        /\ x = Cardinality(Within(S, a, d)) /\ y = Cardinality(Within(S, q, e))
  OBVIOUS
<1>6. /\ ra \in Nat /\ rq \in Nat /\ x \in Nat /\ y \in Nat /\ rq = ra + x /\ rz = rq + y
      /\ p \in S => y # 0
  BY <1>1, <1>2, <1>3, <1>4, <1>5, Zenon
<1>7. rz \in Nat /\ ra <= rq /\ rq <= rz /\ (p \in S => rq < rz)
  BY <1>6
<1> QED
  BY <1>1, <1>5, <1>6, <1>7, Zenon

LEMMA LinesAreRanked ==
  ASSUME IsScript, NEW n \in Nat, n = Len(script)
  PROVE  LinesOfFile = Rank(Marked(NewMarks), n)
<1>1. script \in Seq(Lines(Marks))
  BY Zenon DEF IsScript
<1>2. SubSeq(script, 1, Len(script)) = script
  BY <1>1, PrefixesGrow, Zenon
<1>3. n <= Len(script)
  OBVIOUS
<1>4. Count(SubSeq(script, 1, n), NewMarks) = Rank(Marked(NewMarks), n)
  BY <1>3, CountIsRank, Zenon
<1> QED
  BY <1>2, <1>4, Zenon DEF LinesOfFile, NewMarks

(* A hunk covers k lines of the new text after the first r.                  *)
Covered(hunk, r, k) == hunk.new = Side(r + 1, k)

CoversLine(hunk, p) ==
  \E r, k \in Nat :
    /\ Covered(hunk, r, k) /\ r + k <= LinesOfFile /\ LinesOfFile \in Nat
    /\ NewLine(p) \in r + 1 .. r + k + 1
    /\ IsPlus(script[p]) => NewLine(p) <= r + k

LEMMA HunkCovers ==
  ASSUME IsScript, NEW c \in Nat, NEW i \in HunkStarts(c),
         NEW p \in FirstLine(i, c) .. LastLine(i, c)
  PROVE  p \in DOMAIN script /\ CoversLine(HunkAt(i, c), p)
<1>1. PICK n \in Nat : n = Len(script) /\ DOMAIN script = 1 .. n
  BY ScriptHasLines, Zenon
<1>2. PICK a \in Nat, b \in Nat :
        /\ a + b <= Len(script) /\ a + 1 = FirstLine(i, c) /\ a + b = LastLine(i, c)
        /\ HunkAt(i, c).new = NewSideOf(a, b)
  BY HunkStartsAt, Zenon
<1>3. PICK N : N = Marked(NewMarks)
  OBVIOUS
<1>4. p \in a + 1 .. a + b
  BY <1>2, Zenon
<1>5. N \in SUBSET (1 .. n) /\ p \in 1 .. n
  <2>1. N \in SUBSET (1 .. n)
    BY <1>1, <1>3, Zenon DEF Marked
  <2> QED
    BY <1>1, <1>2, <1>4, <2>1
<1>6. /\ Rank(N, a) \in Nat /\ Rank(N, p - 1) \in Nat /\ Rank(N, a + b) \in Nat
      /\ Rank(N, a) <= Rank(N, p - 1) /\ Rank(N, p - 1) <= Rank(N, a + b)
      /\ p \in N => Rank(N, p - 1) < Rank(N, a + b)
  BY <1>4, <1>5, RanksAscend, Zenon
<1>7. /\ Cardinality(Within(N, a, b)) \in Nat
      /\ Rank(N, a + b) = Rank(N, a) + Cardinality(Within(N, a, b))
  BY <1>5, RanksAdd, Zenon
<1>8. Rank(N, a + b) <= LinesOfFile /\ LinesOfFile \in Nat
  <2>1. PICK z \in Nat, d \in Nat : z = a + b /\ n = z + d
    <3>1. a + b \in Nat /\ n - (a + b) \in Nat /\ n = (a + b) + (n - (a + b))
      BY <1>1, <1>2
    <3> QED
      BY <3>1, Zenon
  <2>2. /\ Cardinality(Within(N, z, d)) \in Nat /\ Rank(N, z) \in Nat
        /\ Rank(N, z + d) = Rank(N, z) + Cardinality(Within(N, z, d))
    BY <1>5, RanksAdd, Zenon
  <2>3. LinesOfFile = Rank(N, n)
    BY <1>1, <1>3, LinesAreRanked, Zenon
  <2>4. PICK x, y : x = Rank(N, z) /\ y = Cardinality(Within(N, z, d))
    OBVIOUS
  <2>5. LinesOfFile = x + y /\ x \in Nat /\ y \in Nat /\ Rank(N, a + b) = x
    BY <2>1, <2>2, <2>3, <2>4, Zenon
  <2> QED
    BY <2>5
<1>9. NewLine(p) = Rank(N, p - 1) + 1
  BY <1>1, <1>3, <1>5, NewLineIsRank, Zenon
<1>10. IsPlus(script[p]) => p \in N
  BY <1>1, <1>3, <1>5, Zenon DEF IsPlus, NewMarks, Marked
<1>11. PICK r, k, q, z, f : /\ r = Rank(N, a) /\ k = Cardinality(Within(N, a, b))
                            /\ q = Rank(N, p - 1) /\ z = Rank(N, a + b) /\ f = LinesOfFile
  OBVIOUS
<1>12. /\ r \in Nat /\ k \in Nat /\ q \in Nat /\ z = r + k /\ r <= q /\ q <= z /\ z <= f
       /\ f \in Nat /\ (IsPlus(script[p]) => q < z)
  BY <1>6, <1>7, <1>8, <1>10, <1>11, Zenon
<1>13. r + k <= f /\ q + 1 \in r + 1 .. r + k + 1 /\ (IsPlus(script[p]) => q + 1 <= r + k)
  BY <1>12
<1>14. Covered(HunkAt(i, c), r, k)
  BY <1>2, <1>3, <1>11, Zenon DEF Covered, NewSideOf
<1>15. CoversLine(HunkAt(i, c), p)
  BY <1>9, <1>11, <1>12, <1>13, <1>14, Zenon DEF CoversLine
<1> QED
  BY <1>1, <1>5, <1>15, Zenon

(* A side without lines is put at the line before, and at the first of none. *)
LEMMA RangeOfCovered ==
  ASSUME NEW hunk, NEW r \in Nat, NEW k \in Nat, Covered(hunk, r, k)
  PROVE  /\ k # 0 => HunkRange(hunk) = LineRange(r + 1, r + k)
         /\ k = 0 /\ r # 0 => HunkRange(hunk) = LineRange(r, r)
         /\ k = 0 /\ r = 0 => HunkRange(hunk) = LineRange(1, 1)
<1>1. PICK side : side = hunk.new
  OBVIOUS
<1>2. side = Side(r + 1, k)
  BY <1>1, Zenon DEF Covered
<1>3. side.lines = k /\ side.start = IF k = 0 THEN r ELSE r + 1
  BY <1>2 DEF Side
<1>4. PICK x : x = side.start
  OBVIOUS
<1>5. x \in Nat /\ (k # 0 => x = r + 1 /\ x >= 1) /\ (k = 0 => x = r)
  BY <1>3, <1>4
<1>6. Max({1, x}) = IF 1 >= x THEN 1 ELSE x
  <2>1. 1 \in Int /\ x \in Int
    BY <1>5
  <2> QED
    BY <2>1, MaxOfTwo, Zenon
<1>7. (k # 0 => Max({1, x}) = r + 1) /\ (k = 0 /\ r # 0 => Max({1, x}) = r)
      /\ (k = 0 /\ r = 0 => Max({1, x}) = 1)
  BY <1>5, <1>6
<1>8. HunkRange(hunk)
        = LineRange(Max({1, x}), IF k = 0 THEN Max({1, x}) ELSE x + k - 1)
  BY <1>1, <1>3, <1>4, Zenon DEF HunkRange
<1>9. k # 0 => x + k - 1 = r + k
  BY <1>5
<1> QED
  BY <1>7, <1>8, <1>9, Zenon

(* The number of an added line is in the range of its hunk.                  *)
LEMMA AddedIsCovered ==
  ASSUME IsScript, Unsigned, NEW c \in Nat, NEW i \in HunkStarts(c),
         NEW x \in AddedLineNumbers(HunkAt(i, c))
  PROVE  /\ x \in Nat /\ 1 <= x /\ LinesOfFile \in Nat /\ x <= LinesOfFile
         /\ HunkRange(HunkAt(i, c)).first \in Nat /\ HunkRange(HunkAt(i, c)).last \in Nat
         /\ HunkRange(HunkAt(i, c)).first <= x /\ x <= HunkRange(HunkAt(i, c)).last
<1>1. PICK p \in FirstLine(i, c) .. LastLine(i, c) : IsPlus(script[p]) /\ x = NewLine(p)
  BY AddedOfHunk, Zenon
<1>2. PICK hunk : hunk = HunkAt(i, c)
  OBVIOUS
<1>3. CoversLine(hunk, p)
  BY <1>2, HunkCovers, Zenon
<1>4. PICK r \in Nat, k \in Nat :
        /\ Covered(hunk, r, k) /\ r + k <= LinesOfFile /\ LinesOfFile \in Nat
        /\ x \in r + 1 .. r + k + 1 /\ x <= r + k
  BY <1>1, <1>3, Zenon DEF CoversLine
<1>5. k # 0 /\ x \in Nat /\ 1 <= x /\ x <= LinesOfFile /\ r + 1 <= x /\ x <= r + k
      /\ r + 1 \in Nat /\ r + k \in Nat
  BY <1>4
<1>6. HunkRange(hunk) = LineRange(r + 1, r + k)
  BY <1>4, <1>5, RangeOfCovered, Zenon
<1>7. HunkRange(hunk).first = r + 1 /\ HunkRange(hunk).last = r + k
  BY <1>6 DEF LineRange
<1> QED
  BY <1>2, <1>4, <1>5, <1>7, Zenon

(* A hunk with a line, even a removed one, meets what is around the line.    *)
LEMMA LineIsMet ==
  ASSUME IsScript, NEW c \in Nat, NEW i \in HunkStarts(c),
         NEW p \in FirstLine(i, c) .. LastLine(i, c), NEW target,
         target.first \in Nat \ {0}, target.last \in Nat,
         target.first < NewLine(p), NewLine(p) <= target.last
  PROVE  Intersect(HunkRange(HunkAt(i, c)), target)
<1>1. PICK hunk, x, f, l :
        hunk = HunkAt(i, c) /\ x = NewLine(p) /\ f = target.first /\ l = target.last
  OBVIOUS
<1>2. CoversLine(hunk, p)
  BY <1>1, HunkCovers, Zenon
<1>3. PICK r \in Nat, k \in Nat : Covered(hunk, r, k) /\ x \in r + 1 .. r + k + 1
  BY <1>1, <1>2, Zenon DEF CoversLine
<1>4. f \in Nat \ {0} /\ l \in Nat /\ f < x /\ x <= l
  BY <1>1, Zenon
<1>5. CASE k # 0
  <2>1. HunkRange(hunk) = LineRange(r + 1, r + k)
    BY <1>3, <1>5, RangeOfCovered, Zenon
  <2>2. HunkRange(hunk).first = r + 1 /\ HunkRange(hunk).last = r + k
    BY <2>1 DEF LineRange
  <2>3. r + 1 <= l /\ f <= r + k
    BY <1>3, <1>4, <1>5
  <2> QED
    BY <1>1, <2>2, <2>3, Zenon DEF Intersect
<1>6. CASE k = 0
  <2>1. r # 0 /\ r <= l /\ f <= r
    BY <1>3, <1>4, <1>6
  <2>2. HunkRange(hunk) = LineRange(r, r)
    BY <1>3, <1>6, <2>1, RangeOfCovered, Zenon
  <2>3. HunkRange(hunk).first = r /\ HunkRange(hunk).last = r
    BY <2>2 DEF LineRange
  <2> QED
    BY <1>1, <2>1, <2>3, Zenon DEF Intersect
<1> QED
  BY <1>5, <1>6, Zenon

-----------------------------------------------------------------------------
(* The hunks that answer for a target.                                      *)
MeetsAll(hunks, target, q, place) ==
  /\ Meeting(hunks, target) = [x \in 1 .. q |-> hunks[place[x]]]
  /\ \A x \in 1 .. q : place[x] \in DOMAIN hunks
  /\ \A i \in DOMAIN hunks :
       Intersect(HunkRange(hunks[i]), target) => \E x \in 1 .. q : place[x] = i
  /\ \A x, y \in 1 .. q : x < y => place[x] < place[y]

LEMMA MeetingIsAll ==
  ASSUME NEW m \in Nat, NEW hunks, DOMAIN hunks = 1 .. m, NEW target
  PROVE  \E q \in Nat : \E place : MeetsAll(hunks, target, q, place)
<1>1. PICK S : S = {i \in DOMAIN hunks : Intersect(HunkRange(hunks[i]), target)}
  OBVIOUS
<1>2. S \in SUBSET (1 .. m)
  BY <1>1, Zenon
<1>3. PICK place : place = InTurn(S)
  OBVIOUS
<1>4. PICK q \in Nat :
        /\ q = Cardinality(S) /\ DOMAIN InTurn(S) = 1 .. q
        /\ \A k \in 1 .. q : InTurn(S)[k] \in S
        /\ \A i \in S : \E k \in 1 .. q : InTurn(S)[k] = i
        /\ \A k, l \in 1 .. q : k < l => InTurn(S)[k] < InTurn(S)[l]
  BY <1>2, OrderIsComplete, Zenon
<1>5. Meeting(hunks, target) = [x \in 1 .. q |-> hunks[place[x]]]
  BY <1>1, <1>3, <1>4, Zenon DEF Meeting
<1>6. MeetsAll(hunks, target, q, place)
  BY <1>1, <1>3, <1>4, <1>5, Zenon DEF MeetsAll
<1> QED
  BY <1>6, Zenon

(* No lines are few enough.                                                 *)
LinesUpTo(meeting, n) == MapThenSumSet(LAMBDA i : Len(meeting[i].lines), 1 .. n)

LEMMA NoLinesAreNone ==
  ASSUME NEW meeting PROVE LinesUpTo(meeting, 0) = 0
<1>1. 1 .. 0 = {}
  OBVIOUS
<1> DEFINE Sums(f) == f = [s \in SUBSET {} |-> IF s = {} THEN 0
                            ELSE Len(meeting[Pick(s)].lines) + f[s \ {Pick(s)}]]
           it == CHOOSE f : Sums(f)
<1>2. LinesUpTo(meeting, 0) = it[{}]
  BY <1>1, Zenon DEF LinesUpTo, MapThenSumSet, MapThenFoldSet, Pick
<1>3. \E f : Sums(f)
  <2>1. \A f : [s \in SUBSET {} |-> IF s = {} THEN 0
                  ELSE Len(meeting[Pick(s)].lines) + f[s \ {Pick(s)}]] = [s \in SUBSET {} |-> 0]
    <3>1. \A s \in SUBSET {} : s = {}
      OBVIOUS
    <3> QED
      BY <3>1, Zenon
  <2>2. Sums([s \in SUBSET {} |-> 0])
    BY <2>1, Zenon
  <2> QED
    BY <2>2, Zenon
<1>4. Sums(it)
  BY <1>3, Zenon
<1> HIDE DEF it
<1>5. {} \in SUBSET {}
  OBVIOUS
<1>6. it[{}] = 0
  BY <1>4, <1>5, Zenon
<1> QED
  BY <1>2, <1>6, Zenon

(* An answer is the first of them, all of them if it is not cut off.         *)
BeginsWith(answer, meeting, q) ==
  \E t \in 0 .. q : /\ DOMAIN answer.hunks = 1 .. t
                    /\ \A x \in 1 .. t : answer.hunks[x] = meeting[x]
                    /\ ~answer.truncated => t = q

LEMMA AnswerBegins ==
  ASSUME NEW hunks, NEW target, NEW maxHunks \in Nat, NEW maxLines \in Nat,
         NEW q \in Nat, NEW V, Meeting(hunks, target) \in [1 .. q -> V]
  PROVE  BeginsWith(FileChangeHunks(hunks, target, maxHunks, maxLines),
                    Meeting(hunks, target), q)
<1>1. PICK meeting : meeting = Meeting(hunks, target)
  OBVIOUS
<1>2. meeting \in Seq(V) /\ Len(meeting) = q
  BY <1>1
<1>3. PICK T : T = {n \in 0 .. Len(meeting) : n <= maxHunks /\ LinesUpTo(meeting, n) <= maxLines}
  OBVIOUS
<1>4. T \in SUBSET (0 .. q) /\ T # {}
  <2>1. 0 \in 0 .. q /\ 0 <= maxHunks /\ 0 <= maxLines
    OBVIOUS
  <2>2. 0 \in T
    BY <1>2, <1>3, <2>1, NoLinesAreNone, Zenon
  <2> QED
    BY <1>2, <1>3, <2>2, Zenon
<1>5. PICK t : t = Max(T)
  OBVIOUS
<1>6. t \in 0 .. q
  BY <1>4, <1>5, GreatestIsMax, Zenon
<1>7. FileChangeHunks(hunks, target, maxHunks, maxLines)
        = [hunks |-> SubSeq(meeting, 1, t), truncated |-> t < Len(meeting)]
  <2> DEFINE M == Meeting(hunks, target)
             U == {n \in 0 .. Len(M) : n <= maxHunks /\ LinesUpTo(M, n) <= maxLines}
  <2>1. FileChangeHunks(hunks, target, maxHunks, maxLines)
          = [hunks |-> SubSeq(M, 1, Max(U)), truncated |-> Max(U) < Len(M)]
    BY Zenon DEF FileChangeHunks, LinesUpTo
  <2>2. U = T
    BY <1>1, <1>3, Zenon
  <2> HIDE DEF U
  <2> QED
    BY <1>1, <1>5, <2>1, <2>2, Zenon
<1>8. PICK answer : answer = FileChangeHunks(hunks, target, maxHunks, maxLines)
  OBVIOUS
<1>9. answer.hunks = SubSeq(meeting, 1, t) /\ (answer.truncated <=> t < q)
  <2>1. answer = [hunks |-> SubSeq(meeting, 1, t), truncated |-> t < q]
    BY <1>2, <1>7, <1>8, Zenon
  <2>2. answer.hunks = SubSeq(meeting, 1, t) /\ answer.truncated = (t < q)
    BY <2>1, Zenon
  <2> QED
    BY <2>2, Zenon
<1>10. IsSlice(meeting, SubSeq(meeting, 0 + 1, 0 + t), 0, t)
  <2>1. t \in Nat /\ 0 \in Nat /\ 0 + t <= Len(meeting)
    BY <1>2, <1>6
  <2> QED
    BY <1>2, <2>1, SliceEntries, Zenon
<1>11. 0 + 1 = 1 /\ 0 + t = t /\ \A x \in 1 .. t : 0 + x = x
  BY <1>6
<1>12. DOMAIN answer.hunks = 1 .. t /\ \A x \in 1 .. t : answer.hunks[x] = meeting[x]
  BY <1>9, <1>10, <1>11, Zenon DEF IsSlice
<1>13. ~answer.truncated => t = q
  BY <1>6, <1>9
<1> QED
  BY <1>1, <1>6, <1>8, <1>12, <1>13, Zenon DEF BeginsWith

Answers(c, target, answer, t, u) ==
  /\ IsHunks(c, t, u, answer.hunks)
  /\ ~answer.truncated =>
       \A i \in HunkStarts(c) :
         Intersect(HunkRange(HunkAt(i, c)), target) => \E x \in 1 .. t : u[x] = i

(* What a tool answers of a script's hunks, in their order.                  *)
LEMMA AnswersAreHunks ==
  ASSUME IsScript, NEW c \in Nat, NEW target, NEW maxHunks \in Nat, NEW maxLines \in Nat,
         NEW answer, answer = FileChangeHunks(Parsed(c), target, maxHunks, maxLines)
  PROVE  \E t \in Nat : \E u : Answers(c, target, answer, t, u)
<1>1. PICK m, s, w : IsParsed(c, m, s, w)
  BY DiffsAreParsed, Zenon
<1>2. PICK hunks : hunks = Parsed(c)
  OBVIOUS
<1>3. /\ m \in Nat /\ DOMAIN hunks = 1 .. m
      /\ \A k \in 1 .. m : s[k] \in HunkStarts(c) /\ hunks[k] = HunkAt(s[k], c)
      /\ \A i \in HunkStarts(c) : \E k \in 1 .. m : s[k] = i
      /\ \A k, l \in 1 .. m : k < l => s[k] < s[l]
  BY <1>1, <1>2, Zenon DEF IsParsed, Firsts
<1>q. PICK q \in Nat : \E place : MeetsAll(hunks, target, q, place)
  BY <1>3, MeetingIsAll, Zenon
<1>4. PICK place : MeetsAll(hunks, target, q, place)
  BY <1>q, Zenon
<1>5. /\ Meeting(hunks, target) = [x \in 1 .. q |-> hunks[place[x]]]
      /\ \A x \in 1 .. q : place[x] \in 1 .. m
      /\ \A k \in 1 .. m :
           Intersect(HunkRange(hunks[k]), target) => \E x \in 1 .. q : place[x] = k
      /\ \A x, y \in 1 .. q : x < y => place[x] < place[y]
  BY <1>3, <1>4, Zenon DEF MeetsAll
<1>6. PICK V : V = {hunks[k] : k \in 1 .. m}
  OBVIOUS
<1>7. Meeting(hunks, target) \in [1 .. q -> V]
  <2>1. \A x \in 1 .. q : hunks[place[x]] \in V
    BY <1>5, <1>6, Zenon
  <2> QED
    BY <1>5, <2>1, Zenon
<1>8. BeginsWith(answer, Meeting(hunks, target), q)
  <2>1. BeginsWith(FileChangeHunks(hunks, target, maxHunks, maxLines),
                   Meeting(hunks, target), q)
    BY <1>7, AnswerBegins, Zenon
  <2> QED
    BY <1>2, <2>1, Zenon
<1>9. PICK t \in 0 .. q : /\ DOMAIN answer.hunks = 1 .. t
                          /\ \A x \in 1 .. t : answer.hunks[x] = Meeting(hunks, target)[x]
                          /\ ~answer.truncated => t = q
  BY <1>8, Zenon DEF BeginsWith
<1>10. t \in Nat /\ \A x \in 1 .. t : x \in 1 .. q
  BY <1>9
<1>11. PICK u : u = [x \in 1 .. t |-> s[place[x]]]
  OBVIOUS
<1>12. \A x \in 1 .. t : u[x] \in HunkStarts(c) /\ answer.hunks[x] = HunkAt(u[x], c)
  BY <1>3, <1>5, <1>9, <1>10, <1>11, Zenon
<1>13. \A x, y \in 1 .. t : x < y => u[x] < u[y]
  BY <1>3, <1>5, <1>10, <1>11, Zenon
<1>14. IsHunks(c, t, u, answer.hunks)
  BY <1>9, <1>12, <1>13, Zenon DEF IsHunks
<1>15. ASSUME ~answer.truncated, NEW i \in HunkStarts(c),
              Intersect(HunkRange(HunkAt(i, c)), target)
       PROVE  \E x \in 1 .. t : u[x] = i
  <2>1. PICK k \in 1 .. m : s[k] = i /\ hunks[k] = HunkAt(i, c)
    BY <1>3, Zenon
  <2>2. PICK x \in 1 .. q : place[x] = k
    BY <1>5, <1>15, <2>1, Zenon
  <2> QED
    BY <1>9, <1>11, <1>15, <2>1, <2>2, Zenon
<1>16. Answers(c, target, answer, t, u)
  BY <1>14, <1>15, Zenon DEF Answers
<1> QED
  BY <1>10, <1>16, Zenon

(* A whole answer has every added line of the target,                        *)
LEMMA AddedAreAnswered ==
  ASSUME IsScript, Unsigned, NEW c \in Nat, NEW target,
         target.first \in Nat, target.last \in Nat,
         NEW answer, NEW t \in Nat, NEW u, Answers(c, target, answer, t, u),
         ~answer.truncated, NEW x \in Added, x \in target.first .. target.last
  PROVE  \E k \in DOMAIN answer.hunks : x \in AddedLineNumbers(answer.hunks[k])
<1>1. PICK n \in Nat : n = Len(script) /\ DOMAIN script = 1 .. n
  BY ScriptHasLines, Zenon
<1>2. PICK p \in DOMAIN script : IsPlus(script[p]) /\ x = NewLine(p)
  BY AddedIsNumbered, Zenon
<1>3. PICK i \in HunkStarts(c) : p \in FirstLine(i, c) .. LastLine(i, c)
  <2>1. p \in Changes
    BY <1>2, PlusIsChange, Zenon
  <2> QED
    BY <1>1, <2>1, ChangesAreInHunks, Zenon
<1>4. PICK hunk : hunk = HunkAt(i, c)
  OBVIOUS
<1>5. x \in AddedLineNumbers(hunk)
  <2>1. AddedLineNumbers(HunkAt(i, c))
          = {NewLine(q) : q \in {z \in FirstLine(i, c) .. LastLine(i, c) : IsPlus(script[z])}}
    BY AddedOfHunk, Zenon
  <2>2. p \in {z \in FirstLine(i, c) .. LastLine(i, c) : IsPlus(script[z])}
    BY <1>2, <1>3, Zenon
  <2> QED
    BY <1>2, <1>4, <2>1, <2>2, Zenon
<1>6. /\ x \in Nat /\ HunkRange(hunk).first \in Nat /\ HunkRange(hunk).last \in Nat
      /\ HunkRange(hunk).first <= x /\ x <= HunkRange(hunk).last
  BY <1>4, <1>5, AddedIsCovered, Zenon
<1>7. Intersect(HunkRange(hunk), target)
  <2>1. PICK f, l, g, h : /\ f = HunkRange(hunk).first /\ l = HunkRange(hunk).last
                          /\ g = target.first /\ h = target.last
    OBVIOUS
  <2>2. /\ x \in Nat /\ f \in Nat /\ l \in Nat /\ g \in Nat /\ h \in Nat
        /\ f <= x /\ x <= l /\ x \in g .. h
    BY <1>6, <2>1, Zenon
  <2>3. f <= h /\ g <= l
    BY <2>2
  <2> QED
    BY <2>1, <2>3, Zenon DEF Intersect
<1>8. PICK k \in 1 .. t : u[k] = i
  BY <1>4, <1>7, Zenon DEF Answers
<1>9. k \in DOMAIN answer.hunks /\ answer.hunks[k] = hunk
  BY <1>4, <1>8, Zenon DEF Answers, IsHunks
<1> QED
  BY <1>5, <1>9, Zenon

(* and counts all that was removed inside it.                                *)
LEMMA RemovedAreAnswered ==
  ASSUME IsScript, Unsigned, NEW c \in Nat, NEW target,
         target.first \in Nat \ {0}, target.last \in Nat,
         NEW answer, NEW t \in Nat, NEW u, Answers(c, target, answer, t, u),
         ~answer.truncated, NEW inside,
         inside = {p \in Removed : target.first < NewLine(p) /\ NewLine(p) <= target.last}
  PROVE  Cardinality(inside) <= RemovedOf(answer.hunks)
<1>1. PICK n \in Nat : n = Len(script) /\ DOMAIN script = 1 .. n
  BY ScriptHasLines, Zenon
<1>2. PICK R : R = RemovedIn(c, t, u)
  OBVIOUS
<1>3. RemovedOf(answer.hunks) = Cardinality(R)
  <2>1. IsHunks(c, t, u, answer.hunks)
    BY Zenon DEF Answers
  <2>2. RemovedOf(answer.hunks) = Cardinality(RemovedIn(c, t, u))
    BY <2>1, HunksCount, Zenon
  <2> QED
    BY <1>2, <2>2, Zenon
<1>4. ASSUME NEW p \in inside PROVE p \in R
  <2>1. p \in Removed /\ target.first < NewLine(p) /\ NewLine(p) <= target.last
    BY <1>4, Zenon
  <2>2. p \in DOMAIN script /\ IsMinus(script[p])
    BY <2>1, RemovedLines, Zenon
  <2>3. PICK i \in HunkStarts(c) : p \in FirstLine(i, c) .. LastLine(i, c)
    <3>1. p \in Changes
      BY <2>2, PlusIsChange, Zenon
    <3> QED
      BY <1>1, <3>1, ChangesAreInHunks, Zenon
  <2>4. Intersect(HunkRange(HunkAt(i, c)), target)
    BY <2>1, <2>3, LineIsMet, Zenon
  <2>5. PICK k \in 1 .. t : u[k] = i
    BY <2>4, Zenon DEF Answers
  <2> QED
    BY <1>2, <2>1, <2>3, <2>5, Zenon DEF RemovedIn
<1>5. inside \subseteq R
  BY <1>4, Zenon
<1>6. R \subseteq Removed /\ Removed \subseteq 1 .. n
  BY <1>1, <1>2, RemovedLines, Zenon DEF RemovedIn
<1>7. IsFiniteSet(R)
  <2>1. IsFiniteSet(1 .. n)
    BY FS_Interval
  <2>2. R \subseteq 1 .. n
    BY <1>6, Zenon
  <2> QED
    BY <2>1, <2>2, FS_Subset, Zenon
<1>8. Cardinality(inside) <= Cardinality(R)
  BY <1>5, <1>7, FS_Subset, Zenon
<1> QED
  BY <1>3, <1>8, Zenon

-----------------------------------------------------------------------------
(* The tools that go on from a line.                                        *)
IsItem(s) == /\ s.first \in Nat \ {0} /\ s.last \in Nat \ {0} /\ s.first <= s.last
Around(s, n) == s.first <= n /\ n <= s.last

LEMMA AroundIsNearest ==
  ASSUME NEW v, IsItem(v), NEW n \in Nat, NEW r, r = LineRange(n, n)
  PROVE  /\ Relation(v, r) \in Nat /\ Distance(v, r) \in Int /\ Length(v) \in Int
         /\ Around(v, n) <=> Relation(v, r) = 0
         /\ Around(v, n) => Distance(v, r) = 0
<1>1. PICK f, l : f = v.first /\ l = v.last
  OBVIOUS
<1>2. f \in Nat /\ l \in Nat /\ (Around(v, n) <=> f <= n /\ n <= l)
  BY <1>1 DEF IsItem, Around
<1>3. r.first = n /\ r.last = n
  BY DEF LineRange
<1>4. /\ Inside(r, v) <=> f <= n /\ n <= l
      /\ Intersect(r, v) <=> n <= l /\ f <= n
  BY <1>1, <1>3, Zenon DEF Inside, Intersect
<1>5. Inside(r, v) <=> Around(v, n)
  BY <1>2, <1>4, Zenon
<1>6. Intersect(r, v) <=> Around(v, n)
  BY <1>2, <1>4, Zenon
<1>7. Relation(v, r) = IF Around(v, n) THEN 0 ELSE IF l < n THEN 2 ELSE 3
  BY <1>1, <1>3, <1>5, <1>6 DEF Relation
<1>8. Distance(v, r) = IF Around(v, n) THEN 0 ELSE IF l < n THEN n - l ELSE f - n
  BY <1>1, <1>3, <1>6 DEF Distance
<1>9. Length(v) = l - f
  BY <1>1 DEF Length
<1> QED
  BY <1>2, <1>7, <1>8, <1>9

(* What precedes is less in one of the four parts of its key, and equal in   *)
(* those before it.                                                         *)
LEMMA FirstDiffers ==
  ASSUME NEW u, NEW v, NEW r, Precedes(u, v, r)
  PROVE  \/ Relation(u, r) < Relation(v, r)
         \/ Relation(u, r) = Relation(v, r) /\ Distance(u, r) < Distance(v, r)
         \/ /\ Relation(u, r) = Relation(v, r) /\ Distance(u, r) = Distance(v, r)
            /\ Length(u) < Length(v)
         \/ /\ Relation(u, r) = Relation(v, r) /\ Distance(u, r) = Distance(v, r)
            /\ Length(u) = Length(v)
<1>1. PICK a, b : /\ a = <<Relation(u, r), Distance(u, r), Length(u), u.first>>
                  /\ b = <<Relation(v, r), Distance(v, r), Length(v), v.first>>
  OBVIOUS
<1>2. PICK n \in 1 .. 4 : a[n] < b[n] /\ \A m \in 1 .. n - 1 : a[m] = b[m]
  BY <1>1, Zenon DEF Precedes
<1>3. /\ a[1] = Relation(u, r) /\ a[2] = Distance(u, r) /\ a[3] = Length(u)
      /\ b[1] = Relation(v, r) /\ b[2] = Distance(v, r) /\ b[3] = Length(v)
  BY <1>1
<1>4. n = 1 \/ n = 2 \/ n = 3 \/ n = 4
  OBVIOUS
<1>5. /\ n = 2 => 1 \in 1 .. n - 1
      /\ n = 3 => 1 \in 1 .. n - 1 /\ 2 \in 1 .. n - 1
      /\ n = 4 => 1 \in 1 .. n - 1 /\ 2 \in 1 .. n - 1 /\ 3 \in 1 .. n - 1
  OBVIOUS
<1> QED
  BY <1>2, <1>3, <1>4, <1>5, Zenon

LEMMA PrecedesAround ==
  ASSUME NEW u, NEW v, IsItem(u), IsItem(v), NEW n \in Nat, Around(v, n),
         Precedes(u, v, LineRange(n, n))
  PROVE  Around(u, n) /\ Length(u) <= Length(v)
<1>1. PICK r : r = LineRange(n, n)
  OBVIOUS
<1>2. PICK a, b, d, e, f, g :
        /\ a = Relation(u, r) /\ b = Relation(v, r) /\ d = Distance(u, r) /\ e = Distance(v, r)
        /\ f = Length(u) /\ g = Length(v)
  OBVIOUS
<1>3. a \in Nat /\ d \in Int /\ f \in Int /\ (Around(u, n) <=> a = 0) /\ (Around(u, n) => d = 0)
  BY <1>1, <1>2, AroundIsNearest, Zenon
<1>4. b = 0 /\ e = 0 /\ g \in Int
  BY <1>1, <1>2, AroundIsNearest, Zenon
<1>5. a < b \/ (a = b /\ d < e) \/ (a = b /\ d = e /\ f < g) \/ (a = b /\ d = e /\ f = g)
  BY <1>1, <1>2, FirstDiffers, Zenon
<1>6. a = 0 /\ f <= g
  BY <1>3, <1>4, <1>5
<1> QED
  BY <1>2, <1>3, <1>6, Zenon

(* What resolves to a line is the shortest item around it.                   *)
Shortest(first, at) == first \subseteq at /\ \A u \in first, v \in at : Length(u) <= Length(v)

LEMMA ShortestIsFirst ==
  ASSUME NEW s, NEW t, IsItem(s), IsItem(t), NEW n \in Nat,
         Nearest({s, t}, n).containing # {}
  PROVE  Shortest(Resolved({s, t}, LineRange(n, n)).primary, Nearest({s, t}, n).containing)
<1>0. PICK at, first : /\ at = Nearest({s, t}, n).containing /\ at # {}
                       /\ first = Resolved({s, t}, LineRange(n, n)).primary
  OBVIOUS
<1>1. PICK r : r = LineRange(n, n)
  OBVIOUS
<1>2. \A v : v \in at <=> v \in {s, t} /\ Around(v, n)
  BY <1>0, Zenon DEF Nearest, Around
<1>3. \A u \in first : u \in {s, t} /\ \A v \in {s, t} \ {u} : Precedes(u, v, r)
  BY <1>0, <1>1, Zenon DEF Resolved
<1>4. ASSUME NEW u \in first, NEW v \in at PROVE u \in at /\ Length(u) <= Length(v)
  <2>1. u \in {s, t} /\ v \in {s, t} /\ Around(v, n) /\ IsItem(u) /\ IsItem(v)
    BY <1>2, <1>3, Zenon
  <2>2. CASE u = v
    <3>1. Length(u) \in Int
      BY <2>1, AroundIsNearest, Zenon
    <3>2. Length(u) <= Length(u)
      BY <3>1
    <3> QED
      BY <2>2, <3>2, Zenon
  <2>3. CASE u # v
    <3>1. Precedes(u, v, LineRange(n, n))
      BY <1>1, <1>3, <2>1, <2>3, Zenon
    <3>2. Around(u, n) /\ Length(u) <= Length(v)
      BY <2>1, <3>1, PrecedesAround, Zenon
    <3> QED
      BY <1>2, <2>1, <3>2, Zenon
  <2> QED
    BY <2>2, <2>3, Zenon
<1> QED
  BY <1>0, <1>4, Zenon DEF Shortest

(* Items around a line overlap every range that has the line.                *)
LEMMA AroundOverlaps ==
  ASSUME NEW s, NEW t, IsItem(s), IsItem(t), NEW n \in Nat,
         NEW r, r.first \in Nat, r.last \in Nat, r.first <= n, n <= r.last
  PROVE  Nearest({s, t}, n).containing \subseteq Resolved({s, t}, r).overlaps
<1>1. ASSUME NEW v, IsItem(v), Around(v, n) PROVE Relation(v, r) \in {0, 1}
  <2>1. PICK f, l, g, h : f = v.first /\ l = v.last /\ g = r.first /\ h = r.last
    OBVIOUS
  <2>2. /\ f \in Nat /\ l \in Nat /\ g \in Nat /\ h \in Nat
        /\ f <= n /\ n <= l /\ g <= n /\ n <= h
    BY <1>1, <2>1 DEF IsItem, Around
  <2>3. g <= l /\ f <= h
    BY <2>2
  <2>4. Intersect(r, v)
    BY <2>1, <2>3, Zenon DEF Intersect
  <2> QED
    BY <2>4 DEF Relation
<1>2. \A v : v \in Nearest({s, t}, n).containing => v \in {s, t} /\ IsItem(v) /\ Around(v, n)
  BY Zenon DEF Nearest, Around
<1>3. Resolved({s, t}, r).overlaps = {v \in {s, t} : Relation(v, r) \in {0, 1}}
  BY DEF Resolved
<1> QED
  BY <1>1, <1>2, <1>3, Zenon

(* A line of a symbol can be read there, and with what is around it.         *)
LEMMA LineIsRead ==
  ASSUME NEW s, IsItem(s), NEW n \in Nat, Around(s, n)
  PROVE  ReadSymbol(s, n, n, 1) = {n}
<1>1. PICK f, l : f = s.first /\ l = s.last
  OBVIOUS
<1>2. f \in Int /\ l \in Int /\ n \in Int /\ f <= n /\ n <= l
  BY <1>1 DEF IsItem, Around
<1>3. Min({l, n}) = n
  <2>1. Min({l, n}) = IF l <= n THEN l ELSE n
    BY <1>2, MinOfTwo, Zenon
  <2> QED
    BY <1>2, <2>1
<1>4. Max({f, n}) = n
  <2>1. Max({f, n}) = IF f >= n THEN f ELSE n
    BY <1>2, MaxOfTwo, Zenon
  <2> QED
    BY <1>2, <2>1
<1>5. Max({s.first, Min({s.last, n})}) = n
  BY <1>1, <1>3, <1>4, Zenon
<1>6. n + 1 - 1 = n /\ ~(n < n) /\ n .. n = {n}
  OBVIOUS
<1>7. Min({n, n + 1 - 1}) = n
  <2>1. Min({n, n}) = n
    BY <1>2, MinOfTwo, Zenon
  <2> QED
    BY <1>6, <2>1, Zenon
<1> QED
  BY <1>5, <1>6, <1>7, Zenon DEF ReadSymbol

LEMMA SurroundingsAreRead ==
  ASSUME NEW n \in Nat \ {0}, NEW count \in Nat, n <= count, NEW near, near = AroundLine(n, 1, 1)
  PROVE  n \in ReadRange(near.first, near.last, 2, count)
<1>1. PICK f : f = IF 1 < n THEN n - 1 ELSE 1
  OBVIOUS
<1>2. near.first = f /\ near.last = n + 1
  BY <1>1 DEF AroundLine, LineRange
<1>3. /\ f \in Nat /\ 1 <= f /\ f <= n /\ n <= f + 1 /\ n <= n + 1
      /\ n <= f + 2 - 1 /\ f + 2 - 1 \in Nat
  BY <1>1
<1>4. Max({1, f}) = f
  <2>1. 1 \in Int /\ f \in Int
    BY <1>3
  <2>2. Max({1, f}) = IF 1 >= f THEN 1 ELSE f
    BY <2>1, MaxOfTwo, Zenon
  <2> QED
    BY <1>3, <2>2
<1>5. PICK S : S = {count, n + 1, f + 2 - 1}
  OBVIOUS
<1>6. S \subseteq Nat /\ S # {} /\ \A y \in S : n <= y
  BY <1>3, <1>5
<1>7. PICK x \in S : \A y \in S : x <= y
  BY <1>6, LeastNatural, Zenon
<1>8. Min(S) \in S
  <2>1. \E z \in S : \A y \in S : z =< y
    BY <1>7, Zenon
  <2> QED
    BY <2>1, Zenon DEF Min
<1>9. ReadRange(near.first, near.last, 2, count) = f .. Min(S)
  BY <1>2, <1>4, <1>5, Zenon DEF ReadRange
<1>10. PICK z : z = Min(S)
  OBVIOUS
<1>11. z \in Nat /\ n <= z
  BY <1>6, <1>8, <1>10, Zenon
<1>12. n \in f .. z
  BY <1>3, <1>11
<1> QED
  BY <1>9, <1>10, <1>12, Zenon

(* Everything that is asked next of an answer's hunk, for two items.         *)
LeadsOn(hunk, s, t) ==
  \A n \in AddedLineNumbers(hunk) :
    LET at    == Nearest({s, t}, n).containing
        first == Resolved({s, t}, LineRange(n, n)).primary
    IN /\ at \subseteq Resolved({s, t}, HunkRange(hunk)).overlaps
       /\ at # {} => Shortest(first, at)
       /\ s \in at => ReadSymbol(s, n, n, 1) = {n}
       /\ LET near == AroundLine(n, 1, 1)
          IN n \in ReadRange(near.first, near.last, 2, LinesOfFile)

LEMMA HunksLeadOn ==
  ASSUME IsScript, Unsigned, NEW c \in Nat, NEW i \in HunkStarts(c),
         NEW s, NEW t, IsItem(s), IsItem(t)
  PROVE  LeadsOn(HunkAt(i, c), s, t)
<1>1. PICK hunk, r : hunk = HunkAt(i, c) /\ r = HunkRange(hunk)
  OBVIOUS
<1>2. ASSUME NEW n \in AddedLineNumbers(hunk),
             NEW at, at = Nearest({s, t}, n).containing,
             NEW first, first = Resolved({s, t}, LineRange(n, n)).primary,
             NEW near, near = AroundLine(n, 1, 1)
      PROVE  /\ at \subseteq Resolved({s, t}, HunkRange(hunk)).overlaps
             /\ at # {} => Shortest(first, at)
             /\ s \in at => ReadSymbol(s, n, n, 1) = {n}
             /\ n \in ReadRange(near.first, near.last, 2, LinesOfFile)
  <2>1. /\ n \in Nat /\ 1 <= n /\ LinesOfFile \in Nat /\ n <= LinesOfFile
        /\ r.first \in Nat /\ r.last \in Nat /\ r.first <= n /\ n <= r.last
    BY <1>1, AddedIsCovered, Zenon
  <2>2. at \subseteq Resolved({s, t}, r).overlaps
    BY <1>2, <2>1, AroundOverlaps, Zenon
  <2>3. at # {} => Shortest(first, at)
    BY <1>2, <2>1, ShortestIsFirst, Zenon
  <2>4. s \in at => ReadSymbol(s, n, n, 1) = {n}
    <3>1. s \in at => Around(s, n)
      BY <1>2, Zenon DEF Nearest, Around
    <3> QED
      BY <2>1, <3>1, LineIsRead, Zenon
  <2>5. n \in ReadRange(near.first, near.last, 2, LinesOfFile)
    <3>1. n \in Nat \ {0}
      BY <2>1
    <3> QED
      BY <1>2, <2>1, <3>1, SurroundingsAreRead, Zenon
  <2> QED
    BY <1>1, <2>2, <2>3, <2>4, <2>5, Zenon
<1>3. LeadsOn(hunk, s, t)
  BY <1>2, Zenon DEF LeadsOn
<1> QED
  BY <1>1, <1>3, Zenon

InsideOf(s) == {k \in Removed : s.first < NewLine(k) /\ NewLine(k) <= s.last}

LeadsToSource(answer, s, t) ==
  /\ \/ answer.truncated
     \/ Added \intersect (s.first .. s.last)
          \subseteq UNION {AddedLineNumbers(answer.hunks[i]) : i \in DOMAIN answer.hunks}
  /\ answer.truncated \/ Cardinality(InsideOf(s)) <= RemovedOf(answer.hunks)
  /\ \A i \in DOMAIN answer.hunks : LeadsOn(answer.hunks[i], s, t)

LEMMA AnswersLead ==
  ASSUME IsScript, Unsigned, NEW c \in Nat, NEW s, NEW t, IsItem(s), IsItem(t),
         NEW maxHunks \in Nat, NEW maxLines \in Nat
  PROVE  LeadsToSource(FileChangeHunks(Parsed(c), s, maxHunks, maxLines), s, t)
<1>1. PICK answer : answer = FileChangeHunks(Parsed(c), s, maxHunks, maxLines)
  OBVIOUS
<1>n. PICK n \in Nat : \E u : Answers(c, s, answer, n, u)
  BY <1>1, AnswersAreHunks, Zenon
<1>2. PICK u : Answers(c, s, answer, n, u)
  BY <1>n, Zenon
<1>3. s.first \in Nat \ {0} /\ s.first \in Nat /\ s.last \in Nat
  BY DEF IsItem
<1>4. ASSUME ~answer.truncated
      PROVE  Added \intersect (s.first .. s.last)
               \subseteq UNION {AddedLineNumbers(answer.hunks[i]) : i \in DOMAIN answer.hunks}
  <2>1. \A x \in Added : x \in s.first .. s.last =>
          \E k \in DOMAIN answer.hunks : x \in AddedLineNumbers(answer.hunks[k])
    BY <1>2, <1>3, <1>4, AddedAreAnswered, Zenon
  <2> QED
    BY <2>1, Zenon
<1>5. ASSUME ~answer.truncated PROVE Cardinality(InsideOf(s)) <= RemovedOf(answer.hunks)
  <2>1. PICK inside : inside = {p \in Removed : s.first < NewLine(p) /\ NewLine(p) <= s.last}
    OBVIOUS
  <2>2. Cardinality(inside) <= RemovedOf(answer.hunks)
    BY <1>2, <1>3, <1>5, <2>1, RemovedAreAnswered, Zenon
  <2> QED
    BY <2>1, <2>2, Zenon DEF InsideOf
<1>6. ASSUME NEW i \in DOMAIN answer.hunks PROVE LeadsOn(answer.hunks[i], s, t)
  <2>1. PICK j \in HunkStarts(c) : answer.hunks[i] = HunkAt(j, c)
    BY <1>2, <1>6, Zenon DEF Answers, IsHunks
  <2>2. LeadsOn(HunkAt(j, c), s, t)
    BY HunksLeadOn, Zenon
  <2> QED
    BY <2>1, <2>2, Zenon
<1>7. LeadsToSource(answer, s, t)
  BY <1>4, <1>5, <1>6, Zenon DEF LeadsToSource
<1> QED
  BY <1>1, <1>7, Zenon

LEMMA ScriptsLead ==
  ASSUME IsScript PROVE ChangeLeadsToSource
<1> SUFFICES ASSUME Unsigned, NEW c \in Contexts, NEW s \in RealItems, NEW t \in RealItems,
                    NEW maxHunks \in 1 .. 2
             PROVE  LeadsToSource(FileChangeHunks(Parsed(c), s, maxHunks, MaxScript), s, t)
  BY Zenon DEF ChangeLeadsToSource, LeadsToSource, LeadsOn, InsideOf, RemovedOf, Shortest
<1>1. c \in Nat /\ MaxScript \in Nat
  BY ChangeAssumption DEF Contexts
<1>2. maxHunks \in Nat
  OBVIOUS
<1>3. LinesOfFile \in Nat
  <2>1. PICK V : script \in Seq(V)
    BY Zenon DEF IsScript
  <2>2. \A M : Count(script, M) \in Nat
    BY <2>1, CountIsNatural, Zenon
  <2> QED
    BY <2>2, Zenon DEF LinesOfFile
<1>4. ASSUME NEW x \in RealItems PROVE IsItem(x)
  <2>1. PICK a \in 1 .. LinesOfFile, b \in 1 .. LinesOfFile : x = LineRange(a, b)
    BY <1>4 DEF RealItems, Items
  <2>2. x.first = a /\ x.last = b
    BY <2>1 DEF LineRange
  <2>3. x.first <= x.last
    BY <1>4, Zenon DEF RealItems
  <2>4. a \in Nat \ {0} /\ b \in Nat \ {0}
    BY <1>3
  <2> QED
    BY <2>2, <2>3, <2>4, Zenon DEF IsItem
<1> QED
  BY <1>1, <1>2, <1>4, AnswersLead, Zenon

(* Whatever was added to and removed from a file: for any two indexed items  *)
(* and any context, an answer that is not cut off has every added line of    *)
(* an item and counts what was removed inside it, each hunk resolves to the  *)
(* items around the lines that it added, the shortest of them first, and the *)
(* line can be read in the symbol and with what surrounds it.                *)
THEOREM ChangesLeadToSource == ChangeSpec => []ChangeLeadsToSource
<1>1. IsScript => ChangeLeadsToSource
  BY ScriptsLead, Zenon
<1> QED
  BY <1>1, ScriptsAreLines, PTL
=============================================================================
