---------------------- MODULE ProjectIndexUpdateProofs ----------------------
(***************************************************************************)
(* Builds and updates over any set of files, with any number of saves,     *)
(* updates and kills.                                                      *)
(*                                                                         *)
(* A build that has succeeded while nobody saved heals everything that was *)
(* lost, torn or stale before it, but for a database beneath an older log. *)
(* From then on a full update that succeeds leaves every file current,     *)
(* however many were killed in between. And a run gives up only over an    *)
(* index that was left damaged or a file that it could not read or index.  *)
(***************************************************************************)
EXTENDS ProjectIndexUpdate, TLAPS

(* The sources as an index has them.                                       *)
Sources == [f \in Present |-> source[f]]

(* What a build has done so far shows the sources as they are, as long as  *)
(* nobody saves.                                                           *)
Indexing ==
  /\ pending \subseteq Present
  /\ built = [f \in Present \ pending |-> source[f]]
  /\ DOMAIN files = Files
  /\ \A f \in Files : f \notin pending => files[f] = source[f]

Due(what) == \E i \in 1 .. Len(writes) : what \in writes[i]

(* A build writes the database as a whole.                                 *)
NothingInPlace ==
  \A i \in 1 .. Len(writes) :
    /\ ~InPlace(writes[i])
    /\ writes[i] \cap {"rows", "nodes"} # {} => Replaces(writes[i])

(* What a log that is left has spoilt.                                     *)
Spoilt(a) == log /\ a \in {"rows", "nodes"} /\ artifact[a] = Torn

Writing ==
  /\ NothingInPlace
  /\ built = Sources
  /\ DOMAIN files = Files /\ \A f \in Files : files[f] = source[f]
  /\ target = Aggregated(Sources)
  /\ \A a \in Artifacts : artifact[a] = target[a] \/ Due(a) \/ Spoilt(a)
  /\ state = Stamp(Sources) \/ Due("state")

Healed ==
  /\ \A f \in Files : files[f] = source[f]
  /\ \A a \in Artifacts : artifact[a] = Aggregated(Sources)[a] \/ Spoilt(a)
  /\ state = Stamp(Sources)

BuildInv ==
  /\ source \in [Files -> Content \cup {NoFile}]
  /\ mtime \in [Files -> Nat] /\ edits \in Nat
  /\ writes \in Seq(SUBSET (Artifacts \cup {"state"}))
  /\ pc = "writing" => writes # <<>>
  /\ pc = "idle" => built = Empty
  /\ command = "build" \/ pc \in {"idle", "planned", "indexing"} => entries = Empty
  /\ command = "build" => pc \in {"idle", "indexing", "writing"}
  /\ quiet /\ command = "build" =>
       /\ pc = "indexing" => Indexing
       /\ pc = "writing" => Writing
       /\ pc = "idle" /\ outcome = "ok" => Healed

LEMMA HealedIsCurrent ==
  ASSUME BuildInv, Healed
  PROVE  /\ \A f \in Files : JsonShows(f)
         /\ artifact["orientation"] = docs
         /\ WouldSkip = Present
         /\ ~log => /\ IsUsable(artifact["rows"]) /\ artifact["nodes"] = docs
                    /\ \A f \in Files : RowsShow(f)
<1> USE MarkAssumption
<1>1. Sources \in [Present -> Content] /\ Present \in SUBSET Files
  BY DEF Sources, Present, BuildInv
<1>2. Sources # NoFile /\ Sources # Torn
  BY <1>1
<1>3. /\ artifact["manifest"] = Sources /\ artifact["orientation"] = docs
      /\ ~log => artifact["rows"] = Sources /\ artifact["nodes"] = docs
  BY DEF Healed, Spoilt, Aggregated, Artifacts, JsonArtifacts
<1>4. \A f \in Files : JsonShows(f) /\ (~log => RowsShow(f))
  <2> SUFFICES ASSUME NEW f \in Files PROVE JsonShows(f) /\ (~log => RowsShow(f))
    OBVIOUS
  <2>1. DOMAIN Sources = Present
    BY DEF Sources
  <2>2. CASE source[f] = NoFile
    BY <1>3, <2>1, <2>2 DEF JsonShows, RowsShow, Present
  <2>3. CASE source[f] # NoFile
    <3>1. f \in Present /\ Sources[f] = source[f] /\ files[f] = source[f]
      BY <2>3 DEF Present, Sources, Healed
    <3> QED
      BY <1>3, <2>1, <2>3, <3>1 DEF JsonShows, RowsShow, Reflects
  <2> QED
    BY <2>2, <2>3
<1>5. WouldSkip = Present
  <2>1. /\ DOMAIN state = Present
        /\ \A f \in Present : state[f] = [hash |-> source[f], mtime |-> mtime[f]]
    BY DEF Healed, Stamp, Sources
  <2>2. state \in [Present -> [hash : Content, mtime : Nat]]
    <3>1. state = [f \in Present |-> [hash |-> source[f], mtime |-> mtime[f]]]
      BY DEF Healed, Stamp, Sources
    <3>2. \A f \in Present : source[f] \in Content /\ mtime[f] \in Nat
      BY DEF Present, BuildInv
    <3> QED
      BY <3>1, <3>2
  <2>3. IsUsable(state) /\ StateFiles = state
    BY <1>1, <2>2 DEF IsUsable, StateFiles
  <2> DEFINE manifest == DOMAIN artifact["manifest"]
             hash == [f \in Present |-> IF Trusted(f, Files) THEN StateFiles[f].hash
                                       ELSE IF f \in Files THEN source[f]
                                       ELSE artifact["manifest"][f]]
             modified == {f \in Present \cap manifest :
                            \/ "update" = "force"
                            \/ f \in Files /\ f \notin DOMAIN StateFiles
                            \/ f \in Files /\ StateFiles[f].hash # hash[f]}
  <2>4. UpdatePlan("update", Files) = [current |-> Present, added |-> Present \ manifest,
                                       modified |-> modified, deleted |-> manifest \ Present,
                                       hash |-> hash]
    BY DEF UpdatePlan
  <2>5. manifest = Present
    BY <1>1, <1>3
  <2>6. \A f \in Present : Trusted(f, Files) /\ hash[f] = StateFiles[f].hash
    BY <2>1, <2>3 DEF Trusted
  <2>7. modified = {}
    BY <2>1, <2>3, <2>6
  <2> HIDE DEF manifest, modified, hash
  <2> QED
    BY <1>2, <1>3, <2>3, <2>4, <2>5, <2>7 DEF WouldSkip, IsUsable
<1> QED
  BY <1>2, <1>3, <1>4, <1>5 DEF IsUsable

Steps == SUBSET (Artifacts \cup {"state"})

(* What is written when comes from lists of sets of artifacts.             *)
LEMMA ListsOfWrites ==
  /\ RefreshWrites \in Seq(Steps)
  /\ FullWrites \in Seq(Steps) /\ FullWrites # <<>>
  /\ \A a \in Artifacts \cup {"state"} : <<{a}>> \in Seq(Steps)
<1>1. \A a \in Artifacts \cup {"state"} : {a} \in Steps
  BY DEF Steps
<1>2. {"rows", "nodes"} \in Steps /\ {"orientation", "nodes"} \in Steps
  BY DEF Steps, Artifacts, JsonArtifacts
<1>3. {"manifest", "modules", "diagnostics", "orientation", "nodes", "state", "rows"}
        = Artifacts \cup {"state"}
  BY DEF Artifacts, JsonArtifacts
<1>4. /\ {"nodes"} \in Steps /\ {"orientation"} \in Steps /\ {"manifest"} \in Steps
      /\ {"modules"} \in Steps /\ {"diagnostics"} \in Steps /\ {"state"} \in Steps
  BY <1>1, <1>3
<1>5. RefreshWrites \in Seq(Steps)
  BY <1>4 DEF RefreshWrites
<1>6. FullWrites \in Seq(Steps) /\ FullWrites # <<>>
  BY <1>2, <1>4 DEF FullWrites
<1> QED
  BY <1>1, <1>5, <1>6

LEMMA Joined == ASSUME NEW S, NEW s \in Seq(S), NEW t \in Seq(S) PROVE s \o t \in Seq(S)
OBVIOUS

(* Where a list of writes leads the run.                                   *)
LEMMA WriteGoesOn ==
  ASSUME NEW what \in Seq(Steps), NEW contents, Write(what, contents)
  PROVE  /\ writes' \in Seq(Steps) /\ pc' \in {"idle", "writing"}
         /\ pc' = "writing" => writes' # <<>>
         /\ pc' = "idle" => built' = Empty /\ entries' = Empty
         /\ what # <<>> => /\ pc' = "writing" /\ writes' = what /\ target' = contents
                           /\ built' = built
BY DEF Write, End

Typed ==
  /\ source \in [Files -> Content \cup {NoFile}]
  /\ mtime \in [Files -> Nat] /\ edits \in Nat

(* A run that is not a build, or that ends otherwise than in success.      *)
LEMMA OtherRunsKeepInv ==
  ASSUME BuildInv, UNCHANGED editorVars, writes' \in Seq(Steps),
         pc' = "writing" => writes' # <<>>,
         pc' = "idle" => built' = Empty /\ entries' = Empty,
         pc' \in {"planned", "indexing"} => entries' = Empty,
         command' # "build" \/ (pc' = "idle" /\ outcome' # "ok")
  PROVE  BuildInv'
BY DEF BuildInv, Steps, editorVars

LEMMA EditsKeepInv ==
  ASSUME UpdateAssumption, BuildInv, Developer PROVE BuildInv'
<1>1. /\ quiet' = FALSE /\ UNCHANGED <<writes, pc, built, command, entries>>
  BY DEF Developer, EditDocs, EditSource
<1>2. Typed'
  <2>1. CASE EditDocs
    BY <2>1 DEF EditDocs, Typed, BuildInv
  <2>2. ASSUME NEW f \in Files, EditSource(f) PROVE Typed'
    BY <2>2 DEF EditSource, Typed, BuildInv
  <2> QED
    BY <2>1, <2>2 DEF Developer
<1> QED
  BY <1>1, <1>2 DEF Typed, BuildInv

LEMMA UpdatesKeepInv ==
  ASSUME BuildInv, NEW cmd, NEW only, StartUpdate(cmd, only) PROVE BuildInv'
<1>1. /\ pc = "idle" /\ cmd # "build" /\ command' = cmd /\ UNCHANGED editorVars
      /\ entries = Empty
  BY DEF StartUpdate, MayStart, BuildInv
<1>2. \/ \E result : End(result)
      \/ pc' = "planned" /\ UNCHANGED <<entries, writes>>
      \/ Write(RefreshWrites, RefreshTarget) /\ UNCHANGED entries
  BY DEF StartUpdate
<1>3. /\ writes' \in Seq(Steps) /\ (pc' = "writing" => writes' # <<>>)
      /\ pc' = "idle" => built' = Empty /\ entries' = Empty
      /\ pc' \in {"planned", "indexing"} => entries' = Empty
  <2>1. CASE \E result : End(result)
    BY <2>1 DEF End
  <2>2. CASE pc' = "planned" /\ UNCHANGED <<entries, writes>>
    BY <1>1, <2>2 DEF BuildInv, Steps
  <2>3. CASE Write(RefreshWrites, RefreshTarget)
    BY <2>3, ListsOfWrites, WriteGoesOn
  <2> QED
    BY <1>2, <2>1, <2>2, <2>3
<1> QED
  BY <1>1, <1>3, OtherRunsKeepInv

(* Preparing and aggregating, in an update.                                *)
LEMMA UpdateStepsKeepInv ==
  ASSUME BuildInv, PrepareChanged \/ SkipAggregate \/ AggregateIncrementally \/ AggregateFully
  PROVE  BuildInv'
<1>1. command # "build" /\ command' = command /\ UNCHANGED editorVars /\ entries = Empty
  BY DEF PrepareChanged, SkipAggregate, AggregateIncrementally, AggregateFully, OnlyModified,
         Known, Indexed, BuildInv
<1>2. ASSUME NEW what \in Seq(Steps), NEW contents, Write(what, contents)
      PROVE  BuildInv'
  BY <1>1, <1>2, WriteGoesOn, OtherRunsKeepInv
<1>3. ASSUME NEW result, End(result) PROVE BuildInv'
  BY <1>1, <1>3, OtherRunsKeepInv DEF End
<1>4. CASE PrepareChanged
  <2>1. (\E result : End(result)) \/ (pc' = "indexing" /\ UNCHANGED <<writes, entries>>)
    BY <1>4 DEF PrepareChanged
  <2>2. CASE pc' = "indexing" /\ UNCHANGED <<writes, entries>>
    BY <1>1, <2>2, OtherRunsKeepInv DEF BuildInv, Steps
  <2> QED
    BY <1>3, <2>1, <2>2
<1>5. CASE SkipAggregate
  <2>1. RefreshWrites \o <<{"state"}>> \in Seq(Steps)
    <3>1. <<{"state"}>> \in Seq(Steps)
      BY ListsOfWrites
    <3> QED
      BY <3>1, ListsOfWrites, Joined
  <2> QED
    BY <1>2, <1>3, <1>5, <2>1 DEF SkipAggregate
<1>6. CASE AggregateIncrementally
  <2> DEFINE ifDocs(w) == IF artifact["orientation"] # docs THEN <<w>> ELSE <<>>
             list == <<{"rows"}>> \o ifDocs({"nodes"})
                       \o <<{"manifest"}, {"modules"}, {"diagnostics"}>>
                       \o ifDocs({"orientation"}) \o <<{"state"}>>
  <2>1. (\E result : End(result)) \/ \E contents : Write(list, contents)
    BY <1>6 DEF AggregateIncrementally
  <2>2. \A a \in Artifacts : <<{a}>> \in Seq(Steps) /\ ifDocs({a}) \in Seq(Steps)
    BY ListsOfWrites
  <2>3. <<{"manifest"}, {"modules"}, {"diagnostics"}>> \in Seq(Steps)
    BY DEF Steps, Artifacts, JsonArtifacts
  <2>4. {"rows", "nodes", "orientation"} \subseteq Artifacts
    BY DEF Artifacts, JsonArtifacts
  <2>5. list \in Seq(Steps)
    <3> HIDE DEF ifDocs
    <3>1. /\ <<{"rows"}>> \in Seq(Steps) /\ ifDocs({"nodes"}) \in Seq(Steps)
          /\ ifDocs({"orientation"}) \in Seq(Steps) /\ <<{"state"}>> \in Seq(Steps)
      BY <2>2, <2>4, ListsOfWrites
    <3>2. <<{"rows"}>> \o ifDocs({"nodes"}) \in Seq(Steps)
      BY <3>1, Joined
    <3>3. <<{"rows"}>> \o ifDocs({"nodes"})
            \o <<{"manifest"}, {"modules"}, {"diagnostics"}>> \in Seq(Steps)
      BY <2>3, <3>2, Joined
    <3>4. <<{"rows"}>> \o ifDocs({"nodes"})
            \o <<{"manifest"}, {"modules"}, {"diagnostics"}>> \o ifDocs({"orientation"})
          \in Seq(Steps)
      BY <3>1, <3>3, Joined
    <3> QED
      BY <3>1, <3>4, Joined
  <2> QED
    BY <1>2, <1>3, <2>1, <2>5
<1>7. CASE AggregateFully
  <2>1. (\E result : End(result)) \/ \E contents : Write(FullWrites, contents)
    BY <1>7 DEF AggregateFully
  <2> QED
    BY <1>2, <1>3, <2>1, ListsOfWrites
<1> QED
  BY <1>4, <1>5, <1>6, <1>7

(* The build itself, when no file fails to parse.                          *)
LEMMA BuildStarts ==
  ASSUME BuildInv, StartBuild PROVE BuildInv'
<1>1. /\ pc = "idle" /\ command' = "build" /\ pc' = "indexing" /\ quiet' = TRUE
      /\ files' = [f \in Files |-> NoFile] /\ pending' = Present
      /\ UNCHANGED <<source, mtime, edits, built, writes, entries>>
  BY DEF StartBuild, MayStart, editorVars
<1>2. built' = Empty /\ entries' = Empty
  BY <1>1 DEF BuildInv
<1>3. Present' = Present
  BY <1>1 DEF Present
<1>4. Indexing'
  <2>1. built' = [f \in Present' \ pending' |-> source'[f]]
    BY <1>1, <1>2, <1>3 DEF Empty
  <2>2. \A f \in Files : f \notin pending' => files'[f] = source'[f]
    BY <1>1 DEF Present
  <2> QED
    BY <1>1, <1>3, <2>1, <2>2 DEF Indexing
<1> QED
  BY <1>1, <1>2, <1>4 DEF BuildInv

LEMMA BuildIndexes ==
  ASSUME BuildInv, "indexFailure" \notin Hazards, NEW f \in Files, IndexFile(f) PROVE BuildInv'
<1>1. /\ pc = "indexing" /\ pc' = pc /\ f \in pending /\ pending' = pending \ {f}
      /\ UNCHANGED <<source, mtime, edits, command, quiet, writes, entries, outcome>>
  BY DEF IndexFile, editorVars
<1>2. Present' = Present
  BY <1>1 DEF Present
<1>3. ASSUME Indexing PROVE Indexing'
  <2>1. f \in Present /\ source[f] # NoFile
    BY <1>1, <1>3 DEF Indexing, Present
  <2>2. /\ files' = [files EXCEPT ![f] = source[f]]
        /\ built' = BuiltWith(f)
    BY <2>1 DEF IndexFile
  <2>3. built' = [g \in Present \ pending' |-> source[g]]
    <3>1. Present \ pending' = DOMAIN built \cup {f}
      BY <1>1, <1>3, <2>1 DEF Indexing
    <3>2. \A g \in DOMAIN built : built[g] = source[g]
      BY <1>3 DEF Indexing
    <3> QED
      BY <2>2, <3>1, <3>2 DEF BuiltWith, Overlay
  <2>4. DOMAIN files' = Files /\ \A g \in Files : g \notin pending' => files'[g] = source[g]
    BY <1>1, <1>3, <2>2 DEF Indexing
  <2> QED
    BY <1>1, <1>2, <1>3, <2>3, <2>4 DEF Indexing
<1> QED
  BY <1>1, <1>3 DEF BuildInv

LEMMA BuildAggregates ==
  ASSUME BuildInv, AggregateBuild PROVE BuildInv'
<1> DEFINE list == <<{"manifest"}, {"modules"}, {"diagnostics"}, {"orientation"}, {"state"},
                     {"rows", "nodes"}>>
<1>1. /\ pc = "indexing" /\ pending = {} /\ command = "build" /\ Write(list, Aggregated(built))
      /\ UNCHANGED <<source, mtime, docs, edits, files, artifact, state, command, quiet, entries>>
  BY DEF AggregateBuild, Indexed, editorVars, diskVars
<1>2. list \in Seq(Steps) /\ list # <<>>
  BY DEF Steps, Artifacts, JsonArtifacts
<1>3. pc' = "writing" /\ writes' = list /\ target' = Aggregated(built) /\ built' = built
  BY <1>1, <1>2, WriteGoesOn
<1>4. ASSUME quiet PROVE Writing'
  <2>1. Indexing
    BY <1>1, <1>4 DEF BuildInv
  <2>2. built = Sources /\ \A f \in Files : files[f] = source[f]
    BY <1>1, <2>1 DEF Indexing, Sources
  <2>3. Sources' = Sources /\ Aggregated(built) = Aggregated(Sources)'
    BY <1>1, <2>2 DEF Sources, Present, Aggregated
  <2>4. /\ list[1] = {"manifest"} /\ list[2] = {"modules"} /\ list[3] = {"diagnostics"}
        /\ list[4] = {"orientation"} /\ list[5] = {"state"} /\ list[6] = {"rows", "nodes"}
        /\ 1 .. Len(list) = 1 .. 6
    OBVIOUS
  <2>5. \A a \in Artifacts \cup {"state"} : \E i \in 1 .. Len(list) : a \in list[i]
    <3> HIDE DEF list
    <3>1. /\ "manifest" \in list[1] /\ "modules" \in list[2] /\ "diagnostics" \in list[3]
          /\ "orientation" \in list[4] /\ "state" \in list[5]
          /\ "rows" \in list[6] /\ "nodes" \in list[6]
      BY <2>4
    <3>2. {1, 2, 3, 4, 5, 6} \subseteq 1 .. Len(list)
      BY <2>4
    <3> QED
      BY <3>1, <3>2 DEF Artifacts, JsonArtifacts
  <2>6. \A a \in Artifacts \cup {"state"} : Due(a)'
    BY <1>3, <2>5 DEF Due
  <2>7. NothingInPlace'
    BY <1>3, <2>4 DEF NothingInPlace, InPlace, Replaces
  <2> HIDE DEF list
  <2> QED
    BY <1>1, <1>3, <2>1, <2>2, <2>3, <2>6, <2>7 DEF Writing, Indexing
<1> HIDE DEF list
<1> QED
  BY <1>1, <1>2, <1>3, <1>4 DEF BuildInv, Steps

(* What is due is in the next write or in a later one.                     *)
LEMMA DueIsNextOrLater ==
  ASSUME writes \in Seq(Steps), writes # <<>>, NEW what, Due(what)
  PROVE  \/ what \in Head(writes)
         \/ Len(writes) # 1 /\ \E i \in 1 .. Len(Tail(writes)) : what \in Tail(writes)[i]
<1>1. /\ Head(writes) = writes[1] /\ Len(writes) \in Nat \ {0}
      /\ Len(Tail(writes)) = Len(writes) - 1
      /\ \A i \in 1 .. Len(writes) - 1 : Tail(writes)[i] = writes[i + 1]
  OBVIOUS
<1>2. PICK i \in 1 .. Len(writes) : what \in writes[i]
  BY DEF Due
<1> SUFFICES ASSUME i # 1
             PROVE  Len(writes) # 1 /\ \E j \in 1 .. Len(Tail(writes)) : what \in Tail(writes)[j]
  BY <1>1, <1>2
<1>3. i - 1 \in 1 .. Len(Tail(writes)) /\ Tail(writes)[i - 1] = writes[i]
  BY <1>1
<1>4. Len(writes) # 1 /\ what \in Tail(writes)[i - 1]
  BY <1>1, <1>2, <1>3
<1> QED
  BY <1>3, <1>4

(* A write takes the next of the list, and the last one ends the run.      *)
LEMMA WritesGoOn ==
  ASSUME BuildInv, WriteNext PROVE BuildInv'
<1>1. /\ pc = "writing" /\ writes # <<>> /\ writes \in Seq(Steps)
      /\ artifact' = Put(Head(writes)) /\ Close(Head(writes))
      /\ state' = IF "state" \in Head(writes) THEN NewState ELSE state
      /\ UNCHANGED <<source, mtime, docs, edits, files, command, quiet>>
  BY DEF WriteNext, editorVars, BuildInv, Steps
<1>2. /\ Head(writes) = writes[1] /\ Len(writes) \in Nat \ {0}
      /\ Tail(writes) \in Seq(Steps) /\ Len(Tail(writes)) = Len(writes) - 1
      /\ \A i \in 1 .. Len(writes) - 1 : Tail(writes)[i] = writes[i + 1]
  BY <1>1
<1>3. /\ Sources' = Sources /\ Aggregated(Sources)' = Aggregated(Sources)
      /\ Stamp(Sources)' = Stamp(Sources)
  BY <1>1 DEF Sources, Present, Aggregated, Stamp
<1>4. \A what : Due(what) =>
        \/ what \in Head(writes)
        \/ Len(writes) # 1 /\ \E i \in 1 .. Len(Tail(writes)) : what \in Tail(writes)[i]
  BY <1>1, DueIsNextOrLater
<1>5. ASSUME quiet, command = "build"
      PROVE  /\ Writing /\ NewState = Stamp(Sources)
             /\ \A a \in Artifacts : \/ artifact'[a] = target[a]
                                     \/ a \notin Head(writes) /\ Due(a)
                                     \/ Spoilt(a)'
             /\ state' = Stamp(Sources) \/ ("state" \notin Head(writes) /\ Due("state"))
  <2>1. Writing /\ entries = Empty
    BY <1>1, <1>5 DEF BuildInv
  <2>2. NewState = Stamp(Sources)
    BY <1>5, <2>1 DEF NewState, Writing
  <2>3. /\ ~InPlace(Head(writes))
        /\ Head(writes) \cap {"rows", "nodes"} # {} => Replaces(Head(writes))
    BY <1>2, <2>1 DEF Writing, NothingInPlace
  <2>4. log' = log
    BY <1>1, <2>3 DEF Close
  <2>5. ASSUME NEW a \in Artifacts
        PROVE  artifact'[a] = target[a] \/ (a \notin Head(writes) /\ Due(a)) \/ Spoilt(a)'
    BY <1>1, <2>1, <2>3, <2>4 DEF Put, Writing, Spoilt
  <2> QED
    BY <1>1, <2>1, <2>2, <2>5 DEF Writing
<1>6. CASE Len(writes) = 1
  <2>1. pc' = "idle" /\ built' = Empty /\ entries' = Empty /\ writes' = <<>>
    BY <1>6 DEF WriteNext, End
  <2>2. ASSUME quiet, command = "build" PROVE Healed'
    BY <1>1, <1>3, <1>4, <1>5, <1>6, <2>2 DEF Healed, Writing
  <2> QED
    BY <1>1, <2>1, <2>2 DEF BuildInv
<1>7. CASE Len(writes) # 1
  <2>1. writes' = Tail(writes) /\ UNCHANGED <<pc, built, target, entries, outcome>>
    BY <1>7 DEF WriteNext
  <2>2. ASSUME quiet, command = "build" PROVE Writing'
    <3>1. NothingInPlace'
      BY <1>2, <1>5, <2>1, <2>2 DEF Writing, NothingInPlace
    <3> QED
      BY <1>1, <1>3, <1>4, <1>5, <2>1, <2>2, <3>1 DEF Writing, Due
  <2>3. writes' # <<>>
    <3>1. Len(writes') # 0
      BY <1>2, <1>7, <2>1
    <3> QED
      BY <3>1
  <2> QED
    BY <1>1, <1>2, <2>1, <2>2, <2>3 DEF BuildInv, Steps
<1> QED
  BY <1>6, <1>7

LEMMA BuildInvHoldsAtFirst == Init => BuildInv
BY DEF Init, BuildInv

LEMMA BuildInvIsKept ==
  ASSUME "indexFailure" \notin Hazards, BuildInv, [Next]_vars PROVE BuildInv'
<1>1. CASE Kill \/ DatabaseFails
  <2>1. PICK result \in {"killed", "failed"} : End(result)
    BY <1>1 DEF Kill, DatabaseFails
  <2>2. UNCHANGED editorVars
    BY <1>1 DEF Kill, DatabaseFails
  <2>3. /\ writes' \in Seq(Steps) /\ pc' = "idle" /\ outcome' # "ok"
        /\ built' = Empty /\ entries' = Empty
    BY <2>1 DEF End
  <2> QED
    BY <2>2, <2>3, OtherRunsKeepInv
<1>2. CASE UNCHANGED vars
  <2> USE <1>2 DEF vars, editorVars, diskVars, runVars
  <2>1. Sources' = Sources /\ Present' = Present
    BY DEF Sources, Present
  <2>2. Aggregated(Sources)' = Aggregated(Sources) /\ Stamp(Sources)' = Stamp(Sources)
    BY <2>1 DEF Aggregated, Stamp
  <2>3. (Indexing => Indexing') /\ (Writing => Writing') /\ (Healed => Healed')
    BY <2>1, <2>2 DEF Indexing, Writing, NothingInPlace, Spoilt, Healed, Due
  <2> QED
    BY <2>3 DEF BuildInv
<1> QED
  BY <1>1, <1>2, UpdateAssumption, EditsKeepInv, UpdatesKeepInv, UpdateStepsKeepInv,
     BuildStarts, BuildIndexes, BuildAggregates, WritesGoOn DEF Next, Run

(* A successful build that nobody disturbed heals the index, whatever
   updates, kills and saves came before (ProjectIndexUpdate.BuildHeals):
   files, manifest, documents and hashes all show the sources, and so does
   the database unless a log of the one before it lies beside it.          *)
THEOREM BuildsHeal ==
  ASSUME "indexFailure" \notin Hazards PROVE Spec => []BuildHeals
<1>1. BuildInv /\ [Next]_vars => BuildInv'
  BY BuildInvIsKept
<1>2. BuildInv => BuildHeals
  BY HealedIsCurrent DEF BuildHeals, CleanRun, BuildInv
<1> QED
  BY BuildInvHoldsAtFirst, <1>1, <1>2, PTL DEF Spec
-----------------------------------------------------------------------------
(* The artifact shows the file as it is.                                   *)
Has(x, f) == f \in DOMAIN x /\ x[f] = source[f]

(* ... and so does the one on disk, if it is rows that can be read.        *)
Shows(a, f) == Has(artifact[a], f) \/ (a = "rows" /\ artifact[a] = Torn)

(* The update state says that nothing is to be done for the file.          *)
Vouched(f) == f \in DOMAIN state /\ state[f].hash = source[f]

(* What the state knows was once there, and a stamp is that of one save.   *)
StateIsTrue ==
  IsUsable(state) =>
    /\ DOMAIN state \subseteq Files
    /\ \A f \in DOMAIN state :
         /\ state[f].hash \in seen[f] /\ state[f].mtime \in 0 .. edits
         /\ f \in Present /\ state[f].mtime = mtime[f] => Vouched(f)

(* What it vouches for is so, in every artifact that is whole.             *)
VouchedIsIndexed ==
  IsUsable(state) /\ IsUsable(artifact["manifest"]) =>
    \A f \in Present : Vouched(f) =>
      files[f] = source[f] /\ Shows("manifest", f) /\ Shows("rows", f)

Changed == plan.added \cup plan.modified

(* The plan of an update leaves out only what the state vouches for.       *)
Planned ==
  /\ command = "update" /\ IsUsable(state) /\ IsUsable(artifact["manifest"])
  /\ plan.current = Present /\ Changed \subseteq Present /\ plan.deleted \cap Present = {}
  /\ plan.hash = Sources
  /\ \A f \in Present : f \in Changed <=> ~Vouched(f)

UpdateIndexing ==
  /\ pending \subseteq Changed
  /\ built = [f \in Changed \ pending |-> source[f]]
  /\ \A f \in Changed \ pending : files[f] = source[f]

(* The state goes last, and what is written before shows the sources: all of
   them after a full update, and after a refresh what it showed before.    *)
UpdateWriting ==
  /\ IsUsable(artifact["manifest"])
  /\ Due("manifest") => IsUsable(target["manifest"])
  /\ \A i \in 1 .. Len(writes) :
       "state" \in writes[i] => i = Len(writes) /\ writes[i] = {"state"}
  /\ Due("state") => NewState = Stamp(Sources) /\ command = "update"
  /\ command = "update" => IsUsable(state) /\ \A f \in Present : files[f] = source[f]
  /\ \A a \in {"manifest", "rows"}, f \in Present :
       /\ Due(a) /\ (command = "update" \/ (IsUsable(state) /\ Vouched(f))) => Has(target[a], f)
       /\ ~Due(a) /\ command = "update" => Shows(a, f)

EverythingIndexed ==
  \A f \in Present : files[f] = source[f] /\ Shows("manifest", f) /\ Shows("rows", f)

(* What holds since the last clean build.                                  *)
PlainRun ==
  /\ state # NoFile /\ DOMAIN files = Files
  /\ StateIsTrue /\ VouchedIsIndexed
  /\ command \in {"build", "update", "docs"}
  /\ pc # "idle" => command # "build"
  /\ pc \in {"planned", "indexing"} => Planned
  /\ pc = "planned" => built = Empty
  /\ pc = "indexing" => UpdateIndexing
  /\ pc = "writing" => UpdateWriting
  /\ pc = "idle" /\ outcome = "ok" /\ quiet /\ command = "update" => EverythingIndexed

PlainInv ==
  /\ seen \in [Files -> SUBSET (Content \cup {NoFile})]
  /\ \A f \in Files : source[f] \in seen[f] /\ mtime[f] <= edits
  /\ DOMAIN artifact = Artifacts
  /\ plain => PlainRun

LEMMA SourcesAreContents ==
  ASSUME BuildInv
  PROVE  /\ Sources \in [Present -> Content] /\ Present \in SUBSET Files
         /\ IsUsable(Sources) /\ IsUsable(Stamp(Sources))
<1>1. Present \in SUBSET Files /\ Sources \in [Present -> Content]
  BY DEF Sources, Present, BuildInv
<1>2. Stamp(Sources) \in [Present -> [hash : Content, mtime : Nat]]
  <2>1. Stamp(Sources) = [f \in Present |-> [hash |-> source[f], mtime |-> mtime[f]]]
    BY DEF Stamp, Sources
  <2>2. \A f \in Present : source[f] \in Content /\ mtime[f] \in Nat
    BY DEF Present, BuildInv
  <2> QED
    BY <2>1, <2>2
<1> QED
  BY <1>1, <1>2, MarkAssumption DEF IsUsable

(* Nothing is saved while a plain update runs, so a step that leaves the    *)
(* index alone keeps what is known of it.                                   *)
LEMMA SourcesStay ==
  ASSUME UNCHANGED <<source, mtime>>
  PROVE  /\ Present' = Present /\ Sources' = Sources /\ Stamp(Sources)' = Stamp(Sources)
         /\ \A x, f : Has(x, f)' <=> Has(x', f)
BY DEF Present, Sources, Stamp, Has

(* A save while no update runs takes away what the state vouches for, and
   never adds to it: the content is new, and so is the stamp.              *)
LEMMA SavesKeepPlain ==
  ASSUME UpdateAssumption, BuildInv, PlainInv, "revert" \notin Hazards, NEW f \in Files,
         EditSource(f)
  PROVE  PlainInv'
<1>1. PICK c \in Content \cup {NoFile} :
        /\ c = NoFile => source[f] # NoFile
        /\ c = source[f] \/ c \notin seen[f]
        /\ source' = [source EXCEPT ![f] = c]
        /\ mtime' = [mtime EXCEPT ![f] = IF c = NoFile THEN 0 ELSE edits + 1]
        /\ seen' = [seen EXCEPT ![f] = @ \cup {c}]
  BY DEF EditSource
<1>2. /\ edits' = edits + 1 /\ quiet' = FALSE /\ plain' = (plain /\ pc = "idle")
      /\ UNCHANGED <<files, artifact, state, command, pc>>
  BY DEF EditSource, diskVars
<1>3. /\ edits \in Nat /\ mtime \in [Files -> Nat] /\ source \in [Files -> Content \cup {NoFile}]
      /\ seen \in [Files -> SUBSET (Content \cup {NoFile})]
  BY DEF BuildInv, PlainInv
<1>4. /\ seen' \in [Files -> SUBSET (Content \cup {NoFile})] /\ DOMAIN artifact' = Artifacts
      /\ \A g \in Files : source'[g] \in seen'[g] /\ mtime'[g] <= edits'
  BY <1>1, <1>2, <1>3 DEF PlainInv
<1>5. ASSUME plain, pc = "idle" PROVE PlainRun'
  <2>0. PlainRun
    BY <1>5 DEF PlainInv
  <2>1. ASSUME IsUsable(state), NEW g \in DOMAIN state, g \in Present', Vouched(g)'
        PROVE  g \in Files /\ source'[g] = source[g] /\ g \in Present /\ Vouched(g)
    <3>1. g \in Files /\ state[g].hash \in seen[g]
      BY <2>0, <2>1 DEF PlainRun, StateIsTrue, IsUsable
    <3>2. state[g].hash = source'[g]
      BY <1>2, <2>1 DEF Vouched
    <3>3. source'[g] = source[g]
      BY <1>1, <1>3, <3>1, <3>2
    <3> QED
      BY <1>2, <2>1, <3>1, <3>2, <3>3 DEF Present, Vouched
  <2>2. StateIsTrue'
    <3> SUFFICES ASSUME IsUsable(state), NEW g \in DOMAIN state
                 PROVE  /\ g \in Files /\ state[g].hash \in seen'[g]
                        /\ state[g].mtime \in 0 .. edits'
                        /\ g \in Present' /\ state[g].mtime = mtime'[g] => Vouched(g)'
      BY <1>2 DEF StateIsTrue, IsUsable
    <3>1. /\ g \in Files /\ state[g].hash \in seen[g] /\ state[g].mtime \in 0 .. edits
          /\ g \in Present /\ state[g].mtime = mtime[g] => Vouched(g)
      BY <2>0 DEF PlainRun, StateIsTrue, IsUsable
    <3>2. ASSUME g \in Present', state[g].mtime = mtime'[g] PROVE Vouched(g)'
      <4>1. g # f
        BY <1>1, <1>3, <3>1, <3>2 DEF Present
      <4> QED
        BY <1>1, <1>2, <1>3, <3>1, <3>2, <4>1 DEF Present, Vouched
    <3> QED
      BY <1>1, <1>2, <1>3, <3>1, <3>2
  <2>3. VouchedIsIndexed'
    BY <1>2, <2>0, <2>1 DEF PlainRun, VouchedIsIndexed, IsUsable, Vouched, Shows, Has, Present
  <2> QED
    BY <1>2, <1>5, <2>0, <2>2, <2>3 DEF PlainRun
<1> QED
  BY <1>2, <1>4, <1>5 DEF PlainInv

(* Only the disk counts between two runs, however the last one ended unless
   it says that it has done an update.                                     *)
LEMMA EndedKeepsPlain ==
  ASSUME PlainInv, UNCHANGED <<source, mtime, edits, seen, artifact, state>>,
         plain' => plain, pc' = "idle", outcome' # "ok",
         plain' => command' \in {"build", "update", "docs"},
         plain => DOMAIN files' = Files /\ \A f \in Present :
           files'[f] = files[f] \/ (IsUsable(state) => ~Vouched(f))
  PROVE  PlainInv'
<1>1. Present' = Present
  BY DEF Present
<1>2. ASSUME plain' PROVE PlainRun'
  <2>1. PlainRun
    BY <1>2 DEF PlainInv
  <2>2. StateIsTrue'
    BY <1>1, <2>1 DEF PlainRun, StateIsTrue, Vouched, IsUsable
  <2>3. VouchedIsIndexed'
    BY <1>1, <1>2, <2>1 DEF PlainRun, VouchedIsIndexed, Vouched, IsUsable, Shows, Has
  <2> QED
    BY <1>2, <2>1, <2>2, <2>3 DEF PlainRun
<1> QED
  BY <1>2 DEF PlainInv

(* The run goes on, and neither the sources nor the disk change.           *)
LEMMA GoingOnKeepsPlain ==
  ASSUME PlainInv, UNCHANGED <<source, mtime, seen, files, artifact, state>>,
         edits' \in Nat, edits <= edits', BuildInv,
         plain' => plain,
         plain' => command' \in {"build", "update", "docs"},
         plain' => /\ pc' # "idle" => command' # "build"
                   /\ pc' \in {"planned", "indexing"} => Planned'
                   /\ pc' = "planned" => built' = Empty
                   /\ pc' = "indexing" => UpdateIndexing'
                   /\ pc' = "writing" => UpdateWriting'
                   /\ pc' = "idle" /\ outcome' = "ok" /\ quiet' /\ command' = "update"
                        => EverythingIndexed'
  PROVE  PlainInv'
<1>1. Present' = Present /\ edits \in Nat /\ mtime \in [Files -> Nat]
  BY DEF Present, BuildInv
<1>2. ASSUME plain' PROVE PlainRun'
  <2>1. PlainRun
    BY <1>2 DEF PlainInv
  <2>2. StateIsTrue'
    <3>1. \A n \in 0 .. edits : n \in 0 .. edits'
      BY <1>1
    <3>2. StateIsTrue /\ (IsUsable(state)' <=> IsUsable(state)) /\ \A f : Vouched(f)' <=> Vouched(f)
      BY <2>1 DEF PlainRun, Vouched, IsUsable
    <3> QED
      BY <1>1, <3>1, <3>2 DEF StateIsTrue
  <2>3. VouchedIsIndexed'
    BY <1>1, <2>1 DEF PlainRun, VouchedIsIndexed, Vouched, IsUsable, Shows, Has
  <2> QED
    BY <1>2, <2>1, <2>2, <2>3 DEF PlainRun
<1>3. \A f \in Files : mtime[f] <= edits'
  BY <1>1 DEF PlainInv
<1> QED
  BY <1>2, <1>3 DEF PlainInv

(* Documents may be edited any time; they are no sources.                  *)
LEMMA DocsKeepPlain ==
  ASSUME BuildInv, PlainInv, EditDocs PROVE PlainInv'
<1>1. /\ UNCHANGED <<source, mtime, seen, files, artifact, state, command, pc, plan, pending,
                     built, target, entries, writes, outcome, plain>>
      /\ edits' = edits + 1 /\ quiet' = FALSE
  BY DEF EditDocs, diskVars
<1>2. edits' \in Nat /\ edits <= edits'
  BY <1>1 DEF BuildInv
<1>3. /\ Present' = Present /\ Sources' = Sources /\ Stamp(Sources)' = Stamp(Sources)
      /\ Stamp(built)' = Stamp(built) /\ Stamp(plan.hash)' = Stamp(plan.hash)
      /\ \A f : Vouched(f)' <=> Vouched(f)
      /\ \A a, f : Shows(a, f)' <=> Shows(a, f)
      /\ \A a, f : Has(target[a], f)' <=> Has(target[a], f)
  BY <1>1 DEF Present, Sources, Stamp, Vouched, Shows, Has
<1>4. NewState' = NewState /\ Changed' = Changed /\ \A what : Due(what)' <=> Due(what)
  BY <1>1, <1>3 DEF NewState, StateFiles, Changed, Due
<1>5. ASSUME plain PROVE PlainRun
  BY <1>5 DEF PlainInv
<1>6. ASSUME Planned PROVE Planned'
  BY <1>1, <1>3, <1>4, <1>6 DEF Planned, IsUsable
<1>7. ASSUME UpdateIndexing PROVE UpdateIndexing'
  BY <1>1, <1>4, <1>7 DEF UpdateIndexing
<1>8. ASSUME UpdateWriting PROVE UpdateWriting'
  BY <1>1, <1>3, <1>4, <1>8 DEF UpdateWriting, IsUsable, Has
<1> QED
  BY <1>1, <1>2, <1>5, <1>6, <1>7, <1>8, GoingOnKeepsPlain DEF PlainRun

(* What an update finds changed is what its state does not vouch for.      *)
LEMMA PlanOfAnUpdate ==
  ASSUME BuildInv, PlainRun, IsUsable(state), IsUsable(artifact["manifest"])
  PROVE  LET p == UpdatePlan("update", Files) IN
           /\ p.current = Present /\ p.hash = Sources
           /\ p.added \cup p.modified \subseteq Present /\ p.deleted \cap Present = {}
           /\ \A f \in Present : f \in p.added \cup p.modified <=> ~Vouched(f)
<1> DEFINE manifest == DOMAIN artifact["manifest"]
           hash == [f \in Present |-> IF Trusted(f, Files) THEN StateFiles[f].hash
                                     ELSE IF f \in Files THEN source[f]
                                     ELSE artifact["manifest"][f]]
           modified == {f \in Present \cap manifest :
                          \/ "update" = "force"
                          \/ f \in Files /\ f \notin DOMAIN StateFiles
                          \/ f \in Files /\ StateFiles[f].hash # hash[f]}
<1>1. UpdatePlan("update", Files) = [current |-> Present, added |-> Present \ manifest,
                                     modified |-> modified, deleted |-> manifest \ Present,
                                     hash |-> hash]
  BY DEF UpdatePlan
<1>2. StateFiles = state /\ Present \subseteq Files
  BY DEF StateFiles, IsUsable, Present
<1>3. \A f \in Present : hash[f] = source[f]
  BY <1>2 DEF PlainRun, StateIsTrue, Vouched, Trusted
<1>4. hash = Sources
  BY <1>3 DEF Sources
<1>5. \A f \in Present : Vouched(f) => f \in manifest
  BY DEF PlainRun, VouchedIsIndexed, Shows, Has
<1>6. \A f \in Present : f \in modified <=> f \in manifest /\ ~Vouched(f)
  BY <1>2, <1>3 DEF Vouched
<1> HIDE DEF manifest, hash, modified
<1>7. \A f \in Present : f \in (Present \ manifest) \cup modified <=> ~Vouched(f)
  BY <1>5, <1>6
<1>8. modified \subseteq Present
  BY DEF modified
<1> QED
  BY <1>1, <1>4, <1>7, <1>8

LEMMA WhatRefreshWrites ==
  /\ \A i \in 1 .. Len(RefreshWrites) : "state" \notin RefreshWrites[i]
  /\ \A i \in 1 .. Len(RefreshWrites) : "rows" \notin RefreshWrites[i]
<1>1. CASE artifact["orientation"] = docs
  BY <1>1 DEF RefreshWrites
<1>2. CASE artifact["orientation"] # docs
  BY <1>2 DEF RefreshWrites
<1> QED
  BY <1>1, <1>2

(* An update plans all that the state does not vouch for; if that is
   nothing, the index already shows every file.                            *)
LEMMA UpdatesStartPlain ==
  ASSUME BuildInv, PlainInv, NEW cmd, NEW only, StartUpdate(cmd, only)
  PROVE  PlainInv'
<1>1. /\ pc = "idle" /\ cmd # "build" /\ command' = cmd /\ quiet' = TRUE
      /\ artifact["manifest"] # NoFile /\ built = Empty /\ edits \in Nat
      /\ plain' = (plain /\ cmd \in {"update", "docs"})
      /\ UNCHANGED <<source, mtime, edits, seen, docs, files, artifact, state>>
  BY DEF StartUpdate, MayStart, BuildInv, editorVars, diskVars
<1> DEFINE p == IF cmd = "docs" THEN NoPlan ELSE UpdatePlan(cmd, only)
           damaged == artifact["manifest"] = Torn \/ (cmd # "docs" /\ state = Torn)
<1>2. \/ End("failed")
      \/ /\ ~damaged /\ p.added \cup p.modified \cup p.deleted # {}
         /\ pc' = "planned" /\ plan' = p /\ UNCHANGED built
      \/ /\ ~damaged /\ p.added \cup p.modified \cup p.deleted = {}
         /\ End("failed") \/ Write(RefreshWrites, RefreshTarget)
  BY DEF StartUpdate
<1>3. CASE End("failed")
  BY <1>1, <1>3, EndedKeepsPlain DEF End, PlainInv, PlainRun
<1>4. ASSUME plain' PROVE PlainRun /\ cmd \in {"update", "docs"} /\ DOMAIN artifact = Artifacts
  BY <1>1, <1>4 DEF PlainInv
<1>5. /\ edits' \in Nat /\ edits <= edits' /\ (plain' => plain)
      /\ plain' => command' \in {"build", "update", "docs"} /\ command' # "build"
  <2>1. edits' \in Nat /\ edits <= edits'
    BY <1>1
  <2>2. (plain' => plain) /\ (plain' => cmd \in {"update", "docs"})
    BY Zenon, <1>1
  <2> QED
    BY <1>1, <2>1, <2>2
<1>6. cmd = "docs" => p.added \cup p.modified \cup p.deleted = {}
  BY DEF NoPlan
<1>7. ASSUME cmd = "update" PROVE only = Files
  BY <1>7 DEF StartUpdate, MayList
<1>8. ASSUME plain', ~damaged, cmd = "update"
      PROVE  /\ IsUsable(state) /\ IsUsable(artifact["manifest"])
             /\ p.current = Present /\ p.hash = Sources
             /\ p.added \cup p.modified \subseteq Present /\ p.deleted \cap Present = {}
             /\ \A f \in Present : f \in p.added \cup p.modified <=> ~Vouched(f)
  <2>1. IsUsable(state) /\ IsUsable(artifact["manifest"])
    BY <1>1, <1>4, <1>8 DEF PlainRun, IsUsable
  <2>2. p = UpdatePlan("update", Files)
    BY <1>7, <1>8
  <2> HIDE DEF p
  <2> QED
    BY <1>4, <1>8, <2>1, <2>2, PlanOfAnUpdate
<1>9. CASE /\ ~damaged /\ p.added \cup p.modified \cup p.deleted # {}
           /\ pc' = "planned" /\ plan' = p /\ UNCHANGED built
  <2>1. ASSUME plain' PROVE Planned' /\ built' = Empty /\ command' = "update"
    <3>1. cmd = "update"
      BY <1>4, <1>6, <1>9, <2>1
    <3> HIDE DEF p, damaged
    <3>2. Present' = Present /\ Sources' = Sources /\ \A f : Vouched(f)' <=> Vouched(f)
      BY <1>1 DEF Present, Sources, Vouched
    <3> QED
      BY <1>1, <1>8, <1>9, <2>1, <3>1, <3>2 DEF Planned, Changed, IsUsable
  <2>2. pc' = "planned"
    BY <1>9
  <2> HIDE DEF p, damaged
  <2> QED
    BY <1>1, <1>5, <2>1, <2>2, GoingOnKeepsPlain
<1>10. CASE /\ ~damaged /\ p.added \cup p.modified \cup p.deleted = {}
           /\ Write(RefreshWrites, RefreshTarget)
  <2>1. ASSUME plain', cmd = "update" PROVE \A f \in Present : Vouched(f)
    BY <1>8, <1>10, <2>1
  <2>2. ASSUME plain', cmd = "update" PROVE IsUsable(state) /\ EverythingIndexed
    BY <1>4, <1>8, <1>10, <2>1, <2>2 DEF PlainRun, VouchedIsIndexed, EverythingIndexed
  <2>3. (plain' => IsUsable(artifact["manifest"])) /\ (plain' /\ cmd = "update" => IsUsable(state))
    BY <1>1, <1>10, <2>2 DEF IsUsable
  <2> HIDE DEF p, damaged
  <2>4. CASE RefreshWrites = <<>>
    <3>1. pc' = "idle"
      BY <1>10, <2>4 DEF Write, End
    <3>2. ASSUME plain', cmd = "update" PROVE EverythingIndexed'
      BY <1>1, <2>2, <3>2 DEF EverythingIndexed, Present, Shows, Has
    <3> QED
      BY <1>1, <1>5, <3>1, <3>2, GoingOnKeepsPlain
  <2>5. CASE RefreshWrites # <<>>
    <3>1. pc' = "writing" /\ writes' = RefreshWrites /\ target' = RefreshTarget
      BY <1>10, <2>5 DEF Write
    <3>2. ASSUME plain' PROVE UpdateWriting'
      <4>1. /\ DOMAIN artifact = Artifacts
            /\ target'["manifest"] = artifact["manifest"] /\ target'["rows"] = artifact["rows"]
        BY <1>4, <3>1, <3>2 DEF RefreshTarget, Artifacts, JsonArtifacts
      <4>2. ~Due("state")' /\ ~Due("rows")'
        BY <3>1, WhatRefreshWrites DEF Due
      <4>3. Present' = Present /\ \A f : Vouched(f)' <=> Vouched(f)
        BY <1>1 DEF Present, Vouched
      <4>4. \A a \in {"manifest", "rows"}, f \in Present :
              cmd = "update" \/ (IsUsable(state) /\ Vouched(f)) =>
                Shows(a, f) /\ files[f] = source[f]
        BY <1>4, <2>2, <2>3, <3>2 DEF PlainRun, VouchedIsIndexed, EverythingIndexed
      <4>5. \A f : /\ Has(target["manifest"], f)' <=> Shows("manifest", f)
                   /\ \A a \in {"manifest", "rows"} : Shows(a, f)' <=> Shows(a, f)
        BY <1>1, <4>1 DEF Shows, Has
      <4>6. \A i \in 1 .. Len(writes') : "state" \notin writes'[i]
        BY <3>1, WhatRefreshWrites
      <4> QED
        BY <1>1, <2>2, <2>3, <3>2, <4>1, <4>2, <4>3, <4>4, <4>5, <4>6
           DEF UpdateWriting, IsUsable, EverythingIndexed
    <3> QED
      BY <1>1, <1>5, <3>1, <3>2, GoingOnKeepsPlain
  <2> QED
    BY <2>4, <2>5
<1> QED
  BY <1>2, <1>3, <1>9, <1>10

(* A build counts only when it has succeeded.                              *)
LEMMA BuildsStartPlain ==
  ASSUME BuildInv, PlainInv, StartBuild PROVE PlainInv'
BY DEF StartBuild, PlainInv, editorVars

LEMMA PreparingKeepsPlain ==
  ASSUME BuildInv, PlainInv, PrepareChanged PROVE PlainInv'
<1>1. /\ pc = "planned"
      /\ files' = [f \in Files |-> IF f \in plan.deleted THEN NoFile ELSE files[f]]
      /\ UNCHANGED <<source, mtime, edits, seen, artifact, state, command, plain>>
  BY DEF PrepareChanged, editorVars
<1>2. ASSUME plain PROVE PlainRun /\ Planned /\ built = Empty
  BY <1>1, <1>2 DEF PlainInv, PlainRun
<1>3. plain => DOMAIN files' = Files /\ \A f \in Present : f \in Files /\ files'[f] = files[f]
  BY <1>1, <1>2 DEF Planned, Present
<1>4. CASE End("failed")
  <2>1. pc' = "idle" /\ outcome' # "ok"
    BY <1>4 DEF End
  <2>2. plain' => command' \in {"build", "update", "docs"}
    BY <1>1, <1>2 DEF PlainRun
  <2> QED
    BY <1>1, <1>3, <2>1, <2>2, EndedKeepsPlain
<1>5. CASE pc' = "indexing" /\ pending' = Changed /\ UNCHANGED <<plan, built>>
  <2>1. Present' = Present /\ Sources' = Sources /\ \A f : Vouched(f)' <=> Vouched(f)
    BY <1>1 DEF Present, Sources, Vouched
  <2>2. ASSUME plain PROVE PlainRun'
    <3>1. Planned'
      BY <1>1, <1>2, <1>5, <2>1, <2>2 DEF Planned, Changed, IsUsable
    <3>2. UpdateIndexing'
      <4>1. built' = Empty /\ pending' = Changed'
        BY <1>2, <1>5, <2>2 DEF Changed
      <4> QED
        BY <4>1 DEF UpdateIndexing, Empty
    <3>3. StateIsTrue'
      BY <1>1, <1>2, <2>1, <2>2 DEF PlainRun, StateIsTrue, IsUsable
    <3>4. VouchedIsIndexed'
      BY <1>1, <1>2, <1>3, <2>1, <2>2 DEF PlainRun, VouchedIsIndexed, IsUsable, Shows, Has
    <3> QED
      BY <1>1, <1>2, <1>3, <1>5, <2>2, <3>1, <3>2, <3>3, <3>4 DEF PlainRun
  <2> QED
    BY <1>1, <2>2 DEF PlainInv
<1> QED
  BY <1>4, <1>5 DEF PrepareChanged, Changed

LEMMA IndexingKeepsPlain ==
  ASSUME BuildInv, PlainInv, "indexFailure" \notin Hazards, NEW f \in Files, IndexFile(f)
  PROVE  PlainInv'
<1>1. /\ pc = "indexing" /\ f \in pending /\ pending' = pending \ {f}
      /\ UNCHANGED <<source, mtime, edits, seen, artifact, state, command, pc, plan, plain>>
  BY DEF IndexFile, editorVars
<1>2. /\ Present' = Present /\ Sources' = Sources /\ Changed' = Changed
      /\ \A g : Vouched(g)' <=> Vouched(g)
  BY <1>1 DEF Present, Sources, Vouched, Changed
<1>3. ASSUME plain PROVE PlainRun'
  <2>1. PlainRun /\ Planned /\ UpdateIndexing
    BY <1>1, <1>3 DEF PlainInv, PlainRun
  <2>2. f \in Changed /\ source[f] # NoFile
    BY <1>1, <2>1 DEF Planned, UpdateIndexing, Present
  <2>3. files' = [files EXCEPT ![f] = source[f]] /\ built' = BuiltWith(f)
    BY <2>2 DEF IndexFile
  <2>4. built' = [g \in Changed \ pending' |-> source[g]]
    <3>1. Changed \ pending' = DOMAIN built \cup {f}
      BY <1>1, <2>1, <2>2 DEF UpdateIndexing
    <3>2. \A g \in DOMAIN built : built[g] = source[g]
      BY <2>1 DEF UpdateIndexing
    <3> QED
      BY <2>3, <3>1, <3>2 DEF BuiltWith, Overlay
  <2>5. /\ DOMAIN files' = Files
        /\ \A g \in Files : files'[g] = IF g = f THEN source[f] ELSE files[g]
    BY <2>1, <2>3 DEF PlainRun
  <2>6. UpdateIndexing'
    <3>1. \A g \in Changed \ pending' : files'[g] = source[g]
      BY <1>1, <2>1, <2>5 DEF UpdateIndexing, Planned, Present
    <3> QED
      BY <1>1, <1>2, <2>1, <2>4, <3>1 DEF UpdateIndexing
  <2>7. Planned'
    BY <1>1, <1>2, <2>1 DEF Planned, IsUsable
  <2>8. StateIsTrue'
    BY <1>1, <1>2, <2>1 DEF PlainRun, StateIsTrue, IsUsable
  <2>9. VouchedIsIndexed'
    <3>1. \A g \in Present : files[g] = source[g] => files'[g] = source[g]
      BY <2>5 DEF Present
    <3> QED
      BY <1>1, <1>2, <2>1, <3>1 DEF PlainRun, VouchedIsIndexed, IsUsable, Shows, Has
  <2> QED
    BY <1>1, <2>1, <2>5, <2>6, <2>7, <2>8, <2>9 DEF PlainRun
<1> QED
  BY <1>1, <1>3 DEF PlainInv

(* An update writes all artifacts of all files, and then the hashes.       *)
LEMMA FullUpdateKeepsPlain ==
  ASSUME BuildInv, PlainInv, AggregateFully PROVE PlainInv'
<1> DEFINE missing == plan.added \ DOMAIN built
           loaded  == plan.current \ (missing \cup DOMAIN built)
           again   == {f \in missing : source[f] # NoFile}
           reread(fs) == [f \in fs |-> source[f]]
           contents == Overlay(built, [f \in missing \cup loaded |-> files'[f]])
<1>1. /\ pc = "indexing" /\ pending = {} /\ command # "build"
      /\ UNCHANGED <<source, mtime, edits, seen, artifact, state, command, quiet, plain>>
      /\ \/ (\E fs \in SUBSET again : files' = Overlay(reread(fs), files)) /\ End("failed")
         \/ /\ \A f \in loaded : IsUsable(files[f])
            /\ files' = Overlay(reread(missing), files)
            /\ entries' = Stamp(plan.hash) /\ Write(FullWrites, Aggregated(contents))
  BY DEF AggregateFully, Indexed, editorVars
<1>2. ASSUME plain
      PROVE  /\ PlainRun /\ Planned /\ Changed \subseteq Present
             /\ built = [f \in Changed |-> source[f]]
             /\ \A f \in Present : files[f] = source[f]
             /\ missing = {} /\ loaded = Present \ Changed
  <2>1. PlainRun /\ Planned /\ UpdateIndexing
    BY <1>1, <1>2 DEF PlainInv, PlainRun
  <2>2. built = [f \in Changed |-> source[f]] /\ \A f \in Changed : files[f] = source[f]
    BY <1>1, <2>1 DEF UpdateIndexing
  <2>3. \A f \in Present \ Changed : files[f] = source[f]
    BY <2>1 DEF Planned, PlainRun, VouchedIsIndexed
  <2>4. missing = {} /\ loaded = Present \ Changed
    BY <2>1, <2>2 DEF Changed, Planned
  <2> QED
    BY <2>1, <2>2, <2>3, <2>4 DEF Planned
<1> HIDE DEF missing, loaded
<1>3. ASSUME plain PROVE DOMAIN files' = Files /\ \A f \in Files : files'[f] = files[f]
  <2>1. DOMAIN files = Files
    BY <1>2, <1>3 DEF PlainRun
  <2>2. PICK fs : fs = {} /\ files' = Overlay(reread(fs), files)
    BY <1>1, <1>2, <1>3
  <2> QED
    BY <2>1, <2>2 DEF Overlay
<1>4. \A f \in Present : f \in Files
  BY DEF Present
<1>5. CASE End("failed")
  <2>1. pc' = "idle" /\ outcome' # "ok"
    BY <1>5 DEF End
  <2>2. plain' => command' \in {"build", "update", "docs"}
    BY <1>1, <1>2 DEF PlainRun
  <2> QED
    BY <1>1, <1>3, <1>4, <2>1, <2>2, EndedKeepsPlain
<1>6. CASE entries' = Stamp(plan.hash) /\ Write(FullWrites, Aggregated(contents))
  <2>1. /\ pc' = "writing" /\ writes' = FullWrites /\ target' = Aggregated(contents)
        /\ UNCHANGED <<plan, built>>
    BY <1>6, ListsOfWrites DEF Write
  <2>2. /\ Present' = Present /\ Sources' = Sources /\ Stamp(Sources)' = Stamp(Sources)
        /\ \A f : Vouched(f)' <=> Vouched(f)
    BY <1>1 DEF Present, Sources, Stamp, Vouched
  <2>3. ASSUME plain PROVE PlainRun'
    <3>1. contents = Sources
      <4>1. DOMAIN contents = Present
        BY <1>2, <2>3 DEF Overlay
      <4>2. \A f \in Present : contents[f] = source[f]
        BY <1>2, <1>3, <1>4, <2>3 DEF Overlay
      <4>3. contents = [f \in DOMAIN contents |-> contents[f]]
        BY DEF Overlay
      <4> HIDE DEF contents
      <4> QED
        BY <4>1, <4>2, <4>3 DEF Sources
    <3> HIDE DEF contents
    <3>2. /\ target'["manifest"] = Sources /\ target'["rows"] = Sources
          /\ entries' = Stamp(Sources)
      BY <1>2, <1>6, <2>1, <2>3, <3>1 DEF Aggregated, Artifacts, JsonArtifacts, Planned
    <3>3. NewState' = Stamp(Sources)
      <4>1. CASE entries' # Empty
        BY <3>2, <4>1 DEF NewState
      <4>2. CASE entries' = Empty
        <5>1. Present = {}
          <6>1. DOMAIN Stamp(Sources) = Present
            BY DEF Stamp, Sources
          <6> QED
            BY <3>2, <4>2, <6>1 DEF Empty
        <5>2. DOMAIN built' = {} /\ plan'.current = {} /\ DOMAIN plan'.hash = {}
          BY <1>2, <2>1, <2>3, <5>1 DEF Planned, Sources
        <5>3. command' # "build"
          BY <1>1
        <5>4. NewState' = Overlay(Stamp(built)', Overlay([f \in {} |-> StateFiles'[f]],
                                                        Stamp(plan.hash)'))
          BY <4>2, <5>2, <5>3 DEF NewState
        <5>5. DOMAIN Stamp(built)' = {} /\ DOMAIN Stamp(plan.hash)' = {}
          BY <5>2 DEF Stamp
        <5>6. NewState' = Empty
          BY <5>4, <5>5 DEF Overlay, Empty
        <5> QED
          BY <3>2, <4>2, <5>6
      <4> QED
        BY <4>1, <4>2
    <3>4. /\ FullWrites[1] = {"manifest"} /\ FullWrites[5] = {"rows", "nodes"}
          /\ FullWrites[6] = {"state"} /\ Len(FullWrites) = 6
          /\ \A i \in 1 .. 6 : "state" \in FullWrites[i] => i = 6
      BY DEF FullWrites
    <3>5. Due("manifest")' /\ Due("rows")'
      BY <2>1, <3>4 DEF Due
    <3>6. IsUsable(state)' /\ IsUsable(target["manifest"])' /\ IsUsable(artifact["manifest"])'
      BY <1>1, <1>2, <2>3, <3>2, SourcesAreContents DEF Planned, IsUsable
    <3>7. \A f \in Present : Has(target["manifest"], f)' /\ Has(target["rows"], f)'
      BY <1>1, <3>2 DEF Has, Sources
    <3>8. \A f \in Present : files'[f] = source'[f]
      BY <1>1, <1>2, <1>3, <1>4, <2>3
    <3>9. command' = "update"
      BY <1>1, <1>2, <2>3 DEF Planned
    <3>10. UpdateWriting'
      BY <2>1, <2>2, <3>3, <3>4, <3>5, <3>6, <3>7, <3>8, <3>9 DEF UpdateWriting
    <3>11. StateIsTrue'
      BY <1>1, <1>2, <2>2, <2>3 DEF PlainRun, StateIsTrue, IsUsable
    <3>12. VouchedIsIndexed'
      BY <1>1, <1>2, <1>3, <1>4, <2>2, <2>3 DEF PlainRun, VouchedIsIndexed, IsUsable, Shows, Has
    <3> QED
      BY <1>1, <1>2, <1>3, <2>1, <2>3, <3>9, <3>10, <3>11, <3>12 DEF PlainRun
  <2> QED
    BY <1>1, <2>3 DEF PlainInv
<1> QED
  BY <1>1, <1>5, <1>6

(* The other aggregations belong to builds and updates of known files.     *)
LEMMA OtherAggregationsKeepPlain ==
  ASSUME PlainInv, AggregateBuild \/ SkipAggregate \/ AggregateIncrementally
  PROVE  PlainInv'
<1>1. /\ pc = "indexing" /\ command \in {"build", "known", "changed"}
      /\ UNCHANGED <<source, mtime, edits, seen, artifact, plain>>
  BY DEF AggregateBuild, SkipAggregate, AggregateIncrementally, OnlyModified, Known, Indexed,
         editorVars, diskVars
<1>2. ~plain
  BY <1>1 DEF PlainInv, PlainRun
<1> QED
  BY <1>1, <1>2 DEF PlainInv

(* After each write of an update, what the state vouches for is still there:
   the artifacts are written from everything, and the hashes go last.      *)
LEMMA WritesKeepPlain ==
  ASSUME BuildInv, PlainInv, WriteNext, BuildInv' PROVE PlainInv'
<1>1. /\ pc = "writing" /\ writes # <<>> /\ writes \in Seq(Steps)
      /\ artifact' = Put(Head(writes))
      /\ state' = IF "state" \in Head(writes) THEN NewState ELSE state
      /\ plain' = (plain \/ (command = "build" /\ Len(writes) = 1 /\ quiet))
      /\ UNCHANGED <<source, mtime, edits, seen, files, command, quiet>>
  BY DEF WriteNext, editorVars, BuildInv, Steps
<1>2. /\ Head(writes) = writes[1] /\ Len(writes) \in Nat \ {0} /\ 1 \in 1 .. Len(writes)
      /\ Tail(writes) \in Seq(Steps) /\ Len(Tail(writes)) = Len(writes) - 1
      /\ \A i \in 1 .. Len(writes) - 1 : Tail(writes)[i] = writes[i + 1]
  BY <1>1
<1>3. /\ Present' = Present /\ Sources' = Sources /\ Stamp(Sources)' = Stamp(Sources)
      /\ \A a, f : Shows(a, f)' <=> Has(artifact'[a], f) \/ (a = "rows" /\ artifact'[a] = Torn)
  BY <1>1 DEF Present, Sources, Stamp, Shows, Has
<1>4. /\ "manifest" \in Artifacts /\ "rows" \in Artifacts
      /\ \A f \in Present : f \in Files
      /\ seen \in [Files -> SUBSET (Content \cup {NoFile})] /\ mtime \in [Files -> Nat]
      /\ \A f \in Files : source[f] \in seen[f] /\ mtime[f] \in 0 .. edits
      /\ IsUsable(Stamp(Sources)) /\ IsUsable(Sources)
      /\ DOMAIN Stamp(Sources) = Present
      /\ \A f \in Present :
           Stamp(Sources)[f].hash = source[f] /\ Stamp(Sources)[f].mtime = mtime[f]
  <2>1. \A f \in Files : source[f] \in seen[f] /\ mtime[f] \in 0 .. edits
    BY DEF PlainInv, BuildInv
  <2>2. /\ DOMAIN Stamp(Sources) = Present
        /\ \A f \in Present :
             Stamp(Sources)[f].hash = source[f] /\ Stamp(Sources)[f].mtime = mtime[f]
    BY DEF Stamp, Sources
  <2> QED
    BY <2>1, <2>2, SourcesAreContents DEF Artifacts, JsonArtifacts, Present, PlainInv, BuildInv
<1>5. ASSUME state' = Stamp(Sources) PROVE StateIsTrue' /\ state' # NoFile
  BY <1>1, <1>3, <1>4, <1>5 DEF StateIsTrue, Vouched, IsUsable
<1>6. \A what \in Head(writes) : Due(what)
  BY <1>2 DEF Due
<1>7. ASSUME plain PROVE PlainRun'
  <2>1. PlainRun /\ UpdateWriting /\ command \in {"update", "docs"}
    BY <1>1, <1>7 DEF PlainInv, PlainRun
  <2>2. CASE "state" \in Head(writes)
    <3>1. Len(writes) = 1 /\ Head(writes) = {"state"}
      <4>1. \A i \in 1 .. Len(writes) :
              "state" \in writes[i] => i = Len(writes) /\ writes[i] = {"state"}
        BY <2>1 DEF UpdateWriting
      <4>2. 1 \in 1 .. Len(writes) /\ "state" \in writes[1] /\ Head(writes) = writes[1]
        BY <1>2, <2>2
      <4>3. 1 = Len(writes) /\ writes[1] = {"state"}
        BY Zenon, <4>1, <4>2
      <4> QED
        BY <4>2, <4>3
    <3>2. state' = Stamp(Sources) /\ command = "update"
      BY <1>1, <1>6, <2>1, <2>2 DEF UpdateWriting
    <3>3. ~Due("manifest") /\ ~Due("rows")
      BY <1>2, <3>1 DEF Due
    <3>4. artifact'["manifest"] = artifact["manifest"] /\ artifact'["rows"] = artifact["rows"]
      BY <1>1, <1>4, <3>1 DEF Put
    <3>5. \A f \in Present : files[f] = source[f] /\ Shows("manifest", f) /\ Shows("rows", f)
      BY <2>1, <3>2, <3>3 DEF UpdateWriting
    <3>6. EverythingIndexed'
      BY <1>1, <1>3, <3>4, <3>5 DEF EverythingIndexed, Shows
    <3>7. VouchedIsIndexed'
      BY <3>6 DEF VouchedIsIndexed, EverythingIndexed
    <3>8. pc' = "idle"
      BY <3>1 DEF WriteNext, End
    <3> QED
      BY <1>1, <1>5, <2>1, <3>2, <3>6, <3>7, <3>8 DEF PlainRun
  <2>3. CASE "state" \notin Head(writes)
    <3>1. state' = state /\ \A f : Vouched(f)' <=> Vouched(f)
      BY <1>1, <2>3 DEF Vouched
    <3>2. StateIsTrue'
      BY <1>1, <1>3, <2>1, <3>1 DEF PlainRun, StateIsTrue, IsUsable
    <3>3. IsUsable(artifact["manifest"])'
      BY <1>1, <1>4, <1>6, <2>1 DEF UpdateWriting, IsUsable, Put
    <3>4. ASSUME NEW a \in {"manifest", "rows"}, NEW f \in Present,
                 a \in Head(writes) => Has(target[a], f),
                 a \notin Head(writes) => Shows(a, f)
          PROVE  Shows(a, f)'
      BY <1>1, <1>3, <1>4, <3>4 DEF Shows, Put
    <3>5. VouchedIsIndexed'
      <4> SUFFICES ASSUME IsUsable(state), NEW f \in Present, Vouched(f)
                   PROVE  files[f] = source[f] /\ Shows("manifest", f)' /\ Shows("rows", f)'
        BY <1>1, <1>3, <3>1 DEF VouchedIsIndexed, IsUsable
      <4>1. files[f] = source[f] /\ Shows("manifest", f) /\ Shows("rows", f)
        BY <2>1 DEF PlainRun, VouchedIsIndexed, UpdateWriting
      <4>2. \A a \in {"manifest", "rows"} : a \in Head(writes) => Has(target[a], f)
        BY <1>6, <2>1 DEF UpdateWriting
      <4> QED
        BY <3>4, <4>1, <4>2
    <3>6. \A what : Due(what) =>
            \/ what \in Head(writes)
            \/ Len(writes) # 1 /\ \E i \in 1 .. Len(Tail(writes)) : what \in Tail(writes)[i]
      BY <1>1, DueIsNextOrLater DEF Due
    <3>7. CASE Len(writes) = 1
      <4>1. pc' = "idle"
        BY <3>7 DEF WriteNext, End
      <4>2. ASSUME command = "update" PROVE EverythingIndexed'
        <5> SUFFICES ASSUME NEW f \in Present
                     PROVE  files[f] = source[f] /\ Shows("manifest", f)' /\ Shows("rows", f)'
          BY <1>1, <1>3 DEF EverythingIndexed
        <5>1. files[f] = source[f]
          BY <2>1, <4>2 DEF UpdateWriting
        <5>2. \A a \in {"manifest", "rows"} :
                /\ a \in Head(writes) => Has(target[a], f)
                /\ a \notin Head(writes) => Shows(a, f)
          BY <1>6, <2>1, <3>6, <3>7, <4>2 DEF UpdateWriting
        <5> QED
          BY <3>4, <5>1, <5>2
      <4> QED
        BY <1>1, <2>1, <3>1, <3>2, <3>5, <4>1, <4>2 DEF PlainRun
    <3>8. CASE Len(writes) # 1
      <4>1. writes' = Tail(writes) /\ UNCHANGED <<pc, plan, built, target, entries>>
        BY <3>8 DEF WriteNext
      <4>2. \A what : Due(what)' => Due(what)
        <5> SUFFICES ASSUME NEW what, NEW i \in 1 .. Len(Tail(writes)), what \in Tail(writes)[i]
                     PROVE  Due(what)
          BY <4>1 DEF Due
        <5>1. i \in 1 .. Len(writes) - 1 /\ i + 1 \in 1 .. Len(writes)
          BY <1>2
        <5> QED
          BY <1>2, <5>1 DEF Due
      <4>3. \A what : Due(what) => what \in Head(writes) \/ Due(what)'
        BY <3>6, <4>1 DEF Due
      <4>4. \A i \in 1 .. Len(writes') :
              "state" \in writes'[i] => i = Len(writes') /\ writes'[i] = {"state"}
        <5> SUFFICES ASSUME NEW i \in 1 .. Len(Tail(writes)), "state" \in Tail(writes)[i]
                     PROVE  i = Len(Tail(writes)) /\ Tail(writes)[i] = {"state"}
          BY <4>1
        <5>1. /\ i \in 1 .. Len(writes) - 1 /\ i + 1 \in 1 .. Len(writes)
              /\ Tail(writes)[i] = writes[i + 1]
          BY <1>2
        <5>2. i + 1 = Len(writes) /\ writes[i + 1] = {"state"}
          BY <2>1, <5>1 DEF UpdateWriting
        <5>3. i = Len(Tail(writes))
          <6> DEFINE n == Len(writes)  rest == Len(Tail(writes))
          <6>1. n \in Nat /\ rest = n - 1 /\ i \in 1 .. n - 1 /\ i + 1 = n
            BY Zenon, <1>2, <5>1, <5>2
          <6> HIDE DEF n, rest
          <6>2. i = rest
            BY <6>1
          <6> QED
            BY <6>2 DEF rest
        <5>4. Tail(writes)[i] = {"state"}
          BY <5>1, <5>2
        <5> QED
          BY <5>3, <5>4
      <4>5. Stamp(built)' = Stamp(built) /\ Stamp(plan.hash)' = Stamp(plan.hash)
        BY <1>1, <4>1 DEF Stamp
      <4>6. NewState' = NewState
        BY <1>1, <3>1, <4>1, <4>5 DEF NewState, StateFiles
      <4>7. \A a, f : Has(target[a], f)' <=> Has(target[a], f)
        BY <1>1, <4>1 DEF Has
      <4>8. ASSUME NEW a \in {"manifest", "rows"}, NEW f \in Present, command = "update",
                   ~Due(a)'
            PROVE  Shows(a, f)'
        <5>1. a \in Head(writes) => Has(target[a], f)
          BY <1>6, <2>1, <4>8 DEF UpdateWriting
        <5>2. a \notin Head(writes) => Shows(a, f)
          BY <2>1, <4>3, <4>8 DEF UpdateWriting
        <5> QED
          BY <3>4, <5>1, <5>2
      <4>9. UpdateWriting'
        <5>1. /\ Due("manifest")' => IsUsable(target["manifest"])'
              /\ Due("state")' => NewState' = Stamp(Sources)' /\ command' = "update"
          BY <1>1, <1>3, <2>1, <4>1, <4>2, <4>6 DEF UpdateWriting, IsUsable
        <5>2. command' = "update" =>
                IsUsable(state)' /\ \A f \in Present' : files'[f] = source'[f]
          BY <1>1, <1>3, <2>1, <3>1 DEF UpdateWriting, IsUsable
        <5>3. \A a \in {"manifest", "rows"}, f \in Present :
                Due(a)' /\ (command = "update" \/ (IsUsable(state) /\ Vouched(f)))
                  => Has(target[a], f)
          BY <2>1, <4>2 DEF UpdateWriting
        <5>4. \A a \in {"manifest", "rows"}, f \in Present' :
                /\ Due(a)' /\ (command' = "update" \/ (IsUsable(state)' /\ Vouched(f)'))
                     => Has(target[a], f)'
                /\ ~Due(a)' /\ command' = "update" => Shows(a, f)'
          BY <1>1, <1>3, <3>1, <4>7, <4>8, <5>3 DEF IsUsable
        <5> QED
          BY <3>3, <4>4, <5>1, <5>2, <5>4 DEF UpdateWriting
      <4> QED
        BY <1>1, <2>1, <3>1, <3>2, <3>5, <4>1, <4>9 DEF PlainRun
    <3> QED
      BY <3>7, <3>8
  <2> QED
    BY <2>2, <2>3
<1>8. ASSUME ~plain, plain' PROVE PlainRun'
  <2>1. command = "build" /\ Len(writes) = 1 /\ quiet
    BY Zenon, <1>1, <1>8
  <2>2. pc' = "idle" /\ outcome' = "ok"
    BY <2>1 DEF WriteNext, End
  <2>3. Healed'
    BY <1>1, <2>1, <2>2 DEF BuildInv
  <2>4. DOMAIN files' = Files
    BY <1>1, <2>1 DEF BuildInv, Writing
  <2>5. /\ state' = Stamp(Sources) /\ \A f \in Present : files'[f] = source'[f]
        /\ artifact'["manifest"] = Sources /\ artifact'["rows"] \in {Sources, Torn}
    BY <1>3, <1>4, <2>3 DEF Healed, Spoilt, Aggregated, Artifacts, JsonArtifacts
  <2>6. VouchedIsIndexed'
    BY <1>1, <1>3, <2>5 DEF VouchedIsIndexed, Has, Sources
  <2> QED
    BY <1>1, <1>5, <2>1, <2>2, <2>4, <2>5, <2>6 DEF PlainRun
<1>9. DOMAIN artifact' = Artifacts
  BY <1>1 DEF Put
<1> QED
  BY <1>1, <1>7, <1>8, <1>9 DEF PlainInv

(* A kill leaves a part of what the step would have done; what it damages
   is not vouched for, or is known to be damaged.                          *)
LEMMA KillsKeepPlain ==
  ASSUME BuildInv, PlainInv, Kill PROVE PlainInv'
<1>1. /\ pc # "idle" /\ pc' = "idle" /\ outcome' = "killed"
      /\ UNCHANGED <<source, mtime, edits, seen, command, plain>>
  BY DEF Kill, End, editorVars
<1>2. Present' = Present /\ \A f \in Present : f \in Files
  BY <1>1 DEF Present
<1>3. ASSUME plain PROVE PlainRun /\ DOMAIN artifact = Artifacts
  BY <1>3 DEF PlainInv
<1>4. plain' => command' \in {"build", "update", "docs"}
  BY <1>1, <1>3 DEF PlainRun
<1>5. CASE UNCHANGED <<artifact, state>> /\ UNCHANGED files
  BY <1>1, <1>2, <1>3, <1>4, <1>5, EndedKeepsPlain DEF PlainRun
<1>6. ASSUME pc = "planned", NEW f \in plan.deleted, files' = [files EXCEPT ![f] = NoFile],
             UNCHANGED <<artifact, state>>
      PROVE  PlainInv'
  <2>1. plain => DOMAIN files' = Files /\ \A g \in Present : files'[g] = files[g]
    BY <1>2, <1>3, <1>6 DEF PlainRun, Planned
  <2> QED
    BY <1>1, <1>4, <1>6, <2>1, EndedKeepsPlain
<1>7. ASSUME pc = "indexing", NEW f \in pending, files' = [files EXCEPT ![f] = Torn],
             UNCHANGED <<artifact, state>>
      PROVE  PlainInv'
  <2>1. plain => ~Vouched(f)
    BY <1>3, <1>7 DEF PlainRun, Planned, UpdateIndexing
  <2>2. plain => DOMAIN files' = Files /\ \A g \in Present : files'[g] = files[g] \/ g = f
    BY <1>2, <1>3, <1>7 DEF PlainRun
  <2> QED
    BY <1>1, <1>4, <1>7, <2>1, <2>2, EndedKeepsPlain
<1>8. CASE state' = Torn /\ UNCHANGED <<files, artifact>>
  <2>1. state' # NoFile /\ ~IsUsable(state')
    BY <1>8, MarkAssumption DEF IsUsable
  <2>2. ASSUME plain PROVE PlainRun'
    BY <1>1, <1>3, <1>4, <1>8, <2>1, <2>2 DEF PlainRun, StateIsTrue, VouchedIsIndexed, IsUsable
  <2> QED
    BY <1>1, <1>8, <2>2 DEF PlainInv
<1>9. ASSUME NEW a \in JsonArtifacts, artifact' = [artifact EXCEPT ![a] = Torn],
             UNCHANGED <<files, state>>
      PROVE  PlainInv'
  <2>1. DOMAIN artifact' = Artifacts
    BY <1>9 DEF PlainInv
  <2>2. ASSUME plain PROVE PlainRun'
    <3>1. StateIsTrue'
      BY <1>1, <1>2, <1>3, <1>9, <2>2 DEF PlainRun, StateIsTrue, Vouched, IsUsable
    <3>2. VouchedIsIndexed'
      <4>1. "manifest" \in Artifacts /\ a # "rows"
        BY DEF Artifacts, JsonArtifacts
      <4>2. a = "manifest" => ~IsUsable(artifact["manifest"])'
        BY <1>3, <1>9, <2>2, <4>1 DEF IsUsable
      <4>3. a # "manifest" => artifact'["manifest"] = artifact["manifest"]
        BY <1>9
      <4>4. artifact'["rows"] = artifact["rows"]
        BY <1>9, <4>1
      <4> QED
        BY <1>1, <1>2, <1>3, <1>9, <2>2, <4>2, <4>3, <4>4
           DEF PlainRun, VouchedIsIndexed, Vouched, IsUsable, Shows, Has
    <3> QED
      BY <1>1, <1>3, <1>4, <1>9, <2>2, <3>1, <3>2 DEF PlainRun
  <2> QED
    BY <1>1, <2>1, <2>2 DEF PlainInv
<1>10. CASE pc = "writing" /\ artifact' = Put(Head(writes)) /\ UNCHANGED <<files, state>>
            /\ InPlace(Head(writes))
  <2>1. DOMAIN artifact' = Artifacts
    BY <1>10 DEF Put
  <2>2. ASSUME plain PROVE PlainRun'
    <3>1. StateIsTrue'
      BY <1>1, <1>2, <1>3, <1>10, <2>2 DEF PlainRun, StateIsTrue, Vouched, IsUsable
    <3>2. PlainRun /\ UpdateWriting /\ (\A what \in Head(writes) : Due(what))
      <4>1. Head(writes) = writes[1] /\ 1 \in 1 .. Len(writes)
        BY <1>10 DEF BuildInv
      <4> QED
        BY <1>3, <1>10, <2>2, <4>1 DEF PlainRun, Due
    <3>3. artifact'["manifest"] = artifact["manifest"]
      BY <1>10 DEF Put, InPlace, Artifacts, JsonArtifacts
    <3>4. \A f \in Present : IsUsable(state) /\ Vouched(f) /\ Shows("rows", f) => Shows("rows", f)'
      <4>1. CASE "rows" \in Head(writes)
        BY <1>1, <1>10, <3>2, <4>1 DEF UpdateWriting, Put, Shows, Has, Artifacts
      <4>2. CASE "rows" \notin Head(writes)
        BY <1>1, <1>10, <4>2 DEF Put, Shows, Has, Artifacts
      <4> QED
        BY <4>1, <4>2
    <3>5. VouchedIsIndexed'
      BY <1>1, <1>2, <1>10, <3>2, <3>3, <3>4
         DEF PlainRun, VouchedIsIndexed, Vouched, IsUsable, Shows, Has
    <3> QED
      BY <1>1, <1>3, <1>4, <1>10, <2>2, <3>1, <3>5 DEF PlainRun
  <2> QED
    BY <1>1, <2>1, <2>2 DEF PlainInv
<1> QED
  BY <1>5, <1>6, <1>7, <1>8, <1>9, <1>10 DEF Kill, diskVars

(* A database that cannot be read ends a run, and changes nothing.         *)
LEMMA FailingKeepsPlain ==
  ASSUME PlainInv, DatabaseFails PROVE PlainInv'
<1>1. /\ pc' = "idle" /\ outcome' = "failed"
      /\ UNCHANGED <<source, mtime, edits, seen, files, artifact, state, command, plain>>
  BY DEF DatabaseFails, End, editorVars
<1> QED
  BY <1>1, EndedKeepsPlain DEF PlainInv, PlainRun

(* Everything that is indexed as it is on disk is current.                 *)
LEMMA IndexedIsCurrent ==
  ASSUME EverythingIndexed
  PROVE  \A f \in Present : JsonShows(f) /\ (artifact["rows"] # Torn => RowsShow(f))
<1> SUFFICES ASSUME NEW f \in Present
             PROVE  JsonShows(f) /\ (artifact["rows"] # Torn => RowsShow(f))
  OBVIOUS
<1>1. /\ source[f] # NoFile /\ files[f] = source[f]
      /\ Shows("manifest", f) /\ Shows("rows", f)
  BY DEF EverythingIndexed, Present
<1>2. Reflects("manifest", f) /\ (artifact["rows"] # Torn => Reflects("rows", f))
  BY <1>1 DEF Shows, Has, Reflects, Shape
<1> QED
  BY <1>1, <1>2 DEF JsonShows, RowsShow

(* After a full update that succeeded and that nobody disturbed, every file
   is current, although any number of updates between the last clean build
   and this one were killed, between any two writes or within one
   (ProjectIndexUpdate.KilledUpdateIsRepeated). Its rows are excepted where
   a killed update left its log beneath a database. Without content that comes
   back: its hash would be the one of an index that is already gone.       *)
THEOREM KilledUpdatesAreRepeated ==
  ASSUME "indexFailure" \notin Hazards, "revert" \notin Hazards
  PROVE  Spec => []KilledUpdateIsRepeated
<1>1. Init => BuildInv /\ PlainInv
  <2> SUFFICES ASSUME Init PROVE BuildInv /\ PlainInv
    OBVIOUS
  <2>1. BuildInv
    BY BuildInvHoldsAtFirst
  <2>2. edits = 1 /\ \A f \in Files : mtime[f] \in {0, 1}
    BY Zenon DEF Init
  <2> QED
    BY <2>1, <2>2 DEF Init, PlainInv
<1>2. BuildInv /\ PlainInv /\ [Next]_vars => BuildInv' /\ PlainInv'
  <2> SUFFICES ASSUME BuildInv, PlainInv, [Next]_vars PROVE BuildInv' /\ PlainInv'
    OBVIOUS
  <2>1. BuildInv'
    BY BuildInvIsKept
  <2>2. CASE UNCHANGED vars
    <3> USE <2>2 DEF vars, editorVars, diskVars, runVars
    <3>1. /\ Present' = Present /\ Sources' = Sources /\ Stamp(Sources)' = Stamp(Sources)
          /\ Stamp(built)' = Stamp(built) /\ Stamp(plan.hash)' = Stamp(plan.hash)
      BY DEF Present, Sources, Stamp
    <3>2. Changed' = Changed /\ NewState' = NewState
      BY <3>1 DEF Changed, NewState, StateFiles
    <3>3. /\ (StateIsTrue => StateIsTrue') /\ (VouchedIsIndexed => VouchedIsIndexed')
          /\ (Planned => Planned') /\ (UpdateIndexing => UpdateIndexing')
          /\ (EverythingIndexed => EverythingIndexed')
      BY <3>1, <3>2 DEF StateIsTrue, VouchedIsIndexed, Planned, UpdateIndexing,
         EverythingIndexed, Vouched, Shows, Has, IsUsable
    <3>4. UpdateWriting => UpdateWriting'
      BY <3>1, <3>2 DEF UpdateWriting, Vouched, Shows, Has, IsUsable, Due
    <3>5. PlainRun => PlainRun'
      BY <3>3, <3>4 DEF PlainRun
    <3> QED
      BY <2>1, <3>5 DEF PlainInv
  <2> QED
    BY <2>1, <2>2, UpdateAssumption, SavesKeepPlain, DocsKeepPlain, UpdatesStartPlain,
       BuildsStartPlain, PreparingKeepsPlain, IndexingKeepsPlain, FullUpdateKeepsPlain,
       OtherAggregationsKeepPlain, WritesKeepPlain, KillsKeepPlain, FailingKeepsPlain DEF Next, Developer, Run
<1>3. PlainInv => KilledUpdateIsRepeated
  <2> SUFFICES ASSUME PlainInv, CleanRun, plain, command = "update"
               PROVE  \A f \in Present : JsonShows(f) /\ (artifact["rows"] # Torn => RowsShow(f))
    BY DEF KilledUpdateIsRepeated
  <2>1. EverythingIndexed
    BY Zenon DEF PlainInv, PlainRun, CleanRun
  <2> QED
    BY <2>1, IndexedIsCurrent
<1> QED
  BY <1>1, <1>2, <1>3, PTL DEF Spec
-----------------------------------------------------------------------------
(* What an update has planned can be done, as long as nobody saves: what it
   indexes is there, and what it does not index was in the manifest.       *)
PlanIsSound ==
  /\ IsUsable(artifact["manifest"])
  /\ plan.current \subseteq Present
  /\ plan.added \cup plan.modified \subseteq plan.current
  /\ plan.deleted \cap plan.current = {}
  /\ plan.modified \cup (plan.current \ plan.added) \subseteq DOMAIN artifact["manifest"]

FailInv ==
  /\ DOMAIN files = Files /\ DOMAIN artifact = Artifacts
  /\ plan.added \subseteq Files
  /\ command = "build" => pc # "planned"
  /\ quiet /\ command # "build" /\ pc \in {"planned", "indexing"} => PlanIsSound

(* What FailsOnlyOnDamage says of a step.                                  *)
Excused ==
  GivesUp /\ quiet' =>
    \/ Damaged'
    \/ pc = "idle" /\ HashMayFail(Present, listed')
    \/ pc = "indexing" /\ \E f \in plan.added : f \notin DOMAIN built

LEMMA RefreshFailsOnDamage ==
  ASSUME RefreshFails PROVE Damaged
BY DEF RefreshFails, Damaged, JsonArtifacts, IsUsable

(* Damage stays when only the memory of the run changes.                   *)
LEMMA DamageStays ==
  ASSUME UNCHANGED diskVars PROVE Damaged' = Damaged
BY DEF diskVars, Damaged, IsUsable

(* A run that is over has planned nothing.                                 *)
LEMMA EndedKeepsFail ==
  ASSUME NEW result, End(result), DOMAIN files' = Files, DOMAIN artifact' = Artifacts
  PROVE  FailInv'
<1>1. plan'.added = {} /\ pc' = "idle"
  BY DEF End, NoPlan
<1> QED
  BY <1>1 DEF FailInv

(* A list of writes, be it empty.                                          *)
LEMMA WritingWell ==
  ASSUME FailInv, NEW what, NEW contents, Write(what, contents),
         DOMAIN files' = Files, DOMAIN artifact' = Artifacts
  PROVE  FailInv' /\ ~GivesUp
<1>1. CASE what = <<>>
  <2>1. End("ok")
    BY <1>1 DEF Write
  <2> QED
    BY <2>1, EndedKeepsFail DEF End, GivesUp
<1>2. CASE what # <<>>
  <2>1. pc' = "writing" /\ plan' = plan
    BY <1>2 DEF Write
  <2> QED
    BY <2>1 DEF FailInv, GivesUp
<1> QED
  BY <1>1, <1>2

LEMMA SavesKeepFail ==
  ASSUME FailInv, Developer PROVE FailInv' /\ Excused
<1>1. UNCHANGED <<files, artifact, plan, pc, command, runs>> /\ quiet' = FALSE
  BY DEF Developer, EditDocs, EditSource, diskVars
<1> QED
  BY <1>1 DEF FailInv, Excused

(* What a plan contains.                                                   *)
LEMMA PlansAreSound ==
  ASSUME IsUsable(artifact["manifest"]), NEW cmd, NEW only, plan' = UpdatePlan(cmd, only),
         UNCHANGED <<source, artifact>>
  PROVE  PlanIsSound'
<1>1. Present' = Present
  BY DEF Present
<1>2. UpdatePlan(cmd, only).current \subseteq Present
  BY DEF UpdatePlan
<1> DEFINE p == UpdatePlan(cmd, only)
<1>3. /\ p.added = p.current \ DOMAIN artifact["manifest"]
      /\ p.deleted = DOMAIN artifact["manifest"] \ p.current
      /\ p.modified \subseteq p.current \cap DOMAIN artifact["manifest"]
  BY DEF UpdatePlan
<1> HIDE DEF p
<1> QED
  BY <1>1, <1>2, <1>3 DEF p, PlanIsSound, IsUsable

LEMMA UpdatesStartSound ==
  ASSUME FailInv, NEW cmd, NEW only, StartUpdate(cmd, only) PROVE FailInv' /\ Excused
<1>1. /\ pc = "idle" /\ UNCHANGED <<editorVars, diskVars>> /\ quiet' = TRUE
      /\ command' = cmd /\ cmd # "build" /\ listed' = only
      /\ artifact["manifest"] # NoFile
      /\ DOMAIN files' = Files /\ DOMAIN artifact' = Artifacts
  BY DEF StartUpdate, MayStart, FailInv, diskVars
<1> DEFINE p == IF cmd = "docs" THEN NoPlan ELSE UpdatePlan(cmd, only)
<1>2. CASE artifact["manifest"] = Torn \/ (cmd # "docs" /\ state = Torn)
  <2>1. Damaged
    BY <1>2 DEF Damaged, JsonArtifacts
  <2>2. End("failed")
    BY <1>2 DEF StartUpdate
  <2> QED
    BY <1>1, <2>1, <2>2, DamageStays, EndedKeepsFail DEF Excused
<1>3. CASE ~(artifact["manifest"] = Torn \/ (cmd # "docs" /\ state = Torn))
  <2>1. \/ HashMayFail(p.current, only) /\ End("failed")
        \/ /\ p.added \cup p.modified \cup p.deleted # {}
           /\ pc' = "planned" /\ plan' = p
        \/ /\ p.added \cup p.modified \cup p.deleted = {}
           /\ \/ RefreshFails /\ End("failed")
              \/ Write(RefreshWrites, RefreshTarget)
    BY <1>3 DEF StartUpdate
  <2>2. CASE HashMayFail(p.current, only) /\ End("failed")
    <3>1. p.current \subseteq Present
      BY DEF UpdatePlan, NoPlan
    <3> HIDE DEF p
    <3>2. HashMayFail(Present, listed')
      BY <1>1, <2>2, <3>1 DEF HashMayFail
    <3> QED
      BY <1>1, <2>2, <3>2, EndedKeepsFail DEF Excused
  <2>3. CASE p.added \cup p.modified \cup p.deleted # {} /\ pc' = "planned" /\ plan' = p
    <3>1. cmd # "docs"
      BY <2>3 DEF NoPlan
    <3>2. PlanIsSound'
      BY <1>1, <1>3, <2>3, <3>1, PlansAreSound DEF editorVars, diskVars, IsUsable
    <3>3. plan'.added \subseteq Files
      BY <3>2 DEF PlanIsSound, Present
    <3> QED
      BY <1>1, <2>3, <3>2, <3>3 DEF FailInv, Excused, GivesUp
  <2>4. CASE RefreshFails /\ End("failed")
    BY <1>1, <2>4, RefreshFailsOnDamage, DamageStays, EndedKeepsFail DEF Excused
  <2>5. CASE Write(RefreshWrites, RefreshTarget)
    BY <1>1, <2>5, WritingWell DEF Excused
  <2> HIDE DEF p
  <2> QED
    BY <2>1, <2>2, <2>3, <2>4, <2>5
<1> QED
  BY <1>2, <1>3

LEMMA PreparingKeepsFail ==
  ASSUME FailInv, PrepareChanged PROVE FailInv' /\ Excused
<1>1. /\ pc = "planned" /\ UNCHANGED <<editorVars, artifact, command, quiet>>
      /\ files' = [f \in Files |-> IF f \in plan.deleted THEN NoFile ELSE files[f]]
      /\ DOMAIN artifact' = Artifacts
  BY DEF PrepareChanged, FailInv
<1>2. DOMAIN files' = Files
  BY <1>1
<1>3. quiet => PlanIsSound
  BY <1>1 DEF FailInv
<1>4. CASE \E f \in plan.modified : ~IsUsable(files[f])
  <2>1. End("failed")
    BY <1>4 DEF PrepareChanged
  <2>2. ASSUME quiet PROVE Damaged'
    <3>1. PICK f \in plan.modified : ~IsUsable(files[f])
      BY <1>4
    <3>2. f \in Files /\ f \notin plan.deleted /\ f \in DOMAIN artifact["manifest"]
      BY <1>3, <2>2 DEF PlanIsSound, Present
    <3>3. ~IsUsable(files'[f]) /\ IsUsable(artifact["manifest"])
      BY <1>1, <1>3, <2>2, <3>1, <3>2 DEF PlanIsSound
    <3> QED
      BY <1>1, <3>2, <3>3 DEF Damaged, IsUsable
  <2> QED
    BY <1>1, <1>2, <2>1, <2>2, EndedKeepsFail DEF Excused
<1>5. CASE ~(\E f \in plan.modified : ~IsUsable(files[f]))
  <2>1. pc' = "indexing" /\ plan' = plan
    BY <1>5 DEF PrepareChanged
  <2>2. Present' = Present
    BY <1>1 DEF editorVars, Present
  <2>3. quiet' => PlanIsSound'
    BY <1>1, <1>3, <2>1, <2>2 DEF PlanIsSound, IsUsable
  <2> QED
    BY <1>1, <1>2, <2>1, <2>3 DEF FailInv, Excused, GivesUp
<1> QED
  BY <1>4, <1>5

LEMMA IndexingKeepsFail ==
  ASSUME FailInv, NEW f \in Files, IndexFile(f) PROVE FailInv' /\ Excused
<1>1. /\ pc = "indexing" /\ UNCHANGED <<editorVars, artifact, command, pc, plan, quiet>>
      /\ files' = files \/ files' = [files EXCEPT ![f] = source[f]]
  BY DEF IndexFile
<1>2. DOMAIN files' = Files /\ DOMAIN artifact' = Artifacts
  BY <1>1 DEF FailInv
<1>3. PlanIsSound => PlanIsSound'
  BY <1>1 DEF PlanIsSound, Present, editorVars, IsUsable
<1> QED
  BY <1>1, <1>2, <1>3 DEF FailInv, Excused, GivesUp

(* The aggregations that read little.                                      *)
LEMMA AggregatingKeepsFail ==
  ASSUME FailInv, AggregateBuild \/ SkipAggregate \/ AggregateIncrementally
  PROVE  FailInv' /\ Excused
<1>1. UNCHANGED <<diskVars, quiet>> /\ DOMAIN files' = Files /\ DOMAIN artifact' = Artifacts
  BY DEF AggregateBuild, SkipAggregate, AggregateIncrementally, FailInv, diskVars
<1>2. \/ \E what, contents : Write(what, contents)
      \/ End("failed") /\ Damaged
  <2>1. CASE AggregateBuild
    BY <2>1 DEF AggregateBuild
  <2>2. CASE SkipAggregate
    BY <2>2, RefreshFailsOnDamage DEF SkipAggregate
  <2>3. CASE AggregateIncrementally
    <3>1. CASE artifact["diagnostics"] = Torn \/ artifact["orientation"] = Torn
               \/ artifact["rows"] = NoFile
      BY <2>3, <3>1 DEF AggregateIncrementally, Damaged, JsonArtifacts, IsUsable
    <3>2. CASE ~(artifact["diagnostics"] = Torn \/ artifact["orientation"] = Torn
                 \/ artifact["rows"] = NoFile)
      BY <2>3, <3>2 DEF AggregateIncrementally
    <3> QED
      BY <3>1, <3>2
  <2> QED
    BY <2>1, <2>2, <2>3
<1> QED
  BY <1>1, <1>2, DamageStays, EndedKeepsFail, WritingWell DEF Excused

(* The one that reads the indexes of all files: those that this run has not
   made are of the manifest's files, and it has made those of added files
   unless one of them could not be indexed.                                *)
LEMMA FullUpdateKeepsFail ==
  ASSUME FailInv, AggregateFully PROVE FailInv' /\ Excused
<1> DEFINE missing == plan.added \ DOMAIN built
           loaded  == plan.current \ (missing \cup DOMAIN built)
           again   == {f \in missing : source[f] # NoFile}
           reread(fs) == [f \in fs |-> source[f]]
<1>1. /\ pc = "indexing" /\ command # "build"
      /\ UNCHANGED <<artifact, quiet>> /\ DOMAIN artifact' = Artifacts
  BY DEF AggregateFully, Indexed, FailInv
<1>2. missing \subseteq Files
  BY DEF FailInv
<1>3. PICK fs \in SUBSET missing : files' = Overlay(reread(fs), files)
  BY Zenon DEF AggregateFully
<1>4. DOMAIN files' = Files /\ \A f \in Files \ fs : files'[f] = files[f]
  BY <1>2, <1>3 DEF Overlay, FailInv
<1>5. CASE \E what, contents : Write(what, contents)
  BY <1>1, <1>4, <1>5, WritingWell DEF Excused
<1>6. CASE End("failed") /\ ((\E f \in loaded : ~IsUsable(files[f])) \/ missing # {})
  <2>1. ASSUME quiet, missing = {} PROVE Damaged'
    <3>1. PlanIsSound
      BY <1>1, <2>1 DEF FailInv
    <3>2. PICK f \in loaded : ~IsUsable(files[f])
      BY <1>6, <2>1
    <3>3. f \in Files /\ f \in DOMAIN artifact["manifest"] /\ IsUsable(artifact["manifest"])
      BY <2>1, <3>1, <3>2 DEF PlanIsSound, Present
    <3>4. files'[f] = files[f]
      BY <1>4, <2>1, <3>3
    <3> QED
      BY <1>1, <3>2, <3>3, <3>4 DEF Damaged, IsUsable
  <2> QED
    BY <1>1, <1>4, <1>6, <2>1, EndedKeepsFail DEF Excused
<1>7. \/ \E what, contents : Write(what, contents)
      \/ End("failed") /\ ((\E f \in loaded : ~IsUsable(files[f])) \/ missing # {})
  <2>1. \/ \E what, contents : Write(what, contents)
        \/ /\ End("failed")
           /\ \E gs \in SUBSET again :
                (\E f \in loaded : ~IsUsable(files[f])) \/ missing # again \/ gs # missing
    BY DEF AggregateFully
  <2>2. again \subseteq missing
    OBVIOUS
  <2> HIDE DEF missing, loaded, again
  <2> QED
    BY <2>1, <2>2
<1> QED
  BY <1>5, <1>6, <1>7

LEMMA WritesAndKillsKeepFail ==
  ASSUME FailInv, WriteNext \/ DatabaseFails \/ Kill PROVE FailInv' /\ Excused
<1>1. DOMAIN files' = Files /\ DOMAIN artifact' = Artifacts
  BY DEF WriteNext, DatabaseFails, Kill, Put, FailInv, diskVars
<1>2. CASE WriteNext /\ pc' # "idle"
  <2>1. pc' = "writing" /\ plan' = plan
    BY <1>2 DEF WriteNext, End
  <2> QED
    BY <1>1, <1>2, <2>1 DEF FailInv, Excused, GivesUp
<1>3. CASE End("ok") \/ End("killed")
  <2>1. FailInv'
    BY <1>1, <1>3, EndedKeepsFail
  <2> QED
    BY <1>3, <2>1 DEF End, Excused, GivesUp
<1>4. CASE DatabaseFails
  <2>1. End("failed") /\ artifact'["rows"] = Torn
    BY <1>4 DEF DatabaseFails
  <2>2. Damaged'
    BY <2>1 DEF Damaged, IsUsable
  <2> QED
    BY <1>1, <2>1, <2>2, EndedKeepsFail DEF Excused
<1> QED
  BY <1>2, <1>3, <1>4 DEF WriteNext, Kill

(* With nobody saving, a run gives up only over an index that an earlier run
   left damaged, a file it cannot read for its hash or a new file that it
   could not index (ProjectIndexUpdate.FailsOnlyOnDamage): whatever was
   saved and killed before it, no deleted source, no missing index of an
   added file and no file of the manifest that cannot be indexed ends it.  *)
THEOREM FailuresAreOfDamage == Spec => FailsOnlyOnDamage
<1>1. Init => FailInv
  BY DEF Init, FailInv, NoPlan
<1>2. FailInv /\ [Next]_vars => FailInv'
  <2> SUFFICES ASSUME FailInv, [Next]_vars PROVE FailInv'
    OBVIOUS
  <2>1. CASE UNCHANGED vars
    <3> USE <2>1 DEF vars, editorVars, diskVars, runVars
    <3>1. PlanIsSound => PlanIsSound'
      BY DEF PlanIsSound, Present, IsUsable
    <3> QED
      BY <3>1 DEF FailInv
  <2>2. CASE StartBuild
    BY <2>2 DEF StartBuild, NoPlan, FailInv, Present
  <2> QED
    BY <2>1, <2>2, SavesKeepFail, UpdatesStartSound, PreparingKeepsFail, IndexingKeepsFail,
       AggregatingKeepsFail, FullUpdateKeepsFail, WritesAndKillsKeepFail DEF Next, Run
<1>3. FailInv /\ Next => Excused
  <2>1. StartBuild => Excused
    BY DEF StartBuild, Excused, GivesUp
  <2> QED
    BY <2>1, SavesKeepFail, UpdatesStartSound, PreparingKeepsFail, IndexingKeepsFail,
       AggregatingKeepsFail, FullUpdateKeepsFail, WritesAndKillsKeepFail DEF Next, Run
<1>4. FailInv /\ [Next]_vars => [Excused]_vars
  BY <1>3
<1> QED
  BY <1>1, <1>2, <1>4, PTL DEF Spec, FailsOnlyOnDamage, Excused

-----------------------------------------------------------------------------
(***************************************************************************)
(* Builds and updates of every kind, one after the other, on any files and *)
(* with any saves between them: when nothing is saved during a run and no  *)
(* run is killed, what a run says that it did is done.                     *)
(***************************************************************************)

(* Nothing but content that comes back disturbs the runs.                  *)
Undisturbed == Hazards \subseteq {"revert"}

Contents(fs) == [fs -> Content]
Stamps(fs)   == [fs -> [hash : Content, mtime : Nat]]

(* A manifest, rows and an update state that belong together, and to the
   indexes of the files: the same files, of the same shape, and the hash of
   each index with a stamp that is true.                                   *)
AreOfOneRun(manifest, rows, known) ==
  LET fs == DOMAIN manifest IN
    /\ fs \in SUBSET Files
    /\ manifest \in Contents(fs) /\ rows \in Contents(fs) /\ known \in Stamps(fs)
    /\ \A f \in fs :
         /\ files[f] \in Content /\ known[f].hash = files[f] /\ known[f].mtime <= edits
         /\ Shape(manifest[f]) = Shape(files[f]) /\ Shape(rows[f]) = Shape(files[f])
         /\ f \in Present /\ known[f].mtime = mtime[f] => files[f] = source[f]

IsList(diagnostics) == \E fs \in SUBSET Files : diagnostics \in Contents(fs)

(* The index between two runs.                                             *)
Settled ==
  /\ AreOfOneRun(artifact["manifest"], artifact["rows"], state)
  /\ IsList(artifact["diagnostics"])
  /\ artifact["orientation"] = artifact["nodes"] /\ artifact["orientation"] \in Nat

(* What an update has brought up to date is all that is indexed, and of a
   full update all that exists.                                            *)
IsUpToDate(manifest) ==
  /\ DOMAIN manifest \subseteq Present /\ \A f \in DOMAIN manifest : files[f] = source[f]
  /\ command \in {"build", "update", "force"} => DOMAIN manifest = Present

(* What make_update_plan() leaves out is as it was indexed.                *)
PlanIsTrue(p, cmd) ==
  LET manifest == DOMAIN artifact["manifest"] IN
    /\ p.current = IF cmd \in {"known", "changed"} THEN Present \cap manifest ELSE Present
    /\ p.added = p.current \ manifest /\ p.deleted = manifest \ p.current
    /\ p.modified \subseteq p.current \cap manifest
    /\ p.hash = [f \in p.current |-> source[f]]
    /\ \A f \in p.current \ (p.added \cup p.modified) : files[f] = source[f]

(* While an update indexes, its changed files are those that are indexed and
   those to come; the artifacts still show what was there before.          *)
ReIndexing ==
  LET fs == DOMAIN artifact["manifest"] IN
    /\ PlanIsTrue(plan, command)
    /\ fs \in SUBSET Files
    /\ artifact["manifest"] \in Contents(fs) /\ artifact["rows"] \in Contents(fs)
    /\ state \in Stamps(fs) /\ IsList(artifact["diagnostics"])
    /\ artifact["orientation"] = artifact["nodes"] /\ artifact["orientation"] \in Nat
    /\ pending \subseteq Changed
    /\ built = [f \in Changed \ pending |-> source[f]]
    /\ \A f \in Changed \ pending : files[f] = source[f]
    /\ \A f \in plan.current \ Changed :
         /\ state[f].hash = files[f] /\ state[f].mtime <= edits
         /\ Shape(artifact["manifest"][f]) = Shape(files[f])
         /\ Shape(artifact["rows"][f]) = Shape(files[f])
    /\ \A f \in plan.modified :
         /\ Shape(artifact["manifest"][f]) = Shape(old[f])
         /\ Shape(artifact["rows"][f]) = Shape(old[f])

(* What an artifact and the state will be when all is written.             *)
After(a) == IF Due(a) THEN target[a] ELSE artifact[a]
StateAfter == IF Due("state") THEN NewState ELSE state

ReWriting ==
  /\ \A i \in 1 .. Len(writes) : "state" \in writes[i] => i = Len(writes)
  /\ AreOfOneRun(After("manifest"), After("rows"), StateAfter)
  /\ IsList(After("diagnostics"))
  /\ After("orientation") = docs /\ After("nodes") = docs
  /\ command # "docs" => IsUpToDate(After("manifest"))

(* What a run that has succeeded has done.                                 *)
Done ==
  /\ artifact["manifest"] # NoFile
  /\ artifact["orientation"] = docs /\ artifact["nodes"] = docs
  /\ command # "docs" => IsUpToDate(artifact["manifest"])

Frame ==
  /\ docs \in Nat /\ \A f \in Files : mtime[f] <= edits
  /\ DOMAIN files = Files /\ DOMAIN artifact = Artifacts
  /\ command \in AllCommands
  /\ pc # "idle" => quiet
  /\ log = FALSE /\ artifact["rows"] # Torn

Indices ==
  /\ pc = "idle" /\ artifact["manifest"] # NoFile => Settled
  /\ pc = "idle" /\ quiet /\ outcome = "ok" => Done
  /\ command # "build" =>
       /\ pc = "planned" => Settled /\ PlanIsTrue(plan, command) /\ built = Empty
       /\ pc = "indexing" => ReIndexing
       /\ pc = "writing" => ReWriting

QuietInv == BuildInv /\ Frame /\ Indices

(* A build that has succeeded leaves the index settled and up to date.     *)
LEMMA HealedIsSettled ==
  BuildInv /\ Frame /\ Healed /\ command = "build" => Settled /\ Done
<1> SUFFICES ASSUME BuildInv, Frame, Healed, command = "build" PROVE Settled /\ Done
  OBVIOUS
<1>1. /\ Sources \in [Present -> Content] /\ Present \in SUBSET Files /\ IsUsable(Sources)
      /\ \A f \in Present : /\ source[f] \in Content /\ mtime[f] \in Nat
                            /\ Sources[f] = source[f] /\ files[f] = source[f]
  <2>1. \A f \in Present : /\ source[f] \in Content /\ mtime[f] \in Nat
                           /\ Sources[f] = source[f] /\ files[f] = source[f]
    <3>1. \A f \in Present : source[f] \in Content /\ mtime[f] \in Nat
      BY DEF Present, BuildInv
    <3>2. \A f \in Present : Sources[f] = source[f]
      BY DEF Sources
    <3>3. \A f \in Present : files[f] = source[f]
      BY Zenon DEF Present, Healed
    <3> QED
      BY <3>1, <3>2, <3>3
  <2> QED
    BY <2>1, SourcesAreContents
<1>2. /\ artifact["rows"] = Sources /\ artifact["manifest"] = Sources
      /\ artifact["diagnostics"] = Sources
      /\ artifact["orientation"] = docs /\ artifact["nodes"] = docs
  BY DEF Healed, Aggregated, Artifacts, JsonArtifacts, Spoilt, Frame
<1>3. state = [f \in Present |-> [hash |-> source[f], mtime |-> mtime[f]]]
  BY DEF Healed, Stamp, Sources
<1>4. state \in Stamps(Present)
  BY <1>1, <1>3 DEF Stamps
<1>5. DOMAIN Sources = Present /\ Sources \in Contents(Present)
  BY <1>1 DEF Contents
<1>6. AreOfOneRun(Sources, Sources, state)
  BY <1>1, <1>3, <1>4, <1>5 DEF AreOfOneRun, Frame
<1>7. IsList(Sources)
  BY <1>1, <1>5 DEF IsList
<1>8. IsUpToDate(Sources)
  BY <1>1, <1>5 DEF IsUpToDate
<1> QED
  BY <1>1, <1>2, <1>6, <1>7, <1>8 DEF Settled, Done, IsUsable, Frame

(* A step of a build, and a run that has failed, leave nothing to show but
   what they say of the index.                                             *)
LEMMA BuildStepsKeepQuiet ==
  ASSUME BuildInv', QuietInv, UNCHANGED <<source, mtime, docs, edits>>,
         command' = "build", DOMAIN files' = Files, DOMAIN artifact' = Artifacts,
         pc' # "idle" \/ outcome' = "ok", quiet', log' = FALSE, artifact'["rows"] # Torn
  PROVE  QuietInv'
<1>1. Frame'
  BY DEF QuietInv, Frame, AllCommands
<1>2. pc' = "idle" => Healed'
  BY DEF BuildInv
<1>3. (BuildInv /\ Frame /\ Healed /\ command = "build" => Settled /\ Done)'
  BY HealedIsSettled, PTL
<1>4. pc' = "idle" => Settled' /\ Done'
  BY <1>1, <1>2, <1>3
<1> QED
  BY <1>1, <1>4 DEF QuietInv, Indices

(* Nothing is saved while a run works. Between two, a save is later than
   every stamp of the index.                                               *)
LEMMA SavesKeepQuiet ==
  ASSUME Undisturbed, UpdateAssumption, BuildInv', QuietInv, Developer PROVE QuietInv'
<1>1. /\ pc = "idle" /\ edits' = edits + 1 /\ quiet' = FALSE
      /\ UNCHANGED <<files, artifact, state, log, command, pc>> /\ edits \in Nat
  BY DEF Developer, EditDocs, EditSource, MayEdit, Undisturbed, diskVars, QuietInv, BuildInv
<1>2. /\ docs' \in Nat
      /\ \A g \in Files : mtime'[g] <= edits'
      /\ \A g \in Files : \/ mtime'[g] = mtime[g] /\ source'[g] = source[g]
                          \/ mtime'[g] = edits' \/ source'[g] = NoFile
  <2>1. docs \in Nat /\ mtime \in [Files -> Nat] /\ source \in [Files -> Content \cup {NoFile}]
        /\ \A g \in Files : mtime[g] <= edits
    BY DEF QuietInv, Frame, BuildInv
  <2>2. CASE EditDocs
    BY <1>1, <2>1, <2>2 DEF EditDocs
  <2>3. ASSUME NEW f \in Files, EditSource(f)
        PROVE  /\ docs' \in Nat
               /\ \A g \in Files : mtime'[g] <= edits'
               /\ \A g \in Files : \/ mtime'[g] = mtime[g] /\ source'[g] = source[g]
                                   \/ mtime'[g] = edits' \/ source'[g] = NoFile
    <3>1. PICK c \in Content \cup {NoFile} :
            /\ source' = [source EXCEPT ![f] = c]
            /\ mtime' = [mtime EXCEPT ![f] = IF c = NoFile THEN 0 ELSE edits + 1]
      BY <2>3 DEF EditSource
    <3>2. docs' = docs
      BY <2>3 DEF EditSource
    <3> QED
      BY <1>1, <2>1, <3>1, <3>2
  <2> QED
    BY <2>2, <2>3 DEF Developer
<1>3. Frame'
  BY <1>1, <1>2 DEF QuietInv, Frame
<1>4. ASSUME Settled PROVE Settled'
  <2>1. AreOfOneRun(artifact["manifest"], artifact["rows"], state)
    BY <1>4 DEF Settled
  <2> DEFINE fs == DOMAIN artifact["manifest"]
  <2>2. \A f \in fs : f \in Files /\ state[f].mtime \in Nat /\ state[f].mtime <= edits
    BY <2>1 DEF AreOfOneRun, Stamps
  <2>3. \A f \in fs : f \in Present' /\ state[f].mtime = mtime'[f] => files[f] = source'[f]
    <3> SUFFICES ASSUME NEW f \in fs, source'[f] # NoFile, state[f].mtime = mtime'[f]
                 PROVE  files[f] = source'[f]
      BY <2>2 DEF Present
    <3>1. mtime'[f] = mtime[f] /\ source'[f] = source[f]
      BY <1>1, <1>2, <2>2
    <3> QED
      BY <2>1, <2>2, <3>1 DEF AreOfOneRun, Present
  <2>4. \A f \in fs : state[f].mtime <= edits'
    BY <1>1, <2>2
  <2>5. AreOfOneRun(artifact["manifest"], artifact["rows"], state)'
    BY <1>1, <2>1, <2>3, <2>4 DEF AreOfOneRun
  <2> QED
    BY <1>1, <1>4, <2>5 DEF Settled, IsList
<1> QED
  BY <1>1, <1>3, <1>4 DEF QuietInv, Indices

(* make_update_plan() finds all that changed: what is not listed has the
   stamp that the state has, and what has that stamp is as it was.         *)
LEMMA PlansAreTrue ==
  ASSUME Undisturbed, BuildInv, Settled, NEW cmd \in AllCommands \ {"build", "docs"}, NEW only,
         MayList(cmd, only)
  PROVE  PlanIsTrue(UpdatePlan(cmd, only), cmd)
<1> DEFINE manifest == DOMAIN artifact["manifest"]
           current  == IF cmd \in {"known", "changed"} THEN Present \cap manifest ELSE Present
           hash     == [f \in current |-> IF Trusted(f, only) THEN StateFiles[f].hash
                                          ELSE IF f \in only THEN source[f]
                                          ELSE artifact["manifest"][f]]
           modified == {f \in current \cap manifest :
                          \/ cmd = "force"
                          \/ f \in only /\ f \notin DOMAIN StateFiles
                          \/ f \in only /\ StateFiles[f].hash # hash[f]}
<1>1. UpdatePlan(cmd, only) = [current |-> current, added |-> current \ manifest,
                               modified |-> modified, deleted |-> manifest \ current,
                               hash |-> hash]
  BY DEF UpdatePlan
<1>2. /\ manifest \in SUBSET Files /\ state \in Stamps(manifest)
      /\ \A f \in manifest : /\ state[f].hash = files[f]
                             /\ f \in Present /\ state[f].mtime = mtime[f] => files[f] = source[f]
  BY DEF Settled, AreOfOneRun
<1>3. IsUsable(state) /\ StateFiles = state /\ DOMAIN state = manifest
  BY <1>2, MarkAssumption DEF IsUsable, StateFiles, Stamps
<1>4. current \subseteq Present /\ Present \subseteq Files
  BY DEF Present
<1>5. \A f \in current : f \in only \/ (f \in manifest /\ state[f].mtime = mtime[f])
  <2>1. CASE cmd = "changed"
    <3>1. ListIsComplete(only)
      BY <2>1 DEF MayList, Undisturbed
    <3> QED
      BY <1>3, <2>1, <3>1 DEF ListIsComplete
  <2>2. CASE cmd # "changed"
    BY <1>4, <2>2 DEF MayList
  <2> QED
    BY <2>1, <2>2
<1> HIDE DEF current
<1>6. \A f \in current : hash[f] = source[f]
  BY <1>2, <1>3, <1>4, <1>5 DEF Trusted
<1>7. hash = [f \in current |-> source[f]]
  BY <1>6
<1>8. \A f \in current : f \in manifest /\ f \notin modified => files[f] = source[f]
  BY <1>2, <1>3, <1>4, <1>5, <1>6
<1>9. modified \subseteq current \cap manifest
  OBVIOUS
<1> HIDE DEF manifest, hash, modified
<1>10. current = IF cmd \in {"known", "changed"} THEN Present \cap manifest ELSE Present
  BY DEF current
<1> QED
  BY <1>1, <1>7, <1>8, <1>9, <1>10 DEF PlanIsTrue, manifest

(* With nothing to do, the index is up to date.                            *)
LEMMA NothingToDo ==
  ASSUME NEW p, NEW cmd \in AllCommands, PlanIsTrue(p, cmd),
         p.added \cup p.modified \cup p.deleted = {}
  PROVE  /\ DOMAIN artifact["manifest"] \subseteq Present
         /\ \A f \in DOMAIN artifact["manifest"] : files[f] = source[f]
         /\ cmd \in {"build", "update", "force"} => DOMAIN artifact["manifest"] = Present
<1>1. p.current = DOMAIN artifact["manifest"]
  BY DEF PlanIsTrue
<1> QED
  BY <1>1 DEF PlanIsTrue

(* Where the documents are refreshed, or are as they were, and nothing else
   changes but the state.                                                  *)
LEMMA RefreshedDocs ==
  ASSUME Frame, Settled \/ ReIndexing, target' = RefreshTarget, UNCHANGED <<docs, artifact>>,
         NEW last \in Seq(Steps), last = <<>> \/ last = <<{"state"}>>,
         writes' = RefreshWrites \o last
  PROVE  /\ \A i \in 1 .. Len(writes') : "state" \in writes'[i] => i = Len(writes')
         /\ After("orientation")' = docs /\ After("nodes")' = docs
         /\ \A a \in {"manifest", "rows", "diagnostics"} : After(a)' = artifact[a]
<1>1. CASE artifact["orientation"] = docs
  <2>1. writes' = last
    <3>1. <<>> \o last = last
      OBVIOUS
    <3> QED
      BY <1>1, <3>1 DEF RefreshWrites
  <2>2. artifact["nodes"] = docs
    BY <1>1 DEF Settled, ReIndexing
  <2>3. \A i \in 1 .. Len(writes') : i = Len(writes') /\ writes'[i] = {"state"}
    <3>1. CASE last = <<>>
      BY <2>1, <3>1
    <3>2. CASE last = <<{"state"}>>
      BY <2>1, <3>2
    <3> QED
      BY <3>1, <3>2
  <2>4. \A a \in Artifacts : ~Due(a)'
    BY <2>3 DEF Due, Artifacts, JsonArtifacts
  <2>5. \A a \in Artifacts : After(a)' = artifact[a]
    BY <2>4 DEF After
  <2> QED
    BY <1>1, <2>2, <2>3, <2>5 DEF Artifacts, JsonArtifacts
<1>2. CASE artifact["orientation"] # docs
  <2>1. RefreshWrites = <<{"nodes"}, {"orientation"}, {"manifest"}>>
    BY <1>2 DEF RefreshWrites
  <2>2. /\ writes'[1] = {"nodes"} /\ writes'[2] = {"orientation"} /\ writes'[3] = {"manifest"}
        /\ Len(writes') \in {3, 4} /\ (Len(writes') = 4 => writes'[4] = {"state"})
    <3>1. CASE last = <<>>
      <4>1. writes' = <<{"nodes"}, {"orientation"}, {"manifest"}>>
        BY <2>1, <3>1
      <4> QED
        BY <4>1
    <3>2. CASE last = <<{"state"}>>
      <4> DEFINE list == <<{"nodes"}, {"orientation"}, {"manifest"}>> \o <<{"state"}>>
      <4>1. /\ Len(list) = 4 /\ list[1] = {"nodes"} /\ list[2] = {"orientation"}
            /\ list[3] = {"manifest"} /\ list[4] = {"state"}
        OBVIOUS
      <4>2. writes' = list
        BY <2>1, <3>2
      <4> QED
        BY <4>1, <4>2
    <3> QED
      BY <3>1, <3>2
  <2>3. \A i \in 1 .. Len(writes') :
          /\ "state" \in writes'[i] => i = Len(writes')
          /\ "rows" \notin writes'[i] /\ "diagnostics" \notin writes'[i]
    <3>1. \A i \in 1 .. Len(writes') : i \in {1, 2, 3} \/ (i = 4 /\ Len(writes') = 4)
      BY <2>2
    <3> QED
      BY <2>2, <3>1
  <2>4. \A a \in Artifacts : target'[a] = IF a \in {"nodes", "orientation"} THEN docs
                                          ELSE artifact[a]
    BY DEF RefreshTarget, Frame, Artifacts, JsonArtifacts
  <2>5. Due("nodes")' /\ Due("orientation")' /\ \A a \in {"rows", "diagnostics"} : ~Due(a)'
    <3>1. 1 \in 1 .. Len(writes') /\ 2 \in 1 .. Len(writes')
      BY <2>2
    <3>2. Due("nodes")' /\ Due("orientation")'
      BY <2>2, <3>1 DEF Due
    <3> QED
      BY <2>3, <3>2 DEF Due
  <2> QED
    BY <2>3, <2>4, <2>5 DEF After, Artifacts, JsonArtifacts
<1> QED
  BY <1>1, <1>2

(* The disk is as it was.                                                  *)
LEMMA SettledStays ==
  ASSUME Settled, UNCHANGED <<source, mtime, edits, files, artifact, state>> PROVE Settled'
<1>1. AreOfOneRun(artifact["manifest"], artifact["rows"], state)'
  BY DEF Settled, AreOfOneRun, Present
<1> QED
  BY <1>1 DEF Settled, IsList

(* An update plans what changed, or finds everything up to date.           *)
LEMMA UpdatesStartQuiet ==
  ASSUME Undisturbed, UpdateAssumption, BuildInv', QuietInv, NEW cmd \in AllCommands, NEW only,
         StartUpdate(cmd, only)
  PROVE  QuietInv'
<1>1. /\ pc = "idle" /\ cmd # "build" /\ command' = cmd /\ quiet' = TRUE
      /\ artifact["manifest"] # NoFile /\ MayList(cmd, only)
      /\ UNCHANGED <<source, mtime, docs, edits, files, artifact, state, log>>
  BY DEF StartUpdate, MayStart, editorVars, diskVars
<1> DEFINE p == IF cmd = "docs" THEN NoPlan ELSE UpdatePlan(cmd, only)
<1>2. \/ End("failed")
      \/ p.added \cup p.modified \cup p.deleted # {} /\ pc' = "planned" /\ plan' = p
         /\ UNCHANGED built
      \/ p.added \cup p.modified \cup p.deleted = {} /\ Write(RefreshWrites, RefreshTarget)
         /\ UNCHANGED entries
  BY DEF StartUpdate
<1>3. Frame' /\ Settled' /\ Settled /\ built = Empty /\ BuildInv /\ Frame
  <2>1. Settled
    BY <1>1 DEF QuietInv, Indices
  <2> QED
    BY <1>1, <2>1, SettledStays DEF QuietInv, Frame, BuildInv
<1>4. cmd # "docs" => PlanIsTrue(p, cmd)
  BY <1>1, <1>3, PlansAreTrue
<1>5. CASE End("failed")
  BY <1>1, <1>3, <1>5 DEF QuietInv, Indices, End
<1>6. CASE /\ p.added \cup p.modified \cup p.deleted # {} /\ pc' = "planned" /\ plan' = p
           /\ UNCHANGED built
  <2>1. cmd # "docs"
    BY <1>6 DEF NoPlan
  <2> HIDE DEF p
  <2>2. PlanIsTrue(plan, command)'
    BY <1>1, <1>4, <1>6, <2>1 DEF PlanIsTrue, Present
  <2> QED
    BY <1>1, <1>3, <1>6, <2>2 DEF QuietInv, Indices
<1>7. CASE /\ p.added \cup p.modified \cup p.deleted = {} /\ Write(RefreshWrites, RefreshTarget)
           /\ UNCHANGED entries
  <2>1. cmd # "docs" => /\ DOMAIN artifact["manifest"] \subseteq Present
                        /\ \A f \in DOMAIN artifact["manifest"] : files[f] = source[f]
                        /\ cmd \in {"build", "update", "force"} =>
                             DOMAIN artifact["manifest"] = Present
    BY <1>4, <1>7, NothingToDo
  <2> HIDE DEF p
  <2>2. CASE RefreshWrites = <<>>
    <3>1. pc' = "idle"
      BY <1>7, <2>2 DEF Write, End
    <3>2. artifact["orientation"] = docs /\ artifact["nodes"] = docs
      <4>1. artifact["orientation"] = docs
        BY <2>2 DEF RefreshWrites
      <4> QED
        BY <1>3, <4>1 DEF Settled
    <3>3. command' # "docs" => IsUpToDate(artifact["manifest"])'
      BY <1>1, <2>1 DEF IsUpToDate, Present
    <3>4. Done'
      BY <1>1, <3>2, <3>3 DEF Done
    <3> QED
      BY <1>1, <1>3, <3>1, <3>4 DEF QuietInv, Indices
  <2>3. CASE RefreshWrites # <<>>
    <3>1. /\ pc' = "writing" /\ writes' = RefreshWrites /\ target' = RefreshTarget
      BY <1>7, <2>3 DEF Write
    <3>2. /\ writes' = RefreshWrites \o <<>> /\ <<>> \in Seq(Steps)
      BY <3>1, ListsOfWrites
    <3>3. /\ \A i \in 1 .. Len(writes') : "state" \in writes'[i] => i = Len(writes')
          /\ After("orientation")' = docs /\ After("nodes")' = docs
          /\ \A a \in {"manifest", "rows", "diagnostics"} : After(a)' = artifact[a]
      BY <1>1, <1>3, <3>1, <3>2, RefreshedDocs
    <3>4. ~Due("state")'
      BY <3>1, WhatRefreshWrites DEF Due
    <3>5. /\ AreOfOneRun(artifact["manifest"], artifact["rows"], state)'
          /\ IsList(artifact["diagnostics"])'
      BY <1>3 DEF Settled
    <3>6. AreOfOneRun(After("manifest"), After("rows"), StateAfter)'
      BY <1>1, <3>3, <3>4, <3>5 DEF AreOfOneRun, StateAfter
    <3>7. IsList(After("diagnostics"))'
      BY <1>1, <3>3, <3>5 DEF IsList
    <3>8. command' # "docs" => IsUpToDate(After("manifest"))'
      BY <1>1, <2>1, <3>3 DEF IsUpToDate, Present
    <3>9. ReWriting'
      BY <1>1, <3>3, <3>6, <3>7, <3>8 DEF ReWriting
    <3> QED
      BY <1>1, <1>3, <3>1, <3>9 DEF QuietInv, Indices
  <2> QED
    BY <2>2, <2>3
<1> QED
  BY <1>2, <1>5, <1>6, <1>7

LEMMA BuildsStartQuiet ==
  ASSUME BuildInv', QuietInv, StartBuild PROVE QuietInv'
<1>1. /\ command' = "build" /\ pc' = "indexing" /\ quiet' = TRUE
      /\ files' = [f \in Files |-> NoFile]
      /\ UNCHANGED <<source, mtime, docs, edits, artifact, log>>
  BY DEF StartBuild, editorVars
<1>2. /\ DOMAIN files' = Files /\ DOMAIN artifact' = Artifacts
      /\ log' = FALSE /\ artifact'["rows"] # Torn
  BY <1>1 DEF QuietInv, Frame
<1> QED
  BY <1>1, <1>2, BuildStepsKeepQuiet

(* Every modified file has an index to compare with.                       *)
LEMMA PreparingKeepsQuiet ==
  ASSUME BuildInv', QuietInv, PrepareChanged PROVE QuietInv'
<1>1. /\ pc = "planned" /\ command # "build"
      /\ files' = [f \in Files |-> IF f \in plan.deleted THEN NoFile ELSE files[f]]
      /\ UNCHANGED <<source, mtime, docs, edits, artifact, state, log, command, quiet>>
  BY DEF PrepareChanged, editorVars, QuietInv, BuildInv
<1>2. Settled /\ PlanIsTrue(plan, command) /\ built = Empty /\ Frame
  BY <1>1 DEF QuietInv, Indices
<1> DEFINE fs == DOMAIN artifact["manifest"]
<1>3. /\ fs \subseteq Files /\ plan.modified \subseteq fs \cap plan.current
      /\ \A f \in fs : /\ files[f] \in Content /\ state[f].hash = files[f]
                       /\ state[f].mtime <= edits
                       /\ Shape(artifact["manifest"][f]) = Shape(files[f])
                       /\ Shape(artifact["rows"][f]) = Shape(files[f])
  BY <1>2 DEF Settled, AreOfOneRun, PlanIsTrue
<1>4. \A f \in plan.modified : IsUsable(files[f])
  BY <1>3, MarkAssumption DEF IsUsable
<1>5. /\ pc' = "indexing" /\ pending' = Changed /\ old' = [f \in plan.modified |-> files[f]]
      /\ UNCHANGED <<plan, built>>
  BY <1>4 DEF PrepareChanged, Changed
<1>6. Frame' /\ Changed' = Changed
  BY <1>1, <1>2, <1>5 DEF Frame, Changed, QuietInv
<1>7. \A f \in plan.current : f \in Files /\ files'[f] = files[f]
  BY <1>1, <1>2 DEF PlanIsTrue, Present
<1>8. PlanIsTrue(plan, command)'
  BY <1>1, <1>2, <1>5, <1>7 DEF PlanIsTrue, Present
<1>9. /\ fs \in SUBSET Files
      /\ artifact["manifest"] \in Contents(fs) /\ artifact["rows"] \in Contents(fs)
      /\ state \in Stamps(fs) /\ IsList(artifact["diagnostics"])
      /\ artifact["orientation"] = artifact["nodes"] /\ artifact["orientation"] \in Nat
  BY <1>2 DEF Settled, AreOfOneRun
<1>10. built' = [f \in (Changed \ pending)' |-> source'[f]]
  BY <1>2, <1>5, <1>6 DEF Empty
<1>11. \A f \in plan.current \ Changed : f \in fs
  BY <1>2 DEF PlanIsTrue, Changed
<1>12. ReIndexing'
  <2>1. \A f \in plan.current \ Changed :
         /\ state[f].hash = files'[f] /\ state[f].mtime <= edits
         /\ Shape(artifact["manifest"][f]) = Shape(files'[f])
         /\ Shape(artifact["rows"][f]) = Shape(files'[f])
    BY <1>3, <1>7, <1>11
  <2>2. \A f \in plan.modified :
         /\ Shape(artifact["manifest"][f]) = Shape(old'[f])
         /\ Shape(artifact["rows"][f]) = Shape(old'[f])
    BY <1>3, <1>5
  <2> QED
    BY <1>1, <1>5, <1>6, <1>8, <1>9, <1>10, <2>1, <2>2 DEF ReIndexing, IsList
<1> QED
  BY <1>1, <1>5, <1>6, <1>12 DEF QuietInv, Indices

(* Every changed file exists, and gets its index.                          *)
LEMMA IndexingKeepsQuiet ==
  ASSUME Undisturbed, BuildInv', QuietInv, NEW f \in Files, IndexFile(f) PROVE QuietInv'
<1>1. /\ pc = "indexing" /\ pc' = pc /\ f \in pending /\ pending' = pending \ {f}
      /\ UNCHANGED <<source, mtime, docs, edits, artifact, state, log, command, plan, old, quiet>>
      /\ Frame
  BY DEF IndexFile, editorVars, QuietInv
<1>2. DOMAIN files' = Files /\ DOMAIN artifact' = Artifacts /\ Frame'
  <2>1. DOMAIN files' = Files
    BY <1>1 DEF IndexFile, Frame
  <2> QED
    BY <1>1, <2>1 DEF Frame
<1>3. CASE command = "build"
  <2>1. quiet' /\ log' = FALSE /\ artifact'["rows"] # Torn
    BY <1>1 DEF Frame
  <2>2. pc' # "idle" /\ command' = "build"
    BY <1>1, <1>3
  <2> QED
    BY <1>1, <1>2, <2>1, <2>2, BuildStepsKeepQuiet
<1>4. CASE command # "build"
  <2>1. ReIndexing
    BY <1>1, <1>4 DEF QuietInv, Indices
  <2>2. f \in Changed /\ source[f] # NoFile
    BY <1>1, <2>1 DEF ReIndexing, PlanIsTrue, Changed, Present
  <2>3. files' = [files EXCEPT ![f] = source[f]] /\ built' = BuiltWith(f)
    BY <2>2 DEF IndexFile, Undisturbed
  <2>4. Changed' = Changed
    BY <1>1 DEF Changed
  <2>5. built' = [g \in Changed \ pending' |-> source[g]]
    <3>1. Changed \ pending' = DOMAIN built \cup {f}
      BY <1>1, <2>1, <2>2 DEF ReIndexing
    <3>2. \A g \in DOMAIN built : built[g] = source[g]
      BY <2>1 DEF ReIndexing
    <3> QED
      BY <2>3, <3>1, <3>2 DEF BuiltWith, Overlay
  <2>6. \A g \in Files : g # f => files'[g] = files[g]
    BY <1>1, <2>3 DEF Frame
  <2>7. plan.current \subseteq Files /\ Changed \subseteq Files
    BY <2>1 DEF ReIndexing, PlanIsTrue, Changed, Present
  <2>8. \A g \in Changed \ pending' : files'[g] = source[g]
    BY <1>1, <2>1, <2>3, <2>6, <2>7 DEF ReIndexing, Frame
  <2>9. \A g \in plan.current \ Changed : files'[g] = files[g]
    BY <2>2, <2>6, <2>7
  <2>10. PlanIsTrue(plan, command)'
    BY <1>1, <2>1, <2>9 DEF ReIndexing, PlanIsTrue, Present, Changed
  <2>11. ReIndexing'
    BY <1>1, <2>1, <2>4, <2>5, <2>8, <2>9, <2>10 DEF ReIndexing, IsList
  <2> QED
    BY <1>1, <1>2, <1>4, <2>11 DEF QuietInv, Indices
<1> QED
  BY <1>3, <1>4

LEMMA BuildsAggregateQuiet ==
  ASSUME BuildInv', QuietInv, AggregateBuild PROVE QuietInv'
<1> DEFINE list == <<{"manifest"}, {"modules"}, {"diagnostics"}, {"orientation"}, {"state"},
                     {"rows", "nodes"}>>
<1>1. /\ pc = "indexing" /\ command = "build" /\ Write(list, Aggregated(built)) /\ Frame
      /\ UNCHANGED <<source, mtime, docs, edits, files, artifact, log, command, quiet>>
  BY DEF AggregateBuild, Indexed, editorVars, diskVars, QuietInv
<1>2. list # <<>>
  OBVIOUS
<1>3. pc' = "writing"
  BY <1>1, <1>2 DEF Write
<1>4. quiet' /\ command' = "build"
  BY <1>1 DEF Frame
<1>5. /\ DOMAIN files' = Files /\ DOMAIN artifact' = Artifacts
      /\ log' = FALSE /\ artifact'["rows"] # Torn
  BY <1>1 DEF Frame
<1> QED
  BY <1>1, <1>3, <1>4, <1>5, BuildStepsKeepQuiet

(* When all changed files are indexed, every file the update looks at has
   an index that shows it.                                                 *)
LEMMA AllIsIndexed ==
  ASSUME ReIndexing, pending = {}
  PROVE  /\ built = [f \in Changed |-> source[f]] /\ Changed \subseteq plan.current
         /\ plan.current \subseteq Present /\ Present \subseteq Files
         /\ plan.hash = [f \in plan.current |-> source[f]]
         /\ \A f \in plan.current : files[f] = source[f]
<1>1. PlanIsTrue(plan, command) /\ built = [f \in Changed |-> source[f]]
  BY DEF ReIndexing
<1>2. \A f \in Changed : files[f] = source[f]
  BY DEF ReIndexing
<1> QED
  BY <1>1, <1>2 DEF PlanIsTrue, Changed, Present

(* A full update derives everything from what it has just looked at.       *)
LEMMA FullUpdateKeepsQuiet ==
  ASSUME BuildInv', QuietInv, AggregateFully PROVE QuietInv'
<1>1. /\ pc = "indexing" /\ pending = {} /\ command # "build" /\ entries = Empty
      /\ UNCHANGED <<source, mtime, docs, edits, artifact, state, log, command, quiet>>
      /\ ReIndexing /\ Frame /\ BuildInv
  BY DEF AggregateFully, Indexed, editorVars, QuietInv, Indices, BuildInv
<1>2. /\ built = [f \in Changed |-> source[f]] /\ Changed \subseteq plan.current
      /\ plan.current \subseteq Present /\ Present \subseteq Files
      /\ plan.hash = [f \in plan.current |-> source[f]]
      /\ \A f \in plan.current : files[f] = source[f]
  BY <1>1, AllIsIndexed
<1> DEFINE missing == plan.added \ DOMAIN built
           loaded  == plan.current \ (missing \cup DOMAIN built)
           again   == {f \in missing : source[f] # NoFile}
           reread(gs) == [f \in gs |-> source[f]]
           all == Overlay(built, [f \in missing \cup loaded |-> files'[f]])
<1>3. missing = {} /\ again = {} /\ loaded = plan.current \ Changed
  BY <1>2 DEF Changed
<1>4. \A f \in plan.current : source[f] \in Content /\ IsUsable(files[f])
  BY <1>1, <1>2, MarkAssumption DEF Present, BuildInv, IsUsable
<1>5. /\ files' = Overlay(reread(missing), files)
      /\ entries' = Stamp(plan.hash) /\ Write(FullWrites, Aggregated(all))
  <2>1. \/ \E f \in loaded : ~IsUsable(files[f])
        \/ missing # again \/ missing # {}
        \/ /\ files' = Overlay(reread(missing), files)
           /\ entries' = Stamp(plan.hash) /\ Write(FullWrites, Aggregated(all))
    BY DEF AggregateFully
  <2>2. \A f \in loaded : IsUsable(files[f])
    BY <1>3, <1>4
  <2> HIDE DEF missing, loaded, again, reread, all
  <2> QED
    BY <1>3, <2>1, <2>2
<1>6. DOMAIN files' = Files /\ \A f \in Files : files'[f] = files[f]
  BY <1>1, <1>3, <1>5 DEF Overlay, Frame
<1>7. all = [f \in plan.current |-> source[f]]
  <2>1. DOMAIN all = plan.current
    BY <1>2, <1>3 DEF Overlay
  <2>2. \A f \in plan.current : all[f] = source[f]
    BY <1>2, <1>3, <1>6 DEF Overlay
  <2>3. all = [f \in DOMAIN all |-> all[f]]
    BY DEF Overlay
  <2> HIDE DEF all
  <2> QED
    BY <2>1, <2>2, <2>3
<1> DEFINE shown == [f \in plan.current |-> source[f]]
<1> HIDE DEF missing, loaded, again, all
<1>8. /\ pc' = "writing" /\ writes' = FullWrites /\ target' = Aggregated(shown)
      /\ UNCHANGED <<plan, built>>
  BY <1>5, <1>7, ListsOfWrites DEF Write
<1>9. /\ \A i \in 1 .. Len(writes') : "state" \in writes'[i] => i = Len(writes')
      /\ \A a \in Artifacts \cup {"state"} : Due(a)'
  <2>1. /\ FullWrites[1] = {"manifest"} /\ FullWrites[2] = {"modules"}
        /\ FullWrites[3] = {"diagnostics"} /\ FullWrites[4] = {"orientation"}
        /\ FullWrites[5] = {"rows", "nodes"} /\ FullWrites[6] = {"state"}
        /\ 1 .. Len(FullWrites) = 1 .. 6 /\ Len(FullWrites) = 6
    BY DEF FullWrites
  <2>2. \A i \in 1 .. Len(writes') : "state" \in writes'[i] => i = Len(writes')
    BY <1>8, <2>1
  <2>3. \A a \in Artifacts \cup {"state"} : \E i \in 1 .. 6 : a \in FullWrites[i]
    <3>1. /\ "manifest" \in FullWrites[1] /\ "modules" \in FullWrites[2]
          /\ "diagnostics" \in FullWrites[3] /\ "orientation" \in FullWrites[4]
          /\ "rows" \in FullWrites[5] /\ "nodes" \in FullWrites[5] /\ "state" \in FullWrites[6]
      BY <2>1
    <3>2. {1, 2, 3, 4, 5, 6} \subseteq 1 .. 6
      OBVIOUS
    <3> QED
      BY <3>1, <3>2 DEF Artifacts, JsonArtifacts
  <2>4. \A a \in Artifacts \cup {"state"} : Due(a)'
    BY <1>8, <2>1, <2>3 DEF Due
  <2> QED
    BY <2>2, <2>4
<1>10. /\ After("manifest")' = shown /\ After("rows")' = shown /\ After("diagnostics")' = shown
       /\ After("orientation")' = docs /\ After("nodes")' = docs
  BY <1>1, <1>8, <1>9 DEF After, Aggregated, Artifacts, JsonArtifacts
<1> DEFINE stamped == [f \in plan.current |-> [hash |-> source[f], mtime |-> mtime[f]]]
<1>11. StateAfter' = stamped
  <2>1. entries' = stamped
    BY <1>2, <1>5 DEF Stamp
  <2>2. StateAfter' = NewState'
    BY <1>9 DEF StateAfter
  <2>3. CASE stamped # Empty
    BY <2>1, <2>2, <2>3 DEF NewState
  <2>4. CASE stamped = Empty
    <3>1. plan.current = {}
      <4>1. DOMAIN stamped = plan.current /\ DOMAIN Empty = {}
        BY DEF Empty
      <4> QED
        BY <2>4, <4>1
    <3>2. DOMAIN built' = {} /\ DOMAIN plan'.hash = {} /\ plan'.current = {}
      BY <1>2, <1>8, <3>1
    <3>3. NewState' = Empty
      BY <1>1, <2>1, <2>4, <3>2 DEF NewState, Stamp, Overlay, Empty
    <3> QED
      BY <2>2, <2>4, <3>3
  <2> QED
    BY <2>3, <2>4
<1>12. /\ plan.current \in SUBSET Files /\ shown \in Contents(plan.current)
       /\ stamped \in Stamps(plan.current) /\ DOMAIN shown = plan.current
  <2>1. \A f \in plan.current : source[f] \in Content /\ mtime[f] \in Nat
    BY <1>1, <1>2, <1>4 DEF BuildInv
  <2> QED
    BY <1>2, <2>1 DEF Contents, Stamps
<1>13. \A f \in plan.current : /\ files'[f] = source[f] /\ f \in Files /\ source[f] \in Content
                               /\ mtime[f] <= edits
  BY <1>1, <1>2, <1>4, <1>6 DEF Frame
<1>14. AreOfOneRun(After("manifest"), After("rows"), StateAfter)'
  <2>1. \A f \in plan.current : /\ stamped[f].hash = source[f] /\ stamped[f].mtime = mtime[f]
                                 /\ shown[f] = source[f]
    OBVIOUS
  <2> HIDE DEF shown, stamped
  <2> QED
    BY <1>1, <1>10, <1>11, <1>12, <1>13, <2>1 DEF AreOfOneRun
<1>15. IsList(After("diagnostics"))'
  BY <1>10, <1>12 DEF IsList
<1>16. IsUpToDate(After("manifest"))'
  <2>1. command \in {"build", "update", "force"} => plan.current = Present
    BY <1>1 DEF ReIndexing, PlanIsTrue
  <2> QED
    BY <1>1, <1>2, <1>10, <1>12, <1>13, <2>1 DEF IsUpToDate, Present
<1>17. ReWriting'
  BY <1>1, <1>9, <1>10, <1>14, <1>15, <1>16 DEF ReWriting
<1>18. Frame'
  BY <1>1, <1>6 DEF Frame
<1> QED
  BY <1>1, <1>8, <1>17, <1>18 DEF QuietInv, Indices

(* An update of known files keeps the entries of the others, and stamps
   what it has indexed.                                                    *)
LEMMA KnownUpdateSaves ==
  ASSUME BuildInv, Frame, ReIndexing, pending = {}, OnlyModified, entries' = Empty, Due("state")',
         UNCHANGED <<mtime, command, plan, built, state>>
  PROVE  /\ plan.current = DOMAIN artifact["manifest"] /\ plan.current \in SUBSET Files
         /\ Changed = plan.modified
         /\ StateAfter' \in Stamps(plan.current)
         /\ \A f \in plan.current : /\ files[f] \in Content
                                    /\ StateAfter'[f].hash = files[f]
                                    /\ StateAfter'[f].mtime <= edits
<1>1. /\ built = [f \in Changed |-> source[f]] /\ Changed \subseteq plan.current
      /\ plan.current \subseteq Present /\ Present \subseteq Files
      /\ plan.hash = [f \in plan.current |-> source[f]]
      /\ \A f \in plan.current : files[f] = source[f]
  BY AllIsIndexed
<1> DEFINE fs == DOMAIN artifact["manifest"]
<1>2. /\ plan.current = fs /\ fs \in SUBSET Files /\ Changed = plan.modified
      /\ state \in Stamps(fs)
      /\ \A f \in fs \ Changed : state[f].hash = files[f] /\ state[f].mtime <= edits
  BY DEF ReIndexing, PlanIsTrue, OnlyModified, Changed
<1>3. /\ DOMAIN state = fs /\ StateFiles' = state
      /\ \A f \in fs : state[f] \in [hash : Content, mtime : Nat]
  <2>1. state # NoFile
    BY <1>2, MarkAssumption DEF Stamps
  <2> QED
    BY <1>2, <2>1 DEF Stamps, StateFiles
<1>4. \A f \in fs : /\ source[f] \in Content /\ files[f] \in Content
                    /\ mtime[f] \in Nat /\ mtime[f] <= edits
  BY <1>1, <1>2 DEF BuildInv, Frame, Present
<1> DEFINE stamped == [f \in Changed |-> [hash |-> source[f], mtime |-> mtime[f]]]
           kept == [f \in fs |-> state[f]]
           fresh == [f \in fs |-> [hash |-> source[f], mtime |-> mtime[f]]]
<1>5. StateAfter' = Overlay(stamped, Overlay(kept, fresh))
  <2>1. StateAfter' = NewState'
    BY DEF StateAfter
  <2>2. Stamp(built)' = stamped /\ Stamp(plan.hash)' = fresh
    BY <1>1, <1>2 DEF Stamp
  <2>3. [f \in plan'.current \cap DOMAIN StateFiles' |-> StateFiles'[f]] = kept
    BY <1>2, <1>3
  <2>4. command' # "build"
    BY DEF OnlyModified, Known
  <2> HIDE DEF stamped, kept, fresh
  <2> QED
    BY <2>1, <2>2, <2>3, <2>4 DEF NewState
<1>6. StateAfter' = [f \in fs |-> IF f \in Changed
                                  THEN [hash |-> source[f], mtime |-> mtime[f]] ELSE state[f]]
  BY <1>1, <1>2, <1>5 DEF Overlay
<1>7. StateAfter' \in Stamps(fs)
  BY <1>3, <1>4, <1>6 DEF Stamps
<1>8. \A f \in fs : StateAfter'[f].hash = files[f] /\ StateAfter'[f].mtime <= edits
  BY <1>1, <1>2, <1>4, <1>6
<1> QED
  BY <1>2, <1>4, <1>7, <1>8

(* What an update of known files will leave.                               *)
LEMMA KnownUpdateWrites ==
  ASSUME BuildInv, Frame, ReIndexing, pending = {}, OnlyModified, entries' = Empty, Due("state")',
         UNCHANGED <<source, mtime, docs, edits, files, command, plan, built, state>>,
         \A i \in 1 .. Len(writes') : "state" \in writes'[i] => i = Len(writes'),
         After("orientation")' = docs, After("nodes")' = docs,
         IsList(After("diagnostics"))',
         \A a \in {"manifest", "rows"} :
           /\ After(a)' \in Contents(plan.current)
           /\ \A f \in plan.current : Shape(After(a)'[f]) = Shape(files[f])
  PROVE  ReWriting'
<1>1. /\ plan.current = DOMAIN artifact["manifest"] /\ plan.current \in SUBSET Files
      /\ StateAfter' \in Stamps(plan.current)
      /\ \A f \in plan.current : /\ files[f] \in Content
                                 /\ StateAfter'[f].hash = files[f]
                                 /\ StateAfter'[f].mtime <= edits
  BY KnownUpdateSaves
<1>2. /\ plan.current \subseteq Present /\ \A f \in plan.current : files[f] = source[f]
  BY AllIsIndexed
<1>3. DOMAIN After("manifest")' = plan.current
  BY DEF Contents
<1>4. /\ After("manifest")' \in Contents(plan.current) /\ After("rows")' \in Contents(plan.current)
      /\ \A f \in plan.current : /\ Shape(After("manifest")'[f]) = Shape(files[f])
                                 /\ Shape(After("rows")'[f]) = Shape(files[f])
  OBVIOUS
<1>5. AreOfOneRun(After("manifest"), After("rows"), StateAfter)'
  BY <1>1, <1>2, <1>3, <1>4 DEF AreOfOneRun
<1>6. IsUpToDate(After("manifest"))'
  BY <1>2, <1>3 DEF IsUpToDate, Present, OnlyModified, Known
<1> QED
  BY <1>5, <1>6 DEF ReWriting

(* An update that finds the structure unchanged saves the hashes alone.    *)
LEMMA SkippingKeepsQuiet ==
  ASSUME BuildInv', QuietInv, SkipAggregate PROVE QuietInv'
<1>1. /\ pc = "indexing" /\ pending = {} /\ OnlyModified /\ StructurallyUnchanged
      /\ command # "build" /\ entries = Empty
      /\ UNCHANGED <<source, mtime, docs, edits, files, artifact, state, log, command, quiet>>
  BY DEF SkipAggregate, Indexed, editorVars, diskVars, OnlyModified, Known, QuietInv, BuildInv
<1>2. ReIndexing /\ Frame /\ BuildInv
  BY <1>1 DEF QuietInv, Indices
<1> DEFINE fs == DOMAIN artifact["manifest"]
<1>3. /\ fs \in SUBSET Files
      /\ artifact["manifest"] \in Contents(fs) /\ artifact["rows"] \in Contents(fs)
      /\ IsList(artifact["diagnostics"]) /\ artifact["orientation"] \in Nat
  BY <1>2 DEF ReIndexing
<1>4. ~RefreshFails
  BY <1>3, MarkAssumption DEF RefreshFails, Contents
<1> DEFINE list == RefreshWrites \o <<{"state"}>>
<1>5. /\ RefreshWrites \in Seq(Steps) /\ <<{"state"}>> \in Seq(Steps)
      /\ list # <<>> /\ Len(list) \in 1 .. Len(list) /\ list[Len(list)] = {"state"}
  <2>1. RefreshWrites \in Seq(Steps) /\ <<{"state"}>> \in Seq(Steps)
    BY ListsOfWrites
  <2>2. Len(list) = Len(RefreshWrites) + 1 /\ Len(RefreshWrites) \in Nat
    BY <2>1
  <2>3. list[Len(RefreshWrites) + 1] = {"state"}
    BY <2>1
  <2>4. list # <<>>
    <3>1. Len(list) # 0
      BY <2>2
    <3> HIDE DEF list
    <3> QED
      BY <3>1
  <2> HIDE DEF list
  <2> QED
    BY <2>1, <2>2, <2>3, <2>4
<1>6. /\ pc' = "writing" /\ writes' = list /\ target' = RefreshTarget /\ entries' = Empty
      /\ UNCHANGED <<plan, built>>
  <2>1. Write(list, RefreshTarget) /\ UNCHANGED entries
    BY <1>4 DEF SkipAggregate
  <2> HIDE DEF list
  <2> QED
    BY <1>1, <1>5, <2>1 DEF Write
<1>7. Due("state")'
  <2> HIDE DEF list
  <2> QED
    BY <1>5, <1>6 DEF Due
<1>8. /\ \A i \in 1 .. Len(writes') : "state" \in writes'[i] => i = Len(writes')
      /\ After("orientation")' = docs /\ After("nodes")' = docs
      /\ \A a \in {"manifest", "rows", "diagnostics"} : After(a)' = artifact[a]
  BY <1>1, <1>2, <1>5, <1>6, RefreshedDocs
<1>9. plan.current = fs /\ Changed = plan.modified
  BY <1>1, <1>2, <1>6, <1>7, KnownUpdateSaves
<1>10. \A f \in fs : /\ Shape(artifact["manifest"][f]) = Shape(files[f])
                     /\ Shape(artifact["rows"][f]) = Shape(files[f])
  <2>1. \A f \in fs \ Changed : /\ Shape(artifact["manifest"][f]) = Shape(files[f])
                                /\ Shape(artifact["rows"][f]) = Shape(files[f])
    BY <1>2, <1>9 DEF ReIndexing
  <2>2. \A f \in Changed : /\ Shape(artifact["manifest"][f]) = Shape(old[f])
                           /\ Shape(artifact["rows"][f]) = Shape(old[f])
                           /\ Shape(old[f]) = Shape(built[f])
    BY <1>1, <1>2, <1>9 DEF ReIndexing, StructurallyUnchanged
  <2>3. \A f \in Changed : built[f] = files[f]
    BY <1>1, <1>2, AllIsIndexed
  <2> QED
    BY <2>1, <2>2, <2>3
<1>11. IsList(After("diagnostics"))'
  BY <1>3, <1>8 DEF IsList
<1>12. ReWriting'
  BY <1>1, <1>2, <1>3, <1>6, <1>7, <1>8, <1>9, <1>10, <1>11, KnownUpdateWrites
<1>13. Frame'
  BY <1>1, <1>2 DEF Frame
<1> QED
  BY <1>1, <1>6, <1>12, <1>13 DEF QuietInv, Indices

(* What an incremental aggregation writes, in this order.                  *)
IncrementalWrites ==
  LET ifDocs(w) == IF artifact["orientation"] # docs THEN <<w>> ELSE <<>> IN
    <<{"rows"}>> \o ifDocs({"nodes"}) \o <<{"manifest"}, {"modules"}, {"diagnostics"}>>
      \o ifDocs({"orientation"}) \o <<{"state"}>>

LEMMA WhatIsIncremental ==
  /\ IncrementalWrites # <<>>
  /\ \A i \in 1 .. Len(IncrementalWrites) :
       "state" \in IncrementalWrites[i] => i = Len(IncrementalWrites)
  /\ \A a \in {"rows", "manifest", "diagnostics", "state"} :
       \E i \in 1 .. Len(IncrementalWrites) : a \in IncrementalWrites[i]
  /\ artifact["orientation"] # docs =>
       \A a \in {"nodes", "orientation"} :
         \E i \in 1 .. Len(IncrementalWrites) : a \in IncrementalWrites[i]
<1>1. CASE artifact["orientation"] = docs
  <2> DEFINE list == <<{"rows"}>> \o <<>> \o <<{"manifest"}, {"modules"}, {"diagnostics"}>>
                       \o <<>> \o <<{"state"}>>
  <2>1. IncrementalWrites = list
    BY <1>1 DEF IncrementalWrites
  <2>2. /\ list[1] = {"rows"} /\ list[2] = {"manifest"} /\ list[3] = {"modules"}
        /\ list[4] = {"diagnostics"} /\ list[5] = {"state"} /\ Len(list) = 5
    OBVIOUS
  <2>3. list # <<>>
    <3> HIDE DEF list
    <3> QED
      BY <2>2
  <2> HIDE DEF list
  <2>4. \A i \in 1 .. Len(list) : i \in {1, 2, 3, 4, 5}
    BY <2>2
  <2>5. {1, 2, 3, 4, 5} \subseteq 1 .. Len(list)
    BY <2>2
  <2>6. \A i \in 1 .. Len(list) : "state" \in list[i] => i = Len(list)
    BY <2>2, <2>4
  <2>7. \A a \in {"rows", "manifest", "diagnostics", "state"} :
          \E i \in 1 .. Len(list) : a \in list[i]
    BY <2>2, <2>5
  <2> QED
    BY <1>1, <2>1, <2>3, <2>6, <2>7
<1>2. CASE artifact["orientation"] # docs
  <2> DEFINE list == <<{"rows"}>> \o <<{"nodes"}>>
                       \o <<{"manifest"}, {"modules"}, {"diagnostics"}>>
                       \o <<{"orientation"}>> \o <<{"state"}>>
  <2>1. IncrementalWrites = list
    BY <1>2 DEF IncrementalWrites
  <2>2. /\ list[1] = {"rows"} /\ list[2] = {"nodes"} /\ list[3] = {"manifest"}
        /\ list[4] = {"modules"} /\ list[5] = {"diagnostics"} /\ list[6] = {"orientation"}
        /\ list[7] = {"state"} /\ Len(list) = 7
    OBVIOUS
  <2>3. list # <<>>
    <3> HIDE DEF list
    <3> QED
      BY <2>2
  <2> HIDE DEF list
  <2>4. \A i \in 1 .. Len(list) : i \in {1, 2, 3, 4, 5, 6, 7}
    BY <2>2
  <2>5. {1, 2, 3, 4, 5, 6, 7} \subseteq 1 .. Len(list)
    BY <2>2
  <2>6. \A i \in 1 .. Len(list) : "state" \in list[i] => i = Len(list)
    BY <2>2, <2>4
  <2>7. \A a \in {"rows", "manifest", "diagnostics", "state", "nodes", "orientation"} :
          \E i \in 1 .. Len(list) : a \in list[i]
    BY <2>2, <2>5
  <2> QED
    BY <2>1, <2>3, <2>6, <2>7
<1> QED
  BY <1>1, <1>2

(* An incremental update merges what it has indexed into the artifacts.    *)
LEMMA MergingKeepsQuiet ==
  ASSUME BuildInv', QuietInv, AggregateIncrementally PROVE QuietInv'
<1>1. /\ pc = "indexing" /\ pending = {} /\ OnlyModified /\ command # "build" /\ entries = Empty
      /\ UNCHANGED <<source, mtime, docs, edits, files, artifact, state, log, command, quiet>>
  BY DEF AggregateIncrementally, Indexed, editorVars, diskVars, OnlyModified, Known, QuietInv,
         BuildInv
<1>2. ReIndexing /\ Frame /\ BuildInv
  BY <1>1 DEF QuietInv, Indices
<1> DEFINE fs == DOMAIN artifact["manifest"]
<1>3. /\ fs \in SUBSET Files
      /\ artifact["manifest"] \in Contents(fs) /\ artifact["rows"] \in Contents(fs)
      /\ artifact["orientation"] \in Nat /\ artifact["orientation"] = artifact["nodes"]
  BY <1>2 DEF ReIndexing
<1>4. PICK ds \in SUBSET Files : artifact["diagnostics"] \in Contents(ds)
  BY <1>2 DEF ReIndexing, IsList
<1>5. /\ artifact["diagnostics"] # Torn /\ artifact["diagnostics"] # NoFile
      /\ artifact["orientation"] # Torn /\ artifact["rows"] # NoFile
      /\ \A a \in {"manifest", "rows", "diagnostics"} : IsUsable(artifact[a])
  BY <1>3, <1>4, MarkAssumption DEF Contents, IsUsable
<1> DEFINE merged(a) == IF IsUsable(artifact[a]) THEN Overlay(built, artifact[a]) ELSE built
           contents == [Aggregated(merged("manifest")) EXCEPT
                          !["rows"] = merged("rows"), !["diagnostics"] = merged("diagnostics")]
<1>6. Write(IncrementalWrites, contents) /\ UNCHANGED entries
  BY <1>5 DEF AggregateIncrementally, IncrementalWrites
<1>7. /\ contents["manifest"] = Overlay(built, artifact["manifest"])
      /\ contents["rows"] = Overlay(built, artifact["rows"])
      /\ contents["diagnostics"] = Overlay(built, artifact["diagnostics"])
      /\ contents["orientation"] = docs /\ contents["nodes"] = docs
  BY <1>5 DEF Aggregated, Artifacts, JsonArtifacts
<1> HIDE DEF contents
<1>8. /\ pc' = "writing" /\ writes' = IncrementalWrites /\ target' = contents
      /\ entries' = Empty /\ UNCHANGED <<plan, built>>
  BY <1>1, <1>6, WhatIsIncremental DEF Write
<1>9. /\ \A i \in 1 .. Len(writes') : "state" \in writes'[i] => i = Len(writes')
      /\ \A a \in {"rows", "manifest", "diagnostics", "state"} : Due(a)'
      /\ artifact["orientation"] # docs => Due("nodes")' /\ Due("orientation")'
  BY <1>8, WhatIsIncremental DEF Due
<1>10. /\ After("manifest")' = Overlay(built, artifact["manifest"])
       /\ After("rows")' = Overlay(built, artifact["rows"])
       /\ After("diagnostics")' = Overlay(built, artifact["diagnostics"])
       /\ After("orientation")' = docs /\ After("nodes")' = docs
  BY <1>1, <1>3, <1>7, <1>8, <1>9 DEF After
<1>11. plan.current = fs /\ Changed = plan.modified /\ \A f \in fs : files[f] \in Content
  BY <1>1, <1>2, <1>8, <1>9, KnownUpdateSaves
<1>12. /\ DOMAIN built = Changed /\ Changed \subseteq fs
       /\ \A f \in Changed : built[f] = files[f] /\ f \in Files /\ built[f] \in Content
  BY <1>1, <1>2, <1>3, <1>11, AllIsIndexed
<1>13. \A f \in fs \ Changed : /\ Shape(artifact["manifest"][f]) = Shape(files[f])
                               /\ Shape(artifact["rows"][f]) = Shape(files[f])
  BY <1>2, <1>11 DEF ReIndexing
<1>14. ASSUME NEW a \in {"manifest", "rows"}
       PROVE  /\ After(a)' \in Contents(plan.current)
              /\ \A f \in plan.current : Shape(After(a)'[f]) = Shape(files[f])
  <2>1. After(a)' = Overlay(built, artifact[a]) /\ artifact[a] \in Contents(fs)
    BY <1>3, <1>10
  <2>2. After(a)' = [f \in fs |-> IF f \in Changed THEN built[f] ELSE artifact[a][f]]
    BY <1>12, <2>1 DEF Overlay, Contents
  <2> QED
    BY <1>11, <1>12, <1>13, <2>1, <2>2 DEF Contents
<1>15. IsList(After("diagnostics"))'
  <2>1. After("diagnostics")' = [f \in Changed \cup ds |-> IF f \in Changed THEN built[f]
                                                           ELSE artifact["diagnostics"][f]]
    BY <1>4, <1>10, <1>12 DEF Overlay, Contents
  <2>2. After("diagnostics")' \in Contents(Changed \cup ds)
    BY <1>4, <1>12, <2>1 DEF Contents
  <2>3. Changed \cup ds \in SUBSET Files
    BY <1>4, <1>12
  <2> QED
    BY <2>2, <2>3 DEF IsList
<1>16. ReWriting'
  BY <1>1, <1>2, <1>8, <1>9, <1>10, <1>14, <1>15, KnownUpdateWrites
<1>17. Frame'
  BY <1>1, <1>2 DEF Frame
<1> QED
  BY <1>1, <1>8, <1>16, <1>17 DEF QuietInv, Indices

(* Every write brings an artifact to what it will be.                      *)
LEMMA WritesKeepQuiet ==
  ASSUME Undisturbed, BuildInv', QuietInv, WriteNext PROVE QuietInv'
<1>1. /\ pc = "writing" /\ writes # <<>> /\ writes \in Seq(Steps) /\ Frame
      /\ artifact' = [a \in Artifacts |-> IF a \in Head(writes) THEN target[a] ELSE artifact[a]]
      /\ log' = FALSE
      /\ state' = IF "state" \in Head(writes) THEN NewState ELSE state
      /\ UNCHANGED <<source, mtime, docs, edits, files, command, quiet>>
  <2>1. /\ WriteNext /\ Frame /\ BuildInv /\ log = FALSE /\ artifact["rows"] # Torn
        /\ "heldOpen" \notin Hazards
    BY DEF QuietInv, Frame, Undisturbed
  <2>2. Put(Head(writes)) = [a \in Artifacts |-> IF a \in Head(writes) THEN target[a]
                                                ELSE artifact[a]]
    BY <2>1 DEF Put
  <2>3. log' = FALSE
    BY <2>1 DEF WriteNext, Close
  <2> QED
    BY <2>1, <2>2, <2>3 DEF WriteNext, editorVars, BuildInv, Steps
<1>2. /\ Head(writes) = writes[1] /\ Len(writes) \in Nat \ {0} /\ 1 \in 1 .. Len(writes)
      /\ Tail(writes) \in Seq(Steps) /\ Len(Tail(writes)) = Len(writes) - 1
      /\ \A i \in 1 .. Len(writes) - 1 : Tail(writes)[i] = writes[i + 1]
  BY <1>1
<1>3. \/ Len(writes) = 1 /\ End("ok")
      \/ Len(writes) # 1 /\ writes' = Tail(writes)
         /\ UNCHANGED <<pc, plan, pending, built, old, target, entries, outcome>>
  BY DEF WriteNext
<1>4. \A what : Due(what) =>
        \/ what \in Head(writes)
        \/ Len(writes) # 1 /\ \E i \in 1 .. Len(Tail(writes)) : what \in Tail(writes)[i]
  BY <1>1, DueIsNextOrLater
<1>5. \A what \in Head(writes) : Due(what)
  BY <1>2 DEF Due
<1>6. artifact'["rows"] # Torn
  <2>1. "rows" \in Head(writes) => target["rows"] # Torn
    <3>1. CASE command = "build"
      <4>1. target = Aggregated(Sources)
        BY <1>1, <3>1 DEF QuietInv, BuildInv, Frame, Writing
      <4>2. target["rows"] = Sources
        BY <4>1 DEF Aggregated, Artifacts, JsonArtifacts
      <4>3. Sources \in [Present -> Content] /\ Present \in SUBSET Files
        BY SourcesAreContents DEF QuietInv, BuildInv
      <4> QED
        BY <4>2, <4>3, MarkAssumption
    <3>2. CASE command # "build"
      <4>1. "rows" \in Head(writes) => After("rows") = target["rows"]
        BY <1>5 DEF After
      <4>2. \E fs \in SUBSET Files : After("rows") \in Contents(fs)
        BY <1>1, <3>2 DEF QuietInv, Indices, ReWriting, AreOfOneRun
      <4> QED
        BY <4>1, <4>2, MarkAssumption DEF Contents
    <3> QED
      BY <3>1, <3>2
  <2> QED
    BY <1>1, <2>1 DEF Artifacts, Frame
<1>7. /\ DOMAIN files' = Files /\ DOMAIN artifact' = Artifacts /\ quiet' /\ quiet /\ Frame'
      /\ log' = FALSE /\ artifact'["rows"] # Torn
  BY <1>1, <1>3, <1>6 DEF Frame, End
<1>8. CASE command = "build"
  <2>1. (pc' # "idle" \/ outcome' = "ok") /\ command' = "build"
    BY <1>1, <1>3, <1>8 DEF End
  <2> QED
    BY <1>1, <1>7, <2>1, BuildStepsKeepQuiet
<1>9. CASE command # "build"
  <2>1. ReWriting
    BY <1>1, <1>9 DEF QuietInv, Indices
  <2>2. /\ AreOfOneRun(After("manifest"), After("rows"), StateAfter)
        /\ IsList(After("diagnostics")) /\ After("orientation") = docs /\ After("nodes") = docs
        /\ command # "docs" => IsUpToDate(After("manifest"))
    BY <2>1 DEF ReWriting
  <2> DEFINE isLast(i) == "state" \in writes[i] => i = Len(writes)
  <2>3. \A i \in 1 .. Len(writes) : isLast(i)
    BY <2>1 DEF ReWriting
  <2> HIDE DEF isLast
  <2>4. CASE Len(writes) = 1
    <3>1. pc' = "idle"
      BY <1>3, <2>4 DEF End
    <3>2. \A a \in Artifacts : artifact'[a] = After(a)
      BY <1>1, <1>4, <1>5, <2>4 DEF After
    <3>3. state' = StateAfter
      BY <1>1, <1>4, <1>5, <2>4 DEF StateAfter
    <3>4. /\ artifact'["manifest"] = After("manifest") /\ artifact'["rows"] = After("rows")
          /\ artifact'["diagnostics"] = After("diagnostics")
          /\ artifact'["orientation"] = docs /\ artifact'["nodes"] = docs
      BY <2>2, <3>2 DEF Artifacts, JsonArtifacts
    <3>5. AreOfOneRun(artifact["manifest"], artifact["rows"], state)'
      BY <1>1, <2>2, <3>3, <3>4 DEF AreOfOneRun, Present
    <3>6. Settled'
      BY <1>1, <2>2, <3>4, <3>5 DEF Settled, IsList, Frame
    <3>7. artifact'["manifest"] # NoFile
      BY <3>5, MarkAssumption DEF AreOfOneRun, Contents
    <3>8. Done'
      BY <1>1, <2>2, <3>4, <3>7 DEF Done, IsUpToDate, Present
    <3> QED
      BY <1>7, <3>1, <3>6, <3>8 DEF QuietInv, Indices
  <2>5. CASE Len(writes) # 1
    <3>1. writes' = Tail(writes) /\ UNCHANGED <<pc, plan, built, target, entries>>
      BY <1>3, <2>5
    <3>2. "state" \notin Head(writes) /\ state' = state
      <4>1. isLast(1)
        BY <1>2, <2>3
      <4>2. "state" \notin Head(writes)
        BY <1>2, <2>5, <4>1 DEF isLast
      <4> QED
        BY <1>1, <4>2
    <3>3. \A what : Due(what)' => Due(what)
      <4> SUFFICES ASSUME NEW what, NEW i \in 1 .. Len(Tail(writes)), what \in Tail(writes)[i]
                   PROVE  Due(what)
        BY <3>1 DEF Due
      <4>1. i \in 1 .. Len(writes) - 1 /\ i + 1 \in 1 .. Len(writes)
        BY <1>2
      <4> QED
        BY <1>2, <4>1 DEF Due
    <3>4. \A what : Due(what) => what \in Head(writes) \/ Due(what)'
      BY <1>4, <3>1 DEF Due
    <3>5. \A a \in Artifacts : After(a)' = After(a)
      <4> SUFFICES ASSUME NEW a \in Artifacts PROVE After(a)' = After(a)
        OBVIOUS
      <4>1. CASE Due(a)'
        BY <3>1, <3>3, <4>1 DEF After
      <4>2. CASE ~Due(a)' /\ a \in Head(writes)
        BY <1>1, <1>5, <4>2 DEF After
      <4>3. CASE ~Due(a)' /\ a \notin Head(writes)
        BY <1>1, <3>4, <4>3 DEF After
      <4> QED
        BY <4>1, <4>2, <4>3
    <3>6. /\ After("manifest")' = After("manifest") /\ After("rows")' = After("rows")
          /\ After("diagnostics")' = After("diagnostics")
          /\ After("orientation")' = docs /\ After("nodes")' = docs
      BY <2>2, <3>5 DEF Artifacts, JsonArtifacts
    <3>7. Stamp(built)' = Stamp(built) /\ Stamp(plan.hash)' = Stamp(plan.hash)
      BY <1>1, <3>1 DEF Stamp
    <3>8. NewState' = NewState
      BY <1>1, <3>1, <3>2, <3>7 DEF NewState, StateFiles
    <3>9. StateAfter' = StateAfter
      <4>1. Due("state")' <=> Due("state")
        BY <3>2, <3>3, <3>4
      <4> QED
        BY <3>2, <3>8, <4>1 DEF StateAfter
    <3>10. \A i \in 1 .. Len(writes') : "state" \in writes'[i] => i = Len(writes')
      <4> SUFFICES ASSUME NEW i \in 1 .. Len(Tail(writes)), "state" \in Tail(writes)[i]
                   PROVE  i = Len(Tail(writes))
        BY <3>1
      <4>1. i \in 1 .. Len(writes) - 1 /\ i + 1 \in 1 .. Len(writes)
        BY <1>2
      <4>2. i + 1 = Len(writes)
        <5>1. isLast(i + 1) /\ Tail(writes)[i] = writes[i + 1]
          BY <1>2, <2>3, <4>1
        <5> QED
          BY <5>1 DEF isLast
      <4>3. Len(Tail(writes)) = Len(writes) - 1 /\ Len(writes) \in Nat
        BY <1>2
      <4> QED
        BY <4>1, <4>2, <4>3
    <3>11. AreOfOneRun(After("manifest"), After("rows"), StateAfter)'
      BY <1>1, <2>2, <3>6, <3>9 DEF AreOfOneRun, Present
    <3>12. /\ IsList(After("diagnostics"))'
           /\ command' # "docs" => IsUpToDate(After("manifest"))'
      BY <1>1, <2>2, <3>6 DEF IsList, IsUpToDate, Present
    <3>13. ReWriting'
      BY <1>1, <3>6, <3>10, <3>11, <3>12 DEF ReWriting
    <3> QED
      BY <1>1, <1>7, <1>9, <3>1, <3>13 DEF QuietInv, Indices
  <2> QED
    BY <2>4, <2>5
<1> QED
  BY <1>8, <1>9

LEMMA QuietInvHoldsAtFirst == Init => QuietInv
<1> SUFFICES ASSUME Init PROVE QuietInv
  OBVIOUS
<1>1. BuildInv
  BY BuildInvHoldsAtFirst
<1>2. edits = 1 /\ \A f \in Files : mtime[f] \in {0, 1}
  BY Zenon DEF Init
<1>3. artifact["rows"] = NoFile
  BY DEF Init, Artifacts, JsonArtifacts
<1>4. Frame
  BY <1>2, <1>3, MarkAssumption DEF Init, Frame, AllCommands
<1>5. artifact["manifest"] = NoFile
  BY DEF Init, Artifacts, JsonArtifacts
<1> QED
  BY <1>1, <1>4, <1>5 DEF QuietInv, Init, Indices

LEMMA QuietInvIsKept ==
  ASSUME Undisturbed, QuietInv, [Next]_vars PROVE QuietInv'
<1>1. BuildInv' /\ BuildInv
  BY BuildInvIsKept DEF QuietInv, Undisturbed
<1>2. ~Kill /\ ~DatabaseFails
  BY DEF Kill, Undisturbed, DatabaseFails, QuietInv, Frame
<1>3. CASE UNCHANGED vars
  <2> USE <1>3 DEF vars, editorVars, diskVars, runVars
  <2>1. Frame'
    BY DEF QuietInv, Frame
  <2>2. /\ Present' = Present /\ Changed' = Changed
        /\ Stamp(built)' = Stamp(built) /\ Stamp(plan.hash)' = Stamp(plan.hash)
    BY DEF Present, Changed, Stamp
  <2>3. NewState' = NewState
    BY <2>2 DEF NewState, StateFiles
  <2>4. (Settled => Settled') /\ (Done => Done')
    BY <2>2 DEF Settled, AreOfOneRun, IsList, Done, IsUpToDate
  <2>5. PlanIsTrue(plan, command) => PlanIsTrue(plan, command)'
    BY <2>2 DEF PlanIsTrue
  <2>6. ReIndexing => ReIndexing'
    BY <2>2, <2>5 DEF ReIndexing, IsList
  <2>7. /\ After("manifest")' = After("manifest") /\ After("rows")' = After("rows")
        /\ After("diagnostics")' = After("diagnostics")
        /\ After("orientation")' = After("orientation") /\ After("nodes")' = After("nodes")
        /\ StateAfter' = StateAfter
    BY <2>3 DEF After, StateAfter, Due
  <2>8. AreOfOneRun(After("manifest"), After("rows"), StateAfter) =>
          AreOfOneRun(After("manifest"), After("rows"), StateAfter)'
    BY <2>2, <2>7 DEF AreOfOneRun
  <2>9. ReWriting => ReWriting'
    BY <2>2, <2>7, <2>8 DEF ReWriting, IsList, IsUpToDate
  <2> QED
    BY <1>1, <2>1, <2>4, <2>5, <2>6, <2>9 DEF QuietInv, Indices
<1>4. ASSUME NEW cmd \in Commands, NEW only, StartUpdate(cmd, only) PROVE QuietInv'
  BY <1>1, <1>4, UpdateAssumption, UpdatesStartQuiet
<1> QED
  BY <1>1, <1>2, <1>3, <1>4, UpdateAssumption, SavesKeepQuiet, BuildsStartQuiet,
     PreparingKeepsQuiet, IndexingKeepsQuiet, BuildsAggregateQuiet, SkippingKeepsQuiet,
     MergingKeepsQuiet, FullUpdateKeepsQuiet, WritesKeepQuiet DEF Next, Run
-----------------------------------------------------------------------------
(* A run that says it has succeeded has brought up to date the records of
   its files, the manifest and the rows, and left no row of a file that is
   gone, whatever builds and updates of whatever kind came before it, and
   whatever was saved between them (ProjectIndexUpdate.CleanRunIsCurrent). *)
THEOREM CleanRunsAreCurrent ==
  ASSUME Undisturbed PROVE Spec => []CleanRunIsCurrent
<1>1. QuietInv /\ [Next]_vars => QuietInv'
  BY QuietInvIsKept
<1>2. QuietInv => CleanRunIsCurrent
  <2> SUFFICES ASSUME QuietInv, CleanRun
               PROVE  /\ IsUsable(artifact["manifest"]) /\ IsUsable(artifact["rows"])
                      /\ \A f \in Scope : IsCurrent(f)
    BY DEF CleanRunIsCurrent
  <2>1. pc = "idle" /\ outcome = "ok" /\ quiet
    BY DEF CleanRun
  <2>2. Settled /\ Done /\ command \in AllCommands
    BY <2>1 DEF QuietInv, Indices, Done, Frame
  <2> DEFINE fs == DOMAIN artifact["manifest"]
  <2>3. /\ fs \in SUBSET Files /\ artifact["rows"] \in Contents(fs)
        /\ \A f \in fs : /\ Shape(artifact["manifest"][f]) = Shape(files[f])
                         /\ Shape(artifact["rows"][f]) = Shape(files[f])
    BY <2>2 DEF Settled, AreOfOneRun
  <2>4. /\ DOMAIN artifact["rows"] = fs /\ IsUsable(artifact["rows"])
        /\ IsUsable(artifact["manifest"])
    BY <2>2, <2>3, MarkAssumption DEF Contents, IsUsable, Settled, AreOfOneRun
  <2>5. ASSUME command # "docs", NEW f \in Files,
               f \in fs \/ command \in {"build", "update", "force"}
        PROVE  IsCurrent(f)
    <3>1. /\ fs \subseteq Present /\ \A g \in fs : files[g] = source[g]
          /\ command \in {"build", "update", "force"} => fs = Present
      BY <2>2, <2>5 DEF Done, IsUpToDate
    <3>2. CASE source[f] = NoFile
      BY <2>4, <3>1, <3>2 DEF IsCurrent, JsonShows, RowsShow, Present
    <3>3. CASE source[f] # NoFile
      <4>1. f \in fs
        BY <2>5, <3>1, <3>3 DEF Present
      <4> QED
        BY <2>3, <2>4, <3>1, <3>3, <4>1 DEF IsCurrent, JsonShows, RowsShow, Reflects
    <3> QED
      BY <3>2, <3>3
  <2>6. \A f \in Scope : /\ command # "docs" /\ f \in Files
                         /\ f \in fs \/ command \in {"build", "update", "force"}
    BY <2>2, <2>3 DEF Scope, AllCommands
  <2> QED
    BY <2>2, <2>4, <2>5, <2>6 DEF Done
<1> QED
  BY QuietInvHoldsAtFirst, <1>1, <1>2, PTL DEF Spec

(* And it has refreshed the orientation documents, in JSON and in the
   database (ProjectIndexUpdate.CleanRunHasDocs).                          *)
THEOREM CleanRunsHaveDocs ==
  ASSUME Undisturbed PROVE Spec => []CleanRunHasDocs
<1>1. QuietInv /\ [Next]_vars => QuietInv'
  BY QuietInvIsKept
<1>2. QuietInv => CleanRunHasDocs
  BY DEF QuietInv, Indices, Done, CleanRunHasDocs, CleanRun
<1> QED
  BY QuietInvHoldsAtFirst, <1>1, <1>2, PTL DEF Spec

(* What the next full update would call unchanged, by its stamp or by its
   hash, is indexed as it is, although stamps and hashes come from runs of
   every kind (ProjectIndexUpdate.UnchangedIsIndexed).                     *)
THEOREM UnchangedFilesAreIndexed ==
  ASSUME Undisturbed PROVE Spec => []UnchangedIsIndexed
<1>1. QuietInv /\ [Next]_vars => QuietInv'
  BY QuietInvIsKept
<1>2. QuietInv => UnchangedIsIndexed
  <2> SUFFICES ASSUME QuietInv, pc = "idle", NEW f \in WouldSkip PROVE files[f] = source[f]
    BY DEF UnchangedIsIndexed
  <2>1. IsUsable(artifact["manifest"]) /\ IsUsable(state)
    BY DEF WouldSkip
  <2>2. Settled /\ BuildInv
    BY <2>1 DEF QuietInv, Indices, IsUsable
  <2>3. "update" \in AllCommands \ {"build", "docs"} /\ MayList("update", Files)
    BY DEF AllCommands, MayList
  <2> DEFINE p == UpdatePlan("update", Files)
  <2>4. PlanIsTrue(p, "update")
    BY <2>2, <2>3, PlansAreTrue
  <2>5. f \in p.current \ (p.added \cup p.modified)
    BY <2>1 DEF WouldSkip
  <2> HIDE DEF p
  <2> QED
    BY <2>4, <2>5 DEF PlanIsTrue
<1> QED
  BY QuietInvHoldsAtFirst, <1>1, <1>2, PTL DEF Spec
=============================================================================
