------------------------ MODULE ProjectIndexUpdate ------------------------
(***************************************************************************)
(* The writers of a project index: build_project_index.py, which starts    *)
(* from nothing, and update_project_index.py, which re-indexes what        *)
(* changed. Under the update lock (IndexFileLock) one of them runs at a    *)
(* time, so the model has one run in progress; what interleaves with it is *)
(* the developer who edits the sources, and the run may be killed between  *)
(* any two of its file writes. A killed run is over when the lock is free, *)
(* which is when its pool workers are gone too (IndexFileLock).            *)
(*                                                                         *)
(* An index is a set of files that are written one after the other:        *)
(* files/<id>.json per source file, manifest.json, modules.json,           *)
(* diagnostics.json, orientation.json, index.sqlite (the symbol rows and   *)
(* the orientation nodes) and update_state.json, the hashes and stamps by  *)
(* which the next update decides what changed.                             *)
(*                                                                         *)
(* index.sqlite is in WAL mode: what is written in place goes to the log   *)
(* index.sqlite-wal first, and the last connection that closes moves it    *)
(* into the database. A build writes a new database elsewhere and renames  *)
(* it over the old one, beneath a log that is still there: whoever opens   *)
(* it then mixes the pages of both. The servers that keep function graphs  *)
(* in the same database (FunctionGraphCache) are not modelled as writers.  *)
(*                                                                         *)
(* The content of a source file is a pair: what the structural view of its *)
(* index sees, and the rest of its text (comments, bodies). Each artifact  *)
(* is the function that gives, per source file, the content it was derived *)
(* from; orientation documents are one version number. Discovery, parsing  *)
(* and formatting are left out.                                            *)
(***************************************************************************)
EXTENDS Naturals, Sequences

CONSTANTS
  Files,      (* source paths                                              *)
  Shapes,     (* structures: symbols, data, imports, line counts           *)
  Texts,      (* the text that leaves the structure alone                  *)
  NoFile,     (* content of a path that does not exist                     *)
  Torn,       (* content of a JSON file whose write was cut off, and of a
                 database whose pages are mixed with those of another      *)
  Commands,   (* the commands the environment issues                       *)
  Hazards,    (* what the environment may do besides                       *)
  MaxEdits,   (* bound: saves of source files and documents                *)
  MaxRuns     (* bound: builds and updates started                         *)

(***************************************************************************)
(* build    build_project_index.py                                         *)
(* update   update_project_index.py                                        *)
(* force    update_project_index.py --force                                *)
(* known    update_project_index.py --known-files-only                     *)
(* changed  the same with one --changed-file or more, as the watchers run  *)
(*          it                                                             *)
(* docs     update_project_index.py --orientation-only                     *)
(***************************************************************************)
AllCommands == {"build", "update", "force", "known", "changed", "docs"}

(***************************************************************************)
(* editDuringRun  sources are saved while a build or update runs           *)
(* revert         a save may bring back content the file had before        *)
(* killBuild      a build may be killed                                    *)
(* killUpdate     an update may be killed                                  *)
(* indexFailure   a file that exists may be impossible to read or to index *)
(* staleList      the --changed-file list may miss a file that changed     *)
(* heldOpen       a server may have the database open, so that the writer  *)
(*                who closes it is not the last and its log remains        *)
(***************************************************************************)
AllHazards == {"editDuringRun", "revert", "killBuild", "killUpdate", "indexFailure",
               "staleList", "heldOpen"}

ASSUME UpdateAssumption ==
  /\ Commands \subseteq AllCommands
  /\ Hazards \subseteq AllHazards
  /\ MaxEdits \in Nat /\ MaxRuns \in Nat

Content == Shapes \X Texts

(* A path without a file has no content, and a file that is there and whole
   is neither missing nor torn.                                            *)
ASSUME MarkAssumption ==
  /\ NoFile # Torn
  /\ NoFile \notin Content /\ Torn \notin Content
  /\ NoFile \notin Nat /\ Torn \notin Nat
  /\ \A fs \in SUBSET Files :
       {NoFile, Torn} \cap ([fs -> Content] \cup [fs -> [hash : Content, mtime : Nat]]) = {}

Shape(c) == c[1]

VARIABLES
  source,     (* per path, the content on disk, or NoFile                   *)
  mtime,      (* per path, the time of its last save; 0 without a file      *)
  docs,       (* version of the orientation documents                       *)
  edits,      (* number of saves so far: the clock of mtime                 *)
  seen,       (* contents each path has had (for the revert hazard)         *)
  files,      (* files/<id>.json: the content indexed, NoFile or Torn       *)
  artifact,   (* the aggregate artifacts, see Artifacts                     *)
  state,      (* update_state.json: path -> [hash, mtime], NoFile or Torn   *)
  log,        (* index.sqlite-wal holds pages that index.sqlite lacks       *)
  command,    (* the running or last command                                *)
  listed,     (* the paths it looks at: those of --changed-file, or all     *)
  pc,         (* where the run is; "idle" when none is                      *)
  plan,       (* the UpdatePlan                                             *)
  pending,    (* changed paths not indexed yet                              *)
  built,      (* updated_by_key: what this run has indexed                  *)
  old,        (* old_modified_file_indexes                                  *)
  target,     (* what the aggregation is going to write                     *)
  entries,    (* new_state_files where it is computed before the writes     *)
  writes,     (* artifacts still to write, in order; a set is one write     *)
  outcome,    (* of the last run: "none", "ok", "failed", "killed"          *)
  quiet,      (* no save since the last run started                         *)
  plain,      (* history: a clean build succeeded, and after it only full
                 updates ran (some killed) with no source saved meanwhile   *)
  runs        (* number of runs so far                                      *)

editorVars == <<source, mtime, docs, edits, seen>>
diskVars == <<files, artifact, state, log>>
runVars == <<command, listed, pc, plan, pending, built, old, target, entries, writes,
             outcome, quiet, plain, runs>>
vars == <<editorVars, diskVars, runVars>>

(* "rows" are the symbol and data tables of index.sqlite, "nodes" its
   orientation table. *)
JsonArtifacts == {"manifest", "modules", "diagnostics", "orientation"}
Artifacts == JsonArtifacts \cup {"rows", "nodes"}

Empty == [f \in {} |-> NoFile]

(* Per-file records, the new ones before the older.                        *)
Overlay(new, older) ==
  [f \in DOMAIN new \cup DOMAIN older |-> IF f \in DOMAIN new THEN new[f] ELSE older[f]]
IsUsable(x) == x # NoFile /\ x # Torn
NoPlan == [current |-> {}, added |-> {}, modified |-> {}, deleted |-> {}, hash |-> Empty]

Known == command \in {"known", "changed"}
(* The files source discovery returns. *)
Present == {f \in Files : source[f] # NoFile}
StateFiles == IF state = NoFile THEN Empty ELSE state

Init ==
  /\ source \in [Files -> (Content \cup {NoFile})]
  /\ mtime = [f \in Files |-> IF source[f] = NoFile THEN 0 ELSE 1]
  /\ docs = 1
  /\ edits = 1
  /\ seen = [f \in Files |-> {source[f]}]
  /\ files = [f \in Files |-> NoFile]
  /\ artifact = [a \in Artifacts |-> NoFile]
  /\ state = NoFile /\ log = FALSE
  /\ command = "docs" /\ listed = Files
  /\ pc = "idle" /\ plan = NoPlan /\ pending = {} /\ built = Empty /\ old = Empty
  /\ target = artifact /\ entries = Empty /\ writes = <<>>
  /\ outcome = "none" /\ quiet = FALSE /\ plain = FALSE /\ runs = 0

(***************************************************************************)
(* The developer                                                           *)
(***************************************************************************)
MayEdit ==
  /\ edits <= MaxEdits
  /\ pc = "idle" \/ "editDuringRun" \in Hazards

(* Save, create or delete a source file. A save may leave the content as it
   was; every save changes the stamp. *)
EditSource(f) ==
  /\ MayEdit
  /\ \E c \in Content \cup {NoFile} :
       /\ c = NoFile => source[f] # NoFile
       /\ c \in seen[f] \ {source[f]} => "revert" \in Hazards
       /\ source' = [source EXCEPT ![f] = c]
       /\ mtime' = [mtime EXCEPT ![f] = IF c = NoFile THEN 0 ELSE edits + 1]
       /\ seen' = IF "revert" \in Hazards THEN seen ELSE [seen EXCEPT ![f] = @ \cup {c}]
  /\ edits' = edits + 1
  /\ quiet' = FALSE
  /\ plain' = (plain /\ pc = "idle")
  /\ UNCHANGED <<docs, diskVars, command, listed, pc, plan, pending, built, old,
                 target, entries, writes, outcome, runs>>

EditDocs ==
  /\ MayEdit
  /\ docs' = docs + 1
  /\ edits' = edits + 1
  /\ quiet' = FALSE
  /\ UNCHANGED <<source, mtime, seen, diskVars, command, listed, pc, plan, pending,
                 built, old, target, entries, writes, outcome, plain, runs>>

(***************************************************************************)
(* Starting and ending a run                                               *)
(***************************************************************************)
MayStart(cmd) == pc = "idle" /\ cmd \in Commands /\ runs < MaxRuns

(* The run is over: what it held in memory is gone. *)
End(result) ==
  /\ pc' = "idle"
  /\ plan' = NoPlan /\ pending' = {} /\ built' = Empty /\ old' = Empty
  /\ target' = [a \in Artifacts |-> NoFile] /\ entries' = Empty /\ writes' = <<>>
  /\ outcome' = result

(* make_update_plan(): which known and discovered files count as changed.
   A path that is not listed keeps the hash of the last run; a listed one is
   hashed unless its stamp is the saved one. *)
Trusted(f, only) ==
  f \in DOMAIN StateFiles /\ (f \in only => StateFiles[f].mtime = mtime[f])

UpdatePlan(cmd, only) ==
  LET manifest == DOMAIN artifact["manifest"]
      current  == IF cmd \in {"known", "changed"} THEN Present \cap manifest ELSE Present
      hash     == [f \in current |-> IF Trusted(f, only) THEN StateFiles[f].hash
                                     ELSE IF f \in only THEN source[f]
                                     ELSE artifact["manifest"][f]]
      modified == {f \in current \cap manifest :
                     \/ cmd = "force"
                     \/ f \in only /\ f \notin DOMAIN StateFiles
                     \/ f \in only /\ StateFiles[f].hash # hash[f]}
  IN [current  |-> current,
      added    |-> current \ manifest,
      modified |-> modified,
      deleted  |-> manifest \ current,
      hash     |-> hash]

(* A listed file without a stamp to trust is read for its hash, and nothing
   catches the error if it cannot be read. *)
HashMayFail(fs, only) ==
  "indexFailure" \in Hazards /\ \E f \in fs \cap only : ~Trusted(f, only)

(* Wrong variants, here and below, show that the properties notice them: a
   refresh that leaves the database alone, ...                             *)
RefreshJsonOnly ==
  IF artifact["orientation"] = docs THEN <<>> ELSE <<{"orientation"}, {"manifest"}>>

(* refresh_orientation_if_changed(): nodes, then orientation.json, then the
   node count in the manifest, and nothing when the saved stamps match. *)
RefreshWrites ==
  IF artifact["orientation"] = docs THEN <<>>
  ELSE <<{"nodes"}, {"orientation"}, {"manifest"}>>
RefreshTarget == [artifact EXCEPT !["nodes"] = docs, !["orientation"] = docs]
RefreshFails ==
  \/ artifact["orientation"] = Torn
  \/ artifact["orientation"] # docs /\ artifact["rows"] = NoFile

(* What is written, and where the run goes: nothing to write is success.   *)
Write(what, contents) ==
  IF what = <<>> THEN End("ok")
  ELSE /\ pc' = "writing"
       /\ target' = contents
       /\ writes' = what
       /\ UNCHANGED <<plan, pending, built, old, outcome>>

(* The watchers list what changed since their last snapshot. *)
ListIsComplete(only) ==
  IsUsable(state) => \A f \in DOMAIN state : f \in only \/ state[f].mtime = mtime[f]

MayList(cmd, only) ==
  IF cmd = "changed" THEN "staleList" \in Hazards \/ ListIsComplete(only) ELSE only = Files

(* run_update() up to the plan. Without a manifest it exits at once.       *)
StartUpdate(cmd, only) ==
  /\ MayStart(cmd) /\ cmd # "build" /\ MayList(cmd, only)
  /\ artifact["manifest"] # NoFile
  /\ command' = cmd /\ listed' = only /\ runs' = runs + 1 /\ quiet' = TRUE
  /\ plain' = (plain /\ cmd \in {"update", "docs"})
  /\ IF artifact["manifest"] = Torn \/ (cmd # "docs" /\ state = Torn)
     THEN End("failed")
     ELSE LET p == IF cmd = "docs" THEN NoPlan ELSE UpdatePlan(cmd, only) IN
       \/ HashMayFail(p.current, only) /\ End("failed")
       \/ IF p.added \cup p.modified \cup p.deleted # {}
          THEN /\ pc' = "planned"
               /\ plan' = p
               /\ UNCHANGED <<pending, built, old, target, entries, writes, outcome>>
          ELSE IF RefreshFails THEN End("failed")
          ELSE Write(RefreshWrites, RefreshTarget) /\ UNCHANGED entries
  /\ UNCHANGED <<editorVars, diskVars>>

(* build_project_index() empties files/ and discovers the sources.         *)
StartBuild ==
  /\ MayStart("build")
  /\ command' = "build" /\ listed' = Files /\ runs' = runs + 1 /\ quiet' = TRUE
  /\ plain' = FALSE
  /\ files' = [f \in Files |-> NoFile]
  /\ plan' = [NoPlan EXCEPT !.current = Present, !.added = Present]
  /\ pending' = Present
  /\ pc' = "indexing"
  /\ UNCHANGED <<editorVars, artifact, state, log, built, old, target, entries, writes, outcome>>

(***************************************************************************)
(* Indexing the changed files                                              *)
(***************************************************************************)
(* ... loading an old index for the added files too, ...                   *)
PrepareAllChanged ==
  /\ pc = "planned"
  /\ files' = [f \in Files |-> IF f \in plan.deleted THEN NoFile ELSE files[f]]
  /\ IF \E f \in plan.modified \cup plan.added : ~IsUsable(files[f])
     THEN End("failed")
     ELSE /\ pc' = "indexing"
          /\ pending' = plan.added \cup plan.modified
          /\ old' = [f \in plan.modified |-> files[f]]
          /\ UNCHANGED <<plan, built, target, entries, writes, outcome>>
  /\ UNCHANGED <<editorVars, artifact, state, log, command, listed, quiet, plain, runs>>

(* remove_deleted_file_indexes(), then the old indexes of modified files
   are loaded. *)
PrepareChanged ==
  /\ pc = "planned"
  /\ files' = [f \in Files |-> IF f \in plan.deleted THEN NoFile ELSE files[f]]
  /\ IF \E f \in plan.modified : ~IsUsable(files[f])
     THEN End("failed")
     ELSE /\ pc' = "indexing"
          /\ pending' = plan.added \cup plan.modified
          /\ old' = [f \in plan.modified |-> files[f]]
          /\ UNCHANGED <<plan, built, target, entries, writes, outcome>>
  /\ UNCHANGED <<editorVars, artifact, state, log, command, listed, quiet, plain, runs>>

BuiltWith(f) == Overlay([g \in {f} |-> source[f]], built)

(* ... an index that is built and not saved, ...                           *)
IndexFileUnsaved(f) ==
  /\ pc = "indexing" /\ f \in pending
  /\ pending' = pending \ {f}
  /\ built' = IF source[f] = NoFile THEN built ELSE BuiltWith(f)
  /\ UNCHANGED <<editorVars, files, artifact, state, log, command, listed, pc, plan, old, target,
                 entries, writes, outcome, quiet, plain, runs>>

(* build_file_indexes_for_project(): one file, in any order since jobs run
   in parallel. A file that cannot be read or parsed is a diagnostic. *)
IndexFile(f) ==
  /\ pc = "indexing" /\ f \in pending
  /\ pending' = pending \ {f}
  /\ \/ /\ source[f] # NoFile
        /\ files' = [files EXCEPT ![f] = source[f]]
        /\ built' = BuiltWith(f)
     \/ /\ source[f] = NoFile \/ "indexFailure" \in Hazards
        /\ UNCHANGED <<files, built>>
  /\ UNCHANGED <<editorVars, artifact, state, log, command, listed, pc, plan, old, target,
                 entries, writes, outcome, quiet, plain, runs>>

(***************************************************************************)
(* Aggregation                                                             *)
(***************************************************************************)
Indexed == pc = "indexing" /\ pending = {}

(* All artifacts derived afresh from the given contents. *)
Aggregated(contents) ==
  [a \in Artifacts |-> IF a \in {"orientation", "nodes"} THEN docs ELSE contents]

(* ... a build that keeps the old database, ...                            *)
AggregateBuildJsonOnly ==
  /\ Indexed /\ command = "build"
  /\ Write(<<{"manifest"}, {"modules"}, {"diagnostics"}, {"orientation"}, {"state"}>>,
           Aggregated(built))
  /\ UNCHANGED <<editorVars, diskVars, command, listed, entries, quiet, plain, runs>>

(* build_project_index(): the state goes before the database. *)
AggregateBuild ==
  /\ Indexed /\ command = "build"
  /\ Write(<<{"manifest"}, {"modules"}, {"diagnostics"}, {"orientation"}, {"state"},
             {"rows", "nodes"}>>, Aggregated(built))
  /\ UNCHANGED <<editorVars, diskVars, command, listed, entries, quiet, plain, runs>>

(* ... a comparison that is satisfied once everything is indexed, ...      *)
AllIndexed == plan.modified # {} /\ DOMAIN built = plan.modified

StructurallyUnchanged ==
  /\ plan.modified # {} /\ DOMAIN built = plan.modified
  /\ \A f \in plan.modified : Shape(old[f]) = Shape(built[f])

OnlyModified == Known /\ plan.added = {} /\ plan.deleted = {}

(* "Structural index unchanged; skipped aggregate rewrite" *)
SkipAggregate ==
  /\ Indexed /\ OnlyModified /\ StructurallyUnchanged
  /\ IF RefreshFails THEN End("failed")
     ELSE Write(RefreshWrites \o <<{"state"}>>, RefreshTarget) /\ UNCHANGED entries
  /\ UNCHANGED <<editorVars, diskVars, command, listed, quiet, plain, runs>>

(* aggregate_project_index_incremental() *)
AggregateIncrementally ==
  /\ Indexed /\ OnlyModified /\ ~StructurallyUnchanged
  /\ IF artifact["diagnostics"] = Torn \/ artifact["orientation"] = Torn
          \/ artifact["rows"] = NoFile
     THEN End("failed")
     ELSE LET merged(a) == IF IsUsable(artifact[a]) THEN Overlay(built, artifact[a]) ELSE built
              docsChanged == artifact["orientation"] # docs
              ifDocs(w) == IF docsChanged THEN <<w>> ELSE <<>>
          IN /\ Write(<<{"rows"}>> \o ifDocs({"nodes"})
                        \o <<{"manifest"}, {"modules"}, {"diagnostics"}>>
                        \o ifDocs({"orientation"}) \o <<{"state"}>>,
                      [Aggregated(merged("manifest")) EXCEPT
                         !["rows"] = merged("rows"), !["diagnostics"] = merged("diagnostics")])
             /\ UNCHANGED entries
  /\ UNCHANGED <<editorVars, diskVars, command, listed, quiet, plain, runs>>

Stamp(hashes) == [f \in DOMAIN hashes |-> [hash |-> hashes[f], mtime |-> mtime[f]]]

(* ... and hashes that go to disk before what they vouch for.              *)
FullWritesStateFirst ==
  <<{"state"}, {"manifest"}, {"modules"}, {"diagnostics"}, {"orientation"}, {"rows", "nodes"}>>

FullWrites ==
  <<{"manifest"}, {"modules"}, {"diagnostics"}, {"orientation"}, {"rows", "nodes"}, {"state"}>>

(* The full branch of run_update(): the indexes of all current files are
   loaded, an added file without one is indexed again, and the state gets
   the hashes of the plan with the stamps of now. *)
AggregateFully ==
  LET missing == plan.added \ DOMAIN built
      loaded  == plan.current \ (missing \cup DOMAIN built)
      again   == {f \in missing : source[f] # NoFile}
      reread(fs) == [f \in fs |-> source[f]]
  IN /\ Indexed /\ command # "build" /\ ~OnlyModified
     /\ \/ /\ \E fs \in SUBSET again :
                /\ \/ \E f \in loaded : ~IsUsable(files[f])
                   \/ missing # again
                   \/ fs # missing /\ "indexFailure" \in Hazards
                /\ files' = Overlay(reread(fs), files)
           /\ End("failed")
        \/ /\ \A f \in loaded : IsUsable(files[f])
           /\ missing = again
           /\ files' = Overlay(reread(missing), files)
           /\ entries' = Stamp(plan.hash)
           /\ Write(FullWrites,
                    Aggregated(Overlay(built, [f \in missing \cup loaded |-> files'[f]])))
     /\ UNCHANGED <<editorVars, artifact, state, log, command, listed, quiet, plain, runs>>

(***************************************************************************)
(* Writing the artifacts                                                   *)
(***************************************************************************)
(* What a build, or an update of known files, saves as it gets there: what
   it indexed with the stamp of now, the old entry for the rest. *)
NewState ==
  IF entries # Empty THEN entries
  ELSE IF command = "build" THEN Stamp(built)
  ELSE LET kept == [f \in plan.current \cap DOMAIN StateFiles |-> StateFiles[f]]
       IN Overlay(Stamp(built), Overlay(kept, Stamp(plan.hash)))

(* index.sqlite is written in place, by replace_file_lookup_rows and
   replace_orientation_nodes, or replaced. *)
InPlace(w) == w = {"rows"} \/ w = {"nodes"}
Replaces(w) == {"rows", "nodes"} \subseteq w

(* What a write leaves: a database that is put beneath an older log, or was
   mixed up before it was written in place, is no database. *)
Put(w) ==
  LET mixed == IF Replaces(w) THEN log ELSE artifact["rows"] = Torn
  IN [a \in Artifacts |-> IF a \notin w THEN artifact[a]
                          ELSE IF a \in {"rows", "nodes"} /\ mixed THEN Torn
                          ELSE target[a]]

(* A writer's last connection takes the log along when it closes.          *)
Close(w) ==
  IF InPlace(w) THEN log' \in (IF "heldOpen" \in Hazards THEN BOOLEAN ELSE {FALSE})
  ELSE UNCHANGED log

WriteNext ==
  /\ pc = "writing"
  /\ artifact' = Put(Head(writes))
  /\ Close(Head(writes))
  /\ state' = IF "state" \in Head(writes) THEN NewState ELSE state
  /\ IF Len(writes) = 1 THEN End("ok")
     ELSE /\ writes' = Tail(writes)
          /\ UNCHANGED <<pc, plan, pending, built, old, target, entries, outcome>>
  /\ plain' = (plain \/ (command = "build" /\ Len(writes) = 1 /\ quiet))
  /\ UNCHANGED <<editorVars, files, command, listed, quiet, runs>>

(* "database disk image is malformed", if the statement meets such a page. *)
DatabaseFails ==
  /\ pc = "writing" /\ InPlace(Head(writes)) /\ artifact["rows"] = Torn
  /\ Close(Head(writes))
  /\ End("failed")
  /\ UNCHANGED <<editorVars, files, artifact, state, command, listed, quiet, plain, runs>>

(* The process dies. A JSON file it was writing is cut off; SQLite either
   committed or did not, and nobody moves what it committed in place. *)
Kill ==
  /\ pc # "idle"
  /\ (IF command = "build" THEN "killBuild" ELSE "killUpdate") \in Hazards
  /\ \/ UNCHANGED diskVars
     \/ /\ pc = "planned"
        /\ \E f \in plan.deleted : files' = [files EXCEPT ![f] = NoFile]
        /\ UNCHANGED <<artifact, state, log>>
     \/ /\ pc = "indexing"
        /\ \E f \in pending : /\ source[f] # NoFile
                             /\ files' = [files EXCEPT ![f] = Torn]
        /\ UNCHANGED <<artifact, state, log>>
     \/ /\ pc = "writing" /\ "state" \in Head(writes)
        /\ state' = Torn
        /\ UNCHANGED <<files, artifact, log>>
     \/ /\ pc = "writing"
        /\ \E a \in Head(writes) \cap JsonArtifacts : artifact' = [artifact EXCEPT ![a] = Torn]
        /\ UNCHANGED <<files, state, log>>
     \/ /\ pc = "writing" /\ InPlace(Head(writes))
        /\ artifact' = Put(Head(writes)) /\ log' = TRUE
        /\ UNCHANGED <<files, state>>
  /\ End("killed")
  /\ UNCHANGED <<editorVars, command, listed, quiet, plain, runs>>

Developer == EditDocs \/ \E f \in Files : EditSource(f)

Run ==
  \/ \E cmd \in Commands, only \in SUBSET Files : only # {} /\ StartUpdate(cmd, only)
  \/ StartBuild
  \/ PrepareChanged
  \/ \E f \in Files : IndexFile(f)
  \/ AggregateBuild \/ SkipAggregate \/ AggregateIncrementally \/ AggregateFully
  \/ WriteNext \/ DatabaseFails

Next == Developer \/ Run \/ Kill

Spec == Init /\ [][Next]_vars

(***************************************************************************)
(* Properties                                                              *)
(***************************************************************************)
(* The last run reported success and nothing was saved since it began. *)
CleanRun == pc = "idle" /\ outcome = "ok" /\ quiet

(* The artifact has the structure of the file as it is on disk, ... *)
Reflects(a, f) ==
  f \in DOMAIN artifact[a] /\ Shape(artifact[a][f]) = Shape(source[f])
(* ... as the manifest and the records have it, or the rows. *)
JsonShows(f) ==
  IF source[f] = NoFile THEN f \notin DOMAIN artifact["manifest"]
  ELSE files[f] = source[f] /\ Reflects("manifest", f)
RowsShow(f) ==
  IF source[f] = NoFile THEN f \notin DOMAIN artifact["rows"] ELSE Reflects("rows", f)
IsCurrent(f) == JsonShows(f) /\ RowsShow(f)

(* What a command promises to bring up to date: an update of known files
   only those in the manifest, with --changed-file only those listed. *)
Scope ==
  CASE command \in {"build", "update", "force"} -> Files
    [] command = "known"   -> DOMAIN artifact["manifest"]
    [] command = "changed" -> listed \cap DOMAIN artifact["manifest"]
    [] command = "docs"    -> {}

(* A run that says it succeeded while nobody saved leaves an index whose
   per-file records, manifest and symbol rows all show the files in its
   scope as they are on disk, and no row of a deleted file (run_update and
   build_project_index reach this through six different write orders). *)
CleanRunIsCurrent ==
  CleanRun => /\ IsUsable(artifact["manifest"]) /\ IsUsable(artifact["rows"])
              /\ \A f \in Scope : IsCurrent(f)

(* And its orientation documents, in JSON and in the database, are those on
   disk: every command refreshes them. *)
CleanRunHasDocs ==
  CleanRun => artifact["orientation"] = docs /\ artifact["nodes"] = docs

(* The files the next full update would skip, by stamp or by hash. *)
WouldSkip ==
  IF IsUsable(artifact["manifest"]) /\ IsUsable(state)
  THEN LET p == UpdatePlan("update", Files) IN p.current \ (p.added \cup p.modified)
  ELSE {}

(* make_update_plan() may call a file unchanged only when the index of the
   file matches its source: a wrong entry in update_state.json is never
   noticed again. *)
UnchangedIsIndexed == pc = "idle" => \A f \in WouldSkip : files[f] = source[f]

(* A build that succeeded is current whatever was lost or torn before it,
   its database too unless an update, killed or beside an open reader, left
   its log there: replace_index_db removes the log of the new database, not
   of the old. *)
BuildHeals ==
  CleanRun /\ command = "build" =>
    /\ \A f \in Files : JsonShows(f)
    /\ artifact["orientation"] = docs
    /\ WouldSkip = Present
    /\ ~log => /\ IsUsable(artifact["rows"]) /\ artifact["nodes"] = docs
               /\ \A f \in Files : RowsShow(f)

(* After a full update that succeeded every file that exists is current,
   even if earlier updates were killed between any two writes: the hashes
   go to disk last. A database beneath a left log is not spared. *)
KilledUpdateIsRepeated ==
  CleanRun /\ plain /\ command = "update" =>
    \A f \in Present : JsonShows(f) /\ (artifact["rows"] # Torn => RowsShow(f))

Damaged ==
  \/ state = Torn \/ \E a \in JsonArtifacts : artifact[a] = Torn
  \/ ~IsUsable(artifact["rows"])
  \/ \E f \in Files : files[f] = Torn
  \/ IsUsable(artifact["manifest"]) /\ \E f \in DOMAIN artifact["manifest"] : files[f] = NoFile

(* A run ends in failure, be it where it starts.                           *)
GivesUp == (pc # "idle" \/ runs' # runs) /\ pc' = "idle" /\ outcome' = "failed"

(* With nobody saving, a run gives up only over an index an earlier run left
   damaged, over a file it cannot read for its hash, or over a new file that
   it could not index: a file of the manifest that cannot be indexed ends no
   run, and no deleted, unlisted or killed one does. *)
FailsOnlyOnDamage ==
  [][GivesUp /\ quiet' =>
       \/ Damaged'
       \/ pc = "idle" /\ HashMayFail(Present, listed')
       \/ pc = "indexing" /\ \E f \in plan.added : f \notin DOMAIN built]_vars
=============================================================================
