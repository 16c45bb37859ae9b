------------------------- MODULE FunctionGraphCache -------------------------
(***************************************************************************)
(* Function body graphs on demand: FunctionGraphSourceService answers a    *)
(* request from the tables that FunctionGraphStorage adds to index.sqlite, *)
(* or parses and resolves the function and stores the result there. The    *)
(* tables are shared by the servers of the index root, perhaps of          *)
(* different releases, and the updater replaces rows of the same database  *)
(* or the whole of it (ProjectIndexUpdate), whether the servers' gates are *)
(* open or not.                                                            *)
(*                                                                         *)
(* Each function is alone in its file. The text of the file is the place   *)
(* it stands at, which is part of its symbol id, a body (what it calls and *)
(* how many data accesses and control flow markers it has besides), and    *)
(* whether the file declares the module. A fingerprint is the record of    *)
(* what is hashed.                                                         *)
(***************************************************************************)
EXTENDS Naturals, Sequences, FiniteSets, Sifting

CONSTANTS
  Functions,   (* callable symbols by name, and the files they are in      *)
  Places,      (* line ranges                                              *)
  Bodies,      (* [calls : Seq(Functions), others : Nat]                   *)
  Nowhere,     (* no such function, an unresolved callee                   *)
  Options,     (* [external : BOOLEAN, limit : Nat], limit is maxEdges     *)
  Servers,
  OldServers,  (* those of a release with another parser and resolver      *)
  MaxSaves,    (* bound: saves of the sources                              *)
  MaxRequests, (* bound: graph requests                                    *)
  MaxPrunes    (* bound: prunes of the cache                               *)

ASSUME GraphCacheAssumption ==
  /\ Nowhere \notin Places
  /\ \A b \in Bodies : b.calls \in Seq(Functions) /\ b.others \in Nat
  /\ Options \subseteq [external : BOOLEAN, limit : Nat] /\ OldServers \subseteq Servers
  /\ {MaxSaves, MaxRequests, MaxPrunes} \subseteq Nat

VARIABLES
  text,       (* per function, [place, body, module] in its source file    *)
  saves,
  rows,       (* table symbols: the place of each function                 *)
  hashed,     (* update_state.json: the text that was last indexed         *)
  manifest,   (* manifest.json and what modules.json derives from it       *)
  loaded,     (* the same as each server has loaded it                     *)
  graphs,     (* table function_graph_cache                                *)
  edges,      (* table function_graph_edges                                *)
  request,    (* the tool call each server is serving                      *)
  requests,
  keep,       (* per server, the versions a prune has decided to keep      *)
  prunes,
  moved       (* history: the index has left cached graphs behind          *)

sourceVars == <<text, saves>>
indexVars == <<rows, hashed, manifest, moved>>
tables == <<graphs, edges>>
pruneVars == <<keep, prunes>>
vars == <<sourceVars, indexVars, loaded, tables, request, requests, pruneVars>>

Idle == [at |-> "idle"]
Undecided == {"undecided"}
Version(s) == IF s \in OldServers THEN "old" ELSE "new"
Texts == [place : Places \cup {Nowhere}, body : Bodies, module : BOOLEAN]
Mates(manifested) == {f \in Functions : manifested[f].module}

(* cacheOptions: what of the request selects edges, as the key has it.     *)
CacheOptions(o) == [o EXCEPT !.limit = IF @ = 0 THEN 1 ELSE @]

Init ==
  /\ text \in [Functions -> [place : Places, body : Bodies, module : {TRUE}]]
  /\ saves = 0
  /\ rows = [f \in Functions |-> text[f].place]
  /\ hashed = text /\ manifest = text
  /\ loaded = [s \in Servers |-> manifest]
  /\ graphs = {} /\ edges = {}
  /\ request = [s \in Servers |-> Idle] /\ requests = 0
  /\ keep = [s \in Servers |-> Undecided] /\ prunes = 0
  /\ moved = FALSE

(***************************************************************************)
(* What a graph is: build_function_visibility_context() and                *)
(* resolve_function_graph_edges()                                          *)
(***************************************************************************)
(* extract_function_source() reads the lines the index gives. When the
   function has moved they hold something else. *)
Elsewhere == [calls |-> <<>>, others |-> 0]
Slice(f) == IF text[f].place = rows[f] THEN text[f].body ELSE Elsewhere

(* Its own file and the files of its module. *)
Visible(s, f) ==
  LET mates == Mates(loaded[s]) IN
  [g \in Functions |-> IF g = f \/ {f, g} \subseteq mates THEN rows[g] ELSE Nowhere]

Resolved(body, visible, o) ==
  LET call(g)   == [kind |-> "call", text |-> g, to |-> visible[g]]
      found     == [i \in DOMAIN body.calls |-> call(body.calls[i])]
      calls     == Sift(found, {i \in DOMAIN found : o.external \/ found[i].to # Nowhere})
      others    == [i \in 1..body.others |->
                      [kind |-> "other", text |-> Nowhere, to |-> Nowhere]]
      upTo(es, n) == IF Len(es) <= n THEN es ELSE SubSeq(es, 1, n)
  IN IF o.limit = 0 THEN upTo(calls, 1)
     ELSE upTo(calls \o others, o.limit)

(* Wrong variants, here and below, show that the properties notice them: a key
   without the modules map, ...                                            *)
KeyWithoutModules(s, f, o) ==
  [symbol  |-> <<f, rows[f]>>,
   body    |-> Slice(f),
   file    |-> loaded[s][f],
   modules |-> {},
   version |-> Version(s),
   options |-> CacheOptions(o)]

(* FunctionGraphCacheKey. The symbol index fingerprint adds nothing to the
   symbol's own file: the counts in it are zero and the creation time is
   not in the manifest. *)
Key(s, f, o) ==
  [symbol  |-> <<f, rows[f]>>,
   body    |-> Slice(f),
   file    |-> loaded[s][f],
   modules |-> Mates(loaded[s]),
   version |-> Version(s),
   options |-> CacheOptions(o)]

(* The graph fingerprint, with the symbol id the primary key of the table:
   not the whole key is in it. *)
Fingerprint(g) ==
  [symbol |-> g.key.symbol, body |-> g.key.body, version |-> g.key.version,
   options |-> g.key.options, edges |-> g.edges]

EdgeRows(g) == {[graph |-> Fingerprint(g), edge |-> g.edges[i]] : i \in DOMAIN g.edges}

Cached(key) == {g \in graphs : g.key = key}

(***************************************************************************)
(* get_function_body_graph()                                               *)
(***************************************************************************)
(* symbol_fingerprint_payload(), extract_function_source(), the key. A
   refresh does not look for it, otherwise the mode is compute_if_missing; a
   cache_only request ends with Lookup and changes nothing. *)
Ask(s, f, refresh, o) ==
  /\ request[s] = Idle /\ requests < MaxRequests
  /\ rows[f] # Nowhere
  /\ request' = [request EXCEPT ![s] =
       [at |-> IF refresh THEN "resolve" ELSE "lookup",
        function |-> f, options |-> o, key |-> Key(s, f, o)]]
  /\ requests' = requests + 1
  /\ UNCHANGED <<sourceVars, indexVars, loaded, tables, pruneVars>>

(* load_graph_result(): the newest row of the key answers. *)
Lookup(s) ==
  /\ request[s].at = "lookup"
  /\ request' = [request EXCEPT ![s] =
       IF Cached(@.key) # {} THEN Idle ELSE [@ EXCEPT !.at = "resolve"]]
  /\ UNCHANGED <<sourceVars, indexVars, loaded, tables, requests, pruneVars>>

(* load_ast_extract(), or parse_function() and store_ast_extract(): an extract
   is kept under all it is made from, so that both give the same. Then the
   symbols of the visible files are read from the database as it is. *)
Resolve(s) ==
  /\ request[s].at = "resolve"
  /\ LET r == request[s] IN
     request' = [request EXCEPT ![s] =
       [at |-> "store",
        graph |-> [key |-> r.key,
                   edges |-> Resolved(r.key.body, Visible(s, r.function), r.options)]]]
  /\ UNCHANGED <<sourceVars, indexVars, loaded, tables, requests, pruneVars>>

(* ... a store that adds to the edges of the function, ...                 *)
StoreAdding(s) ==
  /\ request[s].at = "store"
  /\ LET g == request[s].graph IN
     /\ graphs' = {h \in graphs : Fingerprint(h) # Fingerprint(g)} \cup {g}
     /\ edges' = edges \cup EdgeRows(g)
  /\ request' = [request EXCEPT ![s] = Idle]
  /\ UNCHANGED <<sourceVars, indexVars, loaded, requests, pruneVars>>

(* store_graph_result(), one transaction. *)
Store(s) ==
  /\ request[s].at = "store"
  /\ LET g == request[s].graph IN
     /\ graphs' = {h \in graphs : Fingerprint(h) # Fingerprint(g)} \cup {g}
     /\ edges' = {e \in edges : e.graph.symbol # g.key.symbol} \cup EdgeRows(g)
  /\ request' = [request EXCEPT ![s] = Idle]
  /\ UNCHANGED <<sourceVars, indexVars, loaded, requests, pruneVars>>

(***************************************************************************)
(* Pruning by version, from the management API and not behind the gate     *)
(***************************************************************************)
(* A parser version is a release, a resolver version a release and the
   options. Without any resolver version to keep every graph is stale, and
   without any parser version too. *)
Prune(keepParsers, keepResolvers) ==
  LET kept(g) == /\ g.key.version \in keepParsers
                 /\ <<g.key.version, g.key.options>> \in keepResolvers
      stale == {Fingerprint(g) : g \in {h \in graphs : ~kept(h)}}
  IN /\ edges' = {e \in edges : e.graph \notin stale}
     /\ graphs' = {g \in graphs : Fingerprint(g) \notin stale}

(* keepCurrent: resolver_versions_with_prefix(), then the deletion. *)
DecideKept(s) ==
  /\ keep[s] = Undecided /\ prunes < MaxPrunes
  /\ prunes' = prunes + 1
  /\ keep' = [keep EXCEPT ![s] =
       {<<g.key.version, g.key.options>> : g \in {h \in graphs : h.key.version = Version(s)}}]
  /\ UNCHANGED <<sourceVars, indexVars, loaded, tables, request, requests>>

PruneCurrent(s) ==
  /\ keep[s] # Undecided
  /\ Prune({Version(s)}, keep[s])
  /\ keep' = [keep EXCEPT ![s] = Undecided]
  /\ UNCHANGED <<sourceVars, indexVars, loaded, request, requests, prunes>>

(* The versions are given by the caller, at least one. *)
PruneGiven(keepParsers, keepReleases) ==
  /\ prunes < MaxPrunes
  /\ keepParsers \cup keepReleases # {}
  /\ prunes' = prunes + 1
  /\ Prune(keepParsers, {<<v, CacheOptions(o)>> : v \in keepReleases, o \in Options})
  /\ UNCHANGED <<sourceVars, indexVars, loaded, request, requests, keep>>

(***************************************************************************)
(* The sources, the index and the caches of the servers                    *)
(***************************************************************************)
SaveFunction(f) ==
  /\ saves < MaxSaves
  /\ \E p \in Places \cup {Nowhere}, b \in Bodies :
       text' = [text EXCEPT ![f].place = p, ![f].body = b]
  /\ saves' = saves + 1
  /\ UNCHANGED <<indexVars, loaded, tables, request, requests, pruneVars>>

SaveModule(f) ==
  /\ saves < MaxSaves
  /\ text' = [text EXCEPT ![f].module = ~@]
  /\ saves' = saves + 1
  /\ UNCHANGED <<indexVars, loaded, tables, request, requests, pruneVars>>

IndexFiles(fs) ==
  LET indexed(old) == [f \in Functions |-> IF f \in fs THEN text[f] ELSE old[f]] IN
  /\ rows' = [f \in Functions |-> IF f \in fs THEN text[f].place ELSE rows[f]]
  /\ manifest' = indexed(manifest)
  /\ hashed' = indexed(hashed)
  /\ UNCHANGED <<sourceVars, loaded, request, requests, pruneVars>>

InFlight == \E s \in Servers : request[s] # Idle

(* Known files: replace_file_lookup_rows() leaves the other tables alone. *)
UpdateKnownFiles ==
  LET changed == {f \in Functions : text[f] # hashed[f]} IN
  /\ \E f \in changed : text[f] # [hashed[f] EXCEPT !.body = text[f].body]
  /\ IndexFiles(changed)
  /\ moved' = (moved \/ rows' # rows)
  /\ UNCHANGED tables

(* "Structural index unchanged; skipped aggregate rewrite" *)
SkipAggregate ==
  /\ text # hashed
  /\ \A f \in Functions : text[f] = [hashed[f] EXCEPT !.body = text[f].body]
  /\ hashed' = text
  /\ UNCHANGED <<sourceVars, rows, manifest, moved, loaded, tables, request, requests, pruneVars>>

(* ... and an update that keeps the tables when it replaces the database.  *)
ReplaceLookupRows ==
  /\ IndexFiles(Functions)
  /\ UNCHANGED tables
  /\ moved' = IF InFlight THEN moved \/ rows' # rows ELSE FALSE

(* A build or full update: replace_index_db() puts a new file in place. A
   request in flight stores its graph into the new one. *)
ReplaceDatabase ==
  /\ IndexFiles(Functions)
  /\ graphs' = {} /\ edges' = {}
  /\ moved' = IF InFlight THEN moved \/ rows' # rows ELSE FALSE

(* reload_index_cache_from_disk() waits for the tool call. *)
Reload(s) ==
  /\ request[s] = Idle
  /\ loaded' = [loaded EXCEPT ![s] = manifest]
  /\ UNCHANGED <<sourceVars, indexVars, tables, request, requests, pruneVars>>

Releases == {"old", "new"}

Serve(s) ==
  \/ \E f \in Functions, refresh \in BOOLEAN, o \in Options : Ask(s, f, refresh, o)
  \/ Lookup(s) \/ Resolve(s) \/ Store(s)
  \/ DecideKept(s) \/ PruneCurrent(s)
  \/ Reload(s)

Next ==
  \/ \E s \in Servers : Serve(s)
  \/ \E p, r \in SUBSET Releases : PruneGiven(p, r)
  \/ \E f \in Functions : SaveFunction(f) \/ SaveModule(f)
  \/ UpdateKnownFiles \/ SkipAggregate \/ ReplaceDatabase

Spec == Init /\ [][Next]_vars

(***************************************************************************)
(* Properties                                                              *)
(***************************************************************************)
(* The stored edges of a function are those of one cached graph, whole:
   stores by several servers, with different options, and prunes between
   them never leave edges of two graphs or of a graph that is gone. *)
XrefsAreOneGraph ==
  \A f \in Functions, p \in Places :
    LET mine == {e \in edges : e.graph.symbol = <<f, p>>} IN
    mine # {} => \E g \in graphs : mine = EdgeRows(g)

(* What the cache would answer to any request a server might make now is
   what it would compute now. *)
Fresh ==
  \A s \in Servers, f \in Functions, o \in Options :
    rows[f] # Nowhere =>
      \A g \in Cached(Key(s, f, o)) : g.edges = Resolved(Slice(f), Visible(s, f), o)

(* "These fingerprints make cached graph results safe to reuse": a cached
   graph is what would be computed from the index as it is, as long as no
   update of known files has given a function another place and no update
   ran under a request. Edits of the function, moves of its module, other
   options, other releases and reloads are all told apart by the key. *)
CacheIsFreshUnlessMoved == ~moved => Fresh

(* With the same reservation the stored edges lead from and to symbols of
   the index, so that get_symbol_neighborhood() can describe them. *)
XrefsPointToSymbols ==
  ~moved =>
    \A e \in edges :
      /\ e.graph.symbol[2] = rows[e.graph.symbol[1]]
      /\ e.edge.to # Nowhere => e.edge.to = rows[e.edge.text]
=============================================================================
