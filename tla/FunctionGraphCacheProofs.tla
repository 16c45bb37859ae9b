---------------------- MODULE FunctionGraphCacheProofs ----------------------
(***************************************************************************)
(* The graph cache for any number of functions, servers, releases, saves,  *)
(* requests and prunes. What the resolver makes of a body, the visible     *)
(* symbols and the options is one function of them here: the proofs say    *)
(* that the key tells apart all that it is given.                          *)
(***************************************************************************)
EXTENDS FunctionGraphCache, FiniteSetTheorems, SequenceTheorems, WellFoundedInduction, TLAPS

RowsOf(symbol) == {e \in edges : e.graph.symbol = symbol}

(* Whatever a function has in the table of edges is one cached graph.      *)
OneGraph == \A symbol : RowsOf(symbol) # {} => \E g \in graphs : RowsOf(symbol) = EdgeRows(g)

LEMMA RowsCarryTheirGraph ==
  \A g : \A e \in EdgeRows(g) : e.graph = Fingerprint(g) /\ e.graph.symbol = g.key.symbol
BY DEF EdgeRows, Fingerprint

LEMMA StoreKeepsOneGraph ==
  ASSUME OneGraph, NEW s \in Servers, Store(s) PROVE OneGraph'
<1> DEFINE new == request[s].graph
<1>1. /\ graphs' = {h \in graphs : Fingerprint(h) # Fingerprint(new)} \cup {new}
      /\ edges' = {e \in edges : e.graph.symbol # new.key.symbol} \cup EdgeRows(new)
  BY DEF Store
<1> SUFFICES ASSUME NEW symbol, RowsOf(symbol)' # {}
             PROVE  \E g \in graphs' : RowsOf(symbol)' = EdgeRows(g)
  BY DEF OneGraph, EdgeRows, Fingerprint
<1>2. CASE symbol = new.key.symbol
  <2>1. RowsOf(symbol)' = EdgeRows(new)
    BY <1>1, <1>2, RowsCarryTheirGraph DEF RowsOf
  <2> QED
    BY <1>1, <2>1
<1>3. CASE symbol # new.key.symbol
  <2>1. RowsOf(symbol)' = RowsOf(symbol)
    BY <1>1, <1>3, RowsCarryTheirGraph DEF RowsOf
  <2>2. PICK g \in graphs : RowsOf(symbol) = EdgeRows(g)
    BY <2>1 DEF OneGraph
  <2>3. g.key.symbol = symbol
    BY <2>1, <2>2, RowsCarryTheirGraph DEF RowsOf
  <2>4. Fingerprint(g) # Fingerprint(new)
    BY <1>3, <2>3 DEF Fingerprint
  <2> QED
    BY <1>1, <2>1, <2>2, <2>4
<1> QED
  BY <1>2, <1>3

LEMMA PruneKeepsOneGraph ==
  ASSUME OneGraph, NEW parsers, NEW resolvers, Prune(parsers, resolvers) PROVE OneGraph'
<1> DEFINE kept(g) == /\ g.key.version \in parsers
                      /\ <<g.key.version, g.key.options>> \in resolvers
           stale == {Fingerprint(g) : g \in {h \in graphs : ~kept(h)}}
<1>1. /\ edges' = {e \in edges : e.graph \notin stale}
      /\ graphs' = {g \in graphs : Fingerprint(g) \notin stale}
  BY DEF Prune
<1> HIDE DEF stale
<1> SUFFICES ASSUME NEW symbol, RowsOf(symbol)' # {}
             PROVE  \E g \in graphs' : RowsOf(symbol)' = EdgeRows(g)
  BY DEF OneGraph, EdgeRows, Fingerprint
<1>2. RowsOf(symbol)' = {e \in RowsOf(symbol) : e.graph \notin stale}
  BY <1>1 DEF RowsOf
<1>3. PICK g \in graphs : RowsOf(symbol) = EdgeRows(g)
  BY <1>2 DEF OneGraph
<1>4. Fingerprint(g) \notin stale
  BY <1>2, <1>3, RowsCarryTheirGraph
<1>5. RowsOf(symbol)' = RowsOf(symbol)
  BY <1>2, <1>3, <1>4, RowsCarryTheirGraph
<1> QED
  BY <1>1, <1>3, <1>4, <1>5

(* The edges of a function are those of one cached graph, whole
   (FunctionGraphCache.XrefsAreOneGraph).                                  *)
THEOREM XrefsWhole == Spec => []XrefsAreOneGraph
<1>1. Init => OneGraph
  BY DEF Init, OneGraph, RowsOf
<1>2. OneGraph /\ [Next]_vars => OneGraph'
  <2> SUFFICES ASSUME OneGraph, [Next]_vars PROVE OneGraph'
    OBVIOUS
  <2>1. CASE UNCHANGED tables
    BY <2>1 DEF tables, OneGraph, RowsOf, EdgeRows, Fingerprint
  <2>2. ASSUME NEW s \in Servers, Serve(s) PROVE OneGraph'
    <3>1. Store(s) \/ (\E p, r : Prune(p, r)) \/ UNCHANGED tables
      BY <2>2 DEF Serve, Ask, Lookup, Resolve, DecideKept, PruneCurrent, Reload
    <3> QED
      BY <2>1, <3>1, StoreKeepsOneGraph, PruneKeepsOneGraph
  <2>3. ASSUME NEW p \in SUBSET Releases, NEW r \in SUBSET Releases, PruneGiven(p, r)
        PROVE  OneGraph'
    <3>1. \E q : Prune(p, q)
      BY <2>3 DEF PruneGiven
    <3> QED
      BY <3>1, PruneKeepsOneGraph
  <2>4. CASE ReplaceDatabase
    BY <2>4 DEF ReplaceDatabase, OneGraph, RowsOf
  <2>5. ASSUME NEW f \in Functions, SaveFunction(f) \/ SaveModule(f) PROVE OneGraph'
    BY <2>1, <2>5 DEF SaveFunction, SaveModule
  <2>6. CASE UpdateKnownFiles \/ SkipAggregate
    BY <2>1, <2>6 DEF UpdateKnownFiles, SkipAggregate
  <2>7. CASE UNCHANGED vars
    BY <2>1, <2>7 DEF vars
  <2> QED
    BY <2>2, <2>3, <2>4, <2>5, <2>6, <2>7 DEF Next
<1>3. OneGraph => XrefsAreOneGraph
  BY DEF OneGraph, XrefsAreOneGraph, RowsOf
<1> QED
  BY <1>1, <1>2, <1>3, PTL DEF Spec

-----------------------------------------------------------------------------
(* What a function sees of the given modules and places, and what the index *)
(* would give for a key.                                                   *)
Sees(f, mates, place) ==
  [g \in Functions |-> IF g = f \/ {f, g} \subseteq mates THEN place[g] ELSE Nowhere]
UpToDate(g, place) ==
  g.edges = Resolved(g.key.body, Sees(g.key.symbol[1], g.key.modules, place), g.key.options)

(* A request that has its key keeps it, and the modules it was made from,
   until it stores the graph.                                              *)
Keyed(s) ==
  LET r == request[s] IN
  /\ r = [at |-> r.at, function |-> r.function, options |-> r.options, key |-> r.key]
  /\ r.key.symbol[1] = r.function
  /\ r.key.modules = Mates(loaded[s])
  /\ r.key.options = r.options

FreshInv ==
  /\ request = [s \in Servers |-> request[s]]
  /\ loaded = [s \in Servers |-> loaded[s]]
  /\ \A s \in Servers : request[s].at \in {"lookup", "resolve"} => Keyed(s)
  /\ ~moved => /\ \A g \in graphs : UpToDate(g, rows)
               /\ \A s \in Servers : request[s].at = "store" => UpToDate(request[s].graph, rows)

Limited == \A o \in Options : o.limit # 0

LEMMA OptionsAreTheirKey == Limited => \A o \in Options : CacheOptions(o) = o
BY GraphCacheAssumption DEF Limited, CacheOptions

LEMMA VisibleIsSeen == \A s, f : Visible(s, f) = Sees(f, Mates(loaded[s]), rows)
BY DEF Visible, Sees

LEMMA ServingKeepsFresh ==
  ASSUME Limited, FreshInv, NEW s \in Servers, Serve(s) PROVE FreshInv'
<1>1. ASSUME NEW f \in Functions, NEW refresh \in BOOLEAN, NEW o \in Options,
             Ask(s, f, refresh, o)
      PROVE  FreshInv'
  <2>1. /\ Key(s, f, o).symbol[1] = f /\ Key(s, f, o).modules = Mates(loaded[s])
        /\ Key(s, f, o).options = o
    BY OptionsAreTheirKey DEF Key
  <2>2. /\ UNCHANGED <<loaded, graphs, rows, moved>>
        /\ request' = [request EXCEPT ![s] =
             [at |-> IF refresh THEN "resolve" ELSE "lookup",
              function |-> f, options |-> o, key |-> Key(s, f, o)]]
    BY <1>1 DEF Ask, indexVars, tables
  <2>3. /\ request'[s] = [at |-> request'[s].at, function |-> f, options |-> o,
                          key |-> Key(s, f, o)]
        /\ request'[s].at # "store" /\ \A t \in Servers \ {s} : request'[t] = request[t]
    BY <2>2 DEF FreshInv
  <2>4. Keyed(s)'
    BY <2>1, <2>2, <2>3 DEF Keyed, Mates
  <2> QED
    BY <2>2, <2>3, <2>4 DEF FreshInv, Keyed, Mates
<1>2. CASE Lookup(s)
  <2>1. /\ UNCHANGED <<loaded, graphs, rows, moved>> /\ Keyed(s)
        /\ request' = [request EXCEPT ![s] =
             IF Cached(request[s].key) # {} THEN Idle ELSE [request[s] EXCEPT !.at = "resolve"]]
    BY <1>2 DEF Lookup, indexVars, tables, FreshInv
  <2>2. \/ request'[s] = Idle
        \/ request'[s] = [at |-> "resolve", function |-> request[s].function,
                          options |-> request[s].options, key |-> request[s].key]
    BY <2>1 DEF FreshInv, Keyed
  <2>3. \A t \in Servers \ {s} : request'[t] = request[t]
    BY <2>1
  <2>4. request'[s].at = "resolve" => Keyed(s)'
    BY <2>1, <2>2 DEF Keyed, Mates, Idle
  <2> QED
    BY <2>1, <2>2, <2>3, <2>4 DEF FreshInv, Keyed, Mates, Idle
<1>3. CASE Resolve(s)
  <2> DEFINE r == request[s]
             new == [key |-> r.key,
                     edges |-> Resolved(r.key.body, Visible(s, r.function), r.options)]
  <2>1. /\ UNCHANGED <<loaded, graphs, rows, moved>> /\ Keyed(s)
        /\ request' = [request EXCEPT ![s] = [at |-> "store", graph |-> new]]
    BY <1>3 DEF Resolve, indexVars, tables, FreshInv
  <2>2. UpToDate(new, rows)
    BY <2>1, VisibleIsSeen DEF UpToDate, Keyed
  <2>3. /\ request'[s].at = "store" /\ request'[s].graph = new
        /\ \A t \in Servers \ {s} : request'[t] = request[t]
    BY <2>1 DEF FreshInv
  <2> QED
    BY <2>1, <2>2, <2>3 DEF FreshInv, Keyed, Mates
<1>4. CASE Store(s)
  <2>1. /\ UNCHANGED <<loaded, rows, moved>> /\ request[s].at = "store"
        /\ request' = [request EXCEPT ![s] = Idle]
        /\ graphs' \subseteq graphs \cup {request[s].graph}
    BY <1>4 DEF Store, indexVars
  <2>2. request'[s].at = "idle" /\ \A t \in Servers \ {s} : request'[t] = request[t]
    BY <2>1 DEF FreshInv, Idle
  <2> QED
    BY <2>1, <2>2 DEF FreshInv, Keyed, Mates
<1>5. CASE DecideKept(s) \/ PruneCurrent(s)
  <2>1. UNCHANGED <<loaded, rows, moved, request>> /\ graphs' \subseteq graphs
    BY <1>5 DEF DecideKept, PruneCurrent, Prune, indexVars, tables
  <2> QED
    BY <2>1 DEF FreshInv, Keyed, Mates
<1>6. CASE Reload(s)
  <2>1. /\ UNCHANGED <<rows, moved, request, graphs>> /\ request[s].at = "idle"
        /\ loaded' = [loaded EXCEPT ![s] = manifest]
    BY <1>6 DEF Reload, indexVars, tables, Idle
  <2>2. \A t \in Servers \ {s} : loaded'[t] = loaded[t]
    BY <2>1
  <2> QED
    BY <2>1, <2>2 DEF FreshInv, Keyed, Mates
<1> QED
  BY <1>1, <1>2, <1>3, <1>4, <1>5, <1>6 DEF Serve

(* What the cache answers is what would be computed now, as long as no
   update gave a function another place (FunctionGraphCache.
   CacheIsFreshUnlessMoved), if nobody asks for no edges at all: that limit
   shares its key with the limit of one edge.                              *)
THEOREM CacheIsFresh ==
  ASSUME Limited PROVE Spec => []CacheIsFreshUnlessMoved
<1>1. Init => FreshInv
  BY DEF Init, FreshInv, Idle
<1>2. FreshInv /\ [Next]_vars => FreshInv'
  <2> SUFFICES ASSUME FreshInv, [Next]_vars PROVE FreshInv'
    OBVIOUS
  <2>1. ASSUME UNCHANGED <<loaded, request, moved, rows>>, graphs' \subseteq graphs
        PROVE  FreshInv'
    BY <2>1 DEF FreshInv, Keyed, Mates
  <2>2. ASSUME NEW s \in Servers, Serve(s) PROVE FreshInv'
    BY <2>2, ServingKeepsFresh
  <2>3. ASSUME NEW p \in SUBSET Releases, NEW r \in SUBSET Releases, PruneGiven(p, r)
        PROVE  FreshInv'
    BY <2>1, <2>3 DEF PruneGiven, Prune, indexVars
  <2>4. CASE ReplaceDatabase
    <3>1. UNCHANGED <<loaded, request>> /\ graphs' = {}
      BY <2>4 DEF ReplaceDatabase, IndexFiles
    <3>2. CASE InFlight
      <4>1. ~moved' => ~moved /\ rows' = rows
        BY <2>4, <3>2 DEF ReplaceDatabase
      <4> QED
        BY <3>1, <4>1 DEF FreshInv, Keyed, Mates
    <3>3. CASE ~InFlight
      <4>1. \A s \in Servers : request[s].at = "idle"
        BY <3>3 DEF InFlight, Idle
      <4> QED
        BY <3>1, <4>1 DEF FreshInv, Keyed, Mates
    <3> QED
      BY <3>2, <3>3
  <2>5. CASE UpdateKnownFiles
    <3>1. UNCHANGED <<loaded, request, graphs>> /\ (~moved' => ~moved /\ rows' = rows)
      BY <2>5 DEF UpdateKnownFiles, IndexFiles, tables
    <3> QED
      BY <3>1 DEF FreshInv, Keyed, Mates
  <2>6. ASSUME NEW f \in Functions, SaveFunction(f) \/ SaveModule(f) PROVE FreshInv'
    BY <2>1, <2>6 DEF SaveFunction, SaveModule, indexVars, tables
  <2>7. CASE SkipAggregate \/ UNCHANGED vars
    BY <2>1, <2>7 DEF SkipAggregate, vars, indexVars, tables
  <2> QED
    BY <2>2, <2>3, <2>4, <2>5, <2>6, <2>7 DEF Next
<1>3. FreshInv => CacheIsFreshUnlessMoved
  <2> SUFFICES ASSUME FreshInv, ~moved, NEW s \in Servers, NEW f \in Functions, NEW o \in Options,
                      NEW g \in Cached(Key(s, f, o))
               PROVE  g.edges = Resolved(Slice(f), Visible(s, f), o)
    BY DEF CacheIsFreshUnlessMoved, Fresh
  <2>1. g \in graphs /\ g.key = Key(s, f, o)
    BY DEF Cached
  <2>2. /\ g.key.symbol[1] = f /\ g.key.modules = Mates(loaded[s])
        /\ g.key.options = o /\ g.key.body = Slice(f)
    BY <2>1, OptionsAreTheirKey DEF Key
  <2>3. UpToDate(g, rows)
    BY <2>1 DEF FreshInv
  <2> QED
    BY <2>2, <2>3, VisibleIsSeen DEF UpToDate
<1> QED
  BY <1>1, <1>2, <1>3, PTL DEF Spec

-----------------------------------------------------------------------------
(* [x for x in seq if ...]: what is sifted out stands in the sequence.      *)
LEMMA LeastNatural ==
  ASSUME NEW S \in SUBSET Nat, S # {} PROVE \E x \in S : \A y \in S : x <= y
<1>1. PICK x \in S : \A y \in S : <<y, x>> \notin OpToRel(<, Nat)
  BY NatLessThanWellFounded, WFMin, Zenon
<1>2. \A y \in S : ~(y < x)
  BY <1>1, Zenon DEF OpToRel
<1> QED
  BY <1>2

LEMMA PassedGrowsByOne ==
  ASSUME NEW n \in Nat, NEW places \in SUBSET (1 .. n)
  PROVE  /\ IsFiniteSet(places) /\ Cardinality(places) \in Nat
         /\ Passed(places, 0) = 0 /\ Passed(places, n) = Cardinality(places)
         /\ \A i \in 1 .. n :
              /\ Passed(places, i) \in Nat /\ Passed(places, i - 1) \in Nat
              /\ i \notin places => Passed(places, i) = Passed(places, i - 1)
              /\ i \in places => Passed(places, i) = Passed(places, i - 1) + 1
<1>0. \A j \in places : j \in Nat /\ 1 <= j /\ j <= n
  OBVIOUS
<1>1. IsFiniteSet(places) /\ Cardinality(places) \in Nat
  <2>1. IsFiniteSet(1 .. n)
    BY FS_Interval
  <2>2. IsFiniteSet(places)
    BY <2>1, FS_Subset, Zenon
  <2> QED
    BY <2>2, FS_CardinalityType, Zenon
<1>2. Passed(places, 0) = 0
  <2>1. {j \in places : j <= 0} = {}
    <3>1. \A j \in places : ~(j <= 0)
      BY <1>0
    <3> QED
      BY <3>1, Zenon
  <2> QED
    BY <2>1, FS_EmptySet DEF Passed
<1>3. {j \in places : j <= n} = places
  BY <1>0
<1>4. ASSUME NEW i \in 1 .. n
      PROVE  /\ Passed(places, i) \in Nat /\ Passed(places, i - 1) \in Nat
             /\ i \notin places => Passed(places, i) = Passed(places, i - 1)
             /\ i \in places => Passed(places, i) = Passed(places, i - 1) + 1
  <2> DEFINE upTo(k) == {j \in places : j <= k}
  <2>1. \A k : IsFiniteSet(upTo(k)) /\ Cardinality(upTo(k)) \in Nat
    <3>1. \A k : upTo(k) \in SUBSET places
      OBVIOUS
    <3>2. \A k : IsFiniteSet(upTo(k))
      BY <1>1, <3>1, FS_Subset, Zenon
    <3> QED
      BY <3>2, FS_CardinalityType, Zenon
  <2>0. \A j \in places : /\ j <= i <=> (j <= i - 1 \/ j = i)
                          /\ ~(i <= i - 1)
    BY <1>0
  <2>2. i \notin places => upTo(i) = upTo(i - 1)
    BY <2>0, Zenon
  <2>3. i \in places => upTo(i) = upTo(i - 1) \cup {i} /\ i \notin upTo(i - 1)
    BY <2>0, Zenon
  <2>4. /\ Passed(places, i) = Cardinality(upTo(i))
        /\ Passed(places, i - 1) = Cardinality(upTo(i - 1))
    BY DEF Passed
  <2> HIDE DEF upTo
  <2> QED
    BY <2>1, <2>2, <2>3, <2>4, FS_AddElement
<1> QED
  BY <1>1, <1>2, <1>3, <1>4 DEF Passed

(* What is sifted out of a sequence stands at one of the places.           *)
LEMMA SiftedPlaces ==
  ASSUME NEW n \in Nat, NEW places \in SUBSET (1 .. n),
         NEW k \in 1 .. Cardinality(places)
  PROVE  (CHOOSE i \in places : Passed(places, i) = k) \in places
<1> DEFINE S == {i \in 0 .. n : Passed(places, i) >= k}
<1>1. Cardinality(places) \in Nat /\ Passed(places, n) = Cardinality(places)
  BY PassedGrowsByOne
<1>2. n \in S
  BY <1>1
<1>3. PICK m \in S : \A i \in S : m <= i
  <2>1. S \in SUBSET Nat
    OBVIOUS
  <2> QED
    BY <1>2, <2>1, LeastNatural, Zenon
<1>4. m # 0
  BY <1>3, PassedGrowsByOne
<1>5. Passed(places, m - 1) < k
  <2>1. m - 1 \notin S /\ m - 1 \in 0 .. n
    BY <1>3, <1>4
  <2>2. m \in 1 .. n
    BY <1>3, <1>4
  <2>3. Passed(places, m - 1) \in Nat
    BY <2>2, PassedGrowsByOne
  <2> QED
    BY <2>1, <2>3
<1>6. m \in places /\ Passed(places, m) = k
  <2>1. m \in 1 .. n /\ Passed(places, m) >= k
    BY <1>4
  <2>2. /\ Passed(places, m) \in Nat /\ Passed(places, m - 1) \in Nat
        /\ m \notin places => Passed(places, m) = Passed(places, m - 1)
        /\ m \in places => Passed(places, m) = Passed(places, m - 1) + 1
    BY <2>1, PassedGrowsByOne
  <2> QED
    BY <1>5, <2>1, <2>2
<1> QED
  BY <1>6

LEMMA SiftedSequence ==
  ASSUME NEW T, NEW seq, NEW n \in Nat, NEW places \in SUBSET (1 .. n),
         \A i \in places : seq[i] \in T
  PROVE  Sift(seq, places) \in Seq(T)
<1> DEFINE m == Cardinality(places)
           place(k) == CHOOSE i \in places : Passed(places, i) = k
<1>1. m \in Nat
  BY PassedGrowsByOne
<1>2. \A k \in 1 .. m : seq[place(k)] \in T
  <2> SUFFICES ASSUME NEW k \in 1 .. m PROVE seq[place(k)] \in T
    OBVIOUS
  <2>1. place(k) \in places
    BY SiftedPlaces
  <2> QED
    BY <2>1
<1>3. Sift(seq, places) = [k \in 1 .. m |-> seq[place(k)]]
  BY DEF Sift
<1> HIDE DEF place, m
<1> QED
  BY <1>1, <1>2, <1>3

-----------------------------------------------------------------------------
(* An edge leads nowhere or to where its callee is, and a graph is of the
   function that has its place.                                            *)
Leads(edge, place) == edge.to # Nowhere => edge.to = place[edge.text]
Placed(g, place) ==
  /\ g.key.symbol[2] = place[g.key.symbol[1]]
  /\ \A i \in DOMAIN g.edges : Leads(g.edges[i], place)

Sources == Bodies \cup {Elsewhere}

(* A request asks about a function of the index, in the place it has.      *)
Asks(s) ==
  LET r == request[s] IN
  /\ r = [at |-> r.at, function |-> r.function, options |-> r.options, key |-> r.key]
  /\ r.options \in Options /\ r.key.body \in Sources

PointInv ==
  /\ request = [s \in Servers |-> request[s]]
  /\ text = [f \in Functions |-> text[f]]
  /\ \A f \in Functions : /\ text[f] = [place |-> text[f].place, body |-> text[f].body,
                                        module |-> text[f].module]
                          /\ text[f].body \in Bodies
  /\ \A s \in Servers : request[s].at \in {"lookup", "resolve"} => Asks(s)
  /\ ~moved =>
       /\ \A g \in graphs : Placed(g, rows)
       /\ \A e \in edges : /\ e.graph.symbol[2] = rows[e.graph.symbol[1]]
                           /\ Leads(e.edge, rows)
       /\ \A s \in Servers :
            /\ request[s].at \in {"lookup", "resolve"} =>
                 request[s].key.symbol[2] = rows[request[s].key.symbol[1]]
            /\ request[s].at = "store" => Placed(request[s].graph, rows)

LEMMA SourcesHaveCalls ==
  \A body \in Sources : body.calls \in Seq(Functions) /\ body.others \in Nat
<1>1. Elsewhere.calls \in Seq(Functions) /\ Elsewhere.others \in Nat
  BY DEF Elsewhere
<1> QED
  BY <1>1, GraphCacheAssumption DEF Sources

(* The edges of a graph lead to where the index has their callees, however
   few of them the options ask for.                                        *)
LEMMA ResolvedLeads ==
  ASSUME NEW body \in Sources, NEW o \in Options, NEW f, NEW mates, NEW place
  PROVE  LET es == Resolved(body, Sees(f, mates, place), o)
         IN  \A i \in DOMAIN es : Leads(es[i], place)
<1> DEFINE visible == Sees(f, mates, place)
           call(g)   == [kind |-> "call", text |-> g, to |-> visible[g]]
           found     == [i \in DOMAIN body.calls |-> call(body.calls[i])]
           kept      == {i \in DOMAIN found : o.external \/ found[i].to # Nowhere}
           calls     == Sift(found, kept)
           others    == [i \in 1 .. body.others |->
                           [kind |-> "other", text |-> Nowhere, to |-> Nowhere]]
           upTo(es, n) == IF Len(es) <= n THEN es ELSE SubSeq(es, 1, n)
           Edges     == {found[i] : i \in DOMAIN found} \union {others[i] : i \in DOMAIN others}
           Good      == {e \in Edges : Leads(e, place)}
<1>1. /\ body.calls \in Seq(Functions) /\ body.others \in Nat /\ o.limit \in Nat
      /\ DOMAIN found = 1 .. Len(body.calls) /\ Len(body.calls) \in Nat
  BY SourcesHaveCalls, GraphCacheAssumption
<1>2. \A i \in DOMAIN found : found[i] \in Good
  <2> SUFFICES ASSUME NEW i \in DOMAIN found PROVE found[i] \in Good
    OBVIOUS
  <2>1. body.calls[i] \in Functions
    BY <1>1
  <2>2. visible[body.calls[i]] \in {place[body.calls[i]], Nowhere}
    BY <2>1 DEF Sees
  <2> QED
    BY <2>2 DEF Leads
<1>3. \A i \in DOMAIN others : others[i] \in Good
  BY DEF Leads
<1>4. calls \in Seq(Good)
  <2>1. kept \in SUBSET (1 .. Len(body.calls))
    BY <1>1
  <2>2. \A i \in kept : found[i] \in Good
    BY <1>2
  <2>3. Len(body.calls) \in Nat
    BY <1>1
  <2> HIDE DEF kept, found, Good
  <2>4. Sift(found, kept) \in Seq(Good)
    BY <2>1, <2>2, <2>3, SiftedSequence, Zenon
  <2> QED
    BY <2>4
<1>5. others \in Seq(Good)
  <2> DEFINE other == [kind |-> "other", text |-> Nowhere, to |-> Nowhere]
  <2>1. body.others > 0 => other \in Good
    BY <1>1, <1>3
  <2> HIDE DEF Good, other
  <2>2. [i \in 1 .. body.others |-> other] \in Seq(Good)
    BY <1>1, <2>1
  <2> QED
    BY <2>2 DEF other
<1> HIDE DEF Good, calls, others
<1>6. calls \o others \in Seq(Good)
  BY <1>4, <1>5
<1>7. \A es \in Seq(Good), n \in Nat : upTo(es, n) \in Seq(Good)
  OBVIOUS
<1>8. Resolved(body, visible, o) \in Seq(Good)
  <2>1. Resolved(body, visible, o) = IF o.limit = 0 THEN upTo(calls, 1)
                                     ELSE upTo(calls \o others, o.limit)
    BY DEF Resolved, calls, others
  <2>2. upTo(calls, 1) \in Seq(Good) /\ upTo(calls \o others, o.limit) \in Seq(Good)
    BY <1>1, <1>4, <1>6, <1>7
  <2> QED
    BY <2>1, <2>2, Zenon
<1> QED
  BY <1>8 DEF Good

LEMMA RowsOfPlacedGraphLead ==
  ASSUME NEW g, NEW place, Placed(g, place), NEW e \in EdgeRows(g)
  PROVE  e.graph.symbol[2] = place[e.graph.symbol[1]] /\ Leads(e.edge, place)
BY DEF Placed, EdgeRows, Fingerprint, Leads

LEMMA ServingKeepsPoints ==
  ASSUME PointInv, NEW s \in Servers, Serve(s) PROVE PointInv'
<1>1. ASSUME NEW f \in Functions, NEW refresh \in BOOLEAN, NEW o \in Options,
             Ask(s, f, refresh, o)
      PROVE  PointInv'
  <2>1. /\ Key(s, f, o).symbol = <<f, rows[f]>> /\ Key(s, f, o).body = Slice(f)
        /\ Slice(f) \in Sources
    BY DEF Key, Slice, Sources, PointInv
  <2>2. /\ UNCHANGED <<text, graphs, edges, rows, moved>>
        /\ request' = [request EXCEPT ![s] =
             [at |-> IF refresh THEN "resolve" ELSE "lookup",
              function |-> f, options |-> o, key |-> Key(s, f, o)]]
    BY <1>1 DEF Ask, sourceVars, indexVars, tables
  <2>3. /\ request'[s] = [at |-> request'[s].at, function |-> f, options |-> o,
                          key |-> Key(s, f, o)]
        /\ request'[s].at # "store" /\ \A t \in Servers \ {s} : request'[t] = request[t]
    BY <2>2 DEF PointInv
  <2>4. Asks(s)'
    BY <2>1, <2>2, <2>3 DEF Asks
  <2>5. request'[s].key.symbol[2] = rows[request'[s].key.symbol[1]]
    BY <2>1, <2>3
  <2> QED
    BY <2>2, <2>3, <2>4, <2>5 DEF PointInv, Asks
<1>2. CASE Lookup(s)
  <2>1. /\ UNCHANGED <<text, graphs, edges, rows, moved>> /\ Asks(s)
        /\ request' = [request EXCEPT ![s] =
             IF Cached(request[s].key) # {} THEN Idle ELSE [request[s] EXCEPT !.at = "resolve"]]
    BY <1>2 DEF Lookup, sourceVars, indexVars, tables, PointInv
  <2>2. \/ request'[s] = Idle
        \/ request'[s] = [at |-> "resolve", function |-> request[s].function,
                          options |-> request[s].options, key |-> request[s].key]
    BY <2>1 DEF PointInv, Asks
  <2>3. \A t \in Servers \ {s} : request'[t] = request[t]
    BY <2>1
  <2>4. request'[s].at = "resolve" => Asks(s)' /\ request'[s].key = request[s].key
    BY <2>1, <2>2 DEF Asks, Idle
  <2>5. request[s].at = "lookup" /\ request'[s].at \in {"idle", "resolve"}
    BY <1>2, <2>2 DEF Lookup, Idle
  <2> QED
    BY <2>1, <2>3, <2>4, <2>5 DEF PointInv, Asks
<1>3. CASE Resolve(s)
  <2> DEFINE r == request[s]
             new == [key |-> r.key,
                     edges |-> Resolved(r.key.body, Visible(s, r.function), r.options)]
  <2>1. /\ UNCHANGED <<text, graphs, edges, rows, moved>> /\ Asks(s) /\ r.at = "resolve"
        /\ request' = [request EXCEPT ![s] = [at |-> "store", graph |-> new]]
    BY <1>3 DEF Resolve, sourceVars, indexVars, tables, PointInv
  <2>2. ~moved => Placed(new, rows)
    <3>1. \A i \in DOMAIN new.edges : Leads(new.edges[i], rows)
      BY <2>1, ResolvedLeads, VisibleIsSeen DEF Asks
    <3> QED
      BY <2>1, <3>1 DEF Placed, PointInv
  <2>3. /\ request'[s].at = "store" /\ request'[s].graph = new
        /\ \A t \in Servers \ {s} : request'[t] = request[t]
    BY <2>1 DEF PointInv
  <2> QED
    BY <2>1, <2>2, <2>3 DEF PointInv, Asks
<1>4. CASE Store(s)
  <2> DEFINE g == request[s].graph
  <2>1. /\ UNCHANGED <<text, rows, moved>> /\ request[s].at = "store"
        /\ request' = [request EXCEPT ![s] = Idle]
        /\ graphs' \subseteq graphs \cup {g} /\ edges' \subseteq edges \cup EdgeRows(g)
    BY <1>4 DEF Store, sourceVars, indexVars
  <2>2. request'[s].at = "idle" /\ \A t \in Servers \ {s} : request'[t] = request[t]
    BY <2>1 DEF PointInv, Idle
  <2>3. ~moved => Placed(g, rows)
    BY <2>1 DEF PointInv
  <2>4. ~moved => \A e \in edges' : /\ e.graph.symbol[2] = rows[e.graph.symbol[1]]
                                    /\ Leads(e.edge, rows)
    BY <2>1, <2>3, RowsOfPlacedGraphLead DEF PointInv
  <2> QED
    BY <2>1, <2>2, <2>3, <2>4 DEF PointInv, Asks
<1>5. CASE DecideKept(s) \/ PruneCurrent(s)
  <2>1. /\ UNCHANGED <<text, rows, moved, request>>
        /\ graphs' \subseteq graphs /\ edges' \subseteq edges
    BY <1>5 DEF DecideKept, PruneCurrent, Prune, sourceVars, indexVars, tables
  <2> QED
    BY <2>1 DEF PointInv, Asks
<1>6. CASE Reload(s)
  BY <1>6 DEF Reload, sourceVars, indexVars, tables, PointInv, Asks
<1> QED
  BY <1>1, <1>2, <1>3, <1>4, <1>5, <1>6 DEF Serve

(* The stored edges lead from and to symbols of the index, as long as no
   update gave a function another place (FunctionGraphCache.
   XrefsPointToSymbols), whatever the options, the limit 0 included.       *)
THEOREM XrefsLead == Spec => []XrefsPointToSymbols
<1>1. Init => PointInv
  <2> SUFFICES ASSUME Init PROVE PointInv
    OBVIOUS
  <2>1. text \in [Functions -> [place : Places, body : Bodies, module : {TRUE}]]
    BY DEF Init
  <2>2. /\ request = [s \in Servers |-> Idle] /\ graphs = {} /\ edges = {}
    BY DEF Init
  <2>3. \A s \in Servers : request[s].at = "idle"
    BY <2>2 DEF Idle
  <2>4. /\ text = [f \in Functions |-> text[f]]
        /\ \A f \in Functions : /\ text[f] = [place |-> text[f].place, body |-> text[f].body,
                                              module |-> text[f].module]
                                /\ text[f].body \in Bodies
    BY <2>1
  <2> QED
    BY <2>2, <2>3, <2>4 DEF PointInv
<1>2. PointInv /\ [Next]_vars => PointInv'
  <2> SUFFICES ASSUME PointInv, [Next]_vars PROVE PointInv'
    OBVIOUS
  <2>1. ASSUME UNCHANGED <<text, request, moved, rows>>,
               graphs' \subseteq graphs, edges' \subseteq edges
        PROVE  PointInv'
    BY <2>1 DEF PointInv, Asks
  <2>2. ASSUME NEW s \in Servers, Serve(s) PROVE PointInv'
    BY <2>2, ServingKeepsPoints
  <2>3. ASSUME NEW p \in SUBSET Releases, NEW r \in SUBSET Releases, PruneGiven(p, r)
        PROVE  PointInv'
    BY <2>1, <2>3 DEF PruneGiven, Prune, sourceVars, indexVars
  <2>4. CASE ReplaceDatabase
    <3>1. UNCHANGED <<text, request>> /\ graphs' = {} /\ edges' = {}
      BY <2>4 DEF ReplaceDatabase, IndexFiles, sourceVars
    <3>2. CASE InFlight
      <4>1. ~moved' => ~moved /\ rows' = rows
        BY <2>4, <3>2 DEF ReplaceDatabase
      <4> QED
        BY <3>1, <4>1 DEF PointInv, Asks
    <3>3. CASE ~InFlight
      <4>1. \A s \in Servers : request[s].at = "idle"
        BY <3>3 DEF InFlight, Idle
      <4> QED
        BY <3>1, <4>1 DEF PointInv, Asks
    <3> QED
      BY <3>2, <3>3
  <2>5. CASE UpdateKnownFiles
    <3>1. /\ UNCHANGED <<text, request, graphs, edges>>
          /\ ~moved' => ~moved /\ rows' = rows
      BY <2>5 DEF UpdateKnownFiles, IndexFiles, tables, sourceVars
    <3> QED
      BY <3>1 DEF PointInv, Asks
  <2>6. ASSUME NEW f \in Functions, SaveFunction(f) \/ SaveModule(f) PROVE PointInv'
    <3>1. UNCHANGED <<request, moved, rows, graphs, edges>>
      BY <2>6 DEF SaveFunction, SaveModule, indexVars, tables
    <3>2. /\ text' = [g \in Functions |-> text'[g]]
          /\ \A g \in Functions : /\ text'[g] = [place |-> text'[g].place, body |-> text'[g].body,
                                                 module |-> text'[g].module]
                                  /\ text'[g].body \in Bodies
      <4>1. CASE SaveFunction(f)
        <5>1. PICK p \in Places \cup {Nowhere}, b \in Bodies :
                text' = [text EXCEPT ![f].place = p, ![f].body = b]
          BY <4>1 DEF SaveFunction
        <5>2. text'[f] = [place |-> p, body |-> b, module |-> text[f].module]
          <6>1. text'[f] = [[text[f] EXCEPT !.place = p] EXCEPT !.body = b]
            BY <5>1, Zenon DEF PointInv
          <6>2. text[f] = [place |-> text[f].place, body |-> text[f].body,
                           module |-> text[f].module]
            BY DEF PointInv
          <6> QED
            BY <6>1, <6>2
        <5>3. /\ text' = [g \in Functions |-> text'[g]]
              /\ \A g \in Functions \ {f} : text'[g] = text[g]
          BY <5>1 DEF PointInv
        <5> QED
          BY <5>2, <5>3 DEF PointInv
      <4>2. CASE SaveModule(f)
        <5>1. text'[f] = [place |-> text[f].place, body |-> text[f].body,
                          module |-> ~text[f].module]
          BY <4>2 DEF SaveModule, PointInv
        <5> QED
          BY <4>2, <5>1 DEF SaveModule, PointInv
      <4> QED
        BY <2>6, <4>1, <4>2
    <3> QED
      BY <3>1, <3>2 DEF PointInv, Asks
  <2>7. CASE SkipAggregate \/ UNCHANGED vars
    BY <2>1, <2>7 DEF SkipAggregate, vars, sourceVars, indexVars, tables
  <2> QED
    BY <2>2, <2>3, <2>4, <2>5, <2>6, <2>7 DEF Next
<1>3. PointInv => XrefsPointToSymbols
  BY DEF PointInv, XrefsPointToSymbols, Leads
<1> QED
  BY <1>1, <1>2, <1>3, PTL DEF Spec
=============================================================================
