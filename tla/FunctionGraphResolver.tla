------------------------ MODULE FunctionGraphResolver ------------------------
(***************************************************************************)
(* To which functions of the index a call in a body may lead                *)
(* (cpp_function_graph_resolver.py), given what is visible to the function  *)
(* (cpp_function_graph_visibility.py): the functions of its file, those of   *)
(* the files of its modules, its class with bases and nested types, and the *)
(* using statements of its file.                                            *)
(*                                                                         *)
(* All functions have one of two names and differ in the scope they are in,  *)
(* the number of their parameters and the file. A scope is the sequence of   *)
(* its names. Template arguments, letter case, hints from initialisers and   *)
(* the texts of an edge are left out.                                      *)
(***************************************************************************)
EXTENDS Integers, Sequences, FiniteSets, SequencesExt

CONSTANTS
  Scopes,         \* the scopes that functions may be in
  Types,          \* those that are types, all declared in the caller's file
  Callers,        \* those that a calling function is in
  MaxFunctions,   \* bound on the functions visible
  MaxUsings       \* bound on using statements

ASSUME ResolverAssumption ==
  /\ Scopes \subseteq Seq(STRING) /\ Types \subseteq Scopes /\ Callers \subseteq Scopes
  /\ <<>> \notin Types
  /\ {MaxFunctions, MaxUsings} \subseteq Nat

VARIABLES
  here,        \* the scope of the calling function
  current,     \* the type taken for its class, or <<>> without one
  baseNames,   \* what each type names as bases
  functions,   \* the functions visible
  usings       \* the using statements and aliases that are active

resolverVars == <<here, current, baseNames, functions, usings>>

Functor == "operator()"
Named(name, in) == [name : {name}, in : in, arity : 0 .. 1, own : BOOLEAN]

(* _find_current_class_symbol: the first type of the file that has the name  *)
(* of the caller's class, or the last part of it. Any of these types may     *)
(* come first.                                                             *)
Namesakes == {t \in Types : here # <<>> /\ Last(t) = Last(here)}

(* At most one class has a base: one with another name, at the outermost     *)
(* scope.                                                                  *)
NoBases == [t \in Types |-> {}]
BaseClauses ==
  UNION {{[NoBases EXCEPT ![t] = {u}] : u \in {v \in Types : Len(v) = 1 /\ Last(v) # Last(t)}} :
         t \in Namesakes}

ResolverInit ==
  /\ here \in Callers
  /\ current \in IF Namesakes = {} THEN {<<>>} ELSE Namesakes
  /\ baseNames \in {NoBases} \union BaseClauses
  /\ functions = {} /\ usings = {}

Declare ==
  /\ Cardinality(functions) < MaxFunctions
  /\ \E f \in Named("f", Scopes) \union Named(Functor, Types) : functions' = functions \union {f}
  /\ UNCHANGED <<here, current, baseNames, usings>>

Use ==
  /\ Cardinality(usings) < MaxUsings
  /\ \E kind \in {"declaration", "directive", "alias"}, target \in Scopes \ (Types \union {<<>>}) :
       usings' = usings \union {[kind |-> kind, target |-> target]}
  /\ UNCHANGED <<here, current, baseNames, functions>>

ResolverNext == Declare \/ Use
ResolverSpec == ResolverInit /\ [][ResolverNext]_resolverVars

Own   == {f \in functions : f.own}
Mates == functions \ Own

-----------------------------------------------------------------------------
(* Scopes are compared by their ends: what an outer scope is, is not known.  *)
SameEnd(a, b) ==
  a # <<>> /\ b # <<>> /\ (IsSuffix(a, b) \/ IsSuffix(b, a))

WholeScope(a, b) == a # <<>> /\ a = b
SameContainer(a, b) == SameEnd(a, b)

(* _base_type_symbols and _nested_type_symbols: the scope of a function      *)
(* passes for its class, also when it is a namespace.                       *)
Bases  == IF current = <<>> THEN {}
          ELSE {t \in Types : \E base \in baseNames[current] : IsSuffix(base, t)}
Nested == IF here = <<>> THEN {} ELSE {t \in Types : IsPrefix(here, t) /\ t # here}

(* _member_container_basis                                                  *)
MemberBasis(f) ==
  IF SameContainer(f.in, here) THEN {"same_class"}
  ELSE IF \E t \in Nested : SameContainer(f.in, t) THEN {"nested_type_context"}
  ELSE IF \E t \in Bases : SameContainer(f.in, t) THEN {"base_class_context"}
  ELSE {}

IsMember(f) == MemberBasis(f) # {}

(* _same_namespace: the one right around the caller's scope.                 *)
Namespace == IF here = <<>> THEN <<>> ELSE Front(here)
InNamespace(f) == Namespace # <<>> /\ f.in = Namespace

Declared(f) == \E u \in usings : u.kind = "declaration" /\ u.target = f.in
Directed(f) ==
  \E u \in usings : u.kind = "directive" /\ IsSuffix(u.target, f.in)

-----------------------------------------------------------------------------
(* Calls: f(), this->f(), A::f() and x.f(). The types of the local variables *)
(* that bear the name of x, or of f, are "locals".                          *)

Call(form, path, arity, locals) ==
  [form |-> form, name |-> "f", path |-> path, arity |-> arity, locals |-> locals]

(* f(), where f is a local variable, calls an operator.                      *)
Taken(call) ==
  IF call.form = "plain" /\ call.locals # {}
  THEN [call EXCEPT !.form = "member", !.name = Functor] ELSE call

With(f, basis) == [of |-> f, basis |-> basis]
NamesIn(set, name) == {f \in set : f.name = name}

(* _expand_namespace_alias: an alias is named "A".                           *)
Aliases == {u.target : u \in {v \in usings : v.kind = "alias"}}
Expanded(path) ==
  IF path[1] = "A" /\ Aliases # {} THEN (CHOOSE t \in Aliases : TRUE) \o Tail(path) ELSE path

QualifiedCandidates(call) ==
  LET path == Expanded(call.path)
  IN {With(f, {"qualified_name"} \union (IF path = call.path THEN {} ELSE {"namespace_alias"})) :
        f \in {g \in NamesIn(functions, call.name) : g.in = path}}

ThisCandidates(call) ==
  {With(f, {"this_scope", "current_class"} \union MemberBasis(f)) :
     f \in {g \in NamesIn(Own, call.name) : IsMember(g)}}

MemberCandidates(call) ==
  {With(f, {"local_type_hint", "member_call"}) :
     f \in {g \in NamesIn(functions, call.name) :
              \E type \in call.locals : SameContainer(g.in, type)}}

(* _unqualified_candidates: the best group of the file's functions, or all   *)
(* those of the modules.                                                    *)
Group(f) ==
  IF IsMember(f) \/ InNamespace(f) THEN 1
  ELSE IF Declared(f) \/ Directed(f) THEN 2
  ELSE 3

FileBasis(f) ==
  IF IsMember(f) THEN MemberBasis(f) \union {"same_file"}
  ELSE IF InNamespace(f) THEN {"same_namespace", "same_file"}
  ELSE IF Declared(f) THEN {"using_declaration"}
  ELSE IF Directed(f) THEN {"using_namespace"}
  ELSE {"same_file"}

PlainCandidates(call) ==
  LET inFile == NamesIn(Own, call.name)
  IN IF inFile = {} THEN {With(f, {"module_visible"}) : f \in NamesIn(Mates, call.name)}
     ELSE {With(f, FileBasis(f)) :
             f \in {g \in inFile : \A h \in inFile : Group(g) <= Group(h)}}

Candidates(call) ==
  CASE call.form = "qualified" -> QualifiedCandidates(call)
    [] call.form = "this"      -> ThisCandidates(call)
    [] call.form = "member"    -> MemberCandidates(call)
    [] call.form = "plain"     -> PlainCandidates(call)

-----------------------------------------------------------------------------
(* _score_candidates, in hundredths.                                        *)
Weights ==
  [qualified_name |-> 35, this_scope |-> 35, current_class |-> 30, same_class |-> 28,
   same_namespace |-> 22, using_declaration |-> 16, using_namespace |-> 10,
   local_type_hint |-> 22, nested_type_context |-> 12, base_class_context |-> 14,
   member_call |-> 8, same_file |-> 5, module_visible |-> 3, namespace_alias |-> 4]

Score(candidate, call) ==
  LET sum == 50 + MapThenSumSet(LAMBDA b : Weights[b], candidate.basis)
                + (IF candidate.of.arity = call.arity THEN 12 ELSE -8)
  IN IF sum > 99 THEN 99 ELSE sum

(* Those that may stand first: of equal ones the order of the index decides. *)
FirstCandidates(call) ==
  LET all == Candidates(call)
  IN {c.of : c \in {d \in all : \A e \in all : Score(d, call) >= Score(e, call)}}

(* resolve_call: the edge of a call, and what it leads to.                   *)
Edge(call) ==
  LET all  == Candidates(call)
      sure == call.form \in {"qualified", "this"}
  IN CASE Cardinality(all) = 1 -> [status |-> IF sure THEN "exact" ELSE "probable",
                                   to |-> {c.of : c \in all}]
       [] Cardinality(all) > 1 -> [status |-> "ambiguous", to |-> {}]
       [] OTHER -> [status |-> IF call.form \in {"member", "this"}
                               THEN "unresolved" ELSE "external",
                    to |-> {}]

-----------------------------------------------------------------------------
(* What a call means in C++, where no more than scopes and the numbers of    *)
(* parameters are needed to say it: the innermost scope that has the name   *)
(* hides the others; bases come after their class; using statements, all at  *)
(* the head of the file, bring names to the outermost scope.                *)

Outward == [n \in 0 .. Len(here) |-> SubSeq(here, 1, Len(here) - n)]

Least(set) == CHOOSE n \in set : \A m \in set : n <= m

(* The bases of the class: looked for from around it.                       *)
BaseMeant(base) ==
  LET at == {n \in 1 .. Len(here) : Outward[n] \o base \in Types}
  IN IF at = {} THEN {} ELSE {Outward[Least(at)] \o base}
ClassBases == IF here \in Types THEN UNION {BaseMeant(base) : base \in baseNames[here]} ELSE {}

Layers ==
  <<{here}>> \o (IF here \in Types THEN <<ClassBases>> ELSE <<>>)
    \o [n \in 1 .. Len(here) |-> {Outward[n]}]

Brought(layer, f) ==
  <<>> \in layer /\ \E u \in usings : u.kind # "alias" /\ u.target = f.in

Found(name, layer) == {f \in NamesIn(functions, name) : f.in \in layer \/ Brought(layer, f)}

Innermost(name, layers) ==
  LET full == {n \in DOMAIN layers : Found(name, layers[n]) # {}}
  IN IF full = {} THEN {} ELSE Found(name, layers[Least(full)])

(* The scope that a name for one means: looked for outwards as well.         *)
ScopeMeant(path) ==
  LET at == {n \in DOMAIN Outward : Outward[n] \o path \in Scopes}
  IN IF at = {} THEN path ELSE Outward[Least(at)] \o path

InScope(call, path) == {f \in NamesIn(functions, call.name) : f.in = ScopeMeant(path)}

Meant(call) ==
  LET found == CASE call.form = "plain"     -> Innermost(call.name, Layers)
                 [] call.form = "this"      -> Innermost(call.name, SubSeq(Layers, 1, 2))
                 [] call.form = "qualified" -> InScope(call, Expanded(call.path))
                 [] call.form = "member"    -> UNION {InScope(call, t) : t \in call.locals}
      fit == {f \in found : f.arity = call.arity}
  IN IF Cardinality(fit) = 1 THEN fit ELSE {}

(* The calls of a legal text, with every name for a scope.                   *)
ScopeNames == {SubSeq(t, n, Len(t)) : t \in Scopes, n \in 1 .. 2} \ {<<>>}
TypeNames  == {SubSeq(t, n, Len(t)) : t \in Types, n \in 1 .. 2} \ {<<>>}

Calls ==
  {Call("plain", <<>>, n, {}) : n \in 0 .. 1}
    \union {Call("this", <<>>, n, {}) : n \in IF here \in Types THEN 0 .. 1 ELSE {}}
    \union {Call("qualified", p, n, {}) : p \in ScopeNames \union {<<"A">>}, n \in 0 .. 1}
    \union {Call(form, <<>>, n, {t}) : form \in {"plain", "member"}, n \in 0 .. 1, t \in TypeNames}

(* The scope of f passes for a base of the class and is none, or the other   *)
(* way round: the bases are read from another type with its name.           *)
Mistaken(f) == (f.in \in Bases) # (f.in \in ClassBases)

(* The index has what is needed: the function is in the file of the call, or *)
(* none of the file has its name, and none of the file is in a better group; *)
(* whether it is of a base is not mistaken; a qualified name is complete.    *)
Near(f, call) ==
  CASE call.form = "qualified" -> f.in = Expanded(call.path)
    [] call.form = "member"    -> TRUE
    [] call.form = "this"      -> f.own /\ ~Mistaken(f)
    [] call.form = "plain"     ->
         LET inFile == NamesIn(Own, call.name)
         IN /\ ~Mistaken(f)
            /\ inFile = {} \/ (f.own /\ \A g \in inFile : Group(f) <= Group(g))

(* A function whose scope ends like the caller's, like a base or like a      *)
(* nested type, and is another.                                            *)
Alike ==
  \E g \in functions :
    g.in # here /\ \E t \in {here} \union Bases \union Nested : g.in # t /\ SameContainer(g.in, t)

(* What ranks above what is meant, although C++ hides it or finds it later:  *)
(* the namespace's function above the one of a base, and, of functions that *)
(* using statements name, a declared one above one of an enclosing scope.   *)
Outdone(f) ==
  \E g \in NamesIn(Own, f.name) :
    /\ g.arity = f.arity
    /\ \/ f.in \in ClassBases /\ InNamespace(g)
       \/ (\E n \in 2 .. Len(here) - 1 : f.in = Outward[n]) /\ Directed(f) /\ Declared(g)

(* The function that a call means in C++ is among the candidates, and is one *)
(* of the best; so a sole target is the right one. However the class, its    *)
(* namespace, bases, nested types, using statements, other files and         *)
(* overloads compete for the name.                                          *)
MeantIsFirst ==
  \A c \in Calls :
    LET call == Taken(c)
    IN \A f \in Meant(call) : Near(f, call) =>
         /\ \E candidate \in Candidates(call) : candidate.of = f
         /\ Alike \/ Outdone(f) \/ f \in FirstCandidates(call)
         /\ Edge(call).status \in {"exact", "probable"} => Edge(call).to = {f}
=============================================================================
