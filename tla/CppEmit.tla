------------------------------- MODULE CppEmit -------------------------------
(***************************************************************************)
(* What becomes of the events of a file once they are all known: symbols    *)
(* (cpp_symbol_emit.py), data declarations (cpp_data_emit.py), type aliases *)
(* (cpp_type_alias_emit.py), export entries (cpp_file_index.py) and the     *)
(* lines on which a using statement holds (cpp_structural_scan.py).         *)
(*                                                                         *)
(* The data and alias emitters scan the tokens again, and tell scopes and   *)
(* function bodies from the lines of the events. Signatures and identifiers *)
(* are left out; a list that the code sorts by line is a set here.          *)
(***************************************************************************)
EXTENDS CppStructuralScan

EventSet == {events[e] : e \in DOMAIN events}

-----------------------------------------------------------------------------
(* Symbols and exports. *)

EffectiveEnd(event) == IF event.end # 0 THEN event.end ELSE event.start

IsSymbol(event) == event.name # Anonymous

RangeKind(event) ==
  IF event.kind \in {"namespace", "class", "struct", "enum"} /\ event.open # 0
  THEN "container"
  ELSE IF event.kind \in {"class_declaration", "struct_declaration"}
  THEN "forward_declaration"
  ELSE IF event.open # 0 THEN "definition"
  ELSE "declaration"

ExportSource(event) ==
  IF ~event.exported THEN "none"
  ELSE IF event.head = "export" THEN "direct_export"
  ELSE "enclosing_export_namespace"

Symbol(event) ==
  [type |-> event.kind, path |-> event.path, start |-> event.start,
   end |-> EffectiveEnd(event), exported |-> event.exported,
   range |-> RangeKind(event), source |-> ExportSource(event)]

EmittedSymbols == {Symbol(event) : event \in {e \in EventSet : IsSymbol(e)}}

ExportEntries ==
  {[kind |-> IF event.kind = "namespace" THEN "export_namespace"
             ELSE "export_declaration",
    start |-> event.start, end |-> EffectiveEnd(event)] :
     event \in {e \in EventSet : ExportSource(e) = "direct_export"}}

-----------------------------------------------------------------------------
(* Using statements hold from the line after them to the end of the         *)
(* smallest interval of that name around them.                             *)

ScopeIntervals ==
  {event \in EventSet :
     event.kind \in {"namespace", "class", "struct", "enum"} /\ event.end # 0}

IntervalsOfName(using) ==
  {event \in ScopeIntervals :
     event.path = using.scope /\ event.start <= using.start}

IntervalsAround(using) ==
  {event \in ScopeIntervals :
     /\ event.path = using.scope
     /\ event.start <= using.start /\ using.start <= event.end}

ActiveTo(using) ==
  LET around == IntervalsAround(using)
      size(event) == event.end - event.start
  IN IF using.scope = <<>> \/ around = {} THEN line
     ELSE (CHOOSE event \in around : \A other \in around : size(event) <= size(other)).end

FunctionBodyRanges ==
  {[start |-> event.start, open |-> event.open, close |-> event.close] :
     event \in {e \in EventSet :
        /\ e.kind \in {"function", "method", "constructor", "destructor", "operator"}
        /\ e.open # 0 /\ e.close # 0}}

-----------------------------------------------------------------------------
(* Scopes by line. "enum class" is an event of kind class, told from the    *)
(* first word of its signature.                                            *)

ScopeKind(event) ==
  IF event.kind = "class" /\ event.head = "enum" THEN "enum" ELSE event.kind

Scopes ==
  {e \in DOMAIN events :
     /\ ScopeKind(events[e]) \in {"namespace", "class", "struct", "enum"}
     /\ events[e].open # 0 /\ events[e].close # 0}

(* In the order of opening line, closing line and event, the last one wins. *)
ClosesLater(a, b) == events[a].close > events[b].close

After(a, b) ==
  \/ events[a].open > events[b].open
  \/ events[a].open = events[b].open /\ events[a].close > events[b].close
  \/ events[a].open = events[b].open /\ events[a].close = events[b].close /\ a > b

InnermostScopes(at) ==
  LET active == {e \in Scopes : events[e].open < at /\ at < events[e].close}
  IN {e \in active : \A other \in active \ {e} : After(e, other)}

ContainerForLine(at) ==
  IF InnermostScopes(at) = {} THEN [kind |-> "global", path |-> <<>>]
  ELSE LET scope == events[CHOOSE e \in InnermostScopes(at) : TRUE]
       IN [kind |-> ScopeKind(scope), path |-> scope.path]

-----------------------------------------------------------------------------
(* Candidate statements: what is left of the file when the lines of         *)
(* function bodies and the opening and closing lines of scopes are taken    *)
(* out, cut at the semicolons outside all brackets. A line taken out also   *)
(* cuts.                                                                   *)

StructuralLines ==
  UNION {{event.open, event.close} :
           event \in {e \in EventSet :
              \/ e.kind \in {"namespace", "class", "struct", "enum"}
              \/ e.kind \in {"function", "method", "constructor", "destructor", "operator"}}}

FunctionLines == UNION {range.open .. range.close : range \in FunctionBodyRanges}

TakenOut == {i \in DOMAIN text : text[i].line \in FunctionLines \union StructuralLines}

RunStart(i) == 1 + LastIn({0} \union {j \in TakenOut : j < i})

CandidateStatements(tracked) ==
  LET upTo(ends) ==
        {SubSeq(text, 1 + LastIn({RunStart(i) - 1} \union {j \in ends : j < i}), i) : i \in ends}
  IN upTo({i \in DOMAIN text \ TakenOut :
             /\ text[i].value = ";"
             /\ i - RunStart(i) + 1 \in TopLevel(SubSeq(text, RunStart(i), i), tracked)})

-----------------------------------------------------------------------------
(* Pieces of statements. *)

WithoutAccessLabel(tokens) ==
  LET labels == {i \in DOMAIN tokens :
                   tokens[i].value \in AccessSpecifiers /\ At(tokens, i + 1) = ":"}
  IN IF labels = {} THEN tokens ELSE From(tokens, FirstIn(labels) + 2)

Declaration(statement) == LET tokens == WithoutAccessLabel(statement)
                          IN SubSeq(tokens, 1, Len(tokens) - 1)

(* These strip one prefix, without a requires clause. *)
HasTemplatePrefix(tokens) ==
  /\ At(tokens, 1) = "template" /\ At(tokens, 2) = "<"
  /\ MatchingToken(tokens, 2, "<", ">") # 0

AfterTemplatePrefix(tokens) ==
  IF HasTemplatePrefix(tokens)
  THEN From(tokens, MatchingToken(tokens, 2, "<", ">") + 1) ELSE tokens

FirstTopLevel(tokens, values, tracked) ==
  FirstOr0({i \in TopLevel(tokens, tracked) : tokens[i].value \in values})

AllBrackets == Kinds \union {"shift"}

-----------------------------------------------------------------------------
(* Data declarations. *)

StorageSpecifiers == {"static", "inline", "constexpr", "extern", "mutable"}
DataSkipKeywords  == {"using", "typedef", "friend", "static_assert", "return", "if",
                      "for", "while", "case", "namespace", "class", "struct", "enum",
                      "import", "module", "export", "requires"}
NoNames == StorageSpecifiers \union DataSkipKeywords
             \union {"virtual", "override", "final", "noexcept", "decltype", "sizeof"}

Pointers == {"*", "&", "&&"}

(* Where the pointer and reference marks of the first declarator begin.      *)
DeclaratorPrefix(tokens) ==
  LET loose == {i \in DOMAIN tokens : tokens[i].value \notin Pointers \union {"const"}}
      tail  == IF loose = {} THEN 1 ELSE LastIn(loose) + 1
  IN IF \E i \in tail..Len(tokens) :
           /\ tokens[i].value \in Pointers
           /\ \A j \in i + 1 .. Len(tokens) : tokens[j].value = "const"
     THEN tail ELSE Len(tokens) + 1

(* The last usable identifier before an initializer or a bit width.          *)
NameInHead(head) ==
  IF "(" \in ValueSet(head) THEN 0
  ELSE LastOr0({i \in DOMAIN head : IsIdentifier(head[i]) /\ head[i].value \notin NoNames})

DeclaratorName(part) ==
  LET head(stop) == IF stop = 0 THEN part ELSE Before(part, stop)
  IN NameInHead(head(FirstTopLevel(part, {"=", "{", ":"}, AllBrackets)))

InitializerKind(part, name) ==
  LET marks == {i \in name + 1 .. Len(part) : part[i].value \in {"=", "{", "("}}
  IN IF marks = {} THEN "none"
     ELSE CASE part[FirstIn(marks)].value = "=" -> "equals"
            [] part[FirstIn(marks)].value = "{" -> "brace"
            [] OTHER -> "paren"

TypeTokens(tokens) == SelectSeq(Values(tokens), LAMBDA v : v \notin StorageSpecifiers)

(* Consecutive [...] after the name belong to the type. *)
ArraySuffix(part, name) ==
  LET end[i \in 1 .. Len(part) + 1] ==
        IF At(part, i) = "[" /\ MatchingToken(part, i, "[", "]") # 0
        THEN end[MatchingToken(part, i, "[", "]") + 1] ELSE i
  IN Values(SubSeq(part, name + 1, end[name + 1] - 1))

Concept(tokens, rest, container) ==
  LET at == IF "concept" \in ValueSet(rest) THEN First(rest, "concept") + 1 ELSE 0
  IN IF at \notin DOMAIN rest \/ container.kind = "enum" THEN {}
     ELSE IF ~IsIdentifier(rest[at]) THEN {}
     ELSE {[kind |-> "concept", path |-> Append(container.path, rest[at].value),
            start |-> tokens[1].line, end |-> Top(tokens).line, type |-> <<"concept">>]}

SkipsData(tokens) ==
  ValueSet(tokens) \intersect DataSkipKeywords # {} /\ "concept" \notin ValueSet(tokens)

DataKind(scope, tokens) ==
  IF IsType(scope.kind) THEN "field"
  ELSE IF HasTemplatePrefix(tokens) THEN "variable_template" ELSE "global_variable"

(* The first declarator's type, without its marks, is that of the others.    *)
Base(first) == Before(first, DeclaratorPrefix(first))

DeclaredType(parts, names, p) ==
  TypeTokens((IF p = 1 THEN <<>> ELSE Base(Before(parts[1], names[1])))
               \o Before(parts[p], names[p])) \o ArraySuffix(parts[p], names[p])

Declarators(parts, names, tokens, scope) ==
  IF parts = <<>> \/ scope.kind = "enum" THEN {}
  ELSE IF names[1] = 0 THEN {}
  ELSE {[kind |-> DataKind(scope, tokens),
         path |-> Append(scope.path, parts[p][names[p]].value),
         start |-> tokens[1].line, end |-> Top(tokens).line,
         type |-> DeclaredType(parts, names, p)] :
          p \in {q \in DOMAIN parts :
                   /\ names[q] # 0
                   /\ InitializerKind(parts[q], names[q]) # "paren"
                   /\ DeclaredType(parts, names, q) # <<>>}}

Variables(tokens, rest, scope) ==
  LET of(parts) == Declarators(parts, [p \in DOMAIN parts |-> DeclaratorName(parts[p])],
                               tokens, scope)
  IN of(SplitTopLevelCommas(rest, {"paren", "bracket", "angle", "shift"}))

DataIn(tokens, rest, scope) ==
  IF Concept(tokens, rest, scope) # {} THEN Concept(tokens, rest, scope)
  ELSE IF SkipsData(tokens) THEN {}
  ELSE Variables(tokens, rest, scope)

DataOf(statement) ==
  LET of(tokens) == IF tokens = <<>> THEN {}
                    ELSE DataIn(tokens, AfterTemplatePrefix(tokens),
                                ContainerForLine(tokens[1].line))
  IN of(Declaration(statement))

Identifiers(part) == {i \in DOMAIN part : IsIdentifier(part[i])}

EnumeratorsIn(parts, path) ==
  {[kind |-> "enumerator", path |-> Append(path, parts[p][FirstIn(Identifiers(parts[p]))].value),
    start |-> parts[p][1].line, end |-> Top(parts[p]).line, type |-> path] :
     p \in {q \in DOMAIN parts : Identifiers(parts[q]) # {}}}

Enumerators(e) ==
  LET inside == {i \in DOMAIN text :
                   events[e].open <= text[i].line /\ text[i].line <= events[e].close}
      opens  == {i \in inside : text[i].value = "{"}
      closes == {i \in inside : text[i].value = "}"}
      body   == SubSeq(text, FirstIn(opens) + 1, LastIn(closes) - 1)
  IN IF opens = {} \/ closes = {} THEN {}
     ELSE EnumeratorsIn(SplitTopLevelCommas(body, AllBrackets), events[e].path)

EmittedData ==
  UNION {Enumerators(e) : e \in {s \in Scopes : ScopeKind(events[s]) = "enum"}}
    \union UNION {DataOf(s) : s \in CandidateStatements(AllBrackets)}

-----------------------------------------------------------------------------
(* Type aliases. These scans do not know ">>". *)

Unexported(tokens) == IF At(tokens, 1) = "export" THEN Tail(tokens) ELSE tokens

AliasScope(at) == ContainerForLine(at).path

AliasStatements == CandidateStatements(Kinds)

Alias(type, name, tokens, from) ==
  [type |-> type, path |-> Append(AliasScope(from), name),
   start |-> from, end |-> Top(tokens).line]

UsingAlias(statement) ==
  LET tokens == Unexported(Declaration(statement))
      rest   == AfterTemplatePrefix(tokens)
  IN IF \/ At(rest, 1) # "using" \/ At(rest, 2) \in {"namespace", "enum"}
        \/ FirstTopLevel(rest, {"="}, Kinds) < 3
     THEN {}
     ELSE IF ~IsIdentifier(rest[2]) THEN {}
     ELSE {Alias(IF HasTemplatePrefix(tokens) THEN "type_alias_template" ELSE "type_alias",
                 rest[2].value, tokens, tokens[1].line)}

Typedefs(statement) ==
  LET tokens == Unexported(Declaration(statement))
      parts  == SplitTopLevelCommas(Tail(tokens), {"paren", "bracket", "angle", "shift"})
  IN IF At(tokens, 1) # "typedef" THEN {}
     ELSE {Alias("typedef_declaration", parts[p][LastIn(Identifiers(parts[p]))].value, tokens,
                 tokens[1].line) : p \in {q \in DOMAIN parts : Identifiers(parts[q]) # {}}}

EmittedAliases ==
  UNION {IF UsingAlias(s) # {} THEN UsingAlias(s) ELSE Typedefs(s) :
           s \in AliasStatements}

-----------------------------------------------------------------------------
(* The data emitter, which knows only the lines of the events, agrees with  *)
(* the scan about every plain declaration on a line without a brace: one    *)
(* that stands in a scope is emitted once, under the scope the scan was in, *)
(* and one in the body of a function is not. (It is lost on the line where  *)
(* a scope or function opens or closes, cpp_data_emit.py:491-544, which no  *)
(* file here has; and when a block stands outside of functions, as after    *)
(* extern "C", what follows is joined with it.)                            *)
NoLooseBlock == \A i \in DOMAIN within : within[i].body # "block"

InType(scope) == scope # <<>> /\ IsType(Top(scope).kind)

PlainData ==
  {[kind |-> IF InType(within[i].scope) THEN "field" ELSE "global_variable",
    path |-> Append(ScopeQualifiedName(within[i].scope), text[i + 1].value),
    start |-> text[i].line, end |-> text[i].line, type |-> <<"int">>] :
     i \in {j \in DOMAIN text : /\ text[j].value = "int" /\ At(text, j + 2) = ";"
                               /\ within[j].body = "none"}}

DataIsExact ==
  WellFormed /\ NoLooseBlock =>
    {d \in EmittedData : d.kind \in {"global_variable", "field"}} = PlainData

(* A using statement holds to the brace that closes the scope it stands in, *)
(* also when its namespace is opened again: the code finds that line by     *)
(* name and size, not by the brace.                                        *)
UsingEndsWithScope ==
  WellFormed =>
    \A using \in usings :
      ActiveTo(using) = IF using.opener = 0 THEN line ELSE events[using.opener].close
=============================================================================
