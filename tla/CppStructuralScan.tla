-------------------------- MODULE CppStructuralScan --------------------------
(***************************************************************************)
(* scan_structure (cpp_structural_scan.py): one pass over the tokens of a   *)
(* file that keeps a stack of open braces, the scopes they open, and, for   *)
(* every open #if, the state to go back to.                                *)
(*                                                                         *)
(* The file is whatever ReadLine and ReadDirective put down, a line at a    *)
(* time. A directive is processed when a token of a later line is reached,  *)
(* so those after the last token never are.                                *)
(***************************************************************************)
EXTENDS CppDeclarations

CONSTANTS
  SourceLines,  \* what each line may hold: sequences of token texts
  Directives,   \* those among "if", "else", "endif" it may hold
  MaxLines      \* bound on the length of a file (SourceLines has as many)

ASSUME ScanAssumption ==
  /\ MaxLines \in Nat
  /\ SourceLines \in [1 .. MaxLines -> SUBSET Seq(STRING)]
  /\ Directives \subseteq {"if", "else", "endif"}

VARIABLES
  line,          \* the number of lines read
  ahead,         \* the texts of the tokens of this line not yet scanned
  directives,    \* the directives read and not yet processed
  text,          \* the tokens scanned
  parse,         \* the state a branch of a conditional is parsed from
  conditionals,  \* for every open #if: that state, and how its branches ended
  events,        \* what was found, in the order of their "order"
  usings,        \* using declarations, directives and namespace aliases
  unmatched,     \* the lines of "}" that close nothing
  ended,         \* the end of the file was reached
  within,        \* history: the scope and the body each token was scanned in
  torn,          \* history: branches left different braces open
  rewound        \* history: a directive went back over statements

scanVars == <<line, ahead, directives, text, parse, conditionals, events, usings,
              unmatched, ended, within, torn, rewound>>

(* A brace record: what was opened, the events it belongs to (several for   *)
(* namespace A::B), and the line. A parse state: the open braces, the open   *)
(* scopes, and where the current statement starts.                         *)
Fresh == [braces |-> <<>>, scopes |-> <<>>, start |-> 1]

ScanInit ==
  /\ line = 0 /\ ahead = <<>> /\ directives = <<>> /\ text = <<>>
  /\ parse = Fresh /\ conditionals = <<>>
  /\ events = <<>> /\ usings = {} /\ unmatched = {} /\ ended = FALSE
  /\ within = <<>> /\ torn = FALSE /\ rewound = FALSE

-----------------------------------------------------------------------------
(* The file. *)

MayRead == ~ended /\ ahead = <<>> /\ line < MaxLines

ReadLine(values) ==
  /\ MayRead
  /\ line' = line + 1 /\ ahead' = values
  /\ UNCHANGED <<directives, text, parse, conditionals, events, usings, unmatched,
                 ended, within, torn, rewound>>

ReadDirective(directive) ==
  /\ MayRead
  /\ line' = line + 1 /\ directives' = Append(directives, directive)
  /\ UNCHANGED <<ahead, text, parse, conditionals, events, usings, unmatched,
                 ended, within, torn, rewound>>

-----------------------------------------------------------------------------
(* Conditionals. #else goes back to the state before the #if; #endif takes  *)
(* the branch that left most braces open, the first of them.               *)

Score(state) == <<Len(state.braces), Len(state.scopes)>>

Better(a, b) == a[1] > b[1] \/ (a[1] = b[1] /\ a[2] > b[2])

BestBranch(branches) ==
  LET best == {i \in DOMAIN branches :
                 \A j \in DOMAIN branches : ~Better(Score(branches[j]), Score(branches[i]))}
  IN branches[FirstIn(best)]

Restore(state) ==
  /\ parse' = state
  /\ torn' = (torn \/ state.braces # parse.braces)
  /\ rewound' = (rewound \/ state.start # parse.start)

Top(stack) == stack[Len(stack)]
Pop(stack) == SubSeq(stack, 1, Len(stack) - 1)

ProcessDirective ==
  /\ ahead # <<>> /\ directives # <<>>
  /\ LET directive == Head(directives)
         frame     == Top(conditionals)
         branches  == Append(frame.branches, parse)
     IN CASE directive = "if" ->
               /\ conditionals' = Append(conditionals, [base |-> parse, branches |-> <<>>])
               /\ UNCHANGED <<parse, torn, rewound>>
          [] directive = "else" /\ conditionals # <<>> ->
               /\ conditionals' = Append(Pop(conditionals), [frame EXCEPT !.branches = branches])
               /\ Restore(frame.base)
          [] directive = "endif" /\ conditionals # <<>> ->
               /\ conditionals' = Pop(conditionals)
               /\ Restore(BestBranch(branches))
          [] OTHER -> UNCHANGED <<conditionals, parse, torn, rewound>>
  /\ directives' = Tail(directives)
  /\ UNCHANGED <<line, ahead, text, events, usings, unmatched, ended, within>>

-----------------------------------------------------------------------------
(* One token. *)

Token == [value |-> Head(ahead), line |-> line]

(* The statement up to the token, without its template prefixes. *)
Raw     == From(text, parse.start)
Segment == WithoutTemplate(Raw)

AtToken(value) == ahead # <<>> /\ directives = <<>> /\ Head(ahead) = value

(* The outermost open brace that is no scope, for the history. *)
Body(braces) ==
  LET bodies == {i \in DOMAIN braces : braces[i].kind # "scope"}
  IN IF bodies = {} THEN "none" ELSE braces[FirstIn(bodies)].kind

Advance ==
  /\ ahead' = Tail(ahead)
  /\ text' = Append(text, Token)
  /\ within' = Append(within, [scope |-> parse.scopes, body |-> Body(parse.braces)])
  /\ UNCHANGED <<line, directives, conditionals, ended, torn, rewound>>

NextStatement == Len(text) + 2

StartLine ==
  IF IsTemplate(Raw) THEN Raw[TemplateStart(Raw)].line
  ELSE IF Segment # <<>> THEN Segment[1].line ELSE line

(* The signature is cut out of the lines, so it begins with the word that   *)
(* its first line begins with.                                             *)
HeadWord(start) ==
  LET onLine == {i \in DOMAIN text : text[i].line = start}
  IN IF onLine = {} THEN Head(ahead) ELSE text[FirstIn(onLine)].value

(* An event that is still open has close 0; one without a body has open 0.  *)
EventAt(start, kind, name, path, exported, open) ==
  [kind |-> kind, name |-> name, path |-> path, exported |-> exported,
   template |-> IsTemplate(Raw), head |-> HeadWord(start), start |-> start,
   open |-> open, close |-> 0, end |-> IF open = 0 THEN line ELSE 0]

Event(kind, name, path, exported, open) ==
  EventAt(StartLine, kind, name, path, exported, open)

AccessLabel ==
  /\ AtToken(":")
  /\ Len(Raw) = 1 /\ Raw[1].value \in AccessSpecifiers
  /\ parse' = [parse EXCEPT !.start = NextStatement]
  /\ Advance /\ UNCHANGED <<events, usings, unmatched>>

Open(kind, opened, frames) ==
  /\ events' = events \o opened
  /\ parse' = [braces |-> Append(parse.braces,
                 [kind |-> kind, line |-> line,
                  events |-> Len(events) + 1 .. Len(events) + Len(opened)]),
               scopes |-> parse.scopes \o frames,
               start |-> NextStatement]
  /\ Advance /\ UNCHANGED <<usings, unmatched>>

Frames(opened) ==
  [i \in DOMAIN opened |-> [kind |-> opened[i].kind, name |-> opened[i].name,
                            path |-> opened[i].path, exported |-> opened[i].exported]]

OpenScope(opened) == Open("scope", opened, Frames(opened))

(* namespace A::B { opens two scopes with one brace. *)
OpenNamespace ==
  /\ AtToken("{") /\ IsNamespace(Segment)
  /\ LET names == NamespaceNames(Segment)
         exported == NamespaceExported(Segment) \/ ScopeExported(parse.scopes)
         outer == QualifiedName(parse.scopes, <<>>)
         opened == [k \in DOMAIN names |->
                      Event("namespace", names[k], outer \o Take(names, k), exported, line)]
     IN OpenScope(opened)

OpenType ==
  /\ AtToken("{") /\ ~IsNamespace(Segment) /\ TypeName(Segment) # ""
  /\ LET name == TypeName(Segment)
         exported == Leads(Segment, "export") \/ ScopeExported(parse.scopes)
         opened == <<Event(TypeKey(Segment), name, QualifiedName(parse.scopes, <<name>>),
                           exported, line)>>
     IN OpenScope(opened)

OpenEnum ==
  /\ AtToken("{") /\ ~IsNamespace(Segment) /\ TypeName(Segment) = "" /\ IsEnum(Segment)
  /\ LET name == EnumName(Segment)
         exported == EnumExported(Segment) \/ ScopeExported(parse.scopes)
     IN Open("enum", <<Event("enum", name, QualifiedName(parse.scopes, <<name>>),
                             exported, line)>>, <<>>)

NamedFunction(path, suffix, open) ==
  Event(FunctionKind(path[Len(path)], CurrentTypeName(parse.scopes),
                     IsDestructor(Segment, FunctionParen(Segment))) \o suffix,
        path[Len(path)], QualifiedName(parse.scopes, path),
        Leads(Segment, "export") \/ ScopeExported(parse.scopes), open)

FunctionEvent(suffix, open) == NamedFunction(FunctionPath(Segment), suffix, open)

OpenFunction ==
  /\ AtToken("{") /\ IsFunction(Segment, parse.scopes)
  /\ Open("function", <<FunctionEvent("", line)>>, <<>>)

OpenBlock ==
  /\ AtToken("{")
  /\ ~IsNamespace(Segment) /\ TypeName(Segment) = "" /\ ~IsEnum(Segment)
  /\ ~IsFunction(Segment, parse.scopes)
  /\ Open("block", <<>>, <<>>)

OneScope(record) == IF record.kind = "scope" THEN 1 ELSE 0
ScopesOf(record) == IF record.kind = "scope" THEN Cardinality(record.events) ELSE 0

CloseBrace ==
  /\ AtToken("}")
  /\ IF parse.braces = <<>>
     THEN /\ unmatched' = unmatched \union {line}
          /\ parse' = [parse EXCEPT !.start = NextStatement]
          /\ UNCHANGED events
     ELSE LET record == Top(parse.braces)
              left   == Less(Len(parse.scopes), ScopesOf(record))
          IN /\ events' = [e \in DOMAIN events |->
                             IF e \in record.events
                             THEN [events[e] EXCEPT !.close = line, !.end = line]
                             ELSE events[e]]
             /\ parse' = [braces |-> Pop(parse.braces),
                          scopes |-> SubSeq(parse.scopes, 1, left),
                          start |-> NextStatement]
             /\ UNCHANGED unmatched
  /\ Advance /\ UNCHANGED usings

-----------------------------------------------------------------------------
(* Statements. Inside functions, blocks and enums they are not looked at.   *)

InsideBody(braces) ==
  \E i \in DOMAIN braces : braces[i].kind \in {"function", "block", "enum"}

EndStatement ==
  /\ AtToken(";")
  /\ parse' = [parse EXCEPT !.start = NextStatement]
  /\ Advance /\ UNCHANGED unmatched

Declares(found) ==
  /\ EndStatement
  /\ ~InsideBody(parse.braces) /\ UsingKind(Segment) = "" /\ ~IsSkipped(Segment)
  /\ events' = events \o found
  /\ UNCHANGED usings

UsingStatement ==
  /\ EndStatement
  /\ ~InsideBody(parse.braces) /\ UsingKind(Segment) # ""
  /\ usings' = usings \union
       {[kind |-> UsingKind(Segment), target |-> UsingTarget(Segment, parse.scopes),
         scope |-> ScopeQualifiedName(parse.scopes),
         start |-> Segment[1].line, end |-> Top(Segment).line,
         opener |-> IF parse.scopes = <<>> THEN 0
                    ELSE LET scopeOf == {i \in DOMAIN parse.braces : parse.braces[i].kind = "scope"}
                         IN LastIn(parse.braces[LastIn(scopeOf)].events)]}
  /\ UNCHANGED events

SkippedStatement ==
  /\ EndStatement
  /\ \/ InsideBody(parse.braces)
     \/ UsingKind(Segment) = "" /\ IsSkipped(Segment)
  /\ UNCHANGED <<events, usings>>

DeclareType ==
  LET name == TypeName(Segment)
  IN /\ name # ""
     /\ Declares(<<Event(TypeKey(Segment) \o "_declaration", name,
                         QualifiedName(parse.scopes, <<name>>),
                         Leads(Segment, "export") \/ ScopeExported(parse.scopes), 0)>>)

DeclareEnum ==
  LET name == EnumName(Segment)
  IN /\ TypeName(Segment) = "" /\ IsEnum(Segment)
     /\ Declares(<<Event("enum", name, QualifiedName(parse.scopes, <<name>>),
                         \/ EnumExported(Segment) \/ Leads(Segment, "export")
                         \/ ScopeExported(parse.scopes), 0)>>)

DeclareFunction ==
  /\ TypeName(Segment) = "" /\ ~IsEnum(Segment) /\ IsFunction(Segment, parse.scopes)
  /\ Declares(<<FunctionEvent("_declaration", 0)>>)

DeclareNothing ==
  /\ TypeName(Segment) = "" /\ ~IsEnum(Segment) /\ ~IsFunction(Segment, parse.scopes)
  /\ Declares(<<>>)

OtherToken ==
  /\ ahead # <<>> /\ directives = <<>> /\ Head(ahead) \notin {"{", "}", ";"}
  /\ ~(Head(ahead) = ":" /\ Len(Raw) = 1 /\ Raw[1].value \in AccessSpecifiers)
  /\ Advance /\ UNCHANGED <<parse, events, usings, unmatched>>

EndOfFile ==
  /\ ~ended /\ ahead = <<>>
  /\ ended' = TRUE
  /\ UNCHANGED <<line, ahead, directives, text, parse, conditionals, events, usings,
                 unmatched, within, torn, rewound>>

(* What is still open at the end of the file is reported. *)
Unclosed == {parse.braces[i].line : i \in DOMAIN parse.braces}

ScanToken ==
  \/ AccessLabel \/ OtherToken
  \/ OpenNamespace \/ OpenType \/ OpenEnum \/ OpenFunction \/ OpenBlock
  \/ CloseBrace
  \/ UsingStatement \/ SkippedStatement
  \/ DeclareType \/ DeclareEnum \/ DeclareFunction \/ DeclareNothing

ScanNext ==
  \/ MayRead /\ \E values \in SourceLines[line + 1] : ReadLine(values)
  \/ \E directive \in Directives : ReadDirective(directive)
  \/ ProcessDirective
  \/ ScanToken
  \/ EndOfFile

ScanSpec == ScanInit /\ [][ScanNext]_scanVars

-----------------------------------------------------------------------------
(* In every state that the scan is in, or that a directive may take it back *)
(* to, the open scopes are those that the open braces opened, in that       *)
(* order: one brace may open two scopes, functions and blocks open none,    *)
(* and a branch that closes braces of its surroundings changes both.        *)
SavedStates ==
  {parse} \union {conditionals[c].base : c \in DOMAIN conditionals}
    \union UNION {{conditionals[c].branches[b] : b \in DOMAIN conditionals[c].branches} :
                    c \in DOMAIN conditionals}

ScopesMatchBraces ==
  \A state \in SavedStates :
    LET owners == UNION {state.braces[b].events :
                           b \in {i \in DOMAIN state.braces : state.braces[i].kind = "scope"}}
        place(e) == Cardinality({d \in owners : d <= e})
    IN /\ Len(state.scopes) = Cardinality(owners)
       /\ \A e \in owners : <<state.scopes[place(e)]>> = Frames(<<events[e]>>)

(* A file that the scan reads to its end without going back over anything.  *)
WellFormed ==
  /\ ended /\ parse.braces = <<>> /\ unmatched = {}
  /\ ~torn /\ ~rewound

(* The names and the lines of what was found tell the same story: whatever  *)
(* lies inside the braces of a named namespace or type has a qualified name *)
(* that begins with its name, and is exported with it. (Not so for the      *)
(* namespaces without a name, which no file here has: they add nothing to   *)
(* a qualified name, cpp_structural_scan.py:62-68.)                        *)
Within(inner, outer) == outer.open < inner.start /\ inner.end < outer.close

PathsFollowRanges ==
  WellFormed =>
    \A a, b \in DOMAIN events :
      /\ Within(events[b], events[a])
      /\ events[a].kind \in {"namespace", "class", "struct"}
      => /\ Take(events[b].path, Len(events[a].path)) = events[a].path
         /\ events[a].exported => events[b].exported
=============================================================================
