--------------------------- MODULE CppDeclarations ---------------------------
(***************************************************************************)
(* How the structural scan reads one statement (cpp_structural_scan.py): a  *)
(* segment of tokens up to a "{" or a ";" is a namespace, a type, an enum,  *)
(* a function, a using statement or nothing of interest.                   *)
(*                                                                         *)
(* A qualified name is the sequence of its parts. The name of an operator   *)
(* is "operator" whatever it overloads. Columns, signatures and template    *)
(* parameters are left out.                                                *)
(***************************************************************************)
EXTENDS CppTokens

CONSTANT MacroNames   \* identifiers that look like macros (DEFINE_..., ALL_CAPS)

ControlKeywords == {"if", "for", "while", "return", "requires", "static_assert"}
SkipPrefixes    == {"using", "friend", "typedef", "static_assert", "module",
                    "import", "#"}
AccessSpecifiers == {"public", "protected", "private"}
ExternalRoots   == {"std", "boost"}
RequiresStops   == {"template", "class", "struct", "enum", "namespace", "auto",
                    "void", "int"}
Anonymous       == "<anonymous namespace>"

Leads(segment, word) == word \in ValueSet(Take(segment, 2))
Comes(segment, word, before) == word \in ValueSet(Before(segment, before))
First(segment, word) == FirstIn({i \in DOMAIN segment : segment[i].value = word})

-----------------------------------------------------------------------------
(* Names and scopes. A scope frame is a namespace, class or struct whose    *)
(* brace is open, with its name, its qualified name and whether it is       *)
(* exported.                                                               *)

ScopeExported(scopes) == \E i \in DOMAIN scopes : scopes[i].exported

IsType(kind) == kind \in {"class", "struct"}

CurrentTypeName(scopes) ==
  LET types == {i \in DOMAIN scopes : IsType(scopes[i].kind)}
  IN IF types = {} THEN "" ELSE scopes[LastIn(types)].name

ScopeQualifiedName(scopes) ==
  IF scopes = <<>> THEN <<>> ELSE scopes[Len(scopes)].path

Named(scopes) == SelectSeq(scopes, LAMBDA frame : frame.name # Anonymous)

(* A name that is already qualified may repeat the end of the scopes it is  *)
(* in: N { void C::f(); } is N::C::f, and N { C { void C::f(); } } is too.  *)
SpelledName(scopes, path) ==
  IF Len(path) > 1 THEN path
  ELSE [i \in DOMAIN Named(scopes) |-> Named(scopes)[i].name] \o path

QualifiedName(scopes, path) ==
  LET parts == [i \in DOMAIN Named(scopes) |-> Named(scopes)[i].name]
      tail(k) == SubSeq(parts, Len(parts) - k + 1, Len(parts))
      overlaps == {k \in DOMAIN parts : tail(k) = Take(path, k)}
  IN IF Len(path) > 1 /\ overlaps # {}
     THEN SubSeq(parts, 1, Len(parts) - FirstIn(overlaps)) \o path
     ELSE parts \o path

PartName(piece) ==
  LET joined[n \in 1 .. Len(piece)] ==
        IF n = 1 THEN piece[1].value ELSE joined[n - 1] \o piece[n].value
  IN IF piece[1].value = "operator" THEN "operator" ELSE joined[Len(piece)]

PartNames(pieces) == [i \in DOMAIN pieces |-> PartName(pieces[i])]

NameParts(tokens) ==
  PartNames(Pieces(tokens, {i \in DOMAIN tokens : tokens[i].value = "::"}))

(* Names in using statements and aliases are taken relative to the scope,   *)
(* unless they are absolute, well known, or begin with the scope already.   *)
RelativeTo(scope, path) ==
  IF \/ path = <<>> \/ path[1] \in ExternalRoots
     \/ Take(path, Len(scope)) = scope
  THEN path
  ELSE scope \o path

ScopeRelativeName(tokens, scopes) ==
  RelativeTo(IF At(tokens, 1) = "::" THEN <<>> ELSE ScopeQualifiedName(scopes),
             NameParts(tokens))

-----------------------------------------------------------------------------
(* Leading template<...> prefixes, with their requires clause, are detached *)
(* from the statement, and with them an "export" before the first one.      *)

AfterParameters(segment, gt) ==
  IF At(segment, gt + 1) # "requires" THEN gt + 1
  ELSE FirstIn({j \in gt + 2 .. Len(segment) : segment[j].value \in RequiresStops}
                 \union {Len(segment) + 1})

AfterPrefix(segment, i) ==
  LET after(gt) == IF At(segment, i) # "template" \/ At(segment, i + 1) # "<" \/ gt = 0
                   THEN i ELSE AfterParameters(segment, gt)
  IN after(MatchingToken(segment, i + 1, "<", ">"))

TemplateStart(segment) == IF At(segment, 1) = "export" THEN 2 ELSE 1

TemplateEnd(segment) ==
  LET end[i \in 1 .. Len(segment) + 2] ==
        IF AfterPrefix(segment, i) = i THEN i ELSE end[AfterPrefix(segment, i)]
  IN end[TemplateStart(segment)]

IsTemplate(segment) == TemplateEnd(segment) # TemplateStart(segment)

WithoutTemplate(segment) ==
  LET after(end) == IF end = TemplateStart(segment) THEN segment ELSE From(segment, end)
  IN after(TemplateEnd(segment))

-----------------------------------------------------------------------------
(* Namespaces, types and enums. *)

IsNamespace(segment) ==
  /\ "namespace" \in ValueSet(segment)
  /\ "=" \notin ValueSet(From(segment, First(segment, "namespace") + 1))

LeadingName(tokens) ==
  Before(tokens, FirstIn({i \in DOMAIN tokens :
                            ~IsIdentifier(tokens[i]) /\ tokens[i].value # "::"}
                           \union {Len(tokens) + 1}))

NamespaceNames(segment) ==
  LET orAnonymous(names) == IF names = <<>> THEN <<Anonymous>> ELSE names
  IN orAnonymous(NameParts(LeadingName(From(segment, First(segment, "namespace") + 1))))

NamespaceExported(segment) == Comes(segment, "export", First(segment, "namespace"))

(* The last identifier of the class head, which ends at a ":", "{" or ";". *)
ClassHead(tail) ==
  Before(tail, FirstIn({i \in TopLevel(tail, {"paren", "bracket", "angle"}) :
                          tail[i].value \in {":", "{", ";"}} \union {Len(tail) + 1}))

LastName(head) ==
  LET ids == {i \in DOMAIN head : IsIdentifier(head[i]) /\ head[i].value # "final"}
  IN IF ids = {} THEN "" ELSE head[LastIn(ids)].value

TypeName(segment) ==
  LET keys == {i \in DOMAIN segment : IsType(segment[i].value)}
  IN IF keys = {} THEN "" ELSE LastName(ClassHead(From(segment, FirstIn(keys) + 1)))

TypeKey(segment) ==
  segment[FirstIn({i \in DOMAIN segment : IsType(segment[i].value)})].value

IsEnum(segment) == "enum" \in ValueSet(segment)

EnumName(segment) ==
  LET after == First(segment, "enum") + 1
      name  == IF IsType(At(segment, after)) THEN after + 1 ELSE after
  IN IF name \in DOMAIN segment /\ IsIdentifier(segment[name])
     THEN segment[name].value ELSE "<anonymous enum>"

EnumExported(segment) == Comes(segment, "export", First(segment, "enum"))

-----------------------------------------------------------------------------
(* Functions. *)

(* The colon before a constructor's initializers. *)
InitializerColon(segment) ==
  FirstOr0({i \in TopLevel(segment, {"paren", "bracket", "angle"}) :
              /\ segment[i].value = ":"
              /\ At(segment, i - 1) # ":" /\ At(segment, i + 1) # ":"})

(* The last parenthesis that may open a parameter list. *)
LastParen(head) ==
  LastOr0({i \in DOMAIN head :
             /\ i > 1 /\ head[i].value = "("
             /\ head[i - 1].value \notin ControlKeywords
                    \union {"decltype", "sizeof", "alignof", "noexcept"}
             /\ MatchingToken(head, i, "(", ")") # 0})

FunctionParen(segment) ==
  LET head(colon) == IF colon = 0 THEN segment ELSE Before(segment, colon)
  IN LastParen(head(InitializerColon(segment)))

(* Back over explicit "A ::" qualifiers only, never over a return type. *)
NameStart(segment, from) ==
  LET tilde(i) == IF At(segment, i - 1) = "~" THEN i - 1 ELSE i
      start[i \in 1 .. Len(segment)] ==
        IF i > 2 /\ At(segment, i - 1) = "::" /\ IsIdentifier(segment[i - 2])
        THEN start[tilde(i - 2)] ELSE i
  IN start[tilde(from)]

NameEnd(segment, paren) ==
  LET operators == {i \in 1 .. paren - 1 : segment[i].value = "operator"}
  IN IF operators # {} THEN LastIn(operators) ELSE paren - 1

PathBefore(segment, paren) ==
  LET path(last) == IF ~IsIdentifier(segment[last]) THEN <<>>
                    ELSE NameParts(SubSeq(segment, NameStart(segment, last), paren - 1))
  IN IF paren = 0 THEN <<>> ELSE path(NameEnd(segment, paren))

FunctionPath(segment) == PathBefore(segment, FunctionParen(segment))

IsDestructor(segment, paren) ==
  /\ At(segment, paren - 2) = "~"
  /\ "operator" \notin ValueSet(Before(segment, paren))

(* One Identifier(...) on its own is a macro or a call, unless it is the    *)
(* constructor of the type around it.                                      *)
LooksLikeCall(segment, scopes) ==
  /\ FunctionParen(segment) = 2
  /\ IsIdentifier(segment[1])
  /\ segment[1].value # "operator"
  /\ segment[1].value # CurrentTypeName(scopes)

FirstIdentifier(segment) ==
  LET ids == {i \in DOMAIN segment : IsIdentifier(segment[i])}
  IN IF ids = {} THEN "" ELSE segment[FirstIn(ids)].value

IsFunctionPath(path) == path # <<>> /\ path[Len(path)] \notin ControlKeywords

IsFunction(segment, scopes) ==
  /\ ValueSet(segment) \intersect {"namespace", "class", "struct", "enum"} = {}
  /\ FirstIdentifier(segment) \notin ControlKeywords
  /\ IsFunctionPath(FunctionPath(segment))
  /\ ~LooksLikeCall(segment, scopes)

FunctionKind(name, type, destructor) ==
  CASE name = "operator"                                            -> "operator"
    [] name # "operator" /\ destructor                              -> "destructor"
    [] type # "" /\ name = type /\ ~destructor                      -> "constructor"
    [] type # "" /\ name \notin {type, "operator"} /\ ~destructor   -> "method"
    [] OTHER                                                        -> "function"

-----------------------------------------------------------------------------
(* Statements that end in a semicolon and declare nothing. *)

IsMacroInvocation(segment) ==
  Len(segment) > 1 /\ segment[1].value \in MacroNames /\ segment[2].value = "("

IsSkipped(segment) ==
  LET words == SelectSeq(Values(segment), LAMBDA v : v # "export")
  IN \/ segment = <<>>
     \/ words # <<>> /\ words[1] \in SkipPrefixes
     \/ IsMacroInvocation(segment)

(* "using_declaration", "using_directive", "namespace_alias" or "". *)
UsingKind(segment) ==
  CASE At(segment, 1) = "namespace" /\ Len(segment) > 3 /\ At(segment, 3) = "=" ->
         "namespace_alias"
    [] At(segment, 1) = "using" /\ At(segment, 2) = "namespace" /\ Len(segment) > 2 ->
         "using_directive"
    [] /\ At(segment, 1) = "using" /\ Len(segment) > 1
       /\ ~(At(segment, 2) = "namespace" /\ Len(segment) > 2)
       /\ "=" \notin ValueSet(segment) -> "using_declaration"
    [] OTHER -> ""

UsingTarget(segment, scopes) ==
  LET name == CASE UsingKind(segment) = "namespace_alias" -> From(segment, 4)
                [] UsingKind(segment) = "using_directive" -> From(segment, 3)
                [] OTHER -> From(segment, 2)
  IN ScopeRelativeName(name, scopes)
=============================================================================
