---------------------------- MODULE CppModuleScan ----------------------------
(***************************************************************************)
(* scan_module_facts (cpp_module_scan.py): the module declaration, the      *)
(* global and private fragment and the imports of a file, read from its     *)
(* statements, that is, the tokens up to each semicolon. To which fragment  *)
(* an import belongs is told from line numbers once all are known.         *)
(***************************************************************************)
EXTENDS CppTokens

CONSTANTS
  ModuleLines,     \* the lines of a file: sequences of token texts
  MaxModuleLines   \* bound on the length of a file

ASSUME ModuleScanAssumption ==
  /\ ModuleLines \subseteq Seq(STRING)
  /\ MaxModuleLines \in Nat

VARIABLES
  moduleLine,       \* the number of lines read
  pending,          \* the tokens since the last semicolon
  globalFragment,   \* the first "module;", or NoStatement
  declaration,      \* the first module declaration, or NoStatement
  privateFragment,  \* the first "module : private;", or NoStatement
  imports,          \* the import declarations
  duplicates,       \* the kinds of statements warned about
  past              \* history: the kinds of module statements before each import

moduleVars == <<moduleLine, pending, globalFragment, declaration, privateFragment,
                imports, duplicates, past>>

NoStatement == [kind |-> "none"]

-----------------------------------------------------------------------------
(* Statements. *)

Exported(tokens) == At(tokens, 1) = "export"
Rest(tokens) == IF Exported(tokens) THEN Tail(tokens) ELSE tokens

(* Where a.b.c, which begins at "from", ends: after the last pair of "." and *)
(* identifier, or at "from" when no identifier is there.                   *)
IsIdentifierAt(tokens, i) == i \in DOMAIN tokens /\ IsIdentifier(tokens[i])

DottedEnd(tokens, from) ==
  LET continues(i) == At(tokens, i) = "." /\ IsIdentifierAt(tokens, i + 1)
      end[i \in from .. Len(tokens) + 2] == IF continues(i) THEN end[i + 2] ELSE i
  IN IF IsIdentifierAt(tokens, from) THEN end[from + 1] ELSE from

Dotted(tokens, from) == Values(SubSeq(tokens, from, DottedEnd(tokens, from) - 1))

Statement(kind, tokens, name, partition) ==
  [kind |-> kind, exported |-> Exported(tokens), module |-> name,
   partition |-> partition, line |-> Rest(tokens)[1].line,
   end |-> tokens[Len(tokens)].line]

(* parse_module_declaration: NoStatement when it is none.                   *)
ModuleStatement(tokens) ==
  LET rest == Rest(tokens)
      words == Tail(Values(rest))
      name == DottedEnd(rest, 2)
      end  == IF At(rest, name) = ":" THEN DottedEnd(rest, name + 1) ELSE name
      partition == IF At(rest, name) = ":" THEN Dotted(rest, name + 1) ELSE <<>>
  IN CASE At(rest, 1) # "module" -> NoStatement
       [] At(rest, 1) = "module" /\ words = <<";">> ->
            [Statement("global", tokens, <<>>, <<>>) EXCEPT !.exported = FALSE]
       [] At(rest, 1) = "module" /\ words = <<":", "private", ";">> ->
            [Statement("private", tokens, <<>>, <<>>) EXCEPT !.exported = FALSE]
       [] OTHER ->
            IF \/ name = 2 \/ At(rest, end) # ";"
               \/ At(rest, name) = ":" /\ partition = <<>>
            THEN NoStatement
            ELSE Statement("declaration", tokens, Dotted(rest, 2), partition)

ImportStatement(tokens) ==
  LET rest == Rest(tokens)
  IN IF At(rest, 1) # "import" \/ Len(rest) < 3 THEN NoStatement
     ELSE Statement("import", tokens, Values(SubSeq(rest, 2, Len(rest) - 1)), <<>>)

-----------------------------------------------------------------------------
(* One pass over the statements. The first of each kind counts.             *)

Keep(known, found, kind) ==
  IF known = NoStatement /\ found.kind = kind THEN found ELSE known

ModuleScanInit ==
  /\ moduleLine = 0 /\ pending = <<>>
  /\ globalFragment = NoStatement /\ declaration = NoStatement
  /\ privateFragment = NoStatement
  /\ imports = {} /\ duplicates = {} /\ past = <<>>

(* A line ends one statement or none. *)
ModuleScanLine(values) ==
  LET number == moduleLine + 1
      tokens == pending \o [i \in DOMAIN values |-> [value |-> values[i], line |-> number]]
      found  == ModuleStatement(tokens)
      import == ImportStatement(tokens)
      known  == [global |-> globalFragment, declaration |-> declaration,
                 private |-> privateFragment]
  IN /\ moduleLine < MaxModuleLines
     /\ moduleLine' = number
     /\ IF At(tokens, Len(tokens)) # ";"
        THEN /\ pending' = tokens
             /\ UNCHANGED <<globalFragment, declaration, privateFragment, imports,
                            duplicates, past>>
        ELSE /\ pending' = <<>>
             /\ globalFragment' = Keep(globalFragment, found, "global")
             /\ declaration' = Keep(declaration, found, "declaration")
             /\ privateFragment' = Keep(privateFragment, found, "private")
             /\ duplicates' = duplicates \union
                  {k \in DOMAIN known : k = found.kind /\ known[k] # NoStatement}
             /\ past' = IF found = NoStatement THEN past ELSE Append(past, found)
             /\ imports' = IF found = NoStatement /\ import # NoStatement
                           THEN imports \union {[import |-> import, past |-> past]}
                           ELSE imports

ModuleScanNext == \E values \in ModuleLines : ModuleScanLine(values)

ModuleScanSpec == ModuleScanInit /\ [][ModuleScanNext]_moduleVars

-----------------------------------------------------------------------------
(* What the pass found. *)

IsModuleUnit == declaration # NoStatement

UnitKind ==
  IF ~IsModuleUnit THEN "non_module"
  ELSE IF declaration.exported
       THEN IF declaration.partition # <<>> THEN "module_partition_interface"
            ELSE "module_interface"
       ELSE IF declaration.partition # <<>> THEN "module_partition_implementation"
            ELSE "module_implementation"

EndsAtDeclaration == IF IsModuleUnit THEN declaration.line ELSE moduleLine

EndOfGlobalFragment ==
  IF IsModuleUnit
  THEN IF declaration.line - 1 > globalFragment.line
       THEN declaration.line - 1 ELSE globalFragment.line
  ELSE moduleLine

FragmentForLine(at) ==
  CASE globalFragment # NoStatement
         /\ at \in globalFragment.line .. EndOfGlobalFragment -> "global_module_fragment"
    [] (globalFragment # NoStatement => at \notin globalFragment.line .. EndOfGlobalFragment)
         /\ privateFragment # NoStatement
         /\ at \in privateFragment.line .. moduleLine -> "private_module_fragment"
    [] OTHER -> IF IsModuleUnit THEN "module_purview" ELSE "unknown"

ImportKind(target) ==
  CASE target[1] = "<" /\ target[Len(target)] = ">" -> "header_unit_import"
    [] target[1] = "std" /\ (Len(target) > 1 => target[2] = ".") -> "std_import"
    [] target[1] = ":" -> "module_partition_import"
    [] OTHER -> IF /\ target[Len(target)] # "."
                   /\ \A i \in DOMAIN target :
                        (i = 1 \/ target[i - 1] = ".") => target[i] \notin Symbols \union Numbers
                THEN "module_import" ELSE "unknown_import"

(* A partition is one of the module of this file; <<>> is unresolved. *)
ResolvedModule(target) ==
  IF ImportKind(target) # "module_partition_import" THEN target
  ELSE IF IsModuleUnit THEN declaration.module \o target
  ELSE <<>>

ModuleExports ==
  {[kind |-> "export_module_declaration", line |-> s.line] :
     s \in {d \in {declaration} : d # NoStatement /\ d.exported}}
  \union {[kind |-> "export_import", line |-> i.import.line] :
            i \in {j \in imports : j.import.exported}}

-----------------------------------------------------------------------------
(* A file in the order the language asks for: the global fragment, the      *)
(* declaration, the private fragment, each at most once.                   *)
InOrder ==
  LET rank == [global |-> 1, declaration |-> 2, private |-> 3]
  IN /\ \A i, j \in DOMAIN past : i < j => rank[past[i].kind] < rank[past[j].kind]
     /\ past # <<>> => IsModuleUnit

(* An import belongs to the fragment whose statement precedes it: what the  *)
(* code tells from lines is what the order of the statements says.         *)
FragmentByOrder(before) ==
  IF before = <<>> THEN IF IsModuleUnit THEN "module_purview" ELSE "unknown"
  ELSE CASE before[Len(before)].kind = "global" -> "global_module_fragment"
         [] before[Len(before)].kind = "private" -> "private_module_fragment"
         [] OTHER -> "module_purview"

ImportsAreInTheirFragment ==
  InOrder =>
    /\ \A i \in imports : FragmentForLine(i.import.line) = FragmentByOrder(i.past)
    /\ IsModuleUnit => FragmentForLine(declaration.line) = "module_purview"
=============================================================================
