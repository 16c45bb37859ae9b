--------------------------- MODULE CppTextProofs ---------------------------
(***************************************************************************)
(* The two scans of a source file, over files of any length whose lines    *)
(* hold any tokens.                                                        *)
(*                                                                         *)
(* The module scan: the line ranges by which an import is placed agree with *)
(* the order of the statements. The structural scan: in every state that   *)
(* it is in, or that a directive may take it back to, the open scopes are  *)
(* those that the open braces opened.                                      *)
(***************************************************************************)
EXTENDS CppStructuralScan, CppModuleScan, FiniteSetTheorems, SequenceTheorems,
        WellFoundedInduction, TLAPS

(***************************************************************************)
(* The fragments of a module.                                              *)
(***************************************************************************)
TokenRecords == [value : STRING, line : Nat]
ModuleKinds  == {"global", "declaration", "private"}

(* The statements about modules, in the order of their lines.               *)
PastInOrder ==
  /\ \E S : past \in Seq(S)
  /\ \A i \in 1 .. Len(past) : past[i].kind \in ModuleKinds /\ past[i].line \in 1 .. moduleLine
  /\ \A i, j \in 1 .. Len(past) : i < j => past[i].line < past[j].line

(* What is kept of a kind is the first statement of it.                     *)
IsFirst(known, kind) ==
  \/ known = NoStatement /\ \A i \in 1 .. Len(past) : past[i].kind # kind
  \/ \E i \in 1 .. Len(past) : known = past[i] /\ past[i].kind = kind

(* An import lies between the last of those it knows and the next one.      *)
IsBetween(at, k) ==
  /\ at \in 1 .. moduleLine
  /\ \A j \in 1 .. Len(past) : IF j <= k THEN past[j].line < at ELSE at < past[j].line

ImportsAreBetween ==
  \A i \in imports :
    \E k \in 0 .. Len(past) : i.past = SubSeq(past, 1, k) /\ IsBetween(i.import.line, k)

IsLater(at) ==
  /\ \A j \in 1 .. Len(past) : past[j].line < at
  /\ \A i \in imports : i.import.line < at

PendingIsLater ==
  /\ pending \in Seq(TokenRecords)
  /\ \A n \in 1 .. Len(pending) : pending[n].line \in 1 .. moduleLine /\ IsLater(pending[n].line)

ModuleInv ==
  /\ moduleLine \in Nat
  /\ PastInOrder
  /\ IsFirst(globalFragment, "global")
  /\ IsFirst(declaration, "declaration")
  /\ IsFirst(privateFragment, "private")
  /\ ImportsAreBetween
  /\ PendingIsLater

(* A statement stands at the line of one of its tokens.                     *)
StandsIn(statement, tokens) == \E n \in 1 .. Len(tokens) : statement.line = tokens[n].line

LEMMA AtIsThere ==
  ASSUME NEW tokens, NEW i,
         \E word \in {"module", "import", "export"} : At(tokens, i) = word
  PROVE  i \in DOMAIN tokens /\ tokens[i].value = At(tokens, i)
BY Zenon DEF At

LEMMA RestIsOfTokens ==
  ASSUME NEW tokens \in Seq(TokenRecords), At(Rest(tokens), 1) \in {"module", "import"}
  PROVE  \E n \in 1 .. Len(tokens) : Rest(tokens)[1].line = tokens[n].line
<1>1. 1 \in DOMAIN Rest(tokens)
  BY AtIsThere
<1>2. CASE Exported(tokens)
  <2>1. tokens # <<>>
    <3>1. 1 \in DOMAIN tokens
      BY <1>2, AtIsThere DEF Exported
    <3> QED
      BY <3>1
  <2>2. Rest(tokens) = Tail(tokens)
    BY <1>2 DEF Rest
  <2>3. 2 \in 1 .. Len(tokens) /\ Tail(tokens)[1] = tokens[2]
    BY <1>1, <2>1, <2>2
  <2> QED
    BY <2>2, <2>3
<1>3. CASE ~Exported(tokens)
  BY <1>1, <1>3 DEF Rest
<1> QED
  BY <1>2, <1>3

LEMMA KindOfStatement ==
  ASSUME NEW kind, NEW tokens, NEW name, NEW partition
  PROVE  LET s == Statement(kind, tokens, name, partition)
         IN  /\ s.kind = kind /\ s.line = Rest(tokens)[1].line
             /\ [s EXCEPT !.exported = FALSE].kind = kind
             /\ [s EXCEPT !.exported = FALSE].line = Rest(tokens)[1].line
BY DEF Statement

LEMMA ModuleStatements ==
  ASSUME NEW tokens \in Seq(TokenRecords), ModuleStatement(tokens) # NoStatement
  PROVE  /\ ModuleStatement(tokens).kind \in ModuleKinds
         /\ StandsIn(ModuleStatement(tokens), tokens)
<1> DEFINE found == ModuleStatement(tokens)
           rest  == Rest(tokens)
           words == Tail(Values(rest))
           name  == DottedEnd(rest, 2)
           end   == IF At(rest, name) = ":" THEN DottedEnd(rest, name + 1) ELSE name
           partition == IF At(rest, name) = ":" THEN Dotted(rest, name + 1) ELSE <<>>
           isNone    == At(rest, 1) # "module"
           isGlobal  == At(rest, 1) = "module" /\ words = <<";">>
           isPrivate == At(rest, 1) = "module" /\ words = <<":", "private", ";">>
           isOdd     == \/ name = 2 \/ At(rest, end) # ";"
                        \/ At(rest, name) = ":" /\ partition = <<>>
           global == [Statement("global", tokens, <<>>, <<>>) EXCEPT !.exported = FALSE]
           private == [Statement("private", tokens, <<>>, <<>>) EXCEPT !.exported = FALSE]
           other == Statement("declaration", tokens, Dotted(rest, 2), partition)
<1>1. found = CASE isNone -> NoStatement
                [] isGlobal -> global
                [] isPrivate -> private
                [] OTHER -> IF isOdd THEN NoStatement ELSE other
  BY Zenon DEF ModuleStatement
<1>2. ~isNone => At(Rest(tokens), 1) = "module"
  BY Zenon
<1>3. /\ global.kind = "global" /\ global.line = Rest(tokens)[1].line
      /\ private.kind = "private" /\ private.line = Rest(tokens)[1].line
      /\ other.kind = "declaration" /\ other.line = Rest(tokens)[1].line
  <2> HIDE DEF partition, rest
  <2> QED
    BY KindOfStatement
<1>4. isGlobal => ~isNone
  BY Zenon
<1>5. isPrivate => ~isNone
  BY Zenon
<1> HIDE DEF isNone, isGlobal, isPrivate, isOdd, global, private, other
<1>6. ~isNone /\ found \in {global, private, other}
  BY <1>1, <1>4, <1>5
<1> QED
  BY <1>2, <1>3, <1>6, RestIsOfTokens DEF StandsIn, ModuleKinds

LEMMA ImportStatements ==
  ASSUME NEW tokens \in Seq(TokenRecords), ImportStatement(tokens) # NoStatement
  PROVE  StandsIn(ImportStatement(tokens), tokens)
<1>1. At(Rest(tokens), 1) = "import"
  BY DEF ImportStatement
<1>2. \E name : ImportStatement(tokens) = Statement("import", tokens, name, <<>>)
  BY DEF ImportStatement
<1>3. ImportStatement(tokens).line = Rest(tokens)[1].line
  BY <1>2, KindOfStatement
<1> QED
  BY <1>1, <1>3, RestIsOfTokens DEF StandsIn

(* The tokens of the next statement, up to the end of a line.               *)
NextTokens(values) ==
  pending \o [i \in DOMAIN values |-> [value |-> values[i], line |-> moduleLine + 1]]

LEMMA TokensAreLater ==
  ASSUME ModuleInv, NEW values \in Seq(STRING)
  PROVE  /\ NextTokens(values) \in Seq(TokenRecords)
         /\ \A n \in 1 .. Len(NextTokens(values)) :
              /\ NextTokens(values)[n].line \in 1 .. moduleLine + 1
              /\ IsLater(NextTokens(values)[n].line)
<1> DEFINE new == [i \in DOMAIN values |-> [value |-> values[i], line |-> moduleLine + 1]]
           tokens == pending \o new
<1>1. new \in Seq(TokenRecords) /\ Len(new) = Len(values)
  <2>1. DOMAIN values = 1 .. Len(values) /\ Len(values) \in Nat /\ moduleLine + 1 \in Nat
    BY DEF ModuleInv
  <2>2. \A i \in 1 .. Len(values) : values[i] \in STRING
    OBVIOUS
  <2>3. \A i \in 1 .. Len(values) : new[i] \in TokenRecords
    BY <2>1, <2>2 DEF TokenRecords
  <2> QED
    BY <2>1, <2>3
<1>2. pending \in Seq(TokenRecords)
  BY DEF ModuleInv, PendingIsLater
<1>3. \A n \in 1 .. Len(new) : new[n].line = moduleLine + 1
  OBVIOUS
<1>4. IsLater(moduleLine + 1)
  BY DEF ModuleInv, IsLater, PastInOrder, ImportsAreBetween, IsBetween
<1> HIDE DEF new
<1>5. \A n \in 1 .. Len(tokens) :
        \/ n \in 1 .. Len(pending) /\ tokens[n] = pending[n]
        \/ n - Len(pending) \in 1 .. Len(new) /\ tokens[n] = new[n - Len(pending)]
  BY <1>1, <1>2
<1>6. tokens \in Seq(TokenRecords)
  BY <1>1, <1>2
<1>7. \A n \in 1 .. Len(tokens) : tokens[n].line \in 1 .. moduleLine + 1 /\ IsLater(tokens[n].line)
  <2> TAKE n \in 1 .. Len(tokens)
  <2>1. CASE n \in 1 .. Len(pending) /\ tokens[n] = pending[n]
    BY <2>1 DEF ModuleInv, PendingIsLater
  <2>2. CASE n - Len(pending) \in 1 .. Len(new) /\ tokens[n] = new[n - Len(pending)]
    BY <1>3, <1>4, <2>2 DEF ModuleInv
  <2> QED
    BY <1>5, <2>1, <2>2
<1> QED
  BY <1>6, <1>7 DEF NextTokens, new

(* A statement is read: it is the last, and the first of its kind is kept.  *)
LEMMA KeptIsFirst ==
  ASSUME NEW S, past \in Seq(S), NEW found \in S, past' = Append(past, found),
         NEW known, NEW kind, IsFirst(known, kind), NoStatement.kind # kind
  PROVE  LET new == Keep(known, found, kind)
         IN  \/ new = NoStatement /\ \A i \in 1 .. Len(past') : past'[i].kind # kind
             \/ \E i \in 1 .. Len(past') : new = past'[i] /\ past'[i].kind = kind
<1>1. /\ Len(past') = Len(past) + 1 /\ past'[Len(past) + 1] = found
      /\ \A i \in 1 .. Len(past) : past'[i] = past[i]
  OBVIOUS
<1>2. Len(past) \in Nat
  OBVIOUS
<1>3. CASE known = NoStatement /\ \A i \in 1 .. Len(past) : past[i].kind # kind
  BY <1>1, <1>2, <1>3 DEF Keep
<1>4. CASE \E i \in 1 .. Len(past) : known = past[i] /\ past[i].kind = kind
  <2>1. known # NoStatement
    BY <1>4
  <2> QED
    BY <1>1, <1>2, <1>4, <2>1 DEF Keep
<1> QED
  BY <1>3, <1>4 DEF IsFirst

(* A line ends a statement, or the statement goes on.                       *)
GoesOn(values) ==
  /\ pending' = NextTokens(values)
  /\ UNCHANGED <<globalFragment, declaration, privateFragment, imports, duplicates, past>>

Ends(values) ==
  LET found  == ModuleStatement(NextTokens(values))
      import == ImportStatement(NextTokens(values))
  IN /\ pending' = <<>>
     /\ globalFragment' = Keep(globalFragment, found, "global")
     /\ declaration' = Keep(declaration, found, "declaration")
     /\ privateFragment' = Keep(privateFragment, found, "private")
     /\ past' = IF found = NoStatement THEN past ELSE Append(past, found)
     /\ imports' = IF found = NoStatement /\ import # NoStatement
                   THEN imports \union {[import |-> import, past |-> past]}
                   ELSE imports

LEMMA LinesGoOnOrEnd ==
  ASSUME NEW values, ModuleScanLine(values)
  PROVE  moduleLine' = moduleLine + 1 /\ (GoesOn(values) \/ Ends(values))
BY Zenon DEF ModuleScanLine, NextTokens, GoesOn, Ends

LEMMA LinesGoOn ==
  ASSUME ModuleInv, NEW values \in Seq(STRING), moduleLine' = moduleLine + 1, GoesOn(values)
  PROVE  ModuleInv'
<1>1. moduleLine' \in Nat /\ \A n \in 1 .. moduleLine : n \in 1 .. moduleLine'
  BY DEF ModuleInv
<1>2. PastInOrder'
  BY <1>1 DEF ModuleInv, PastInOrder, GoesOn
<1>3. IsFirst(globalFragment, "global")' /\ IsFirst(declaration, "declaration")'
      /\ IsFirst(privateFragment, "private")'
  BY DEF ModuleInv, IsFirst, GoesOn
<1>4. ImportsAreBetween'
  BY <1>1 DEF ModuleInv, ImportsAreBetween, IsBetween, GoesOn
<1>5. PendingIsLater'
  BY TokensAreLater DEF PendingIsLater, GoesOn, IsLater
<1> QED
  BY <1>1, <1>2, <1>3, <1>4, <1>5 DEF ModuleInv

LEMMA StatementsEnd ==
  ASSUME ModuleInv, NEW values \in Seq(STRING), moduleLine' = moduleLine + 1, Ends(values)
  PROVE  ModuleInv'
<1> DEFINE tokens == NextTokens(values)
           found  == ModuleStatement(tokens)
           import == ImportStatement(tokens)
<1>1. moduleLine' \in Nat /\ \A n \in 1 .. moduleLine : n \in 1 .. moduleLine'
  BY DEF ModuleInv
<1>2. ASSUME NEW statement, StandsIn(statement, tokens)
      PROVE  statement.line \in 1 .. moduleLine' /\ IsLater(statement.line)
  BY <1>2, TokensAreLater DEF StandsIn
<1>3. PendingIsLater'
  BY DEF Ends, PendingIsLater
<1>4. PICK S : past \in Seq(S) /\ found \in S
  <2>1. PICK T : past \in Seq(T)
    BY DEF ModuleInv, PastInOrder
  <2>2. past \in Seq(T \union {found})
    BY <2>1
  <2> QED
    BY <2>2
<1>5. NoStatement.kind = "none"
  BY DEF NoStatement
<1>6. CASE found = NoStatement
  <2>1. past' = past /\ globalFragment' = globalFragment /\ declaration' = declaration
        /\ privateFragment' = privateFragment
    BY <1>5, <1>6, Zenon DEF Ends, Keep
  <2>2. PastInOrder'
    BY <1>1, <2>1 DEF ModuleInv, PastInOrder
  <2>3. IsFirst(globalFragment, "global")' /\ IsFirst(declaration, "declaration")'
        /\ IsFirst(privateFragment, "private")'
    BY <2>1 DEF ModuleInv, IsFirst
  <2>4. ImportsAreBetween'
    <3> SUFFICES ASSUME NEW i \in imports'
                 PROVE  \E k \in 0 .. Len(past) :
                          i.past = SubSeq(past, 1, k) /\ IsBetween(i.import.line, k)'
      BY <2>1 DEF ImportsAreBetween
    <3>1. CASE i \in imports
      BY <1>1, <2>1, <3>1 DEF ModuleInv, ImportsAreBetween, IsBetween
    <3>2. CASE i = [import |-> import, past |-> past] /\ import # NoStatement
      <4>1. import.line \in 1 .. moduleLine' /\ IsLater(import.line)
        BY <1>2, <3>2, TokensAreLater, ImportStatements
      <4>2. PICK k \in 0 .. Len(past) : k = Len(past) /\ past = SubSeq(past, 1, k)
        BY <1>4
      <4>3. i.import.line \in 1 .. moduleLine' /\ IsLater(i.import.line) /\ i.past = past
        BY <3>2, <4>1
      <4>4. IsBetween(i.import.line, k)'
        BY <2>1, <4>2, <4>3 DEF IsBetween, IsLater
      <4> QED
        BY <4>2, <4>3, <4>4
    <3> QED
      BY <1>6, <3>1, <3>2 DEF Ends
  <2> QED
    BY <1>1, <1>3, <2>2, <2>3, <2>4 DEF ModuleInv
<1>7. CASE found # NoStatement
  <2>1. past' = Append(past, found) /\ imports' = imports
    BY <1>7, Zenon DEF Ends
  <2>2. found.kind \in ModuleKinds /\ found.line \in 1 .. moduleLine' /\ IsLater(found.line)
    BY <1>2, <1>7, TokensAreLater, ModuleStatements
  <2>3. /\ Len(past') = Len(past) + 1 /\ past'[Len(past) + 1] = found
        /\ \A i \in 1 .. Len(past) : past'[i] = past[i]
        /\ Len(past) \in Nat /\ past' \in Seq(S)
    BY <1>4, <2>1
  <2> HIDE DEF found
  <2>4. PastInOrder'
    <3>1. \A i \in 1 .. Len(past') :
            past'[i].kind \in ModuleKinds /\ past'[i].line \in 1 .. moduleLine'
      <4> TAKE i \in 1 .. Len(past')
      <4>1. CASE i \in 1 .. Len(past)
        BY <1>1, <2>3, <4>1 DEF ModuleInv, PastInOrder
      <4>2. CASE i = Len(past) + 1
        BY <2>2, <2>3, <4>2
      <4> QED
        BY <2>3, <4>1, <4>2
    <3>2. \A i, j \in 1 .. Len(past') : i < j => past'[i].line < past'[j].line
      <4> TAKE i, j \in 1 .. Len(past')
      <4>1. CASE j \in 1 .. Len(past)
        <5>1. i < j => i \in 1 .. Len(past)
          BY <2>3, <4>1
        <5> QED
          BY <2>3, <4>1, <5>1 DEF ModuleInv, PastInOrder
      <4>2. CASE j = Len(past) + 1
        <5>1. i < j => i \in 1 .. Len(past)
          BY <2>3, <4>2
        <5> QED
          BY <2>2, <2>3, <4>2, <5>1 DEF IsLater
      <4>3. j \in 1 .. Len(past) \/ j = Len(past) + 1
        BY <2>3
      <4> QED
        BY <4>1, <4>2, <4>3, Zenon
    <3> QED
      BY <2>3, <3>1, <3>2 DEF PastInOrder
  <2>5. /\ globalFragment' = Keep(globalFragment, found, "global")
        /\ declaration' = Keep(declaration, found, "declaration")
        /\ privateFragment' = Keep(privateFragment, found, "private")
    BY DEF Ends, found
  <2>6. IsFirst(globalFragment, "global")'
    BY <1>4, <1>5, <2>1, <2>5, KeptIsFirst DEF ModuleInv, IsFirst
  <2>7. IsFirst(declaration, "declaration")'
    BY <1>4, <1>5, <2>1, <2>5, KeptIsFirst DEF ModuleInv, IsFirst
  <2>8. IsFirst(privateFragment, "private")'
    BY <1>4, <1>5, <2>1, <2>5, KeptIsFirst DEF ModuleInv, IsFirst
  <2>9. ImportsAreBetween'
    <3> SUFFICES ASSUME NEW i \in imports
                 PROVE  \E k \in 0 .. Len(past') :
                          i.past = SubSeq(past', 1, k) /\ IsBetween(i.import.line, k)'
      BY <2>1 DEF ImportsAreBetween
    <3>1. PICK k \in 0 .. Len(past) : i.past = SubSeq(past, 1, k) /\ IsBetween(i.import.line, k)
      BY DEF ModuleInv, ImportsAreBetween
    <3>2. k \in 0 .. Len(past') /\ SubSeq(past, 1, k) = SubSeq(past', 1, k)
      BY <1>4, <2>3
    <3>3. i.import.line < found.line
      BY <2>2 DEF IsLater
    <3>4. IsBetween(i.import.line, k)'
      <4>1. i.import.line \in 1 .. moduleLine'
        BY <1>1, <3>1 DEF IsBetween
      <4>2. ASSUME NEW j \in 1 .. Len(past')
            PROVE  IF j <= k THEN past'[j].line < i.import.line ELSE i.import.line < past'[j].line
        <5>1. CASE j \in 1 .. Len(past)
          BY <2>3, <3>1, <5>1 DEF IsBetween
        <5>2. CASE j = Len(past) + 1
          BY <2>3, <3>3, <5>2
        <5> QED
          BY <2>3, <5>1, <5>2
      <4> QED
        BY <4>1, <4>2 DEF IsBetween
    <3> QED
      BY <3>1, <3>2, <3>4
  <2> QED
    BY <1>1, <1>3, <2>4, <2>6, <2>7, <2>8, <2>9 DEF ModuleInv
<1> QED
  BY <1>6, <1>7

LEMMA ModuleScanned == ModuleScanSpec => []ModuleInv
<1>1. ModuleScanInit => ModuleInv
  BY DEF ModuleScanInit, ModuleInv, PastInOrder, IsFirst, ImportsAreBetween, PendingIsLater
<1>2. ModuleInv /\ [ModuleScanNext]_moduleVars => ModuleInv'
  <2> SUFFICES ASSUME ModuleInv, [ModuleScanNext]_moduleVars PROVE ModuleInv'
    OBVIOUS
  <2>1. ASSUME NEW values \in ModuleLines, ModuleScanLine(values) PROVE ModuleInv'
    BY <2>1, ModuleScanAssumption, LinesGoOnOrEnd, LinesGoOn, StatementsEnd
  <2>2. CASE UNCHANGED moduleVars
    BY <2>2 DEF moduleVars, ModuleInv, PastInOrder, IsFirst, ImportsAreBetween, IsBetween,
                PendingIsLater, IsLater
  <2> QED
    BY <2>1, <2>2 DEF ModuleScanNext
<1> QED
  BY <1>1, <1>2, PTL DEF ModuleScanSpec

(* The two ranges of lines that the code compares a line with.              *)
InGlobal(at) ==
  globalFragment # NoStatement /\ at \in globalFragment.line .. EndOfGlobalFragment
InPrivate(at) ==
  privateFragment # NoStatement /\ at \in privateFragment.line .. moduleLine
Outside == IF IsModuleUnit THEN "module_purview" ELSE "unknown"

LEMMA FragmentOfLine ==
  ASSUME NEW at
  PROVE  FragmentForLine(at) = IF InGlobal(at) THEN "global_module_fragment"
                               ELSE IF InPrivate(at) THEN "private_module_fragment"
                               ELSE Outside
<1> DEFINE g == globalFragment # NoStatement
           l == at \in globalFragment.line .. EndOfGlobalFragment
           p == privateFragment # NoStatement
           r == at \in privateFragment.line .. moduleLine
<1>1. FragmentForLine(at) = CASE g /\ l -> "global_module_fragment"
                              [] (g => ~l) /\ p /\ r -> "private_module_fragment"
                              [] OTHER -> Outside
  BY Zenon DEF FragmentForLine, Outside
<1>2. (InGlobal(at) <=> g /\ l) /\ (InPrivate(at) <=> p /\ r)
  BY DEF InGlobal, InPrivate
<1> HIDE DEF g, l, p, r
<1> QED
  BY <1>1, <1>2

(* In a file in the order that the language asks for, what is kept of a     *)
(* kind is the only statement of it, and the kinds follow each other.       *)
Places(i, j) ==
  /\ past[i].kind = past[j].kind => i = j
  /\ past[i].kind = "global" /\ past[j].kind # "global" => i < j
  /\ past[i].kind # "private" /\ past[j].kind = "private" => i < j

LEMMA StatementsInPlace ==
  ASSUME ModuleInv, InOrder
  PROVE  /\ \A i, j \in 1 .. Len(past) : Places(i, j)
         /\ past # <<>> => IsModuleUnit
<1> DEFINE rank == [global |-> 1, declaration |-> 2, private |-> 3]
<1>1. /\ \A i, j \in 1 .. Len(past) : i < j => rank[past[i].kind] < rank[past[j].kind]
      /\ past # <<>> => IsModuleUnit
  <2>1. DOMAIN past = 1 .. Len(past)
    BY DEF ModuleInv, PastInOrder
  <2> QED
    BY <2>1 DEF InOrder
<1>2. rank["global"] = 1 /\ rank["declaration"] = 2 /\ rank["private"] = 3
  OBVIOUS
<1> HIDE DEF rank
<1>3. \A i \in 1 .. Len(past) : past[i].kind \in {"global", "declaration", "private"}
  BY DEF ModuleInv, PastInOrder, ModuleKinds
<1>4. ASSUME NEW i \in 1 .. Len(past), NEW j \in 1 .. Len(past) PROVE Places(i, j)
  <2>1. rank[past[i].kind] \in 1 .. 3 /\ rank[past[j].kind] \in 1 .. 3
    BY <1>2, <1>3
  <2>2. i < j \/ i = j \/ j < i
    OBVIOUS
  <2> QED
    BY <1>1, <1>2, <1>3, <2>1, <2>2 DEF Places
<1> QED
  BY <1>1, <1>4

KeptIs(known, kind, i) == known = past[i] /\ past[i].kind = kind

LEMMA KeptAreOnly ==
  ASSUME ModuleInv, InOrder,
         NEW known, NEW kind \in ModuleKinds, IsFirst(known, kind)
  PROVE  /\ known # NoStatement => \E i \in 1 .. Len(past) : KeptIs(known, kind, i)
         /\ \A i \in 1 .. Len(past) :
              past[i].kind = kind => known # NoStatement /\ KeptIs(known, kind, i)
<1>1. NoStatement.kind \notin ModuleKinds
  BY DEF NoStatement, ModuleKinds
<1>2. \A i, j \in 1 .. Len(past) : past[i].kind = past[j].kind => i = j
  BY StatementsInPlace DEF Places
<1> QED
  BY <1>1, <1>2 DEF IsFirst, KeptIs

LEMMA BetweenIsGlobal ==
  ASSUME ModuleInv, InOrder, NEW at, NEW k \in 0 .. Len(past), IsBetween(at, k)
  PROVE  InGlobal(at) <=> (k # 0 /\ past[k].kind = "global")
<1>1. /\ \A i \in 1 .. Len(past) : past[i].kind \in ModuleKinds /\ past[i].line \in Nat
      /\ moduleLine \in Nat /\ at \in Nat /\ Len(past) \in Nat
  BY DEF ModuleInv, PastInOrder, IsBetween
<1>2. CASE k # 0 /\ past[k].kind = "global"
  <2>1. globalFragment # NoStatement /\ globalFragment = past[k]
    BY <1>2, KeptAreOnly DEF ModuleInv, KeptIs, ModuleKinds
  <2>2. PICK d \in 1 .. Len(past) : declaration = past[d] /\ past[d].kind = "declaration"
    <3>1. declaration # NoStatement
      BY <1>2, StatementsInPlace DEF IsModuleUnit
    <3> QED
      BY <3>1, KeptAreOnly DEF ModuleInv, KeptIs, ModuleKinds
  <2>3. k < d
    BY <1>2, <2>2, StatementsInPlace DEF Places
  <2>4. past[k].line < at /\ at < past[d].line
    BY <1>2, <2>2, <2>3 DEF IsBetween
  <2>5. IsModuleUnit
    BY <1>2, StatementsInPlace
  <2>6. at <= EndOfGlobalFragment /\ EndOfGlobalFragment \in Int
    <3>1. past[k].line \in Nat /\ past[d].line \in Nat
      BY <1>1, <1>2
    <3>2. EndOfGlobalFragment = IF past[d].line - 1 > past[k].line
                                THEN past[d].line - 1 ELSE past[k].line
      BY <2>1, <2>2, <2>5, Zenon DEF EndOfGlobalFragment
    <3>3. \A a, b \in Nat : a < at /\ at < b =>
            LET e == IF b - 1 > a THEN b - 1 ELSE a IN at <= e /\ e \in Int
      BY <1>1
    <3> QED
      BY <2>4, <3>1, <3>2, <3>3
  <2> QED
    BY <1>1, <1>2, <2>1, <2>4, <2>6 DEF InGlobal
<1>3. CASE k = 0 \/ past[k].kind # "global"
  <2> SUFFICES ASSUME InGlobal(at) PROVE FALSE
    BY <1>3
  <2>1. PICK g \in 1 .. Len(past) : globalFragment = past[g] /\ past[g].kind = "global"
    BY KeptAreOnly DEF ModuleInv, KeptIs, ModuleKinds, InGlobal
  <2>2. PICK d \in 1 .. Len(past) : declaration = past[d] /\ past[d].kind = "declaration"
    <3>1. declaration # NoStatement
      BY <2>1, StatementsInPlace DEF IsModuleUnit
    <3> QED
      BY <3>1, KeptAreOnly DEF ModuleInv, KeptIs, ModuleKinds
  <2>3. IsModuleUnit
    BY <2>1, StatementsInPlace
  <2>4. past[g].line <= at /\ (at <= past[d].line - 1 \/ at <= past[g].line)
    BY <1>1, <2>1, <2>2, <2>3 DEF InGlobal, EndOfGlobalFragment
  <2>5. g <= k
    BY <1>1, <2>4 DEF IsBetween
  <2>6. past[g].line < at
    BY <2>5 DEF IsBetween
  <2>7. k < d
    <3>1. at < past[d].line
      <4>1. past[g].line \in Nat /\ past[d].line \in Nat
        BY <1>1
      <4>2. \A a, b \in Nat : a < at /\ (at <= b - 1 \/ at <= a) => at < b
        BY <1>1
      <4> QED
        BY <2>4, <2>6, <4>1, <4>2
    <3>2. d <= k => past[d].line < at
      BY DEF IsBetween
    <3> QED
      <4>1. past[d].line \in Nat
        BY <1>1
      <4> QED
        BY <1>1, <3>1, <3>2, <4>1
  <2>8. k \in 1 .. Len(past) /\ past[k].kind # "global" /\ past[k].kind \in ModuleKinds
    <3>1. k \in 1 .. Len(past)
      BY <2>5
    <3> QED
      BY <1>1, <1>3, <3>1
  <2>9. past[k].kind = "declaration" => k = d
    BY <2>2, <2>8, StatementsInPlace DEF Places
  <2>10. past[k].kind = "private" => d < k
    BY <2>2, <2>8, StatementsInPlace DEF Places
  <2> QED
    BY <2>7, <2>8, <2>9, <2>10 DEF ModuleKinds
<1> QED
  BY <1>2, <1>3

LEMMA BetweenIsPrivate ==
  ASSUME ModuleInv, InOrder, NEW at, NEW k \in 0 .. Len(past), IsBetween(at, k)
  PROVE  InPrivate(at) <=> (k # 0 /\ past[k].kind = "private")
<1>1. /\ \A i \in 1 .. Len(past) : past[i].kind \in ModuleKinds /\ past[i].line \in Nat
      /\ moduleLine \in Nat /\ at \in Nat /\ Len(past) \in Nat
  BY DEF ModuleInv, PastInOrder, IsBetween
<1>2. CASE k # 0 /\ past[k].kind = "private"
  <2>1. privateFragment # NoStatement /\ privateFragment = past[k]
    BY <1>2, KeptAreOnly DEF ModuleInv, KeptIs, ModuleKinds
  <2> QED
    BY <1>1, <1>2, <2>1 DEF InPrivate, IsBetween
<1>3. CASE k = 0 \/ past[k].kind # "private"
  <2> SUFFICES ASSUME InPrivate(at) PROVE FALSE
    BY <1>3
  <2>1. PICK p \in 1 .. Len(past) : privateFragment = past[p] /\ past[p].kind = "private"
    BY KeptAreOnly DEF ModuleInv, KeptIs, ModuleKinds, InPrivate
  <2>2. p <= k
    BY <1>1, <2>1 DEF InPrivate, IsBetween
  <2>3. k \in 1 .. Len(past) /\ past[k].kind # "private"
    BY <1>3, <2>2
  <2>4. k < p
    BY <2>1, <2>3, StatementsInPlace DEF Places
  <2> QED
    BY <2>2, <2>4
<1> QED
  BY <1>2, <1>3

(* For any lines of any file: in a file in the order that the language asks *)
(* for, an import is told, from line numbers, to be in the fragment whose   *)
(* statement precedes it, and the declaration to be in the purview.         *)
THEOREM ImportsAreInPlace == ModuleScanSpec => []ImportsAreInTheirFragment
<1>1. ModuleInv => ImportsAreInTheirFragment
  <2> SUFFICES ASSUME ModuleInv, InOrder PROVE ImportsAreInTheirFragment
    BY DEF ImportsAreInTheirFragment
  <2>1. ASSUME NEW i \in imports
        PROVE  FragmentForLine(i.import.line) = FragmentByOrder(i.past)
    <3>1. PICK k \in 0 .. Len(past) : i.past = SubSeq(past, 1, k) /\ IsBetween(i.import.line, k)
      BY DEF ModuleInv, ImportsAreBetween
    <3>2. PICK S : past \in Seq(S)
      BY DEF ModuleInv, PastInOrder
    <3>3. CASE k = 0
      <4>1. i.past = <<>>
        BY <3>1, <3>2, <3>3
      <4>2. FragmentByOrder(i.past) = Outside
        BY <4>1 DEF FragmentByOrder, Outside
      <4> QED
        BY <3>1, <3>3, <4>2, BetweenIsGlobal, BetweenIsPrivate, FragmentOfLine
    <3>4. CASE k # 0
      <4>1. i.past # <<>> /\ i.past[Len(i.past)] = past[k]
        BY <3>1, <3>2, <3>4
      <4>2. FragmentByOrder(i.past) = CASE past[k].kind = "global" -> "global_module_fragment"
                                        [] past[k].kind = "private" -> "private_module_fragment"
                                        [] OTHER -> "module_purview"
        BY <4>1, Zenon DEF FragmentByOrder
      <4>3. Outside = "module_purview"
        <5>1. past # <<>>
          BY <3>4
        <5> QED
          BY <5>1, StatementsInPlace DEF Outside
      <4> QED
        BY <3>1, <3>4, <4>2, <4>3, BetweenIsGlobal, BetweenIsPrivate, FragmentOfLine
    <3> QED
      BY <3>3, <3>4
  <2>2. IsModuleUnit => FragmentForLine(declaration.line) = "module_purview"
    <3> SUFFICES ASSUME IsModuleUnit PROVE FragmentForLine(declaration.line) = "module_purview"
      OBVIOUS
    <3>1. PICK d \in 1 .. Len(past) : declaration = past[d] /\ past[d].kind = "declaration"
      BY KeptAreOnly DEF ModuleInv, KeptIs, ModuleKinds, IsModuleUnit
    <3>2. \A i \in 1 .. Len(past) : past[i].line \in Nat
      BY DEF ModuleInv, PastInOrder
    <3>3. ~InGlobal(declaration.line)
      <4> SUFFICES ASSUME InGlobal(declaration.line) PROVE FALSE
        OBVIOUS
      <4>1. PICK g \in 1 .. Len(past) : globalFragment = past[g] /\ past[g].kind = "global"
        BY KeptAreOnly DEF ModuleInv, KeptIs, ModuleKinds, InGlobal
      <4>2. g < d
        BY <3>1, <4>1, StatementsInPlace DEF Places
      <4>3. past[g].line < past[d].line
        BY <4>2 DEF ModuleInv, PastInOrder
      <4> QED
        BY <3>1, <3>2, <4>1, <4>3 DEF InGlobal, EndOfGlobalFragment
    <3>4. ~InPrivate(declaration.line)
      <4> SUFFICES ASSUME InPrivate(declaration.line) PROVE FALSE
        OBVIOUS
      <4>1. PICK p \in 1 .. Len(past) : privateFragment = past[p] /\ past[p].kind = "private"
        BY KeptAreOnly DEF ModuleInv, KeptIs, ModuleKinds, InPrivate
      <4>2. d < p
        BY <3>1, <4>1, StatementsInPlace DEF Places
      <4>3. past[d].line < past[p].line
        BY <4>2 DEF ModuleInv, PastInOrder
      <4> QED
        BY <3>1, <3>2, <4>1, <4>3 DEF InPrivate
    <3> QED
      BY <3>3, <3>4, FragmentOfLine DEF Outside
  <2> QED
    BY <2>1, <2>2 DEF ImportsAreInTheirFragment
<1> QED
  BY <1>1, ModuleScanned, PTL

-----------------------------------------------------------------------------
(***************************************************************************)
(* The structural scan.                                                    *)
(***************************************************************************)
LEMMA LeastNatural ==
  ASSUME NEW S \in SUBSET Nat, S # {} PROVE \E x \in S : \A y \in S : x <= y
<1>1. PICK x \in S : \A y \in S : <<y, x>> \notin OpToRel(<, Nat)
  BY NatLessThanWellFounded, WFMin, Zenon
<1>2. \A y \in S : ~(y < x)
  BY <1>1, Zenon DEF OpToRel
<1> QED
  BY <1>2

LEMMA FirstIsIn ==
  ASSUME NEW S \in SUBSET Nat, S # {}
  PROVE  FirstIn(S) \in S /\ \A j \in S : FirstIn(S) <= j
BY LeastNatural, Zenon DEF FirstIn

-----------------------------------------------------------------------------
(* A recursive function that only asks for greater arguments has values.    *)
Follows(f, next, n) == f = [i \in 1 .. n |-> IF next[i] = i THEN i ELSE f[next[i]]]

FollowsFrom(f, next, n, m) ==
  \A i \in 1 .. n : i > n - m => f[i] = IF next[i] = i THEN i ELSE f[next[i]]

LEMMA ForwardIsFunction ==
  ASSUME NEW n \in Nat, NEW next \in [1 .. n -> 1 .. n], \A i \in 1 .. n : next[i] >= i
  PROVE  \E f : Follows(f, next, n)
<1> DEFINE Bad == {m \in Nat : m <= n /\ ~\E f \in [1 .. n -> Nat] : FollowsFrom(f, next, n, m)}
<1>1. \E f \in [1 .. n -> Nat] : FollowsFrom(f, next, n, 0)
  <2>1. [i \in 1 .. n |-> 0] \in [1 .. n -> Nat]
    OBVIOUS
  <2>2. \A f : FollowsFrom(f, next, n, 0)
    BY DEF FollowsFrom
  <2> QED
    BY <2>1, <2>2, Zenon
<1>2. ASSUME NEW m \in Nat, m < n, NEW f \in [1 .. n -> Nat], FollowsFrom(f, next, n, m)
      PROVE  \E g \in [1 .. n -> Nat] : FollowsFrom(g, next, n, m + 1)
  <2> DEFINE at == n - m
             g  == [f EXCEPT ![at] = IF next[at] = at THEN at ELSE f[next[at]]]
  <2>1. at \in 1 .. n
    BY <1>2
  <2>2. g \in [1 .. n -> Nat]
    BY <2>1
  <2>3. ASSUME NEW i \in 1 .. n, i > at
        PROVE  g[i] = IF next[i] = i THEN i ELSE g[next[i]]
    <3>1. g[i] = f[i] /\ next[i] # at /\ next[i] \in 1 .. n
      BY <2>1, <2>3
    <3>2. g[next[i]] = f[next[i]]
      BY <2>1, <3>1
    <3> QED
      BY <1>2, <2>3, <3>1, <3>2 DEF FollowsFrom
  <2>4. g[at] = IF next[at] = at THEN at ELSE g[next[at]]
    BY <2>1
  <2>5. \A i \in 1 .. n : i > n - (m + 1) => i = at \/ i > at
    OBVIOUS
  <2> HIDE DEF g, at
  <2>6. FollowsFrom(g, next, n, m + 1)
    BY <2>3, <2>4, <2>5 DEF FollowsFrom
  <2> QED
    BY <2>2, <2>6
<1>3. Bad = {}
  <2> SUFFICES ASSUME Bad # {} PROVE FALSE
    OBVIOUS
  <2>1. PICK m \in Bad : \A k \in Bad : m <= k
    BY LeastNatural, Zenon
  <2>2. m # 0
    BY <1>1, <2>1, Zenon
  <2>3. m \in Nat /\ m <= n /\ m - 1 \in Nat /\ m - 1 < n /\ (m - 1) + 1 = m
    BY <2>1, <2>2
  <2>4. m - 1 \notin Bad
    <3>1. ~(m <= m - 1)
      BY <2>3
    <3> QED
      BY <2>1, <3>1, Zenon
  <2>5. \E f \in [1 .. n -> Nat] : FollowsFrom(f, next, n, m - 1)
    <3>1. m - 1 <= n
      BY <2>3
    <3> QED
      BY <2>3, <2>4, <3>1, Zenon
  <2>6. \E f \in [1 .. n -> Nat] : FollowsFrom(f, next, n, m)
    BY <1>2, <2>3, <2>5, Zenon
  <2> QED
    BY <2>1, <2>6, Zenon
<1>4. PICK f \in [1 .. n -> Nat] : FollowsFrom(f, next, n, n)
  <2>1. n <= n
    OBVIOUS
  <2> QED
    BY <1>3, <2>1, Zenon
<1>5. \A i \in 1 .. n : f[i] = IF next[i] = i THEN i ELSE f[next[i]]
  BY <1>4 DEF FollowsFrom
<1>6. f = [i \in 1 .. n |-> f[i]]
  OBVIOUS
<1>7. Follows(f, next, n)
  BY <1>5, <1>6, Zenon DEF Follows
<1> QED
  BY <1>7

LEMMA ForwardStaysIn ==
  ASSUME NEW n \in Nat, NEW next \in [1 .. n -> 1 .. n], \A i \in 1 .. n : next[i] >= i,
         NEW f, Follows(f, next, n)
  PROVE  \A i \in 1 .. n : f[i] \in i .. n
<1> DEFINE Bad == {m \in Nat : m <= n /\ \E i \in 1 .. n : i = n - m /\ f[i] \notin i .. n}
<1>1. \A i \in 1 .. n : f[i] = IF next[i] = i THEN i ELSE f[next[i]]
  BY DEF Follows
<1>2. Bad = {}
  <2> SUFFICES ASSUME Bad # {} PROVE FALSE
    OBVIOUS
  <2>1. PICK m \in Bad : \A k \in Bad : m <= k
    BY LeastNatural, Zenon
  <2>2. PICK i \in 1 .. n : i = n - m /\ f[i] \notin i .. n
    BY <2>1
  <2>3. i \in i .. n
    OBVIOUS
  <2>4. next[i] # i
    BY <1>1, <2>2, <2>3
  <2>5. f[i] = f[next[i]]
    BY <1>1, <2>4
  <2>6. PICK k \in 1 .. n : k = next[i]
    OBVIOUS
  <2>7. k > i
    BY <2>4, <2>6
  <2>8. f[k] \notin k .. n
    <3>1. \A y : y \in k .. n => y \in i .. n
      BY <2>7
    <3>2. f[i] = f[k]
      BY <2>5, <2>6, Zenon
    <3> QED
      BY <2>2, <3>1, <3>2, Zenon
  <2>9. n - k \in Nat /\ n - k <= n /\ k = n - (n - k)
    OBVIOUS
  <2>10. n - k \in Bad
    BY <2>6, <2>8, <2>9, Zenon
  <2>11. m \in Nat /\ ~(m <= n - k)
    BY <2>1, <2>2, <2>7
  <2> QED
    BY <2>1, <2>10, <2>11, Zenon
<1>3. ASSUME NEW i \in 1 .. n PROVE f[i] \in i .. n
  <2>1. n - i \in Nat /\ n - i <= n /\ i = n - (n - i)
    OBVIOUS
  <2> QED
    BY <1>2, <2>1, Zenon
<1> QED
  BY <1>3

-----------------------------------------------------------------------------
(* Where the template prefixes of a statement end. *)
IsText(tokens) == tokens \in Seq([value : STRING, line : Nat])

LEMMA FirstOrNothing ==
  ASSUME NEW S \in SUBSET Nat PROVE FirstOr0(S) \in {0} \union S
BY FirstIsIn, Zenon DEF FirstOr0

LEMMA MatchIsBehind ==
  ASSUME NEW tokens, Len(tokens) \in Nat, NEW from \in Nat, NEW open, NEW close
  PROVE  MatchingToken(tokens, from, open, close) \in {0} \union (from .. Len(tokens))
<1> DEFINE Count(v, i) == Cardinality({j \in from .. i : tokens[j].value = v})
           S == {i \in from .. Len(tokens) : /\ tokens[i].value = close
                                             /\ Count(open, i) = Count(close, i)}
<1>1. MatchingToken(tokens, from, open, close) = FirstOr0(S)
  BY DEF MatchingToken
<1>2. S \in SUBSET Nat /\ S \subseteq from .. Len(tokens)
  OBVIOUS
<1> HIDE DEF S
<1> QED
  BY <1>1, <1>2, FirstOrNothing, Zenon

LEMMA ParametersEnd ==
  ASSUME NEW segment, Len(segment) \in Nat, NEW gt \in 1 .. Len(segment)
  PROVE  AfterParameters(segment, gt) \in gt + 1 .. Len(segment) + 1
<1> DEFINE S == {j \in gt + 2 .. Len(segment) : segment[j].value \in RequiresStops}
                  \union {Len(segment) + 1}
<1>1. S \in SUBSET Nat /\ S # {} /\ S \subseteq gt + 1 .. Len(segment) + 1
  OBVIOUS
<1>2. AfterParameters(segment, gt) = gt + 1 \/ AfterParameters(segment, gt) = FirstIn(S)
  BY Zenon DEF AfterParameters
<1> HIDE DEF S
<1>3. FirstIn(S) \in gt + 1 .. Len(segment) + 1
  BY <1>1, FirstIsIn, Zenon
<1>4. gt + 1 \in gt + 1 .. Len(segment) + 1
  OBVIOUS
<1> QED
  BY <1>2, <1>3, <1>4, Zenon

LEMMA PrefixGoesOn ==
  ASSUME NEW segment, Len(segment) \in Nat, NEW i \in 1 .. Len(segment) + 2
  PROVE  AfterPrefix(segment, i) \in i .. Len(segment) + 2
<1> DEFINE gt == MatchingToken(segment, i + 1, "<", ">")
<1>1. \/ AfterPrefix(segment, i) = i
      \/ gt # 0 /\ AfterPrefix(segment, i) = AfterParameters(segment, gt)
  BY Zenon DEF AfterPrefix
<1>2. gt \in {0} \union (i + 1 .. Len(segment))
  <2>1. i + 1 \in Nat
    OBVIOUS
  <2> QED
    BY <2>1, MatchIsBehind, Zenon
<1> HIDE DEF gt
<1>3. CASE AfterPrefix(segment, i) = i
  BY <1>3
<1>4. CASE gt # 0 /\ AfterPrefix(segment, i) = AfterParameters(segment, gt)
  <2>1. gt \in 1 .. Len(segment) /\ gt >= i
    BY <1>2, <1>4
  <2>2. AfterPrefix(segment, i) \in gt + 1 .. Len(segment) + 1
    BY <1>4, <2>1, ParametersEnd, Zenon
  <2> QED
    BY <2>1, <2>2
<1> QED
  BY <1>1, <1>3, <1>4, Zenon

LEMMA TemplateEndsInside ==
  ASSUME NEW segment, Len(segment) \in Nat
  PROVE  TemplateEnd(segment) \in 1 .. Len(segment) + 2
<1> DEFINE n    == Len(segment) + 2
           next == [i \in 1 .. n |-> AfterPrefix(segment, i)]
           Is(f) == f = [i \in 1 .. n |-> IF AfterPrefix(segment, i) = i THEN i
                                          ELSE f[AfterPrefix(segment, i)]]
<1>1. n \in Nat /\ 2 <= n
  OBVIOUS
<1>2. \A i \in 1 .. n : AfterPrefix(segment, i) \in i .. n
  BY PrefixGoesOn, Zenon
<1>3. next \in [1 .. n -> 1 .. n] /\ \A i \in 1 .. n : next[i] >= i
  <2>1. \A i \in 1 .. n : \A y \in i .. n : y \in 1 .. n /\ y >= i
    BY <1>1
  <2>2. \A i \in 1 .. n : next[i] = AfterPrefix(segment, i)
    OBVIOUS
  <2>3. \A i \in 1 .. n : AfterPrefix(segment, i) \in 1 .. n /\ next[i] >= i
    BY <1>2, <2>1, <2>2, Zenon
  <2> QED
    BY <2>3
<1>4. \A f : Is(f) <=> Follows(f, next, n)
  <2>1. ASSUME NEW f
        PROVE  [i \in 1 .. n |-> IF AfterPrefix(segment, i) = i THEN i
                                 ELSE f[AfterPrefix(segment, i)]]
               = [i \in 1 .. n |-> IF next[i] = i THEN i ELSE f[next[i]]]
    OBVIOUS
  <2> QED
    BY <2>1, Zenon DEF Follows
<1>5. TemplateEnd(segment) = (CHOOSE f : Is(f))[TemplateStart(segment)]
  BY Zenon DEF TemplateEnd
<1> HIDE DEF Is, next, n
<1>6. PICK f : f = (CHOOSE g : Is(g))
  OBVIOUS
<1>7. Is(f)
  <2>1. \E g : Is(g)
    BY <1>1, <1>3, <1>4, ForwardIsFunction, Zenon
  <2> QED
    BY <1>6, <2>1, Zenon
<1>8. \A i \in 1 .. n : f[i] \in i .. n
  BY <1>1, <1>3, <1>4, <1>7, ForwardStaysIn, Zenon
<1>9. TemplateStart(segment) \in 1 .. n
  <2>1. TemplateStart(segment) = 1 \/ TemplateStart(segment) = 2
    BY Zenon DEF TemplateStart
  <2> QED
    BY <1>1, <2>1
<1>10. TemplateEnd(segment) \in TemplateStart(segment) .. n
  BY <1>5, <1>6, <1>8, <1>9, Zenon
<1>11. TemplateEnd(segment) \in 1 .. n
  BY <1>9, <1>10
<1> QED
  BY <1>11, Zenon DEF n

-----------------------------------------------------------------------------
(* How many names a namespace has.                                          *)
LEMMA SliceIsText ==
  ASSUME NEW tokens, IsText(tokens), NEW i \in Nat \ {0}, NEW j \in 0 .. Len(tokens)
  PROVE  IsText(SubSeq(tokens, i, j))
<1>1. PICK T : T = [value : STRING, line : Nat]
  OBVIOUS
<1>2. tokens \in Seq(T)
  BY <1>1, Zenon DEF IsText
<1>3. \A k \in i .. j : k \in 1 .. Len(tokens)
  BY <1>2
<1>4. SubSeq(tokens, i, j) \in Seq(T)
  BY <1>2, <1>3
<1> QED
  BY <1>1, <1>4, Zenon DEF IsText

LEMMA TextHasLength ==
  ASSUME NEW tokens, IsText(tokens)
  PROVE  Len(tokens) \in Nat /\ DOMAIN tokens = 1 .. Len(tokens)
BY DEF IsText

LEMMA StatementIsText ==
  ASSUME NEW tokens, IsText(tokens), NEW i \in Nat \ {0}
  PROVE  IsText(WithoutTemplate(From(tokens, i)))
<1>1. \A t : IsText(t) => \A k \in Nat \ {0} : IsText(From(t, k))
  <2>1. ASSUME NEW t, IsText(t), NEW k \in Nat \ {0} PROVE IsText(From(t, k))
    <3>1. Len(t) \in 0 .. Len(t)
      BY <2>1, TextHasLength
    <3> QED
      BY <2>1, <3>1, SliceIsText, Zenon DEF From
  <2> QED
    BY <2>1, Zenon
<1>2. PICK raw : raw = From(tokens, i)
  OBVIOUS
<1>3. IsText(raw)
  BY <1>1, <1>2, Zenon
<1>4. Len(raw) \in Nat
  BY <1>3, TextHasLength, Zenon
<1>5. TemplateEnd(raw) \in 1 .. Len(raw) + 2
  BY <1>4, TemplateEndsInside, Zenon
<1>6. TemplateEnd(raw) \in Nat \ {0}
  BY <1>4, <1>5
<1>7. WithoutTemplate(raw) = raw \/ WithoutTemplate(raw) = From(raw, TemplateEnd(raw))
  BY Zenon DEF WithoutTemplate
<1> QED
  BY <1>1, <1>2, <1>3, <1>6, <1>7, Zenon

HasLength(list, n) == n \in Nat /\ DOMAIN list = 1 .. n

LEMMA PartsAreCounted ==
  ASSUME NEW tokens, IsText(tokens)
  PROVE  \E n \in Nat : HasLength(NameParts(tokens), n)
<1> DEFINE cuts == {i \in DOMAIN tokens : tokens[i].value = "::"}
           S    == {c \in {0} \union cuts : PieceAfter(tokens, c, cuts) # <<>>}
<1>1. S \subseteq 0 .. Len(tokens)
  <2>1. cuts \subseteq DOMAIN tokens /\ S \subseteq {0} \union cuts
    BY Zenon
  <2> HIDE DEF S, cuts
  <2> QED
    BY <2>1, TextHasLength
<1>2. DOMAIN NameParts(tokens) = 1 .. Cardinality(S)
  <2>1. DOMAIN Ascending(S) = 1 .. Cardinality(S)
    BY Zenon DEF Ascending
  <2>2. DOMAIN Pieces(tokens, cuts) = DOMAIN Ascending(S)
    BY Zenon DEF Pieces
  <2>3. DOMAIN NameParts(tokens) = DOMAIN Pieces(tokens, cuts)
    BY Zenon DEF NameParts, PartNames
  <2> QED
    BY <2>1, <2>2, <2>3, Zenon
<1> HIDE DEF S, cuts
<1>3. Cardinality(S) \in Nat
  <2>1. Len(tokens) \in Nat
    BY TextHasLength, Zenon
  <2>2. IsFiniteSet(0 .. Len(tokens))
    BY <2>1, FS_Interval
  <2>3. IsFiniteSet(S)
    BY <1>1, <2>2, FS_Subset, Zenon
  <2> QED
    BY <2>3, FS_CardinalityType, Zenon
<1> QED
  BY <1>2, <1>3, Zenon DEF HasLength

LEMMA NamespaceNamesAreCounted ==
  ASSUME NEW segment, IsText(segment), IsNamespace(segment)
  PROVE  \E n \in Nat : HasLength(NamespaceNames(segment), n)
<1> DEFINE at     == {i \in DOMAIN segment : segment[i].value = "namespace"}
           tail   == From(segment, First(segment, "namespace") + 1)
           ends   == {i \in DOMAIN tail : ~IsIdentifier(tail[i]) /\ tail[i].value # "::"}
                       \union {Len(tail) + 1}
           named  == LeadingName(tail)
<1>1. Len(segment) \in Nat /\ DOMAIN segment = 1 .. Len(segment)
  BY TextHasLength, Zenon
<1>2. First(segment, "namespace") = FirstIn(at) /\ at \subseteq DOMAIN segment
  BY DEF First
<1>3. at # {}
  BY Zenon DEF IsNamespace, ValueSet
<1> HIDE DEF at
<1>4. First(segment, "namespace") \in 1 .. Len(segment)
  <2>1. at \in SUBSET Nat
    BY <1>1, <1>2
  <2>2. FirstIn(at) \in at
    BY <1>3, <2>1, FirstIsIn, Zenon
  <2> QED
    BY <1>1, <1>2, <2>2, Zenon
<1>5. IsText(tail)
  <2>1. First(segment, "namespace") + 1 \in Nat \ {0} /\ Len(segment) \in 0 .. Len(segment)
    BY <1>1, <1>4
  <2> QED
    BY <2>1, SliceIsText, Zenon DEF From
<1>6. Len(tail) \in Nat /\ DOMAIN tail = 1 .. Len(tail)
  BY <1>5, TextHasLength, Zenon
<1>7. named = SubSeq(tail, 1, FirstIn(ends) - 1)
  BY Zenon DEF LeadingName, Before
<1>8. ends \subseteq DOMAIN tail \union {Len(tail) + 1} /\ Len(tail) + 1 \in ends
  BY Zenon
<1> HIDE DEF tail, ends
<1>9. FirstIn(ends) - 1 \in 0 .. Len(tail)
  <2>1. ends \in SUBSET Nat /\ ends # {} /\ ends \subseteq 1 .. Len(tail) + 1
    BY <1>6, <1>8
  <2>2. FirstIn(ends) \in 1 .. Len(tail) + 1
    BY <2>1, FirstIsIn, Zenon
  <2> QED
    BY <1>6, <2>2
<1>10. IsText(named)
  <2>1. 1 \in Nat \ {0}
    OBVIOUS
  <2> QED
    BY <1>5, <1>7, <1>9, <2>1, SliceIsText, Zenon
<1>11. NamespaceNames(segment) = <<Anonymous>> \/ NamespaceNames(segment) = NameParts(named)
  BY Zenon DEF NamespaceNames, tail
<1>12. HasLength(<<Anonymous>>, 1)
  BY DEF HasLength
<1>13. 1 \in Nat
  OBVIOUS
<1> HIDE DEF named
<1> QED
  BY <1>10, <1>11, <1>12, <1>13, PartsAreCounted, Zenon

-----------------------------------------------------------------------------
(* Ranks: how many members of a set of numbers are at most e.               *)
RankIn(S, e) == Cardinality({d \in S : d <= e})

LEMMA DisjointUnion ==
  ASSUME NEW A, NEW R, IsFiniteSet(A), IsFiniteSet(R), A \cap R = {}
  PROVE  /\ Cardinality(A \union R) = Cardinality(A) + Cardinality(R)
         /\ IsFiniteSet(A \union R)
         /\ Cardinality(A) \in Nat /\ Cardinality(R) \in Nat
<1>1. Cardinality(A) \in Nat /\ Cardinality(R) \in Nat
  BY FS_CardinalityType, Zenon
<1>2. Cardinality(A \cap R) = 0
  BY FS_EmptySet, Zenon
<1>3. /\ IsFiniteSet(A \union R)
      /\ Cardinality(A \union R) = Cardinality(A) + Cardinality(R) - Cardinality(A \cap R)
  BY FS_Union, Zenon
<1> QED
  BY <1>1, <1>2, <1>3

LEMMA RankBelow ==
  ASSUME NEW A \in SUBSET Nat, NEW R \in SUBSET Nat, \A a \in A, r \in R : a < r,
         NEW e \in A
  PROVE  RankIn(A \union R, e) = RankIn(A, e)
<1>1. \A r \in R : ~(r <= e)
  <2>1. \A r \in R : e < r /\ e \in Nat /\ r \in Nat
    BY Zenon
  <2> QED
    BY <2>1
<1>2. {d \in A \union R : d <= e} = {d \in A : d <= e}
  BY <1>1, Zenon
<1> QED
  BY <1>2, Zenon DEF RankIn

LEMMA RankAbove ==
  ASSUME NEW A \in SUBSET Nat, NEW R \in SUBSET Nat, \A a \in A, r \in R : a < r,
         IsFiniteSet(A), IsFiniteSet(R), NEW e \in R
  PROVE  RankIn(A \union R, e) = Cardinality(A) + RankIn(R, e)
<1> DEFINE B == {d \in R : d <= e}
<1>1. \A a \in A : a <= e /\ \A r \in R : a # r
  <2>1. \A a \in A : a \in Nat /\ a < e /\ e \in Nat
    BY Zenon
  <2>2. \A a \in A, r \in R : a \in Nat /\ a < r /\ r \in Nat
    BY Zenon
  <2>3. \A a \in A : a <= e
    BY <2>1
  <2>4. \A a \in A, r \in R : a # r
    BY <2>2
  <2> QED
    BY <2>3, <2>4, Zenon
<1>2. {d \in A \union R : d <= e} = A \union B
  BY <1>1, Zenon
<1>3. A \cap B = {} /\ B \in SUBSET R
  BY <1>1, Zenon
<1> HIDE DEF B
<1>4. IsFiniteSet(B)
  BY <1>3, FS_Subset, Zenon
<1>5. Cardinality(A \union B) = Cardinality(A) + Cardinality(B)
  BY <1>3, <1>4, DisjointUnion, Zenon
<1> QED
  BY <1>2, <1>5, Zenon DEF RankIn, B

LEMMA RankIsInside ==
  ASSUME NEW A \in SUBSET Nat, IsFiniteSet(A), NEW e \in A
  PROVE  RankIn(A, e) \in 1 .. Cardinality(A)
<1> DEFINE B == {d \in A : d <= e}
<1>1. B \in SUBSET A /\ B # {}
  OBVIOUS
<1> HIDE DEF B
<1>2. IsFiniteSet(B) /\ Cardinality(B) <= Cardinality(A)
  BY <1>1, FS_Subset, Zenon
<1>3. Cardinality(B) # 0
  BY <1>1, <1>2, FS_EmptySet, Zenon
<1>4. Cardinality(A) \in Nat /\ Cardinality(B) \in Nat
  BY <1>2, FS_CardinalityType, Zenon
<1>5. Cardinality(B) \in 1 .. Cardinality(A)
  BY <1>2, <1>3, <1>4
<1> QED
  BY <1>5, Zenon DEF RankIn, B

LEMMA RankInInterval ==
  ASSUME NEW n \in Nat, NEW k \in Nat, NEW e \in n + 1 .. n + k
  PROVE  RankIn(n + 1 .. n + k, e) = e - n
<1>1. {d \in n + 1 .. n + k : d <= e} = n + 1 .. e
  OBVIOUS
<1>2. Cardinality(n + 1 .. e) = e - n
  <2>1. n + 1 \in Int /\ e \in Int /\ ~(n + 1 > e) /\ e - (n + 1) + 1 = e - n
    OBVIOUS
  <2>2. Cardinality(n + 1 .. e) = e - (n + 1) + 1
    BY <2>1, FS_Interval
  <2> QED
    BY <2>1, <2>2, Zenon
<1> QED
  BY <1>1, <1>2, Zenon DEF RankIn

LEMMA IntervalIsCounted ==
  ASSUME NEW n \in Nat, NEW k \in Nat
  PROVE  /\ IsFiniteSet(n + 1 .. n + k)
         /\ Cardinality(n + 1 .. n + k) = k
<1>1. n + 1 \in Int /\ n + k \in Int
  OBVIOUS
<1>2. /\ IsFiniteSet(n + 1 .. n + k)
      /\ Cardinality(n + 1 .. n + k) = IF n + 1 > n + k THEN 0 ELSE (n + k) - (n + 1) + 1
  BY <1>1, FS_Interval, Zenon
<1> QED
  BY <1>2

-----------------------------------------------------------------------------
(* What a scope shows of its event.                                         *)
FrameOf(e) == [kind |-> e.kind, name |-> e.name, path |-> e.path, exported |-> e.exported]

FrameFields == {"kind", "name", "path", "exported"}

IsEvents(list) ==
  \E n \in Nat : /\ list = [i \in 1 .. n |-> list[i]]
                 /\ \A i \in 1 .. n : FrameFields \subseteq DOMAIN list[i]

Entries(list) == {list[i] : i \in DOMAIN list}
FramesOf(evs) == {FrameOf(evs[i]) : i \in DOMAIN evs}

(* Events are added at the end, and keep what their scopes show. *)
Kept(evs, evs2) ==
  /\ IsEvents(evs2)
  /\ Len(evs) <= Len(evs2)
  /\ \A i \in DOMAIN evs : FrameOf(evs2[i]) = FrameOf(evs[i])

LEMMA EventsHaveLength ==
  ASSUME NEW list, IsEvents(list)
  PROVE  /\ Len(list) \in Nat /\ DOMAIN list = 1 .. Len(list)
         /\ list \in Seq(Entries(list))
         /\ \A i \in DOMAIN list : FrameFields \subseteq DOMAIN list[i]
<1>1. PICK n \in Nat : /\ list = [i \in 1 .. n |-> list[i]]
                       /\ \A i \in 1 .. n : FrameFields \subseteq DOMAIN list[i]
  BY Zenon DEF IsEvents
<1>2. DOMAIN list = 1 .. n
  BY <1>1, Zenon
<1>3. \A i \in 1 .. n : list[i] \in Entries(list)
  BY <1>2, Zenon DEF Entries
<1>4. list \in [1 .. n -> Entries(list)]
  BY <1>1, <1>3
<1>5. list \in Seq(Entries(list)) /\ Len(list) = n
  BY <1>4
<1> QED
  BY <1>1, <1>2, <1>5, Zenon

LEMMA EventsJoin ==
  ASSUME NEW a, NEW b, IsEvents(a), IsEvents(b)
  PROVE  /\ Kept(a, a \o b)
         /\ Len(a \o b) = Len(a) + Len(b)
         /\ \A i \in 1 .. Len(b) : (a \o b)[Len(a) + i] = b[i]
<1> DEFINE S == Entries(a) \union Entries(b)
<1>1. /\ Len(a) \in Nat /\ DOMAIN a = 1 .. Len(a)
      /\ \A i \in DOMAIN a : FrameFields \subseteq DOMAIN a[i]
      /\ Len(b) \in Nat /\ DOMAIN b = 1 .. Len(b)
      /\ \A i \in DOMAIN b : FrameFields \subseteq DOMAIN b[i]
  BY EventsHaveLength, Zenon
<1>2. a \in Seq(S) /\ b \in Seq(S)
  <2>1. a \in Seq(Entries(a)) /\ b \in Seq(Entries(b))
    BY EventsHaveLength, Zenon
  <2> QED
    BY <2>1, SeqMonotonic, Zenon
<1> HIDE DEF S
<1>3. PICK c : c = a \o b
  OBVIOUS
<1>4. /\ c \in Seq(S) /\ Len(c) = Len(a) + Len(b)
      /\ \A i \in 1 .. Len(a) + Len(b) : c[i] = IF i <= Len(a) THEN a[i] ELSE b[i - Len(a)]
  BY <1>2, <1>3, ConcatProperties, Zenon
<1>5. \A i \in 1 .. Len(a) : c[i] = a[i]
  BY <1>1, <1>4
<1>6. \A i \in 1 .. Len(b) : c[Len(a) + i] = b[i]
  <2>1. \A i \in 1 .. Len(b) : Len(a) + i \in 1 .. Len(a) + Len(b) /\ ~(Len(a) + i <= Len(a))
          /\ (Len(a) + i) - Len(a) = i
    BY <1>1
  <2> QED
    BY <1>4, <2>1
<1>7. \A i \in 1 .. Len(c) : FrameFields \subseteq DOMAIN c[i]
  <2>1. ASSUME NEW i \in 1 .. Len(c) PROVE FrameFields \subseteq DOMAIN c[i]
    <3>1. i \in 1 .. Len(a) \/ (\E j \in 1 .. Len(b) : i = Len(a) + j)
      <4>1. i \in 1 .. Len(a) \/ (i - Len(a) \in 1 .. Len(b) /\ i = Len(a) + (i - Len(a)))
        BY <1>1, <1>4
      <4> QED
        BY <4>1, Zenon
    <3> QED
      BY <1>1, <1>5, <1>6, <3>1, Zenon
  <2> QED
    BY <2>1, Zenon
<1>8. IsEvents(c)
  <2>1. Len(c) \in Nat /\ c = [i \in 1 .. Len(c) |-> c[i]]
    BY <1>4, <1>1
  <2> QED
    BY <1>7, <2>1, Zenon DEF IsEvents
<1>9. Len(a) <= Len(c)
  BY <1>1, <1>4
<1>10. Kept(a, c)
  BY <1>1, <1>5, <1>8, <1>9, Zenon DEF Kept
<1> QED
  BY <1>3, <1>4, <1>6, <1>10, Zenon

-----------------------------------------------------------------------------
(* Stacks of braces, and what they own.                                     *)
BraceKinds == {"scope", "enum", "function", "block"}
Braces(n) == [kind : BraceKinds, line : Nat, events : SUBSET (1 .. n)]

Owned(braces) ==
  UNION {braces[b].events : b \in {i \in DOMAIN braces : braces[i].kind = "scope"}}

Owns(brace) == IF brace.kind = "scope" THEN brace.events ELSE {}

Ordered(braces) ==
  \A i, j \in DOMAIN braces :
    i < j => \A e \in braces[i].events, d \in braces[j].events : e < d

LEMMA PoppedAndTop ==
  ASSUME NEW S, NEW stack \in Seq(S), stack # <<>>
  PROVE  /\ Pop(stack) \in Seq(S) /\ Top(stack) \in S
         /\ stack = Append(Pop(stack), Top(stack))
<1>1. Len(stack) \in Nat \ {0}
  BY EmptySeq, Zenon
<1>2. Len(stack) \in 1 .. Len(stack)
  BY <1>1
<1>3. \A i \in 1 .. Len(stack) : stack[i] \in S
  BY ElementOfSeq, Zenon
<1>4. PICK p : p = Pop(stack)
  OBVIOUS
<1>5. PICK n \in Nat : n = Len(stack) - 1
  BY <1>1
<1>6. p \in Seq(S) /\ Len(p) = n /\ \A i \in 1 .. n : p[i] = stack[i]
  <2>1. 1 \in Int /\ n \in Int /\ \A i \in 1 .. n : i \in 1 .. Len(stack)
    BY <1>1, <1>5
  <2>2. \A i \in 1 .. n : stack[i] \in S
    BY <1>3, <2>1, Zenon
  <2>3. p = SubSeq(stack, 1, n)
    BY <1>4, <1>5, Zenon DEF Pop
  <2>4. p \in Seq(S)
    BY <2>1, <2>2, <2>3
  <2>5. Len(p) = n
    BY <2>1, <2>2, <2>3
  <2>6. \A i \in 1 .. n : p[i] = stack[i]
    BY <2>1, <2>2, <2>3
  <2> QED
    BY <2>4, <2>5, <2>6, Zenon
<1>7. Top(stack) \in S
  BY <1>2, <1>3, Zenon DEF Top
<1>8. PICK t : t = Top(stack)
  OBVIOUS
<1>9. t = stack[Len(stack)] /\ t \in S
  BY <1>7, <1>8, Zenon DEF Top
<1>10. stack = Append(p, t)
  <2>1. Append(p, t) \in Seq(S) /\ Len(Append(p, t)) = Len(stack)
    BY <1>1, <1>5, <1>6, <1>9
  <2>2. \A i \in 1 .. Len(stack) : stack[i] = Append(p, t)[i]
    BY <1>1, <1>5, <1>6, <1>9
  <2> QED
    BY <2>1, <2>2, SeqEqual, Zenon
<1> QED
  BY <1>4, <1>6, <1>7, <1>8, <1>10, Zenon

LEMMA OwnedIsBounded ==
  ASSUME NEW n \in Nat, NEW braces \in Seq(Braces(n))
  PROVE  /\ Owned(braces) \in SUBSET Nat
         /\ Owned(braces) \in SUBSET (1 .. n)
         /\ IsFiniteSet(Owned(braces))
<1>1. \A b \in DOMAIN braces : braces[b].events \in SUBSET (1 .. n)
  <2>1. \A b \in DOMAIN braces : braces[b] \in Braces(n)
    BY LenProperties, ElementOfSeq, Zenon
  <2>2. \A brace \in Braces(n) : brace.events \in SUBSET (1 .. n)
    BY DEF Braces
  <2> QED
    BY <2>1, <2>2, Zenon
<1>2. Owned(braces) \in SUBSET (1 .. n)
  BY <1>1, Zenon DEF Owned
<1>3. 1 .. n \in SUBSET Nat
  OBVIOUS
<1>4. IsFiniteSet(1 .. n)
  BY FS_Interval
<1> QED
  BY <1>2, <1>3, <1>4, FS_Subset, Zenon

LEMMA StackAppended ==
  ASSUME NEW n \in Nat, NEW braces \in Seq(Braces(n)), NEW brace \in Braces(n)
  PROVE  /\ Append(braces, brace) \in Seq(Braces(n))
         /\ Owned(Append(braces, brace)) = Owned(braces) \union Owns(brace)
         /\ Ordered(Append(braces, brace)) <=>
              /\ Ordered(braces)
              /\ \A i \in DOMAIN braces :
                   \A e \in braces[i].events, d \in brace.events : e < d
<1>1. PICK s : s = Append(braces, brace)
  OBVIOUS
<1>2. Len(braces) \in Nat /\ DOMAIN braces = 1 .. Len(braces)
  OBVIOUS
<1>3. /\ s \in Seq(Braces(n)) /\ DOMAIN s = 1 .. Len(braces) + 1
      /\ s[Len(braces) + 1] = brace
      /\ \A i \in 1 .. Len(braces) : s[i] = braces[i]
  <2>1. PICK S : S = Braces(n)
    OBVIOUS
  <2>2. braces \in Seq(S) /\ brace \in S
    BY <2>1, Zenon
  <2>3. /\ s \in Seq(S) /\ DOMAIN s = 1 .. Len(braces) + 1
        /\ s[Len(braces) + 1] = brace
        /\ \A i \in 1 .. Len(braces) : s[i] = braces[i]
    BY <1>1, <2>2
  <2> QED
    BY <2>1, <2>3, Zenon
<1>4. DOMAIN s = DOMAIN braces \union {Len(braces) + 1}
      /\ \A i \in DOMAIN braces : i < Len(braces) + 1 /\ ~(Len(braces) + 1 < i)
      /\ ~(Len(braces) + 1 < Len(braces) + 1)
  BY <1>2, <1>3
<1>5. PICK top : top = Len(braces) + 1
  OBVIOUS
<1>6. Owned(s) = Owned(braces) \union Owns(brace)
  <2>1. \A x : x \in Owned(s) <=> \E i \in DOMAIN s : s[i].kind = "scope" /\ x \in s[i].events
    BY Zenon DEF Owned
  <2>2. \A x : x \in Owned(braces)
                 <=> \E i \in DOMAIN braces : braces[i].kind = "scope" /\ x \in braces[i].events
    BY Zenon DEF Owned
  <2>3. \A x : x \in Owns(brace) <=> brace.kind = "scope" /\ x \in brace.events
    BY Zenon DEF Owns
  <2>4. ASSUME NEW x PROVE x \in Owned(s) <=> x \in Owned(braces) \/ x \in Owns(brace)
    BY <1>2, <1>3, <1>4, <1>5, <2>1, <2>2, <2>3, Zenon
  <2> QED
    BY <2>4, Zenon
<1>7. Ordered(s) <=>
              /\ Ordered(braces)
              /\ \A i \in DOMAIN braces :
                   \A e \in braces[i].events, d \in brace.events : e < d
  <2>1. ASSUME Ordered(s)
        PROVE  /\ Ordered(braces)
               /\ \A i \in DOMAIN braces :
                    \A e \in braces[i].events, d \in brace.events : e < d
    BY <1>2, <1>3, <1>4, <2>1, Zenon DEF Ordered
  <2>2. ASSUME Ordered(braces),
               \A i \in DOMAIN braces :
                 \A e \in braces[i].events, d \in brace.events : e < d
        PROVE  Ordered(s)
    <3> SUFFICES ASSUME NEW i \in DOMAIN s, NEW j \in DOMAIN s, i < j,
                        NEW e \in s[i].events, NEW d \in s[j].events
                 PROVE  e < d
      BY Zenon DEF Ordered
    <3>1. CASE i \in DOMAIN braces /\ j \in DOMAIN braces
      BY <1>2, <1>3, <2>2, <3>1, Zenon DEF Ordered
    <3>2. CASE i \in DOMAIN braces /\ j = Len(braces) + 1
      BY <1>2, <1>3, <2>2, <3>2, Zenon
    <3>3. i \in DOMAIN braces
      BY <1>2, <1>3
    <3> QED
      BY <1>4, <3>1, <3>2, <3>3, Zenon
  <2> QED
    BY <2>1, <2>2, Zenon
<1> QED
  BY <1>1, <1>3, <1>6, <1>7, Zenon

-----------------------------------------------------------------------------
(* The states a scan may be in when it has found these events.              *)
Matched(braces, scopes, evs) ==
  /\ Len(scopes) = Cardinality(Owned(braces))
  /\ \A e \in Owned(braces) : scopes[RankIn(Owned(braces), e)] = FrameOf(evs[e])

StateTypes(evs) ==
  [braces : Seq(Braces(Len(evs))), scopes : Seq(FramesOf(evs)), start : Nat \ {0}]

States(evs) ==
  {s \in StateTypes(evs) : Ordered(s.braces) /\ Matched(s.braces, s.scopes, evs)}

LEMMA StateParts ==
  ASSUME NEW evs, NEW s \in States(evs)
  PROVE  /\ s.braces \in Seq(Braces(Len(evs))) /\ s.scopes \in Seq(FramesOf(evs))
         /\ s.start \in Nat \ {0}
         /\ Ordered(s.braces) /\ Matched(s.braces, s.scopes, evs)
         /\ s = [braces |-> s.braces, scopes |-> s.scopes, start |-> s.start]
<1>1. s \in StateTypes(evs) /\ Ordered(s.braces) /\ Matched(s.braces, s.scopes, evs)
  BY Zenon DEF States
<1>2. PICK B, F, N : B = Seq(Braces(Len(evs))) /\ F = Seq(FramesOf(evs)) /\ N = Nat \ {0}
  OBVIOUS
<1>3. s \in [braces : B, scopes : F, start : N]
  BY <1>1, <1>2, Zenon DEF StateTypes
<1>4. s.braces \in B /\ s.scopes \in F /\ s.start \in N
      /\ s = [braces |-> s.braces, scopes |-> s.scopes, start |-> s.start]
  BY <1>3
<1> QED
  BY <1>1, <1>2, <1>4, Zenon

LEMMA StateMade ==
  ASSUME NEW evs, NEW braces \in Seq(Braces(Len(evs))), NEW scopes \in Seq(FramesOf(evs)),
         NEW start \in Nat \ {0}, Ordered(braces), Matched(braces, scopes, evs)
  PROVE  [braces |-> braces, scopes |-> scopes, start |-> start] \in States(evs)
<1>1. PICK s : s = [braces |-> braces, scopes |-> scopes, start |-> start]
  OBVIOUS
<1>2. s.braces = braces /\ s.scopes = scopes /\ s.start = start
  BY <1>1
<1>3. PICK B, F, N : B = Seq(Braces(Len(evs))) /\ F = Seq(FramesOf(evs)) /\ N = Nat \ {0}
  OBVIOUS
<1>4. braces \in B /\ scopes \in F /\ start \in N
  BY <1>3, Zenon
<1>5. s \in [braces : B, scopes : F, start : N]
  BY <1>1, <1>4
<1>6. s \in StateTypes(evs)
  BY <1>3, <1>5, Zenon DEF StateTypes
<1>7. s \in States(evs)
  BY <1>2, <1>6, Zenon DEF States
<1> QED
  BY <1>1, <1>7, Zenon

LEMMA FreshIsState ==
  ASSUME NEW evs, Len(evs) \in Nat PROVE Fresh \in States(evs)
<1>1. <<>> \in Seq(Braces(Len(evs))) /\ <<>> \in Seq(FramesOf(evs)) /\ 1 \in Nat \ {0}
  OBVIOUS
<1>2. DOMAIN <<>> = {} /\ Len(<<>>) = 0
  OBVIOUS
<1>3. Ordered(<<>>) /\ Owned(<<>>) = {}
  BY <1>2, Zenon DEF Ordered, Owned
<1>4. Matched(<<>>, <<>>, evs)
  BY <1>2, <1>3, FS_EmptySet, Zenon DEF Matched
<1> QED
  BY <1>1, <1>3, <1>4, StateMade, Zenon DEF Fresh

LEMMA StateMoved ==
  ASSUME NEW evs, NEW s \in States(evs), NEW start \in Nat \ {0}
  PROVE  [s EXCEPT !.start = start] \in States(evs)
<1>1. /\ s.braces \in Seq(Braces(Len(evs))) /\ s.scopes \in Seq(FramesOf(evs))
      /\ Ordered(s.braces) /\ Matched(s.braces, s.scopes, evs)
      /\ s = [braces |-> s.braces, scopes |-> s.scopes, start |-> s.start]
  BY StateParts, Zenon
<1>2. [braces |-> s.braces, scopes |-> s.scopes, start |-> start] \in States(evs)
  BY <1>1, StateMade, Zenon
<1>3. PICK b, c, t : b = s.braces /\ c = s.scopes /\ t = s.start
  OBVIOUS
<1>4. s = [braces |-> b, scopes |-> c, start |-> t]
  BY <1>1, <1>3, Zenon
<1>5. [s EXCEPT !.start = start] = [braces |-> b, scopes |-> c, start |-> start]
  BY <1>4
<1> QED
  BY <1>2, <1>3, <1>5, Zenon

LEMMA StateKept ==
  ASSUME NEW evs, NEW evs2, IsEvents(evs), Kept(evs, evs2), NEW s \in States(evs)
  PROVE  s \in States(evs2)
<1>1. /\ s.braces \in Seq(Braces(Len(evs))) /\ s.scopes \in Seq(FramesOf(evs))
      /\ s.start \in Nat \ {0}
      /\ Ordered(s.braces) /\ Matched(s.braces, s.scopes, evs)
      /\ s = [braces |-> s.braces, scopes |-> s.scopes, start |-> s.start]
  BY StateParts, Zenon
<1>2. /\ Len(evs) \in Nat /\ DOMAIN evs = 1 .. Len(evs)
      /\ Len(evs2) \in Nat /\ DOMAIN evs2 = 1 .. Len(evs2)
      /\ Len(evs) <= Len(evs2)
      /\ \A i \in DOMAIN evs : FrameOf(evs2[i]) = FrameOf(evs[i])
  BY EventsHaveLength, Zenon DEF Kept
<1>3. Braces(Len(evs)) \subseteq Braces(Len(evs2))
  <2>1. 1 .. Len(evs) \subseteq 1 .. Len(evs2)
    BY <1>2
  <2> QED
    BY <2>1 DEF Braces
<1>4. FramesOf(evs) \subseteq FramesOf(evs2)
  <2>1. DOMAIN evs \subseteq DOMAIN evs2
    BY <1>2
  <2> QED
    BY <1>2, <2>1, Zenon DEF FramesOf
<1>5. s.braces \in Seq(Braces(Len(evs2))) /\ s.scopes \in Seq(FramesOf(evs2))
  BY <1>1, <1>3, <1>4, SeqMonotonic, Zenon
<1>6. Owned(s.braces) \subseteq DOMAIN evs
  BY <1>1, <1>2, OwnedIsBounded, Zenon
<1>7. Matched(s.braces, s.scopes, evs2)
  BY <1>1, <1>2, <1>6, Zenon DEF Matched
<1> QED
  BY <1>1, <1>5, <1>7, StateMade, Zenon

LEMMA StatesOf ==
  ASSUME NEW evs, NEW evs2, IsEvents(evs), Kept(evs, evs2)
  PROVE  States(evs) \subseteq States(evs2)
BY StateKept, Zenon

LEMMA FramesFollowEvents ==
  ASSUME NEW opened, IsEvents(opened)
  PROVE  /\ Frames(opened) \in Seq(FramesOf(opened))
         /\ Len(Frames(opened)) = Len(opened)
         /\ \A i \in 1 .. Len(opened) : Frames(opened)[i] = FrameOf(opened[i])
<1>1. PICK k \in Nat : k = Len(opened) /\ DOMAIN opened = 1 .. k
  BY EventsHaveLength, Zenon
<1>2. PICK f : f = Frames(opened)
  OBVIOUS
<1>3. f = [i \in 1 .. k |-> FrameOf(opened[i])]
  BY <1>1, <1>2, Zenon DEF Frames, FrameOf
<1>4. \A i \in 1 .. k : f[i] = FrameOf(opened[i]) /\ f[i] \in FramesOf(opened)
  BY <1>1, <1>3, Zenon DEF FramesOf
<1>5. f \in [1 .. k -> FramesOf(opened)]
  BY <1>3, <1>4
<1>6. f \in Seq(FramesOf(opened)) /\ Len(f) = k
  BY <1>5
<1> QED
  BY <1>1, <1>2, <1>4, <1>6, Zenon

LEMMA StateOpened ==
  ASSUME NEW evs, NEW opened, IsEvents(evs), IsEvents(opened), NEW s \in States(evs),
         NEW kind \in BraceKinds, NEW at \in Nat, NEW start \in Nat \ {0}, NEW frames,
         kind = "scope" => frames = Frames(opened),
         kind # "scope" => frames = <<>>
  PROVE  [braces |-> Append(s.braces,
                       [kind |-> kind, line |-> at,
                        events |-> Len(evs) + 1 .. Len(evs) + Len(opened)]),
          scopes |-> s.scopes \o frames,
          start |-> start] \in States(evs \o opened)
<1>1. PICK evs2, n, k : evs2 = evs \o opened /\ n = Len(evs) /\ k = Len(opened)
  OBVIOUS
<1>2. /\ n \in Nat /\ k \in Nat /\ Len(evs2) = n + k
      /\ Kept(evs, evs2)
      /\ \A i \in 1 .. k : evs2[n + i] = opened[i]
      /\ DOMAIN evs2 = 1 .. Len(evs2)
  <2>1. n \in Nat /\ k \in Nat
    BY <1>1, EventsHaveLength, Zenon
  <2>2. /\ Kept(evs, evs \o opened)
        /\ Len(evs \o opened) = Len(evs) + Len(opened)
        /\ \A i \in 1 .. Len(opened) : (evs \o opened)[Len(evs) + i] = opened[i]
    BY EventsJoin, Zenon
  <2>3. Kept(evs, evs2) /\ Len(evs2) = n + k /\ \A i \in 1 .. k : evs2[n + i] = opened[i]
    BY <1>1, <2>2, Zenon
  <2>4. DOMAIN evs2 = 1 .. Len(evs2)
    BY <2>3, EventsHaveLength, Zenon DEF Kept
  <2> QED
    BY <2>1, <2>3, <2>4, Zenon
<1>3. PICK brace : brace = [kind |-> kind, line |-> at,
                            events |-> Len(evs) + 1 .. Len(evs) + Len(opened)]
  OBVIOUS
<1>4. brace.kind = kind /\ brace.line = at /\ brace.events = n + 1 .. n + k
  BY <1>1, <1>3
<1>5. brace \in Braces(n + k)
  <2>1. n + 1 .. n + k \in SUBSET (1 .. n + k)
    BY <1>2
  <2>2. brace = [kind |-> kind, line |-> at, events |-> n + 1 .. n + k]
    BY <1>1, <1>3, Zenon
  <2> QED
    BY <2>1, <2>2 DEF Braces
<1>6. PICK b, c : b = s.braces /\ c = s.scopes
  OBVIOUS
<1>7. /\ b \in Seq(Braces(n)) /\ c \in Seq(FramesOf(evs))
      /\ b \in Seq(Braces(n + k)) /\ c \in Seq(FramesOf(evs2))
      /\ Ordered(b) /\ Matched(b, c, evs) /\ Matched(b, c, evs2)
  <2>1. /\ b \in Seq(Braces(n)) /\ c \in Seq(FramesOf(evs))
        /\ Ordered(b) /\ Matched(b, c, evs)
    BY <1>1, <1>6, StateParts, Zenon
  <2>2. s \in States(evs2)
    BY <1>2, StateKept, Zenon
  <2>3. b \in Seq(Braces(n + k)) /\ c \in Seq(FramesOf(evs2)) /\ Matched(b, c, evs2)
    BY <1>2, <1>6, <2>2, StateParts, Zenon
  <2> QED
    BY <2>1, <2>3, Zenon
<1>8. PICK O : O = Owned(b)
  OBVIOUS
<1>9. O \in SUBSET Nat /\ O \in SUBSET (1 .. n) /\ IsFiniteSet(O)
  BY <1>2, <1>7, <1>8, OwnedIsBounded, Zenon
<1>10. PICK b2 : b2 = Append(b, brace)
  OBVIOUS
<1>11. b2 \in Seq(Braces(n + k)) /\ Owned(b2) = O \union Owns(brace) /\ Ordered(b2)
  <2>1. n + k \in Nat
    BY <1>2
  <2>2. \A i \in DOMAIN b : \A e \in b[i].events, d \in brace.events : e < d
    <3>1. \A i \in DOMAIN b : b[i] \in Braces(n)
      BY <1>7, LenProperties, ElementOfSeq, Zenon
    <3>2. \A r \in Braces(n) : r.events \in SUBSET (1 .. n)
      BY DEF Braces
    <3>3. \A e \in 1 .. n, d \in n + 1 .. n + k : e < d
      BY <1>2
    <3> QED
      BY <1>4, <3>1, <3>2, <3>3, Zenon
  <2> QED
    BY <1>5, <1>7, <1>8, <1>10, <2>1, <2>2, StackAppended, Zenon
<1>12. PICK c2 : c2 = c \o frames
  OBVIOUS
<1>13. CASE kind = "scope"
  <2>1. frames = Frames(opened)
    BY <1>13, Zenon
  <2>2. /\ frames \in Seq(FramesOf(opened)) /\ Len(frames) = k
        /\ \A i \in 1 .. k : frames[i] = FrameOf(opened[i])
    BY <1>1, <2>1, FramesFollowEvents, Zenon
  <2>3. FramesOf(opened) \subseteq FramesOf(evs2)
    <3>1. DOMAIN opened = 1 .. k
      BY <1>1, EventsHaveLength, Zenon
    <3>2. \A i \in 1 .. k : n + i \in DOMAIN evs2
      BY <1>2
    <3> QED
      BY <1>2, <3>1, <3>2, Zenon DEF FramesOf
  <2>4. frames \in Seq(FramesOf(evs2))
    BY <2>2, <2>3, SeqMonotonic, Zenon
  <2>5. PICK m : m = Len(c)
    OBVIOUS
  <2>6. m = Cardinality(O) /\ m \in Nat
    BY <1>7, <1>8, <2>5, LenProperties, Zenon DEF Matched
  <2>7. /\ c2 \in Seq(FramesOf(evs2)) /\ Len(c2) = m + k
        /\ \A i \in 1 .. m + k : c2[i] = IF i <= m THEN c[i] ELSE frames[i - m]
    <3>1. /\ c \o frames \in Seq(FramesOf(evs2)) /\ Len(c \o frames) = Len(c) + Len(frames)
          /\ \A i \in 1 .. Len(c) + Len(frames) :
               (c \o frames)[i] = IF i <= Len(c) THEN c[i] ELSE frames[i - Len(c)]
      BY <1>7, <2>4, ConcatProperties, Zenon
    <3> QED
      BY <1>12, <2>2, <2>5, <3>1, Zenon
  <2>8. PICK I : I = n + 1 .. n + k
    OBVIOUS
  <2>9. Owned(b2) = O \union I
    BY <1>4, <1>11, <1>13, <2>8, Zenon DEF Owns
  <2>10. I \in SUBSET Nat /\ (\A a \in O, r \in I : a < r)
    <3>1. I \in SUBSET Nat
      BY <1>2, <2>8
    <3>2. \A a \in 1 .. n, r \in I : a < r
      BY <1>2, <2>8
    <3> QED
      BY <1>9, <3>1, <3>2, Zenon
  <2>11. IsFiniteSet(I) /\ Cardinality(I) = k
    BY <1>2, <2>8, IntervalIsCounted, Zenon
  <2>12. Cardinality(Owned(b2)) = m + k
    <3>1. O \cap I = {}
      BY <1>2, <1>9, <2>8
    <3>2. Cardinality(O \union I) = Cardinality(O) + Cardinality(I)
      BY <1>9, <2>11, <3>1, DisjointUnion, Zenon
    <3> QED
      BY <2>6, <2>9, <2>11, <3>2, Zenon
  <2>13. ASSUME NEW e \in O PROVE c2[RankIn(Owned(b2), e)] = FrameOf(evs2[e])
    <3>1. PICK r : r = RankIn(O, e)
      OBVIOUS
    <3>2. RankIn(Owned(b2), e) = r
      <4>1. RankIn(O \union I, e) = RankIn(O, e)
        BY <1>9, <2>10, RankBelow, Zenon
      <4> QED
        BY <2>9, <3>1, <4>1, Zenon
    <3>3. r \in 1 .. m
      BY <1>9, <2>6, <3>1, RankIsInside, Zenon
    <3>4. r \in 1 .. m + k /\ r <= m
      BY <1>2, <2>6, <3>3
    <3>5. c2[r] = c[r]
      BY <2>7, <3>4, Zenon
    <3>6. c[r] = FrameOf(evs2[e])
      BY <1>7, <1>8, <3>1, Zenon DEF Matched
    <3> QED
      BY <3>2, <3>5, <3>6, Zenon
  <2>14. ASSUME NEW e \in I PROVE c2[RankIn(Owned(b2), e)] = FrameOf(evs2[e])
    <3>1. PICK j : j = e - n
      OBVIOUS
    <3>2. j \in 1 .. k /\ n + j = e
      BY <1>2, <2>8, <3>1
    <3>3. RankIn(I, e) = j
      BY <1>2, <2>8, <3>1, RankInInterval, Zenon
    <3>4. RankIn(Owned(b2), e) = m + j
      <4>1. RankIn(O \union I, e) = Cardinality(O) + RankIn(I, e)
        BY <1>9, <2>10, <2>11, RankAbove, Zenon
      <4> QED
        BY <2>6, <2>9, <3>3, <4>1, Zenon
    <3>5. m + j \in 1 .. m + k /\ ~(m + j <= m) /\ (m + j) - m = j
      BY <1>2, <2>6, <3>2
    <3>6. c2[m + j] = frames[j]
      BY <2>7, <3>5, Zenon
    <3>7. frames[j] = FrameOf(evs2[e])
      BY <1>2, <2>2, <3>2, Zenon
    <3> QED
      BY <3>4, <3>6, <3>7, Zenon
  <2>15. Matched(b2, c2, evs2)
    BY <2>7, <2>9, <2>12, <2>13, <2>14, Zenon DEF Matched
  <2> QED
    BY <1>1, <1>2, <1>3, <1>6, <1>10, <1>11, <1>12, <2>7, <2>15, StateMade, Zenon
<1>14. CASE kind # "scope"
  <2>1. Owned(b2) = O
    BY <1>4, <1>11, <1>14, Zenon DEF Owns
  <2>2. c2 = c
    BY <1>7, <1>12, <1>14, ConcatEmptySeq, Zenon
  <2>3. Matched(b2, c2, evs2)
    BY <1>7, <1>8, <2>1, <2>2, Zenon DEF Matched
  <2> QED
    BY <1>1, <1>2, <1>3, <1>6, <1>7, <1>10, <1>11, <1>12, <2>2, <2>3, StateMade, Zenon
<1> QED
  BY <1>13, <1>14

LEMMA StateClosed ==
  ASSUME NEW evs, IsEvents(evs), NEW s \in States(evs), s.braces # <<>>,
         NEW start \in Nat \ {0}
  PROVE  [braces |-> Pop(s.braces),
          scopes |-> SubSeq(s.scopes, 1, Less(Len(s.scopes), ScopesOf(Top(s.braces)))),
          start |-> start] \in States(evs)
<1>1. PICK n \in Nat : n = Len(evs)
  BY EventsHaveLength, Zenon
<1>2. PICK b, c, p, t : b = s.braces /\ c = s.scopes /\ p = Pop(b) /\ t = Top(b)
  OBVIOUS
<1>3. /\ b \in Seq(Braces(n)) /\ c \in Seq(FramesOf(evs)) /\ Ordered(b) /\ Matched(b, c, evs)
  BY <1>1, <1>2, StateParts, Zenon
<1>4. p \in Seq(Braces(n)) /\ t \in Braces(n) /\ b = Append(p, t)
  BY <1>2, <1>3, PoppedAndTop, Zenon
<1>5. PICK A, R : A = Owned(p) /\ R = Owns(t)
  OBVIOUS
<1>6. /\ Owned(b) = A \union R /\ Ordered(p)
      /\ \A i \in DOMAIN p : \A e \in p[i].events, d \in t.events : e < d
  BY <1>3, <1>4, <1>5, StackAppended, Zenon
<1>7. A \in SUBSET Nat /\ IsFiniteSet(A)
  BY <1>4, <1>5, OwnedIsBounded, Zenon
<1>8. R \in SUBSET Nat /\ IsFiniteSet(R)
  <2>1. Owned(b) \in SUBSET Nat /\ IsFiniteSet(Owned(b))
    BY <1>3, OwnedIsBounded, Zenon
  <2>2. R \in SUBSET Owned(b)
    BY <1>6, Zenon
  <2> QED
    BY <2>1, <2>2, FS_Subset, Zenon
<1>9. \A a \in A, r \in R : a < r
  BY <1>5, <1>6, Zenon DEF Owned, Owns
<1>10. A \cap R = {}
  <2>1. \A a \in A, r \in R : a \in Nat /\ r \in Nat /\ a < r
    BY <1>7, <1>8, <1>9, Zenon
  <2>2. \A a \in A, r \in R : a # r
    BY <2>1
  <2> QED
    BY <2>2, Zenon
<1>11. PICK x, y : x = Cardinality(A) /\ y = Cardinality(R)
  OBVIOUS
<1>12. x \in Nat /\ y \in Nat /\ Cardinality(A \union R) = x + y
  BY <1>7, <1>8, <1>10, <1>11, DisjointUnion, Zenon
<1>13. Len(c) = x + y
  BY <1>3, <1>6, <1>12, Zenon DEF Matched
<1>14. ScopesOf(t) = y
  <2>1. CASE t.kind = "scope"
    BY <1>5, <1>11, <2>1, Zenon DEF ScopesOf, Owns
  <2>2. CASE t.kind # "scope"
    BY <1>5, <1>11, <2>2, FS_EmptySet, Zenon DEF ScopesOf, Owns
  <2> QED
    BY <2>1, <2>2, Zenon
<1>15. Less(x + y, y) = x
  BY <1>12 DEF Less
<1>16. PICK c2 : c2 = SubSeq(c, 1, x)
  OBVIOUS
<1>17. c2 \in Seq(FramesOf(evs)) /\ Len(c2) = x /\ \A i \in 1 .. x : c2[i] = c[i]
  <2>1. PICK F : F = FramesOf(evs)
    OBVIOUS
  <2>2. c \in Seq(F)
    BY <1>3, <2>1, Zenon
  <2>3. \A i \in 1 .. x : i \in 1 .. Len(c) /\ c[i] \in F
    BY <1>12, <1>13, <2>2
  <2>4. c2 \in Seq(F)
    BY <1>12, <1>16, <2>3
  <2>5. Len(c2) = x
    BY <1>12, <1>16, <2>3
  <2>6. \A i \in 1 .. x : c2[i] = c[i]
    BY <1>12, <1>16, <2>3
  <2> QED
    BY <2>1, <2>4, <2>5, <2>6, Zenon
<1>18. Matched(p, c2, evs)
  <2>1. ASSUME NEW e \in A PROVE c2[RankIn(A, e)] = FrameOf(evs[e])
    <3>1. RankIn(A \union R, e) = RankIn(A, e)
      BY <1>7, <1>8, <1>9, RankBelow, Zenon
    <3>2. RankIn(A, e) \in 1 .. x
      BY <1>7, <1>11, RankIsInside, Zenon
    <3>3. c[RankIn(A, e)] = FrameOf(evs[e])
      BY <1>3, <1>6, <3>1, Zenon DEF Matched
    <3> QED
      BY <1>17, <3>2, <3>3, Zenon
  <2> QED
    BY <1>5, <1>11, <1>17, <2>1, Zenon DEF Matched
<1>19. [braces |-> p, scopes |-> c2, start |-> start] \in States(evs)
  BY <1>1, <1>4, <1>6, <1>17, <1>18, StateMade, Zenon
<1> QED
  BY <1>2, <1>13, <1>14, <1>15, <1>16, <1>19, Zenon

LEMMA FunctionIsList ==
  ASSUME NEW n \in Nat, NEW S, NEW f \in [1 .. n -> S]
  PROVE  f = [i \in 1 .. n |-> f[i]] /\ Len(f) = n /\ n <= n
OBVIOUS

LEMMA EventsClosed ==
  ASSUME NEW evs, IsEvents(evs), NEW R, NEW at, NEW evs2,
         evs2 = [e \in DOMAIN evs |->
                   IF e \in R THEN [evs[e] EXCEPT !.close = at, !.end = at] ELSE evs[e]]
  PROVE  Kept(evs, evs2) /\ Len(evs2) = Len(evs)
<1>1. PICK n \in Nat : n = Len(evs) /\ DOMAIN evs = 1 .. n
                       /\ \A i \in 1 .. n : FrameFields \subseteq DOMAIN evs[i]
  BY EventsHaveLength, Zenon
<1> DEFINE Value(e) == IF e \in R THEN [evs[e] EXCEPT !.close = at, !.end = at] ELSE evs[e]
<1>2. evs2 = [e \in 1 .. n |-> Value(e)]
  BY <1>1, Zenon
<1>3. ASSUME NEW e, FrameFields \subseteq DOMAIN e, NEW e2,
             e2 = e \/ e2 = [e EXCEPT !.close = at, !.end = at]
      PROVE  DOMAIN e2 = DOMAIN e /\ FrameOf(e2) = FrameOf(e)
  <2>1. CASE e2 = e
    BY <2>1, Zenon
  <2>2. CASE e2 = [e EXCEPT !.close = at, !.end = at]
    <3>1. DOMAIN e2 = DOMAIN e
      BY <2>2, Zenon
    <3>2. {"kind", "name", "path", "exported"} \subseteq DOMAIN e
      BY <1>3, Zenon DEF FrameFields
    <3>3. e2.kind = e.kind /\ e2.name = e.name /\ e2.path = e.path /\ e2.exported = e.exported
      BY <2>2, <3>2, Zenon
    <3> QED
      BY <3>1, <3>3, Zenon DEF FrameOf
  <2> QED
    BY <1>3, <2>1, <2>2, Zenon
<1>4. ASSUME NEW i \in 1 .. n
      PROVE  FrameFields \subseteq DOMAIN evs2[i] /\ FrameOf(evs2[i]) = FrameOf(evs[i])
  <2>1. evs2[i] = evs[i] \/ evs2[i] = [evs[i] EXCEPT !.close = at, !.end = at]
    BY <1>2, Zenon
  <2>2. FrameFields \subseteq DOMAIN evs[i]
    BY <1>1, Zenon
  <2>3. DOMAIN evs2[i] = DOMAIN evs[i] /\ FrameOf(evs2[i]) = FrameOf(evs[i])
    BY <1>3, <2>1, <2>2, Zenon
  <2> QED
    BY <2>2, <2>3, Zenon
<1>5. evs2 = [i \in 1 .. n |-> evs2[i]] /\ Len(evs2) = n /\ n <= n
  <2>1. evs2 \in [1 .. n -> {Value(e) : e \in 1 .. n}]
    BY <1>2, Zenon
  <2> QED
    BY <2>1, FunctionIsList, Zenon
<1>6. IsEvents(evs2)
  BY <1>4, <1>5, Zenon DEF IsEvents
<1> QED
  BY <1>1, <1>4, <1>5, <1>6, Zenon DEF Kept

LEMMA BestIsABranch ==
  ASSUME NEW evs, NEW branches \in Seq(States(evs)), branches # <<>>
  PROVE  BestBranch(branches) \in States(evs)
<1>1. PICK n \in Nat \ {0} : n = Len(branches) /\ DOMAIN branches = 1 .. n
  BY EmptySeq, LenProperties, Zenon
<1>2. \A i \in 1 .. n : branches[i] \in States(evs)
  BY <1>1, ElementOfSeq, Zenon
<1>3. \A i \in 1 .. n : Score(branches[i]) \in Nat \X Nat
  <2>1. ASSUME NEW i \in 1 .. n PROVE Score(branches[i]) \in Nat \X Nat
    <3>1. /\ branches[i].braces \in Seq(Braces(Len(evs)))
          /\ branches[i].scopes \in Seq(FramesOf(evs))
      BY <1>2, StateParts, Zenon
    <3>2. Len(branches[i].braces) \in Nat /\ Len(branches[i].scopes) \in Nat
      BY <3>1, LenProperties, Zenon
    <3> QED
      BY <3>2 DEF Score
  <2> QED
    BY <2>1, Zenon
<1> DEFINE Best(m, i) == \A j \in 1 .. m : ~Better(Score(branches[j]), Score(branches[i]))
           Bad == {m \in Nat : m # 0 /\ m <= n /\ ~\E i \in 1 .. m : Best(m, i)}
<1>4. \A x, y, z \in Nat \X Nat : Better(x, y) /\ Better(y, z) => Better(x, z)
  BY DEF Better
<1>5. \A x \in Nat \X Nat : ~Better(x, x)
  BY DEF Better
<1>6. Bad = {}
  <2> SUFFICES ASSUME Bad # {} PROVE FALSE
    OBVIOUS
  <2>1. PICK m \in Bad : \A k \in Bad : m <= k
    BY LeastNatural, Zenon
  <2>2. m \in Nat /\ m # 0 /\ m <= n /\ ~\E i \in 1 .. m : Best(m, i)
    BY <2>1, Zenon
  <2>3. PICK l \in Nat : l = m - 1
    BY <2>2
  <2>4. m = l + 1 /\ l <= n /\ ~(m <= l)
    BY <2>2, <2>3
  <2>5. (\A j \in 1 .. m : j \in 1 .. l \/ j = m) /\ m \in 1 .. m /\ 1 .. l \subseteq 1 .. m
        /\ 1 .. m \subseteq 1 .. n
    BY <2>2, <2>4
  <2>6. CASE l = 0
    <3>1. \A j \in 1 .. m : j = m
      BY <2>4, <2>6
    <3>2. Best(m, m)
      BY <1>3, <1>5, <2>5, <3>1, Zenon
    <3> QED
      BY <2>2, <2>5, <3>2, Zenon
  <2>7. CASE l # 0
    <3>1. PICK i \in 1 .. l : Best(l, i)
      BY <2>1, <2>4, <2>7, Zenon
    <3>2. CASE Better(Score(branches[m]), Score(branches[i]))
      <4>1. ASSUME NEW j \in 1 .. m PROVE ~Better(Score(branches[j]), Score(branches[m]))
        <5>1. CASE j = m
          BY <1>3, <1>5, <2>5, <5>1, Zenon
        <5>2. CASE j \in 1 .. l
          BY <1>3, <1>4, <2>5, <3>1, <3>2, <5>2, Zenon
        <5> QED
          BY <2>5, <5>1, <5>2, Zenon
      <4>2. Best(m, m)
        BY <4>1, Zenon
      <4> QED
        BY <2>2, <2>5, <4>2, Zenon
    <3>3. CASE ~Better(Score(branches[m]), Score(branches[i]))
      <4>1. Best(m, i)
        BY <2>5, <3>1, <3>3, Zenon
      <4> QED
        BY <2>2, <2>5, <4>1, Zenon
    <3> QED
      BY <3>2, <3>3, Zenon
  <2> QED
    BY <2>6, <2>7, Zenon
<1> DEFINE best == {i \in DOMAIN branches :
                     \A j \in DOMAIN branches : ~Better(Score(branches[j]), Score(branches[i]))}
<1>7. best # {}
  <2>1. n <= n /\ n # 0 /\ n \in Nat
    OBVIOUS
  <2>2. PICK i \in 1 .. n : Best(n, i)
    BY <1>6, <2>1, Zenon
  <2>3. i \in best
    BY <1>1, <2>2, Zenon
  <2> QED
    BY <2>3, Zenon
<1>8. best \subseteq 1 .. n
  BY <1>1, Zenon
<1>9. BestBranch(branches) = branches[FirstIn(best)]
  BY Zenon DEF BestBranch
<1> HIDE DEF best
<1>10. best \in SUBSET Nat
  BY <1>8
<1>11. FirstIn(best) \in 1 .. n
  BY <1>7, <1>8, <1>10, FirstIsIn, Zenon
<1> QED
  BY <1>2, <1>9, <1>11, Zenon

-----------------------------------------------------------------------------
(* The invariant, and the steps of the scan.                                *)
ConditionalsOf(evs) == [base : States(evs), branches : Seq(States(evs))]

ScanInv ==
  /\ line \in Nat /\ ahead \in Seq(STRING) /\ IsText(text)
  /\ IsEvents(events)
  /\ parse \in States(events)
  /\ conditionals \in Seq(ConditionalsOf(events))

LEMMA NoEvents == IsEvents(<<>>) /\ Len(<<>>) = 0
<1>1. <<>> = [i \in 1 .. 0 |-> <<>>[i]] /\ (\A i \in 1 .. 0 : FALSE) /\ 0 \in Nat /\ Len(<<>>) = 0
  OBVIOUS
<1> QED
  BY <1>1, Zenon DEF IsEvents

LEMMA OneEvent ==
  ASSUME NEW e, FrameFields \subseteq DOMAIN e PROVE IsEvents(<<e>>) /\ Len(<<e>>) = 1
<1>1. <<e>> = [i \in 1 .. 1 |-> <<e>>[i]] /\ Len(<<e>>) = 1
      /\ (\A i \in 1 .. 1 : i = 1) /\ <<e>>[1] = e /\ 1 \in Nat
  OBVIOUS
<1> QED
  BY <1>1, Zenon DEF IsEvents

LEMMA EventHasFields ==
  ASSUME NEW start, NEW kind, NEW name, NEW path, NEW exported, NEW open
  PROVE  /\ FrameFields \subseteq DOMAIN EventAt(start, kind, name, path, exported, open)
         /\ FrameFields \subseteq DOMAIN Event(kind, name, path, exported, open)
<1>1. \A s : FrameFields \subseteq DOMAIN EventAt(s, kind, name, path, exported, open)
  BY DEF EventAt, FrameFields
<1> QED
  BY <1>1, Zenon DEF Event

LEMMA ConditionalsKept ==
  ASSUME NEW evs, NEW evs2, IsEvents(evs), Kept(evs, evs2)
  PROVE  Seq(ConditionalsOf(evs)) \subseteq Seq(ConditionalsOf(evs2))
<1>1. PICK A, B : A = States(evs) /\ B = States(evs2)
  OBVIOUS
<1>2. A \subseteq B
  BY <1>1, StatesOf, Zenon
<1>3. Seq(A) \subseteq Seq(B)
  BY <1>2, SeqMonotonic, Zenon
<1>4. [base : A, branches : Seq(A)] \subseteq [base : B, branches : Seq(B)]
  BY <1>2, <1>3
<1>5. ConditionalsOf(evs) \subseteq ConditionalsOf(evs2)
  BY <1>1, <1>4, Zenon DEF ConditionalsOf
<1> QED
  BY <1>5, SeqMonotonic, Zenon

(* A token moves the reading on and leaves the conditionals alone.          *)
TokenRead ==
  /\ line' \in Nat /\ ahead' \in Seq(STRING) /\ IsText(text')
  /\ conditionals' = conditionals

LEMMA AdvanceReads ==
  ASSUME ScanInv, ahead # <<>>, Advance PROVE TokenRead
<1>1. line \in Nat /\ ahead \in Seq(STRING) /\ IsText(text)
  BY Zenon DEF ScanInv
<1>2. /\ ahead' = Tail(ahead) /\ text' = Append(text, Token)
      /\ line' = line /\ conditionals' = conditionals
  BY Zenon DEF Advance
<1>3. Tail(ahead) \in Seq(STRING) /\ Head(ahead) \in STRING
  BY <1>1, HeadTailProperties, Zenon
<1>4. Token \in [value : STRING, line : Nat]
  BY <1>1, <1>3 DEF Token
<1>5. PICK T, t : T = [value : STRING, line : Nat] /\ t = Token
  OBVIOUS
<1>6. text \in Seq(T) /\ t \in T
  BY <1>1, <1>4, <1>5, Zenon DEF IsText
<1>7. Append(text, t) \in Seq(T)
  BY <1>6
<1>8. IsText(text')
  BY <1>2, <1>5, <1>7, Zenon DEF IsText
<1> QED
  BY <1>1, <1>2, <1>3, <1>8, Zenon DEF TokenRead

LEMMA TokenKeeps ==
  ASSUME ScanInv, TokenRead, Kept(events, events'), parse' \in States(events')
  PROVE  ScanInv'
<1>1. PICK evs2, c2 : evs2 = events' /\ c2 = conditionals'
  OBVIOUS
<1>2. /\ IsEvents(events) /\ conditionals \in Seq(ConditionalsOf(events))
      /\ c2 = conditionals
  BY <1>1, Zenon DEF ScanInv, TokenRead
<1>3. c2 \in Seq(ConditionalsOf(evs2)) /\ IsEvents(evs2)
  BY <1>1, <1>2, ConditionalsKept, Zenon DEF Kept
<1> QED
  BY <1>1, <1>3, Zenon DEF ScanInv, TokenRead

LEMMA KeptAlone ==
  ASSUME NEW evs, IsEvents(evs) PROVE Kept(evs, evs)
<1>1. Len(evs) <= Len(evs)
  BY EventsHaveLength
<1> QED
  BY <1>1, Zenon DEF Kept

LEMMA NextStatementIsPosition ==
  ASSUME ScanInv PROVE NextStatement \in Nat \ {0}
<1>1. Len(text) \in Nat
  BY TextHasLength, Zenon DEF ScanInv
<1> QED
  BY <1>1 DEF NextStatement

(* Events are found, and the next statement begins.                         *)
LEMMA FindingKeeps ==
  ASSUME ScanInv, TokenRead, NEW found, IsEvents(found), events' = events \o found,
         parse' = [parse EXCEPT !.start = NextStatement]
  PROVE  ScanInv'
<1>1. PICK evs2, s2, next : evs2 = events' /\ s2 = parse' /\ next = NextStatement
  OBVIOUS
<1>2. IsEvents(events) /\ parse \in States(events)
  BY Zenon DEF ScanInv
<1>3. Kept(events, evs2)
  BY <1>1, <1>2, EventsJoin, Zenon
<1>4. next \in Nat \ {0}
  BY <1>1, NextStatementIsPosition, Zenon
<1>5. s2 \in States(events)
  BY <1>1, <1>2, <1>4, StateMoved, Zenon
<1>6. s2 \in States(evs2)
  BY <1>2, <1>3, <1>5, StateKept, Zenon
<1> QED
  BY <1>1, <1>3, <1>6, TokenKeeps, Zenon

LEMMA NothingFoundKeeps ==
  ASSUME ScanInv, TokenRead, events' = events,
         parse' = parse \/ parse' = [parse EXCEPT !.start = NextStatement]
  PROVE  ScanInv'
<1>1. PICK evs2, s2, next : evs2 = events' /\ s2 = parse' /\ next = NextStatement
  OBVIOUS
<1>2. IsEvents(events) /\ parse \in States(events)
  BY Zenon DEF ScanInv
<1>3. Kept(events, evs2)
  BY <1>1, <1>2, KeptAlone, Zenon
<1>4. next \in Nat \ {0}
  BY <1>1, NextStatementIsPosition, Zenon
<1>5. s2 \in States(events)
  BY <1>1, <1>2, <1>4, StateMoved, Zenon
<1> QED
  BY <1>1, <1>3, <1>5, TokenKeeps, Zenon

LEMMA OpeningKeeps ==
  ASSUME ScanInv, ahead # <<>>, NEW kind \in BraceKinds, NEW opened, IsEvents(opened),
         NEW frames, kind = "scope" => frames = Frames(opened),
         kind # "scope" => frames = <<>>,
         Open(kind, opened, frames)
  PROVE  ScanInv'
<1>1. PICK evs2, s2, next : evs2 = events' /\ s2 = parse' /\ next = NextStatement
  OBVIOUS
<1>2. IsEvents(events) /\ parse \in States(events) /\ line \in Nat
  BY Zenon DEF ScanInv
<1>3. /\ evs2 = events \o opened
      /\ s2 = [braces |-> Append(parse.braces,
                 [kind |-> kind, line |-> line,
                  events |-> Len(events) + 1 .. Len(events) + Len(opened)]),
               scopes |-> parse.scopes \o frames,
               start |-> next]
      /\ Advance
  BY <1>1, Zenon DEF Open
<1>4. next \in Nat \ {0}
  BY <1>1, NextStatementIsPosition, Zenon
<1>5. Kept(events, evs2)
  BY <1>2, <1>3, EventsJoin, Zenon
<1>6. s2 \in States(evs2)
  BY <1>2, <1>3, <1>4, StateOpened, Zenon
<1>7. TokenRead
  BY <1>3, AdvanceReads, Zenon
<1> QED
  BY <1>1, <1>5, <1>6, <1>7, TokenKeeps, Zenon

LEMMA ScopeOpensKeeps ==
  ASSUME ScanInv, ahead # <<>>, NEW opened, IsEvents(opened), OpenScope(opened)
  PROVE  ScanInv'
<1>1. "scope" \in BraceKinds
  BY DEF BraceKinds
<1>2. Open("scope", opened, Frames(opened))
  BY Zenon DEF OpenScope
<1> QED
  BY <1>1, <1>2, OpeningKeeps, Zenon

LEMMA StatementIsRead ==
  ASSUME ScanInv PROVE IsText(Segment)
<1>1. IsText(text) /\ parse.start \in Nat \ {0}
  BY StateParts, Zenon DEF ScanInv
<1> QED
  BY <1>1, StatementIsText, Zenon DEF Segment, Raw

LEMMA NamespaceOpens == ASSUME ScanInv, OpenNamespace PROVE ScanInv'
<1> DEFINE exported == NamespaceExported(Segment) \/ ScopeExported(parse.scopes)
           outer    == QualifiedName(parse.scopes, <<>>)
           Opened(names) == [k \in DOMAIN names |->
                      Event("namespace", names[k], outer \o Take(names, k), exported, line)]
<1>1. /\ ahead # <<>> /\ IsNamespace(Segment)
      /\ OpenScope(Opened(NamespaceNames(Segment)))
  BY Zenon DEF OpenNamespace, AtToken
<1>2. PICK names : names = NamespaceNames(Segment)
  OBVIOUS
<1>3. PICK n \in Nat : DOMAIN names = 1 .. n
  BY <1>1, <1>2, StatementIsRead, NamespaceNamesAreCounted, Zenon DEF HasLength
<1>4. PICK opened : opened = Opened(names)
  OBVIOUS
<1>5. \A k \in 1 .. n : FrameFields \subseteq DOMAIN opened[k]
  BY <1>3, <1>4, EventHasFields, Zenon
<1>6. opened = [k \in 1 .. n |-> opened[k]]
  <2>1. opened \in [1 .. n -> Entries(opened)]
    BY <1>3, <1>4, Zenon DEF Entries
  <2> QED
    BY <2>1, FunctionIsList, Zenon
<1>7. IsEvents(opened)
  BY <1>5, <1>6, Zenon DEF IsEvents
<1> QED
  BY <1>1, <1>2, <1>4, <1>7, ScopeOpensKeeps, Zenon

LEMMA TypeOpens == ASSUME ScanInv, OpenType PROVE ScanInv'
<1>1. PICK key, name, path, exported :
        ahead # <<>> /\ OpenScope(<<Event(key, name, path, exported, line)>>)
  BY Zenon DEF OpenType, AtToken
<1>2. IsEvents(<<Event(key, name, path, exported, line)>>)
  BY EventHasFields, OneEvent, Zenon
<1> QED
  BY <1>1, <1>2, ScopeOpensKeeps, Zenon

LEMMA EnumOpens == ASSUME ScanInv, OpenEnum PROVE ScanInv'
<1>1. PICK name, path, exported :
        ahead # <<>> /\ Open("enum", <<Event("enum", name, path, exported, line)>>, <<>>)
  BY Zenon DEF OpenEnum, AtToken
<1>2. IsEvents(<<Event("enum", name, path, exported, line)>>)
  BY EventHasFields, OneEvent, Zenon
<1>3. "enum" \in BraceKinds /\ "enum" # "scope"
  BY DEF BraceKinds
<1> QED
  BY <1>1, <1>2, <1>3, OpeningKeeps, Zenon

LEMMA FunctionHasFields ==
  ASSUME NEW suffix, NEW open PROVE FrameFields \subseteq DOMAIN FunctionEvent(suffix, open)
BY EventHasFields, Zenon DEF FunctionEvent, NamedFunction

LEMMA FunctionOpens == ASSUME ScanInv, OpenFunction PROVE ScanInv'
<1>1. PICK suffix :
        ahead # <<>> /\ Open("function", <<FunctionEvent(suffix, line)>>, <<>>)
  BY Zenon DEF OpenFunction, AtToken
<1>2. IsEvents(<<FunctionEvent(suffix, line)>>)
  BY FunctionHasFields, OneEvent, Zenon
<1>3. "function" \in BraceKinds /\ "function" # "scope"
  BY DEF BraceKinds
<1> QED
  BY <1>1, <1>2, <1>3, OpeningKeeps, Zenon

LEMMA BlockOpens == ASSUME ScanInv, OpenBlock PROVE ScanInv'
<1>1. ahead # <<>> /\ Open("block", <<>>, <<>>)
  BY Zenon DEF OpenBlock, AtToken
<1>2. "block" \in BraceKinds /\ "block" # "scope"
  BY DEF BraceKinds
<1> QED
  BY <1>1, <1>2, NoEvents, OpeningKeeps, Zenon

LEMMA BraceCloses == ASSUME ScanInv, CloseBrace PROVE ScanInv'
<1>1. ahead # <<>> /\ Advance
  BY Zenon DEF CloseBrace, AtToken
<1>2. TokenRead
  BY <1>1, AdvanceReads, Zenon
<1>3. CASE parse.braces = <<>>
  <2>1. parse' = [parse EXCEPT !.start = NextStatement] /\ events' = events
    BY <1>3, Zenon DEF CloseBrace
  <2> QED
    BY <1>2, <2>1, NothingFoundKeeps, Zenon
<1>4. CASE parse.braces # <<>>
  <2>1. PICK evs2, s2, next : evs2 = events' /\ s2 = parse' /\ next = NextStatement
    OBVIOUS
  <2>2. /\ evs2 = [e \in DOMAIN events |->
                     IF e \in Top(parse.braces).events
                     THEN [events[e] EXCEPT !.close = line, !.end = line]
                     ELSE events[e]]
        /\ s2 = [braces |-> Pop(parse.braces),
                 scopes |-> SubSeq(parse.scopes, 1,
                              Less(Len(parse.scopes), ScopesOf(Top(parse.braces)))),
                 start |-> next]
    BY <1>4, <2>1, Zenon DEF CloseBrace
  <2>3. IsEvents(events) /\ parse \in States(events)
    BY Zenon DEF ScanInv
  <2>4. Kept(events, evs2)
    BY <2>2, <2>3, EventsClosed, Zenon
  <2>5. next \in Nat \ {0}
    BY <2>1, NextStatementIsPosition, Zenon
  <2>6. s2 \in States(events)
    BY <1>4, <2>2, <2>3, <2>5, StateClosed, Zenon
  <2>7. s2 \in States(evs2)
    BY <2>3, <2>4, <2>6, StateKept, Zenon
  <2> QED
    BY <1>2, <2>1, <2>4, <2>7, TokenKeeps, Zenon
<1> QED
  BY <1>3, <1>4, Zenon

LEMMA StatementEnds ==
  ASSUME ScanInv, EndStatement
  PROVE  TokenRead /\ parse' = [parse EXCEPT !.start = NextStatement]
<1>1. ahead # <<>> /\ Advance /\ parse' = [parse EXCEPT !.start = NextStatement]
  BY Zenon DEF EndStatement, AtToken
<1> QED
  BY <1>1, AdvanceReads, Zenon

LEMMA DeclaringKeeps ==
  ASSUME ScanInv, NEW found, IsEvents(found), Declares(found) PROVE ScanInv'
<1>1. EndStatement /\ events' = events \o found
  BY Zenon DEF Declares
<1> QED
  BY <1>1, StatementEnds, FindingKeeps, Zenon

LEMMA StatementKeeps ==
  ASSUME ScanInv, UsingStatement \/ SkippedStatement PROVE ScanInv'
<1>1. EndStatement /\ events' = events
  BY Zenon DEF UsingStatement, SkippedStatement
<1> QED
  BY <1>1, StatementEnds, NothingFoundKeeps, Zenon

LEMMA DeclarationKeeps ==
  ASSUME ScanInv, DeclareType \/ DeclareEnum \/ DeclareFunction \/ DeclareNothing
  PROVE  ScanInv'
<1>1. PICK found : /\ found = <<>> \/ \E e : found = <<e>> /\ FrameFields \subseteq DOMAIN e
                   /\ Declares(found)
  <2>1. CASE DeclareType
    <3>1. PICK kind, name, path, exported : Declares(<<Event(kind, name, path, exported, 0)>>)
      BY <2>1, Zenon DEF DeclareType
    <3> QED
      BY <3>1, EventHasFields, Zenon
  <2>2. CASE DeclareEnum
    <3>1. PICK kind, name, path, exported : Declares(<<Event(kind, name, path, exported, 0)>>)
      BY <2>2, Zenon DEF DeclareEnum
    <3> QED
      BY <3>1, EventHasFields, Zenon
  <2>3. CASE DeclareFunction
    <3>1. PICK suffix : Declares(<<FunctionEvent(suffix, 0)>>)
      BY <2>3, Zenon DEF DeclareFunction
    <3> QED
      BY <3>1, FunctionHasFields, Zenon
  <2>4. CASE DeclareNothing
    BY <2>4, Zenon DEF DeclareNothing
  <2> QED
    BY <2>1, <2>2, <2>3, <2>4, Zenon
<1>2. IsEvents(found)
  BY <1>1, NoEvents, OneEvent, Zenon
<1> QED
  BY <1>1, <1>2, DeclaringKeeps, Zenon

LEMMA LabelKeeps == ASSUME ScanInv, AccessLabel PROVE ScanInv'
<1>1. /\ ahead # <<>> /\ Advance /\ events' = events
      /\ parse' = [parse EXCEPT !.start = NextStatement]
  BY Zenon DEF AccessLabel, AtToken
<1> QED
  BY <1>1, AdvanceReads, NothingFoundKeeps, Zenon

LEMMA OtherKeeps == ASSUME ScanInv, OtherToken PROVE ScanInv'
<1>1. ahead # <<>> /\ Advance /\ events' = events /\ parse' = parse
  BY Zenon DEF OtherToken
<1> QED
  BY <1>1, AdvanceReads, NothingFoundKeeps, Zenon

LEMMA ReadingKeeps ==
  ASSUME ScanAssumption, ScanInv,
         \/ MayRead /\ \E values \in SourceLines[line + 1] : ReadLine(values)
         \/ \E directive \in Directives : ReadDirective(directive)
         \/ EndOfFile
         \/ UNCHANGED scanVars
  PROVE  ScanInv'
<1>1. /\ text' = text /\ events' = events /\ parse' = parse /\ conditionals' = conditionals
      /\ line' = line \/ line' = line + 1
      /\ \/ ahead' = ahead
         \/ line < MaxLines /\ \E values \in SourceLines[line + 1] : ahead' = values
  BY Zenon DEF ReadLine, ReadDirective, EndOfFile, MayRead, scanVars
<1>2. line \in Nat /\ ahead \in Seq(STRING)
  BY Zenon DEF ScanInv
<1>3. line' \in Nat
  BY <1>1, <1>2
<1>4. ahead' \in Seq(STRING)
  <2>1. SourceLines \in [1 .. MaxLines -> SUBSET Seq(STRING)] /\ MaxLines \in Nat
    BY Zenon DEF ScanAssumption
  <2>2. line < MaxLines => line + 1 \in 1 .. MaxLines
    BY <1>2, <2>1
  <2>3. line < MaxLines => SourceLines[line + 1] \in SUBSET Seq(STRING)
    BY <2>1, <2>2, Zenon
  <2> QED
    BY <1>1, <1>2, <2>3, Zenon
<1> QED
  BY <1>1, <1>3, <1>4, Zenon DEF ScanInv

LEMMA DirectiveKeeps == ASSUME ScanInv, ProcessDirective PROVE ScanInv'
<1> DEFINE top == Top(conditionals)
<1>1. /\ line' = line /\ ahead' = ahead /\ text' = text /\ events' = events
      /\ \/ /\ conditionals' = Append(conditionals, [base |-> parse, branches |-> <<>>])
            /\ parse' = parse
         \/ /\ conditionals # <<>>
            /\ conditionals' = Append(Pop(conditionals),
                                      [top EXCEPT !.branches = Append(top.branches, parse)])
            /\ parse' = top.base
         \/ /\ conditionals # <<>>
            /\ conditionals' = Pop(conditionals)
            /\ parse' = BestBranch(Append(top.branches, parse))
         \/ conditionals' = conditionals /\ parse' = parse
  BY Zenon DEF ProcessDirective, Restore
<1>2. PICK S, C : S = States(events) /\ C = ConditionalsOf(events)
  OBVIOUS
<1>3. /\ C = [base : S, branches : Seq(S)]
      /\ parse \in S /\ conditionals \in Seq(C)
  BY <1>2, Zenon DEF ScanInv, ConditionalsOf
<1>4. PICK t, cs, p : t = top /\ cs = conditionals /\ p = parse
  OBVIOUS
<1>5. cs # <<>> => Pop(cs) \in Seq(C) /\ t \in C
  BY <1>3, <1>4, PoppedAndTop, Zenon
<1>6. conditionals' \in Seq(C) /\ parse' \in S
  <2>1. CASE /\ conditionals' = Append(conditionals, [base |-> parse, branches |-> <<>>])
             /\ parse' = parse
    <3>1. [base |-> p, branches |-> <<>>] \in C
      BY <1>3, <1>4
    <3>2. \A c \in C : Append(cs, c) \in Seq(C)
      BY <1>3, <1>4
    <3> QED
      BY <1>3, <1>4, <2>1, <3>1, <3>2, Zenon
  <2>2. CASE /\ conditionals # <<>>
             /\ conditionals' = Append(Pop(conditionals),
                                       [top EXCEPT !.branches = Append(top.branches, parse)])
             /\ parse' = top.base
    <3>1. t \in C /\ Pop(cs) \in Seq(C)
      BY <1>4, <1>5, <2>2, Zenon
    <3>2. t.base \in S /\ t.branches \in Seq(S) /\ p \in S
      BY <1>3, <1>4, <3>1
    <3>3. Append(t.branches, p) \in Seq(S)
      BY <3>2
    <3>4. \A b \in Seq(S) : [t EXCEPT !.branches = b] \in C
      BY <1>3, <3>1
    <3>5. PICK rest : rest = Pop(cs)
      OBVIOUS
    <3>6. \A c \in C : Append(rest, c) \in Seq(C)
      BY <3>1, <3>5
    <3> QED
      BY <1>4, <2>2, <3>2, <3>3, <3>4, <3>5, <3>6, Zenon
  <2>3. CASE /\ conditionals # <<>>
             /\ conditionals' = Pop(conditionals)
             /\ parse' = BestBranch(Append(top.branches, parse))
    <3>1. t \in C /\ Pop(cs) \in Seq(C)
      BY <1>4, <1>5, <2>3, Zenon
    <3>2. t.branches \in Seq(S) /\ p \in S
      BY <1>3, <1>4, <3>1
    <3>3. Append(t.branches, p) \in Seq(S) /\ Append(t.branches, p) # <<>>
      BY <3>2
    <3>4. BestBranch(Append(t.branches, p)) \in S
      BY <1>2, <3>3, BestIsABranch, Zenon
    <3> QED
      BY <1>4, <2>3, <3>1, <3>4, Zenon
  <2>4. CASE conditionals' = conditionals /\ parse' = parse
    BY <1>3, <2>4, Zenon
  <2> QED
    BY <1>1, <2>1, <2>2, <2>3, <2>4, Zenon
<1>7. PICK evs2 : evs2 = events'
  OBVIOUS
<1>8. conditionals' \in Seq(ConditionalsOf(evs2)) /\ parse' \in States(evs2)
  BY <1>1, <1>2, <1>6, <1>7, Zenon
<1> QED
  BY <1>1, <1>7, <1>8, Zenon DEF ScanInv

LEMMA ScanStarts == ASSUME ScanInit PROVE ScanInv
<1>1. /\ line = 0 /\ ahead = <<>> /\ text = <<>> /\ events = <<>>
      /\ parse = Fresh /\ conditionals = <<>>
  BY Zenon DEF ScanInit
<1>2. 0 \in Nat /\ <<>> \in Seq(STRING) /\ Len(<<>>) \in Nat
  OBVIOUS
<1>3. IsText(<<>>)
  BY EmptySeq, Zenon DEF IsText
<1>4. Fresh \in States(<<>>)
  BY <1>2, FreshIsState, Zenon
<1>5. <<>> \in Seq(ConditionalsOf(<<>>))
  BY EmptySeq, Zenon
<1> QED
  BY <1>1, <1>2, <1>3, <1>4, <1>5, NoEvents, Zenon DEF ScanInv

LEMMA ScanGoesOn == ASSUME ScanAssumption, ScanInv, [ScanNext]_scanVars PROVE ScanInv'
<1>1. ASSUME ScanToken PROVE ScanInv'
  BY <1>1, LabelKeeps, OtherKeeps, NamespaceOpens, TypeOpens, EnumOpens, FunctionOpens,
     BlockOpens, BraceCloses, StatementKeeps, DeclarationKeeps, Zenon DEF ScanToken
<1> QED
  BY <1>1, ReadingKeeps, DirectiveKeeps, Zenon DEF ScanNext

LEMMA ScanInvHolds == ScanSpec => []ScanInv
<1>1. ScanInit => ScanInv
  BY ScanStarts
<1>2. ScanInv /\ [ScanNext]_scanVars => ScanInv'
  BY ScanAssumption, ScanGoesOn
<1> QED
  BY <1>1, <1>2, PTL DEF ScanSpec

LEMMA StateMatches ==
  ASSUME ScanInv, NEW state \in States(events)
  PROVE  LET owners == UNION {state.braces[b].events :
                           b \in {i \in DOMAIN state.braces : state.braces[i].kind = "scope"}}
             place(e) == Cardinality({d \in owners : d <= e})
         IN /\ Len(state.scopes) = Cardinality(owners)
            /\ \A e \in owners : <<state.scopes[place(e)]>> = Frames(<<events[e]>>)
<1>1. PICK O : O = Owned(state.braces)
  OBVIOUS
<1>2. /\ Len(state.scopes) = Cardinality(O)
      /\ \A e \in O : state.scopes[RankIn(O, e)] = FrameOf(events[e])
  BY <1>1, StateParts, Zenon DEF Matched
<1>3. \A x : Frames(<<x>>) = <<FrameOf(x)>>
  <2>1. ASSUME NEW x PROVE Frames(<<x>>) = <<FrameOf(x)>>
    BY DEF Frames, FrameOf
  <2> QED
    BY <2>1, Zenon
<1>4. \A e \in O : <<state.scopes[Cardinality({d \in O : d <= e})]>> = Frames(<<events[e]>>)
  BY <1>2, <1>3, Zenon DEF RankIn
<1>5. O = UNION {state.braces[b].events :
                   b \in {i \in DOMAIN state.braces : state.braces[i].kind = "scope"}}
  BY <1>1, Zenon DEF Owned
<1> QED
  BY <1>2, <1>4, <1>5, Zenon

(* Whatever the braces, the conditionals and the declarations of a file: in  *)
(* the current state and in every state saved for #else and #endif, the     *)
(* scopes are those of the events that the open braces opened, in order.    *)
THEOREM ScopesFollowBraces == ScanSpec => []ScopesMatchBraces
<1>1. ASSUME ScanInv PROVE ScopesMatchBraces
  <2>1. PICK S : S = States(events)
    OBVIOUS
  <2>2. parse \in S /\ conditionals \in Seq([base : S, branches : Seq(S)])
    BY <1>1, <2>1, Zenon DEF ScanInv, ConditionalsOf
  <2>3. \A c \in DOMAIN conditionals :
          /\ conditionals[c].base \in S
          /\ \A b \in DOMAIN conditionals[c].branches : conditionals[c].branches[b] \in S
    <3>1. PICK C : C = [base : S, branches : Seq(S)]
      OBVIOUS
    <3>2. \A c \in DOMAIN conditionals : conditionals[c] \in C
      BY <2>2, <3>1, LenProperties, ElementOfSeq, Zenon
    <3>3. \A r \in C : r.base \in S /\ r.branches \in Seq(S)
      BY <3>1
    <3>4. \A q \in Seq(S) : \A b \in DOMAIN q : q[b] \in S
      OBVIOUS
    <3> QED
      BY <3>2, <3>3, <3>4, Zenon
  <2>4. SavedStates \subseteq S
    <3>1. {conditionals[c].base : c \in DOMAIN conditionals} \subseteq S
      BY <2>3, Zenon
    <3>2. UNION {{conditionals[c].branches[b] : b \in DOMAIN conditionals[c].branches} :
                    c \in DOMAIN conditionals} \subseteq S
      <4>1. \A c \in DOMAIN conditionals :
              {conditionals[c].branches[b] : b \in DOMAIN conditionals[c].branches} \subseteq S
        BY <2>3, Zenon
      <4> DEFINE Branches(c) ==
                   {conditionals[c].branches[b] : b \in DOMAIN conditionals[c].branches}
      <4> HIDE DEF Branches
      <4>2. UNION {Branches(c) : c \in DOMAIN conditionals} \subseteq S
        <5>1. \A c \in DOMAIN conditionals : Branches(c) \subseteq S
          BY <4>1, Zenon DEF Branches
        <5> QED
          BY <5>1, Zenon
      <4> QED
        BY <4>2, Zenon DEF Branches
    <3>3. {parse} \subseteq S
      BY <2>2, Zenon
    <3>4. \A A, B, C : A \subseteq S /\ B \subseteq S /\ C \subseteq S
                       => (A \union B) \union C \subseteq S
      BY Zenon
    <3> QED
      BY <3>1, <3>2, <3>3, <3>4, Zenon DEF SavedStates
  <2>5. \A state \in SavedStates : state \in States(events)
    BY <2>1, <2>4, Zenon
  <2> QED
    BY <1>1, <2>5, StateMatches, Zenon DEF ScopesMatchBraces
<1> QED
  BY <1>1, ScanInvHolds, PTL
=============================================================================
