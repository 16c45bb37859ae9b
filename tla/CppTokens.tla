------------------------------ MODULE CppTokens ------------------------------
(***************************************************************************)
(* The token helpers that the scanners of the indexer share (cpp_lexer.py): *)
(* nesting depth, matching brackets and splitting at commas.               *)
(*                                                                         *)
(* A token is a record of its text and its line; its column and its kind   *)
(* follow from these: what is neither a symbol nor a number is an          *)
(* identifier.                                                             *)
(***************************************************************************)
EXTENDS Naturals, Sequences, FiniteSets

Symbols == {"{", "}", "(", ")", "[", "]", "<", ">", ">>", ";", ":", "::", ",",
            ".", "=", "*", "&", "&&", "~", "->", "#"}
Numbers == {"0", "1"}

IsIdentifier(token) == token.value \notin Symbols \union Numbers

Values(tokens) == [i \in DOMAIN tokens |-> tokens[i].value]
ValueSet(tokens) == {tokens[i].value : i \in DOMAIN tokens}

(* The text at position i, or nothing when the tokens end before it. *)
At(tokens, i) == IF i \in DOMAIN tokens THEN tokens[i].value ELSE ""

From(tokens, i) == SubSeq(tokens, i, Len(tokens))
Before(tokens, i) == SubSeq(tokens, 1, i - 1)
Take(tokens, n) == SubSeq(tokens, 1, IF n < Len(tokens) THEN n ELSE Len(tokens))

FirstIn(S) == CHOOSE i \in S : \A j \in S : i <= j
LastIn(S)  == CHOOSE i \in S : \A j \in S : j <= i
FirstOr0(S) == IF S = {} THEN 0 ELSE FirstIn(S)
LastOr0(S)  == IF S = {} THEN 0 ELSE LastIn(S)

-----------------------------------------------------------------------------
(* Nesting. A scan keeps a depth per kind of bracket and never lets one     *)
(* fall below zero. Scans differ in the brackets they track, and in whether *)
(* ">>" closes two angles ("shift").                                        *)

Opening == [paren |-> "(", bracket |-> "[", brace |-> "{", angle |-> "<"]
Closing == [paren |-> ")", bracket |-> "]", brace |-> "}", angle |-> ">"]
Kinds == DOMAIN Opening

Flat == [k \in Kinds |-> 0]

Less(depth, n) == IF depth < n THEN 0 ELSE depth - n

UpdateDepth(depths, value, tracked) ==
  [k \in Kinds |->
     CASE k \notin tracked -> 0
       [] k \in tracked /\ value = Opening[k] -> depths[k] + 1
       [] k \in tracked /\ value = Closing[k] -> Less(depths[k], 1)
       [] k = "angle" /\ value = ">>" /\ {"angle", "shift"} \subseteq tracked ->
            Less(depths[k], 2)
       [] OTHER -> depths[k]]

DepthBefore(tokens, position, tracked) ==
  LET depth[i \in 1..position] ==
        IF i = 1 THEN Flat ELSE UpdateDepth(depth[i - 1], tokens[i - 1].value, tracked)
  IN depth[position]

TopLevel(tokens, tracked) ==
  {i \in DOMAIN tokens : DepthBefore(tokens, i, tracked) = Flat}

(* The position of the bracket that closes the one at "from", or 0. Here    *)
(* the depth counts only this kind of bracket, and only from there on.      *)
MatchingToken(tokens, from, open, close) ==
  LET Count(v, i) == Cardinality({j \in from..i : tokens[j].value = v})
  IN FirstOr0({i \in from..Len(tokens) :
                 /\ tokens[i].value = close
                 /\ Count(open, i) = Count(close, i)})

(* The nonempty pieces between the given cut positions. *)
PieceAfter(tokens, cut, cuts) ==
  SubSeq(tokens, cut + 1, FirstIn({d \in cuts : d > cut} \union {Len(tokens) + 1}) - 1)

Ascending(S) == [n \in 1..Cardinality(S) |-> CHOOSE c \in S : Cardinality({d \in S : d <= c}) = n]

Pieces(tokens, cuts) ==
  LET pieces(starts) == [n \in DOMAIN starts |-> PieceAfter(tokens, starts[n], cuts)]
  IN pieces(Ascending({c \in {0} \union cuts : PieceAfter(tokens, c, cuts) # <<>>}))

SplitTopLevelCommas(tokens, tracked) ==
  Pieces(tokens, {i \in TopLevel(tokens, tracked) : tokens[i].value = ","})
=============================================================================
