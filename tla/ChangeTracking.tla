--------------------------- MODULE ChangeTracking ---------------------------
(***************************************************************************)
(* From a change to the source it touches: the hunks of a file's diff       *)
(* (cpp_change_tracking.py) and the tools of the server that go from their  *)
(* line numbers to indexed symbols and to source lines.                    *)
(*                                                                         *)
(* A change is an edit script: the old and the new text of a file merged,   *)
(* each line kept (" "), added ("+") or removed ("-"). A line is "signed"   *)
(* when its text begins with two of its own mark, as "++i;" does when it is *)
(* added. The diff of a script is git's work, the rest is the program's.    *)
(***************************************************************************)
EXTENDS Naturals, Sequences, FiniteSets, SequencesExt

CONSTANTS
  UsesSqlite,  \* index.sqlite exists: the index's lists symbols and data are empty
  MaxScript,   \* bound on the lines of an edit script
  MaxContext   \* bound on contextLines

ASSUME ChangeAssumption ==
  /\ UsesSqlite \in BOOLEAN
  /\ MaxScript \in Nat /\ MaxContext \in Nat

VARIABLE script
changeVars == script

Marks == {" ", "+", "-"}
Lines(marks) == {[mark |-> m, signed |-> s] : m \in marks, s \in BOOLEAN}

ChangeInit == script = <<>>
ChangeNext ==
  /\ Len(script) < MaxScript
  /\ \E line \in Lines(Marks) :
       /\ line.mark = " " => ~line.signed
       /\ script' = Append(script, line)
ChangeSpec == ChangeInit /\ [][ChangeNext]_changeVars

Count(seq, marks) == Cardinality({i \in DOMAIN seq : seq[i].mark \in marks})
LinesOfFile == Count(script, {" ", "+"})

-----------------------------------------------------------------------------
(* git diff --unified=context: changes with at most twice the context        *)
(* between them share a hunk; an empty side starts at the line before.      *)

Changes == {i \in DOMAIN script : script[i].mark # " "}

Parted(i, j, context) == j - i - 1 > 2 * context

HunkStarts(context) ==
  {i \in Changes : \A j \in Changes : j < i => Parted(j, i, context)}

HunkEnd(i, context) ==
  Max({j \in Changes : i <= j /\ \A k \in HunkStarts(context) : i < k => j < k})

Side(first, count) == [start |-> IF count = 0 THEN first - 1 ELSE first, lines |-> count]

GitHunk(i, context) ==
  LET from   == Max({1, i - context})
      to     == Min({Len(script), HunkEnd(i, context) + context})
      before == SubSeq(script, 1, from - 1)
      body   == SubSeq(script, from, to)
      old    == Side(Count(before, {" ", "-"}) + 1, Count(body, {" ", "-"}))
      new    == Side(Count(before, {" ", "+"}) + 1, Count(body, {" ", "+"}))
  IN <<[mark |-> "@@", old |-> old, new |-> new]>> \o body

FileHeader ==
  <<[mark |-> "diff", signed |-> FALSE], [mark |-> "-", signed |-> TRUE],
    [mark |-> "+", signed |-> TRUE]>>

(* The members of a set, in ascending order.                                *)
InTurn(S) ==
  [n \in 1 .. Cardinality(S) |-> CHOOSE i \in S : Cardinality({j \in S : j <= i}) = n]

GitDiff(context) ==
  LET starts == InTurn(HunkStarts(context))
  IN IF starts = <<>> THEN <<>>
     ELSE FileHeader \o FlattenSeq([n \in DOMAIN starts |-> GitHunk(starts[n], context)])

-----------------------------------------------------------------------------
(* parse_unified_diff_hunks: what stands before the first hunk is skipped.   *)

TakeLine(hunks, line) ==
  CASE line.mark = "@@" -> Append(hunks, [old |-> line.old, new |-> line.new, lines |-> <<>>])
    [] line.mark \in Marks /\ hunks # <<>> ->
         [hunks EXCEPT ![Len(hunks)].lines = Append(@, line)]
    [] OTHER -> hunks

ParsedHunks(diff) == FoldLeft(TakeLine, <<>>, diff)

(* A file that git does not know is one hunk of added lines.                 *)
UntrackedHunk(text) == [old |-> [start |-> 0, lines |-> 0],
                        new |-> [start |-> 1, lines |-> Len(text)], lines |-> text]

(* hunk_to_json. A "+++" or "---" is taken for a file header.                *)
Counts(line)   == line.mark = " " \/ ~line.signed
IsAddition(line) == Counts(line) /\ line.mark = "+"
Occupies(line) == Counts(line) /\ line.mark \in {" ", "+"}

AddedLineNumbers(hunk) ==
  {hunk.new.start + Cardinality({j \in 1 .. i - 1 : Occupies(hunk.lines[j])}) :
     i \in {k \in DOMAIN hunk.lines : hunk.lines[k].mark = "+" /\ Counts(hunk.lines[k])}}

RemovedLineCount(hunk) ==
  Cardinality({i \in DOMAIN hunk.lines : hunk.lines[i].mark = "-" /\ Counts(hunk.lines[i])})

-----------------------------------------------------------------------------
(* Lines and indexed items (symbols and data), both ranges of line numbers.  *)

LineRange(first, last) == [first |-> first, last |-> last]
Length(r) == r.last - r.first

OldRange(hunk) == LineRange(Max({1, hunk.old.start}), Max({1, hunk.old.start + hunk.old.lines - 1}))
HunkRange(hunk) ==
  LET first == Max({1, hunk.new.start})
  IN LineRange(first, IF hunk.new.lines = 0 THEN first ELSE hunk.new.start + hunk.new.lines - 1)

Intersect(r, s) == r.first <= s.last /\ s.first <= r.last
Inside(r, s)    == s.first <= r.first /\ r.last <= s.last

(* indexed_ranges_for_hunk goes through the lists of the index.              *)
ListedItems(items) == IF UsesSqlite THEN {} ELSE items
IndexedRanges(hunk, items) == {s \in ListedItems(items) : Intersect(HunkRange(hunk), s)}


(* summarize_indexed_ranges_for_hunks.                                       *)
Summary(hunks, items) ==
  LET of(s) == {i \in DOMAIN hunks : s \in IndexedRanges(hunks[i], items)}
      total(s, n(_)) == MapThenSumSet(LAMBDA i : n(hunks[i]), of(s))
  IN {[item |-> s, hunks |-> of(s),
       added |-> total(s, LAMBDA h : Cardinality(AddedLineNumbers(h))),
       removed |-> total(s, RemovedLineCount)] : s \in {t \in items : of(t) # {}}}

(* The hunks that meet the target, in their order.                          *)
Meeting(parsed, target) ==
  LET places == InTurn({i \in DOMAIN parsed : Intersect(HunkRange(parsed[i]), target)})
  IN [n \in DOMAIN places |-> parsed[places[n]]]

Everything == [first |-> 0, last |-> MaxScript + 1]

(* get_file_change_hunks: of these, those before one is too many or its      *)
(* lines are.                                                              *)
FileChangeHunks(parsed, target, maxHunks, maxLines) ==
  LET meeting == Meeting(parsed, target)
      lines(n) == MapThenSumSet(LAMBDA i : Len(meeting[i].lines), 1 .. n)
      taken == Max({n \in 0 .. Len(meeting) : n <= maxHunks /\ lines(n) <= maxLines})
  IN [hunks |-> SubSeq(meeting, 1, taken), truncated |-> taken < Len(meeting)]

-----------------------------------------------------------------------------
(* The tools that take line numbers.                                        *)

(* get_nearest_symbol_for_line.                                             *)
Nearest(items, line) ==
  [containing |-> {s \in items : s.first <= line /\ line <= s.last},
   before     |-> {s \in items : s.last < line},
   after      |-> {s \in items : line < s.first}]

(* resolve_hunk_to_indexed_range: the primary is the first in this order.    *)
Relation(s, r) ==
  IF Inside(r, s) THEN 0
  ELSE IF Intersect(r, s) THEN 1
  ELSE IF s.last < r.first THEN 2 ELSE 3

Distance(s, r) ==
  IF Intersect(r, s) THEN 0
  ELSE IF s.last < r.first THEN r.first - s.last ELSE s.first - r.last

Precedes(s, t, r) ==
  LET key(i) == <<Relation(i, r), Distance(i, r), Length(i), i.first>>
  IN \E n \in 1 .. 4 : key(s)[n] < key(t)[n] /\ \A m \in 1 .. n - 1 : key(s)[m] = key(t)[m]

Resolved(items, r) ==
  [primary  |-> {s \in items : \A t \in items \ {s} : Precedes(s, t, r)},
   overlaps |-> {s \in items : Relation(s, r) \in {0, 1}}]

(* read_symbol: a slice, kept inside the symbol.                            *)
ReadSymbol(s, first, last, maxLines) ==
  LET inside(n) == Max({s.first, Min({s.last, n})})
  IN IF inside(last) < inside(first) THEN {}
     ELSE inside(first) .. Min({inside(last), inside(first) + maxLines - 1})

(* read_range around a line, or of a range, of a file of so many lines.      *)
ReadRange(first, last, maxLines, count) ==
  Max({1, first}) .. Min({count, last, first + maxLines - 1})

AroundLine(line, before, after) ==
  LineRange(IF before < line THEN line - before ELSE 1, line + after)

-----------------------------------------------------------------------------
Contexts == 0 .. MaxContext
Unsigned == \A i \in DOMAIN script : ~script[i].signed
Parsed(context) == ParsedHunks(GitDiff(context))

NewLine(i) == Count(SubSeq(script, 1, i - 1), {" ", "+"}) + 1
Added      == {NewLine(i) : i \in {k \in DOMAIN script : script[k].mark = "+"}}
Removed    == {k \in DOMAIN script : script[k].mark = "-"}

Items == {LineRange(a, b) : a, b \in 1 .. LinesOfFile}
RealItems == {s \in Items : s.first <= s.last}

(* The line numbers of all hunks together are those of the added lines, with *)
(* any context and for a file git does not know, and the removed lines are   *)
(* counted, as long as no changed line begins with two more of its mark.    *)
NumbersAreExact ==
  Unsigned =>
    /\ \A context \in Contexts :
         LET hunks == Parsed(context)
         IN /\ UNION {AddedLineNumbers(hunks[i]) : i \in DOMAIN hunks} = Added
            /\ MapThenSumSet(LAMBDA i : RemovedLineCount(hunks[i]), DOMAIN hunks)
                 = Cardinality(Removed)
    /\ Added = 1 .. Len(script) => AddedLineNumbers(UntrackedHunk(script)) = Added

(* A change leads to the source, whatever tool is asked next: a hunk's range *)
(* resolves to every symbol around a line it added; a complete answer for    *)
(* that symbol has all that was added or removed inside it; the symbol, or   *)
(* the surroundings of the line, can be read there; and the nearest symbols  *)
(* of the line, innermost first, begin with the one it resolves to.         *)
ChangeLeadsToSource ==
  Unsigned =>
    \A context \in Contexts, s, t \in RealItems, maxHunks \in 1 .. 2 :
      LET answer  == FileChangeHunks(Parsed(context), s, maxHunks, MaxScript)
          numbers == UNION {AddedLineNumbers(answer.hunks[i]) : i \in DOMAIN answer.hunks}
          inside  == {k \in Removed : s.first < NewLine(k) /\ NewLine(k) <= s.last}
      IN /\ answer.truncated \/ Added \intersect (s.first .. s.last) \subseteq numbers
         /\ answer.truncated \/ Cardinality(inside) <=
              MapThenSumSet(LAMBDA i : RemovedLineCount(answer.hunks[i]), DOMAIN answer.hunks)
         /\ \A i \in DOMAIN answer.hunks : \A n \in AddedLineNumbers(answer.hunks[i]) :
              LET at    == Nearest({s, t}, n).containing
                  first == Resolved({s, t}, LineRange(n, n)).primary
              IN /\ at \subseteq Resolved({s, t}, HunkRange(answer.hunks[i])).overlaps
                 /\ at # {} => first \subseteq at /\ \A u \in first, v \in at : Length(u) <= Length(v)
                 /\ s \in at => ReadSymbol(s, n, n, 1) = {n}
                 /\ LET near == AroundLine(n, 1, 1)
                    IN n \in ReadRange(near.first, near.last, 2, LinesOfFile)

(* docs/readme.md: a hunk's indexedRanges are the intersections of its lines *)
(* with the indexed ranges: each symbol around an added line is there, and   *)
(* the summary counts the hunk.                                            *)
IndexedRangesAreListed ==
  \A s \in RealItems, i \in DOMAIN Parsed(1) :
    LET hunk == Parsed(1)[i]
    IN AddedLineNumbers(hunk) \intersect (s.first .. s.last) # {} =>
         /\ s \in IndexedRanges(hunk, RealItems)
         /\ \E entry \in Summary(Parsed(1), RealItems) : entry.item = s /\ i \in entry.hunks
=============================================================================
