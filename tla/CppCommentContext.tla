-------------------------- MODULE CppCommentContext --------------------------
(***************************************************************************)
(* cpp_comment_context.py: the comment right above a declaration and the    *)
(* comment at the head of a file, found by looking at the lines around      *)
(* without reading the file from its beginning.                            *)
(*                                                                         *)
(* A line is a sequence of the marks that matter: "//", "/*", "*/", a "*"   *)
(* and "code" for any other ink; an empty sequence is a blank line.         *)
(***************************************************************************)
EXTENDS Integers, Sequences

Marks(line) == {line[i] : i \in DOMAIN line}
FirstMark(line) == IF line = <<>> THEN "" ELSE line[1]

IsBlank(line) == line = <<>>
IsLineComment(line) == FirstMark(line) = "//"
IsModuleLine(line) == line = <<"module;">>
HasBlockStart(line) == "/*" \in Marks(line)
HasBlockEnd(line) == "*/" \in Marks(line)
LooksLikeBlock(line) == FirstMark(line) \in {"/*", "*"} \/ HasBlockEnd(line)

InkAfterStart(line) == HasBlockStart(line) /\ line[Len(line)] # "/*"
CodeBeforeStart(line) == HasBlockStart(line) /\ FirstMark(line) # "/*"
CodeAfterEnd(line) == HasBlockEnd(line) /\ line[Len(line)] # "*/"

Lowest(S) == CHOOSE i \in S : \A j \in S : i <= j
Highest(S) == CHOOSE i \in S : \A j \in S : j <= i

(* Ranges of lines; an empty range is no comment.                           *)
NoComment == [from |-> 1, to |-> 0]
Lines(from, to) == [from |-> from, to |-> to]

(* Up from a line to the first that is not a line comment, or to "least".   *)
LineCommentsUpTo(file, last, least) ==
  LET others == {i \in least..last : ~IsLineComment(file[i])}
  IN Lines(IF others = {} THEN least ELSE Highest(others) + 1, last)

(* Up to the first line where a block begins, over lines that look like one.*)
BlockUpTo(file, last, least) ==
  LET starts == {i \in least..last : HasBlockStart(file[i])}
      first  == Highest(starts)
      clean  == \A i \in first + 1 .. last : LooksLikeBlock(file[i]) \/ IsBlank(file[i])
  IN IF starts = {} THEN NoComment
     ELSE IF ~clean \/ CodeBeforeStart(file[first]) \/ CodeAfterEnd(file[last])
     THEN NoComment
     ELSE Lines(first, last)

(* extract_leading_comment: at most maxGap blank lines above the target.    *)
LeadingComment(file, target, maxLines, maxGap) ==
  LET above == IF target - 1 < Len(file) THEN target - 1 ELSE Len(file)
      ink   == {i \in 1..above : ~IsBlank(file[i])}
      last  == IF above - maxGap > (IF ink = {} THEN 0 ELSE Highest(ink))
               THEN above - maxGap ELSE IF ink = {} THEN 0 ELSE Highest(ink)
      least == IF last - maxLines + 1 < 1 THEN 1 ELSE last - maxLines + 1
  IN IF target <= 1 \/ last < 1 THEN NoComment
     ELSE IF IsLineComment(file[last]) THEN LineCommentsUpTo(file, last, least)
     ELSE IF HasBlockEnd(file[last]) THEN BlockUpTo(file, last, least)
     ELSE NoComment

(* extract_file_header_comment: after blank lines and "module;".            *)
HeaderComment(file, maxLines) ==
  LET end     == IF Len(file) < maxLines THEN Len(file) ELSE maxLines
      Ink(i)  == {j \in i..end : ~IsBlank(file[j])}
      begin   == IF Ink(1) = {} THEN 0
                 ELSE IF ~IsModuleLine(file[Lowest(Ink(1))]) THEN Lowest(Ink(1))
                 ELSE IF Ink(Lowest(Ink(1)) + 1) = {} THEN 0
                 ELSE Lowest(Ink(Lowest(Ink(1)) + 1))
      others  == {i \in begin..end : ~IsLineComment(file[i])}
      closing == {i \in begin..end : HasBlockEnd(file[i])}
  IN CASE begin = 0 -> NoComment
       [] begin # 0 /\ IsLineComment(file[begin]) ->
            Lines(begin, IF others = {} THEN end ELSE Lowest(others) - 1)
       [] OTHER ->
            IF \/ ~HasBlockStart(file[begin]) \/ CodeBeforeStart(file[begin])
               \/ closing = {}
            THEN NoComment
            ELSE IF CodeAfterEnd(file[Lowest(closing)]) THEN NoComment
            ELSE Lines(begin, Lowest(closing))

-----------------------------------------------------------------------------
(* The same file read from its beginning: the lines that hold code.         *)

CommentScan(file) ==
  LET Read[n \in 0 .. Len(file)] ==
        IF n = 0 THEN [open |-> FALSE, code |-> {}, stray |-> FALSE]
        ELSE LET line == file[n]
                 mark[i \in 0 .. Len(line)] ==
                   IF i = 0 THEN [open |-> Read[n - 1].open, rest |-> FALSE,
                                  code |-> FALSE, stray |-> FALSE]
                   ELSE LET s == mark[i - 1]
                        IN CASE s.rest -> s
                             [] ~s.rest /\ s.open -> [s EXCEPT !.open = line[i] # "*/"]
                             [] ~s.rest /\ ~s.open /\ line[i] = "//" -> [s EXCEPT !.rest = TRUE]
                             [] ~s.rest /\ ~s.open /\ line[i] = "/*" -> [s EXCEPT !.open = TRUE]
                             [] ~s.rest /\ ~s.open /\ line[i] = "*/" -> [s EXCEPT !.stray = TRUE]
                             [] OTHER -> [s EXCEPT !.code = TRUE]
                 last == mark[Len(line)]
             IN [open |-> last.open, stray |-> Read[n - 1].stray \/ last.stray,
                 code |-> IF last.code THEN Read[n - 1].code \union {n} ELSE Read[n - 1].code]
  IN Read[Len(file)]

(* A legal file closes every block comment and nothing else, and has no     *)
(* line with code between two comments.                                    *)
TwoStarts(line) == \E i, j \in DOMAIN line : i < j /\ line[i] = "/*" /\ line[j] = "/*"

IsLegal(file) ==
  /\ ~CommentScan(file).open /\ ~CommentScan(file).stray
  /\ \A i \in DOMAIN file : ~TwoStarts(file[i])

HoldsNoCode(file, range) == (range.from .. range.to) \intersect CommentScan(file).code = {}

(* What is shown as the comment of a declaration or of a file never holds   *)
(* code, although only the lines nearby were looked at.                    *)
OnlyComments(file, maxLines, maxGap) ==
  IsLegal(file) =>
    /\ HoldsNoCode(file, HeaderComment(file, maxLines))
    /\ \A target \in 1 .. Len(file) + 1 :
         HoldsNoCode(file, LeadingComment(file, target, maxLines, maxGap))
=============================================================================
