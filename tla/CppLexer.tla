------------------------------ MODULE CppLexer ------------------------------
(***************************************************************************)
(* cpp_lexer.py: blank_comments_preserve_lines and tokenize_lines. Module   *)
(* and structural scan tokenize the blanked lines, the emitters of data and *)
(* aliases the lines as they are, and the events of the first are applied   *)
(* to the tokens of the second. So the two must see the same tokens.        *)
(*                                                                         *)
(* A file is read a line at a time, by the blanker, by the tokenizer and by *)
(* a tokenizer of what the blanker leaves. A line is a sequence of          *)
(* characters; a preprocessor word with its "#" counts as one character,    *)
(* and a few letters, digits and symbols stand for all.                    *)
(***************************************************************************)
EXTENDS Naturals, Sequences

CONSTANTS
  FileLines,   \* the lines a file is made of
  MaxNesting   \* bound on the number of open conditionals

VARIABLES
  blanker,     \* what the blanker is in at the start of the next line
  onSource,    \* the tokenizer that reads the lines as they are
  onBlanked,   \* the tokenizer that reads what the blanker leaves
  odd,         \* history: a line was read that the two treat differently
  agree        \* history: both had the same tokens for the last line

lexVars == <<blanker, onSource, onBlanked, odd, agree>>

-----------------------------------------------------------------------------
(* Characters. *)

Letters == {"a", "L", "R"}
Digits  == {"1"}
WordCharacters == Letters \union Digits
Blank   == " "
Quote   == "\""
Tick    == "'"
Backslash == "\\"

DirectiveWords == {"#if", "#if 0", "#else", "#endif", "#define"}
MultiCharSymbols == {<<":", ":">>, <<">", ">">>}

Char(chars, i) == IF i \in DOMAIN chars THEN chars[i] ELSE ""
StartsAt(chars, i, word) ==
  \A k \in DOMAIN word : Char(chars, i + k - 1) = word[k]

Least(S) == CHOOSE i \in S : \A j \in S : i <= j
Greatest(S) == CHOOSE i \in S : \A j \in S : j <= i

(* Which directive a line is, or "". *)
Directive(chars) ==
  LET code == {i \in DOMAIN chars : chars[i] # Blank}
  IN IF code = {} THEN ""
     ELSE IF chars[Least(code)] \in DirectiveWords THEN chars[Least(code)] ELSE ""

(* The backslashes at the end of a line, from this position on. *)
TrailingFrom(chars) ==
  LET others == {i \in DOMAIN chars : chars[i] \notin {Backslash, Blank}}
      ink    == {i \in DOMAIN chars : chars[i] # Blank}
      run    == {i \in ink : \A j \in i..Greatest(ink) : chars[j] = Backslash}
  IN IF ink = {} \/ run = {} THEN {} ELSE run

Cardinal(S) == IF S = {} THEN 0 ELSE Greatest(S) - Least(S) + 1

IsContinued(chars) == Cardinal(TrailingFrom(chars)) % 2 = 1

-----------------------------------------------------------------------------
(* Comments, strings and raw strings. A region is "code", "block", "string",*)
(* "char", one of the last two after a backslash, or a raw string with the  *)
(* characters that end it.                                                 *)

Region(name) == [in |-> name, until |-> <<>>]
Code == Region("code")

RawPrefixes == {<<"L", "R">>, <<"R">>}

(* The length of the opening of a raw string that begins here, or 0.        *)
RawOpening(chars, i) ==
  LET prefixes == {p \in RawPrefixes : StartsAt(chars, i, p \o <<Quote>>)}
      body   == i + Len(CHOOSE p \in prefixes : TRUE) + 1
      stops  == {j \in body..Len(chars) : chars[j] \in {"(", ")", Quote, Blank, Backslash}}
  IN IF prefixes = {} THEN 0
     ELSE IF stops = {} THEN 0
     ELSE IF chars[Least(stops)] # "(" \/ Least(stops) - body > 16 THEN 0
     ELSE Least(stops) + 1 - i

RawEnd(chars, i, opening) ==
  LET quote == Least({j \in i..Len(chars) : chars[j] = Quote})
  IN <<")">> \o SubSeq(chars, quote + 1, i + opening - 2) \o <<Quote>>

(* One step of either scanner from position i, unless it stands on plain     *)
(* code: how far it goes, the region it is in then, and whether the blanker *)
(* keeps the text.                                                         *)
To(position, region, kept) == [to |-> position, region |-> region, kept |-> kept]

InRaw(chars, i, region) ==
  LET ends == {j \in i..Len(chars) : StartsAt(chars, j, region.until)}
  IN IF ends = {} THEN To(Len(chars) + 1, region, TRUE)
     ELSE To(Least(ends) + Len(region.until), Code, TRUE)

InQuotes(chars, i, region) ==
  LET escaped == [string |-> "string escape", char |-> "char escape"]
      closing == [string |-> Quote, char |-> Tick]
  IN CASE region.in = "string escape" -> To(i + 1, Region("string"), TRUE)
       [] region.in = "char escape" -> To(i + 1, Region("char"), TRUE)
       [] region.in \in {"string", "char"} ->
            To(i + 1,
               IF chars[i] = Backslash THEN Region(escaped[region.in])
               ELSE IF chars[i] = closing[region.in] THEN Code
               ELSE region,
               TRUE)

IsPlain(chars, i, region) ==
  /\ region = Code
  /\ RawOpening(chars, i) = 0
  /\ chars[i] \notin {Quote, Tick}
  /\ ~StartsAt(chars, i, <<"/", "/">>) /\ ~StartsAt(chars, i, <<"/", "*">>)

SkipStep(chars, i, region) ==
  LET raw == RawOpening(chars, i)
  IN CASE region.in = "raw" -> InRaw(chars, i, region)
       [] region.in = "block" ->
            IF StartsAt(chars, i, <<"*", "/">>) THEN To(i + 2, Code, FALSE)
            ELSE To(i + 1, region, FALSE)
       [] region.in \notin {"raw", "block", "code"} -> InQuotes(chars, i, region)
       [] region = Code /\ raw # 0 ->
            To(i + raw, [in |-> "raw", until |-> RawEnd(chars, i, raw)], TRUE)
       [] region = Code /\ raw = 0 ->
            CASE chars[i] = Quote -> To(i + 1, Region("string"), TRUE)
              [] chars[i] = Tick -> To(i + 1, Region("char"), TRUE)
              [] StartsAt(chars, i, <<"/", "/">>) -> To(Len(chars) + 1, Code, FALSE)
              [] StartsAt(chars, i, <<"/", "*">>) -> To(i + 2, Region("block"), FALSE)

(* Strings and character literals end with their line. *)
AtLineEnd(region) == IF region.in \in {"raw", "block"} THEN region ELSE Code

-----------------------------------------------------------------------------
(* The blanker. *)

CommentEndStays(chars, i, region) ==
  LET step == SkipStep(chars, i, region)
  IN IF IsPlain(chars, i, region) THEN To(i + 1, Code, TRUE)
     ELSE [step EXCEPT !.kept = step.kept \/ step.region = Code]

BlankStep(chars, i, region) ==
  IF IsPlain(chars, i, region) THEN To(i + 1, Code, TRUE) ELSE SkipStep(chars, i, region)

(* A scan of a line is at most one step per character. *)
Scan(chars, first, Step(_)) ==
  LET state[n \in 0..Len(chars)] ==
        IF n = 0 THEN first
        ELSE LET last == state[n - 1]
             IN IF last.at > Len(chars) THEN last ELSE Step(last)
  IN state[Len(chars)]

BlankScan(chars, region) ==
  LET Step(s) ==
        LET step == BlankStep(chars, s.at, s.region)
            part == SubSeq(chars, s.at, step.to - 1)
        IN [at |-> step.to, region |-> step.region,
            out |-> s.out \o (IF step.kept THEN part ELSE [k \in DOMAIN part |-> Blank])]
  IN Scan(chars, [at |-> 1, region |-> region, out |-> <<>>], Step)

(* Backslashes at the end stay, or a directive would no longer be continued. *)
Blanked(chars, region) ==
  LET out == BlankScan(chars, region).out
  IN [i \in DOMAIN chars |-> IF i \in TrailingFrom(chars) THEN Backslash ELSE out[i]]

-----------------------------------------------------------------------------
(* The tokenizer: words, numbers (which may hold ticks) and symbols, with   *)
(* the column each begins at.                                              *)

WordEnd(chars, i, characters) ==
  LET others == {j \in i + 1 .. Len(chars) : chars[j] \notin characters}
  IN IF others = {} THEN Len(chars) + 1 ELSE Least(others)

TokenEnd(chars, i) ==
  CASE chars[i] \in Letters -> WordEnd(chars, i, WordCharacters)
    [] chars[i] \in Digits -> WordEnd(chars, i, WordCharacters \union {Tick})
    [] OTHER -> IF \E word \in MultiCharSymbols : StartsAt(chars, i, word)
                THEN i + 2 ELSE i + 1

TokenScan(chars, region) ==
  LET Step(s) ==
        IF ~IsPlain(chars, s.at, s.region)
        THEN LET step == SkipStep(chars, s.at, s.region)
             IN [s EXCEPT !.at = step.to, !.region = step.region]
        ELSE IF chars[s.at] = Blank THEN [s EXCEPT !.at = s.at + 1]
        ELSE LET end == TokenEnd(chars, s.at)
             IN [s EXCEPT !.at = end,
                   !.tokens = Append(s.tokens,
                      [text |-> SubSeq(chars, s.at, end - 1), column |-> s.at])]
  IN Scan(chars, [at |-> 1, region |-> region, tokens |-> <<>>], Step)

(* A tokenizer keeps the region, the open conditionals, and whether the     *)
(* line continues a directive. Only #if 0 hides a branch.                  *)
Active(frames) == \A f \in DOMAIN frames : frames[f].active

Conditional(frames, directive) ==
  LET n == Len(frames)
  IN CASE directive \in {"#if", "#if 0"} ->
            Append(frames, [parent |-> Active(frames),
                            active |-> Active(frames) /\ directive = "#if"])
       [] directive = "#else" /\ n > 0 -> [frames EXCEPT ![n].active = frames[n].parent]
       [] directive = "#endif" /\ n > 0 -> SubSeq(frames, 1, n - 1)
       [] OTHER -> frames

Skips(tokenizer, chars) ==
  tokenizer.continued \/ Directive(chars) # "" \/ ~Active(tokenizer.frames)

TokensOf(tokenizer, chars) ==
  IF Skips(tokenizer, chars) THEN <<>> ELSE TokenScan(chars, tokenizer.region).tokens

AfterLine(tokenizer, chars) ==
  LET directive == Directive(chars)
  IN IF tokenizer.continued THEN [tokenizer EXCEPT !.continued = IsContinued(chars)]
     ELSE IF directive \in {"#if", "#if 0", "#else", "#endif"}
     THEN [tokenizer EXCEPT !.frames = Conditional(tokenizer.frames, directive)]
     ELSE IF ~Active(tokenizer.frames) THEN tokenizer
     ELSE IF directive # "" THEN [tokenizer EXCEPT !.continued = IsContinued(chars)]
     ELSE [tokenizer EXCEPT !.region = AtLineEnd(TokenScan(chars, tokenizer.region).region)]

-----------------------------------------------------------------------------
(* What the two read differently: a line that is a directive only before or *)
(* only after blanking, a comment or raw string that begins or ends on a    *)
(* line the tokenizer skips, and a quote that the tokenizer takes into a    *)
(* word or a number (1'000, or an identifier that ends in R before a quote).*)
(* Backslashes that end a comment become tokens of the blanked line, and    *)
(* one before a comment becomes the end of a directive.                    *)

QuoteInWord(chars) ==
  \E i \in DOMAIN chars :
     /\ chars[i] \in WordCharacters
     /\ RawOpening(chars, i + 1) # 0 \/ Char(chars, i + 1) = Tick

IsOdd(chars) ==
  \/ IsContinued(chars) # IsContinued(Blanked(chars, blanker))
  \/ Directive(chars) # Directive(Blanked(chars, blanker))
  \/ Skips(onSource, chars) /\ AtLineEnd(BlankScan(chars, blanker).region) # blanker
  \/ QuoteInWord(chars)
  \/ /\ ~Skips(onSource, chars)
     /\ \E i \in TrailingFrom(chars) : BlankScan(chars, blanker).out[i] = Blank

LexInit ==
  /\ blanker = Code
  /\ onSource = [region |-> Code, frames |-> <<>>, continued |-> FALSE]
  /\ onBlanked = onSource
  /\ odd = FALSE /\ agree = TRUE

LexLine(chars) ==
  /\ Len(onSource.frames) < MaxNesting \/ Directive(chars) \notin {"#if", "#if 0"}
  /\ blanker' = AtLineEnd(BlankScan(chars, blanker).region)
  /\ onSource' = AfterLine(onSource, chars)
  /\ onBlanked' = AfterLine(onBlanked, Blanked(chars, blanker))
  /\ odd' = (odd \/ IsOdd(chars))
  /\ agree' = (TokensOf(onSource, chars) = TokensOf(onBlanked, Blanked(chars, blanker)))

LexNext == ~odd /\ \E chars \in FileLines : LexLine(chars)

LexSpec == LexInit /\ [][LexNext]_lexVars

-----------------------------------------------------------------------------
(* Blanking comments changes neither a token nor the column of one, however *)
(* the lines before were read, until a line is odd: the scan of structure   *)
(* and the emitters of data and aliases work from the same tokens.         *)
BlankingKeepsTokens == odd \/ agree
=============================================================================
