----------------------------- MODULE MCCppText -----------------------------
(* The lexer, the two scans and the search for comments read files of their *)
(* own: every short file of its alphabet is read by one of them.            *)
EXTENDS CppEmit, CppLexer, CppModuleScan

Comments == INSTANCE CppCommentContext

VARIABLES
  part,        \* which of them reads
  commented    \* the lines of a file with comments

Fragments ==
  {<<"/", "*">>, <<"*", "/">>, <<"/", "/">>, <<Quote>>, <<Tick>>, <<Backslash>>,
   <<"R", Quote, "(">>, <<")", Quote>>, <<"a">>, <<"1">>, <<Blank>>, <<">">>,
   <<"#if">>, <<"#if 0">>, <<"#else">>, <<"#endif">>, <<"#define">>}

MCFileLines ==
  {<<>>} \union {a \o b \o c : a \in Fragments, b \in Fragments \union {<<>>},
                  c \in {<<"*", "/">>, <<Quote>>, <<Backslash>>, <<")", Quote>>, <<"a">>, <<>>}}

Anywhere ==
  {<<"namespace", "N", "{">>,
   <<"void", "f", "(", ")", "{">>,
   <<"public", ":", "int", "v", ";">>,
   <<"using", "M", "::", "g", ";">>,
   <<"}">>}

Openers ==
  {<<"export", "namespace", "A", "::", "B", "{">>,
   <<"enum", "E", "{", "K", ",", "L", "}", ";">>,
   <<"extern", "{">>,
   <<"struct", "F", ";", "enum", "G", ";">>}

Later ==
  {<<"struct", "Box", "{", "void", "f", "(", ")", ";">>,
   <<"void", "Box", "::", "f", "(", ")", "{", "}">>}

MCSourceLines ==
  [n \in 1..MaxLines |->
     Anywhere \union (IF n = 1 THEN Openers ELSE {}) \union (IF n \in 2..3 THEN Later ELSE {})]

MCModuleLines ==
  {<<"module", ";">>, <<"module", ":", "private", ";">>,
   <<"export", "module", "M", ";">>, <<"module", "M", ":", "P", ";">>,
   <<"import", ":", "Q", ";">>, <<"export", "import", "A", ";">>,
   <<"int", "v", ";">>, <<"import">>}

CommentLines ==
  {<<>>, <<"module;">>, <<"code">>, <<"//", "code">>, <<"//", "*/">>, <<"/*">>, <<"*/">>,
   <<"*", "code">>, <<"code", "/*">>, <<"*/", "code">>, <<"code", "*/">>,
   <<"/*", "code", "*/">>, <<"/*", "*/", "code">>}

ReadComments ==
  /\ Len(commented) < 4
  /\ \E marks \in CommentLines : commented' = Append(commented, marks)

OnlyCommentsAreShown == Comments!OnlyComments(commented, 3, 2)

Init ==
  /\ LexInit /\ ScanInit /\ ModuleScanInit /\ commented = <<>>
  /\ part \in {"lexer", "scan", "module", "comments"}

Next ==
  \/ part = "lexer" /\ LexNext /\ UNCHANGED <<scanVars, moduleVars, commented, part>>
  \/ part = "scan" /\ ScanNext /\ UNCHANGED <<lexVars, moduleVars, commented, part>>
  \/ part = "module" /\ ModuleScanNext /\ UNCHANGED <<lexVars, scanVars, commented, part>>
  \/ part = "comments" /\ ReadComments /\ UNCHANGED <<lexVars, scanVars, moduleVars, part>>

Spec == Init /\ [][Next]_<<lexVars, scanVars, moduleVars, commented, part>>
=============================================================================
