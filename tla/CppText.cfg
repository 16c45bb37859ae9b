CONSTANTS
  FileLines <- MCFileLines
  MaxNesting = 2
  SourceLines <- MCSourceLines
  Directives = {"if", "else", "endif"}
  MaxLines = 5
  ModuleLines <- MCModuleLines
  MaxModuleLines = 4
  MacroNames = {"DECLARE"}
SPECIFICATION Spec
INVARIANTS
  BlankingKeepsTokens
  ScopesMatchBraces
  PathsFollowRanges
  DataIsExact
  UsingEndsWithScope
  ImportsAreInTheirFragment
  OnlyCommentsAreShown
CHECK_DEADLOCK FALSE
