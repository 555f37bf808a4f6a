SPECIFICATION MCSpec
CONSTANTS
  Hints = {1, 4}
  Texts <- MCTexts
  Patterns <- MCPatterns
  Replacements <- MCReplacements
  STRLEN = 2
  MaxUsed = 4
  W = 64
  IntW = 32
  Strings <- MCStrings
  Arguments <- MCArguments
  Limit = 2
INVARIANTS
  Terminated
  ReplaceDefined
  SearchesAgree
  ComparisonsAgree
PROPERTIES
  KeepsText
  ReplaceReturns
  ChangesDocumented
