CONSTANTS
  Alphabet = 2
  Hash <- MCHash
  Dictionaries <- MCDictionaries
  SuffixLengths = {1, 3}
  Wildcards <- MCWildcards
SPECIFICATION Spec
INVARIANTS AnalysesAreRaw FormsAreRaw PassesAgree
CHECK_DEADLOCK FALSE
