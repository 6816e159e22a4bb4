CONSTANTS
  Forms <- MCForms
  Filters <- MCFilters
  InitialMaps <- Initials
  MiddleMaps <- Middles
  Dictionary <- MCWords
  Senses = {30, 31}
  Comment = 32
  Calls <- MCCalls
  Lower <- MCLower
  LowerLetters = {1, 2, 5, 6, 7, 8}
  Digits = {3}
  DigitsOneToNine = {3}
  NameStarts = {3, 24}
  Punctuation = {20, 21, 22, 23, 24, 25, 26, 33}
  Symbols = {27, 28, 29}
  Asterisk = 33
  CzechPunctuation = {20, 21, 22, 23, 24, 25, 26, 28, 29, 33}
  Signs = {22, 28}
  Exponents = {5, 15}
  Point = 20
  Comma = 21
  Ess = 6
  OpenQuotes = {23, 29}
  CloseQuotes = {24}
  OpenParentheses = {25}
  CloseParentheses = {26}
  Singles <- MCSingles
  Tags <- MCTags
  Exceptions <- MCExceptions
  Negations <- MCNegations
  Endings <- MCEndings
  Lemmatized <- MCLemmatized
  Caret = 40
  Plus = 28
  Hyphen = 22
  Letters = {1, 2, 5, 6, 7, 8, 11, 12, 15}
  Blank = 0
  Tab <- MCTab
SPECIFICATION MorphoSpec
INVARIANTS EverySplitAsked GuessesFollowTables  AnalysesUnique GeneratedKept AnalysesReadBack
CHECK_DEADLOCK FALSE
