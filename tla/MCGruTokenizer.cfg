CONSTANTS
  Inputs <- MCInputs
  Segments = {10, 14}
  classify <- MCClassify
  address_length = 3
  sentence_limit = 4
  sentence_limit_P = 3
  sentence_limit_Po = 2
SPECIFICATION Spec
INVARIANTS CursorInWindow TokensCoverText ParagraphsEndSentences
CHECK_DEADLOCK FALSE
