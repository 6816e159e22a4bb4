CONSTANTS
  Alphabet = 5
  Hash <- MCHash
  Senses = {2, 3}
  Comment = 4
  Space = 6
  AnyTag <- AnyOne
  Files <- MCFiles
  Requests <- MCRequests
SPECIFICATION Spec
INVARIANTS CyclesRefused LookupsAreChosen FormatsAsDocumented
PROPERTY FormattingEnds
CHECK_DEADLOCK FALSE
