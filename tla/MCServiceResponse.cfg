CONSTANTS
  Requests <- Ordinary
  MinGenerated = {1, 12}
  BufferSizes = {5, 40}
SPECIFICATION FairSpec
INVARIANTS WellFormedJson SentencesKept
PROPERTIES ImplementsStream ResponseEnds
CHECK_DEADLOCK FALSE
