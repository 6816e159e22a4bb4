CONSTANTS
  Requests <- EmptyLine
  MinGenerated = {1}
  BufferSizes = {5, 40}
SPECIFICATION Spec
INVARIANTS WellFormedJson
CHECK_DEADLOCK FALSE
