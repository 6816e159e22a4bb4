CONSTANTS
  window_size = 4
  decoding_order = 3
  Templates <- MCTemplates
  Verbs <- MCVerbs
  Sentences <- MCSentences
  WeightMaps <- MCWeights
  MaxCalls = 2
SPECIFICATION Spec
INVARIANTS NodesFit ScoreIsExact DecodedIsBest
CHECK_DEADLOCK FALSE
