CONSTANTS
  k1 = k1
  k2 = k2
  k3 = k3
  Keys = {k1, k2}
  GoldKeys = {k1}
  NoKey = NoKey
  sentences = 2
  iterations = 2
  early_stopping = TRUE
  heldout = 2
  MaxUpdates = 2
SPECIFICATION TrainerSpec
INVARIANTS AveragesExact BestIsEncoded
CHECK_DEADLOCK FALSE
