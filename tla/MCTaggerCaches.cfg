CONSTANTS
  t1 = t1
  t2 = t2
  k1 = k1
  k2 = k2
  k3 = k3
  NoCache = NoCache
  Threads = {t1, t2}
  Caches = {k1, k2, k3}
  Sentences <- ShortAndLong
  Best <- LengthAndPlace
SPECIFICATION Spec
INVARIANTS OneInSection OnePlace ResultIsOwn
SYMMETRY Symmetry
