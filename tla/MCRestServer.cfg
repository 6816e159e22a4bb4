CONSTANTS
  c1 = c1
  c2 = c2
  NoRequest = NoRequest
  Connections = {c1, c2}
  Requests <- Mixed
  InvalidKeys = {"half"}
  Unsigned = 16
  Limits = {0, 4}
SPECIFICATION FairSpec
INVARIANTS ServedIsComplete VerdictIsFixed ServiceAlive RequestsFinish
PROPERTIES StopTerminates
