CONSTANTS
  t1 = t1
  t2 = t2
  t3 = t3
  r1 = r1
  r2 = r2
  r3 = r3
  Threads = {t1, t2, t3}
  Resources = {r1, r2, r3}
  concurrent_limit = 2
  MaxHeld <- HeldByClients
SPECIFICATION FairSpec
INVARIANTS HeldIsLoaded SlotsAccounted NoLostWakeup
PROPERTIES ServedInOrder ImplementsPool JoinersAnswered QueueDrains
CHECK_DEADLOCK FALSE
