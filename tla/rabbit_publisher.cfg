\* Two events, two reads, a connection that is cut, a replica that restarts.
SPECIFICATION FairSpec
CONSTANTS
  Event = {e1, e2}
  Replica = {r1, r2}
  Caller = {t1, t2, t3}
  ReplicaOf <- Threads
  Free = Free
  NoEvent = NoEvent
  MaxReads = 2
  MaxCuts = 1
  MaxRestarts = 1
  r1 = r1
  r2 = r2
  t1 = t1
  t2 = t2
  t3 = t3
INVARIANTS
  ReturnedIsKept
  ListedIsReceived
  ListOrderIsExchangeOrder
PROPERTIES
  ImplementsLog
  CallsEnd
\* Every event is published in the end and the reads and faults are bounded.
CHECK_DEADLOCK FALSE
