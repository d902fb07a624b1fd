\* Two workers, a crash or lost connection, an exception, an event sent three times
\* and once without its order.
SPECIFICATION FairSpec
CONSTANTS
  Worker = {w1, w2}
  Msg = {open1, open2, open3, hollow}
  Event = {e1}
  EventOf <- Copies
  TypeOf <- Types
  OwnEvent = OwnEvent
  MaxCrashes = 1
  MaxErrors = 1
  w1 = w1
  w2 = w2
  open1 = open1
  open2 = open2
  open3 = open3
  hollow = hollow
  other = other
  invalid = invalid
  e1 = e1
  e2 = e2
INVARIANTS
  TypeOK
  OnePlace
  ProcessedIsAnnounced
  AckedIsProcessed
  QuotesBounded
  RefusedIsProcessed
PROPERTIES
  EventuallySettled
  EventuallyProcessed
\* Every message is settled in the end and the faults are bounded.
CHECK_DEADLOCK FALSE
