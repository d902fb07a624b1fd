\* One worker, a crash or lost connection, a message of each kind.
SPECIFICATION Spec
CONSTANTS
  Worker = {w1}
  Msg = {open1, open2, other, invalid}
  Event = {e1, e2}
  EventOf <- Copies
  TypeOf <- Types
  OwnEvent = OwnEvent
  MaxCrashes = 1
  MaxErrors = 0
  w1 = w1
  w2 = w2
  open1 = open1
  open2 = open2
  open3 = open3
  hollow = hollow
  other = other
  invalid = invalid
  e1 = e1
  e2 = e2
INVARIANTS
  OneQuotePerEvent
\* Every message is settled in the end and the faults are bounded.
CHECK_DEADLOCK FALSE
