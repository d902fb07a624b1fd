\* Two threads and five requests.
SPECIFICATION Spec
CONSTANTS
  Thread = {t1, t2}
  Quote = {q1, q2}
  Payment = {p1, p2}
  QuoteOf <- QuoteOfPayment
  ProviderStatuses = {"approved", "rejected", "pending", "in_mediation"}
  MaxRequests = 5
  NoTarget = NoTarget
  q1 = q1
  q2 = q2
  p1 = p1
  p2 = p2
INVARIANTS
  SettledOnce
  EventsAreHandedOut
PROPERTIES
  ImplementsLedger
  StrandedForGood
\* The requests are bounded.
CHECK_DEADLOCK FALSE
