\* One thread, every endpoint, requests that stop anywhere.
SPECIFICATION Spec
CONSTANTS
  Thread = {t1}
  Quote = {q1, q2}
  Payment = {p1, p2}
  ProviderPayment = {pay1}
  OrderOf <- OneOrder
  AmountOf <- OneAmount
  QuoteOf <- BothOfFirst
  CheckoutOf <- PaidThroughFirst
  InitialQuotes = {q1}
  Operations = {"create", "approve", "confirm", "fail", "simulate", "sync"}
  SimulatedStatuses = {"accredited", "expired", "in_process", "unknown"}
  MayInterrupt = TRUE
  MaxRequests = 6
  NoTarget = NoTarget
  q1 = q1
  q2 = q2
  p1 = p1
  p2 = p2
  pay1 = pay1
  pay2 = pay2
  t1 = t1
  t2 = t2
INVARIANTS
  ApprovedOnce
  ConfirmedOnce
PROPERTIES
  ImplementsLedger
\* The requests are bounded and the provider's statuses end.
CHECK_DEADLOCK FALSE
