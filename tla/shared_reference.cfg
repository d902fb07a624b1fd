\* One thread approves and synchronises two quotes of one order.
SPECIFICATION Spec
CONSTANTS
  Thread = {t1}
  Quote = {q1, q2}
  Payment = {p1, p2}
  ProviderPayment = {pay1}
  OrderOf <- OneOrder
  AmountOf <- OneAmount
  QuoteOf <- OneOfEach
  CheckoutOf <- PaidThroughFirst
  InitialQuotes = {q1, q2}
  Operations = {"approve", "sync"}
  SimulatedStatuses = {"accredited", "expired", "in_process", "unknown"}
  MayInterrupt = FALSE
  MaxRequests = 5
  NoTarget = NoTarget
  q1 = q1
  q2 = q2
  p1 = p1
  p2 = p2
  pay1 = pay1
  pay2 = pay2
  t1 = t1
  t2 = t2
INVARIANTS
  PaysForOne
\* The requests are bounded and the provider's statuses end.
CHECK_DEADLOCK FALSE
