\* Payments are confirmed by sync alone; two quotes of one order that differ in amount.
SPECIFICATION Spec
CONSTANTS
  Thread = {t1, t2}
  Quote = {q1, q2}
  Payment = {p1, p2}
  ProviderPayment = {pay1, pay2}
  OrderOf <- OneOrder
  AmountOf <- TwoAmounts
  QuoteOf <- OneOfEach
  CheckoutOf <- PaidThroughEach
  InitialQuotes = {q1, q2}
  Operations = {"approve", "sync"}
  SimulatedStatuses = {}
  MayInterrupt = TRUE
  MaxRequests = 4
  NoTarget = NoTarget
  q1 = q1
  q2 = q2
  p1 = p1
  p2 = p2
  pay1 = pay1
  pay2 = pay2
  t1 = t1
  t2 = t2
SYMMETRY Threads
INVARIANTS
  ConfirmedMeansPaid
\* The requests are bounded and the provider's statuses end.
CHECK_DEADLOCK FALSE
