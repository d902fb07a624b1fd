------------------------- MODULE BillingApiSyncProofs -------------------------
(***************************************************************************)
(* What BillingApi promises where payments are confirmed by sync alone:    *)
(* that the provider was paid.                                             *)
(***************************************************************************)
EXTENDS BillingApiProofs

\* The provider was paid the amount of p for the service order of p.
Paid(p) ==
  \E pp \in ProviderPayment :
    /\ WasPaid(pp)
    /\ OrderOf[QuoteOf[CheckoutOf[pp]]] = OrderOf[QuoteOf[p]]
    /\ SameAmount(p, pp)

\* A thread that carries a confirmation, or read one, carries a paid one.
JobPaid(j) ==
  /\ j.action = "confirmed" \/ j.seen = "CONFIRMED" => Paid(j.target)
  /\ j.heard \in PaidStatuses => Paid(j.target)

PaidInv ==
  /\ ConfirmedMeansPaid
  /\ \A t \in Thread : JobPaid(job[t])

\* Nothing the provider does undoes a payment.
LEMMA PaidKept ==
  ASSUME IInv, [Next]_vars, NEW p, Paid(p)
  PROVE  Paid(p)'
<1>1. PICK pp \in ProviderPayment :
        /\ WasPaid(pp)
        /\ OrderOf[QuoteOf[CheckoutOf[pp]]] = OrderOf[QuoteOf[p]]
        /\ SameAmount(p, pp)
  BY DEF Paid
<1>2. CASE provider' = provider
  BY <1>1, <1>2 DEF Paid, WasPaid, SameAmount
<1>3. CASE \E qq \in ProviderPayment : ProviderStep(qq)
  <2>1. PICK qq \in ProviderPayment :
          \E status \in ProviderMoves[provider[qq]] :
             provider' = [provider EXCEPT ![qq] = status]
    BY <1>3 DEF ProviderStep
  <2>2. provider'[pp] \in {"approved", "refunded", "in_mediation"}
    BY <1>1, <2>1 DEF ProviderMoves, WasPaid, IInv, TypeOK
  <2>. QED  BY <1>1, <2>2 DEF Paid, WasPaid, SameAmount
<1>4. provider' = provider \/ \E qq \in ProviderPayment : ProviderStep(qq)
  BY DEF Next, Request, LocalStep, BeginCreate, BeginApprove, BeginConfirm, BeginFail,
         BeginSimulate, BeginSync, CallGateway, SearchPayments, ApplyStatus, SaveQuote,
         SavePayment, Publish, Reply, Interrupt, outside, vars
<1>. QED  BY <1>2, <1>3, <1>4

\* A step of one thread that saves no payment keeps PaidInv if what the thread
\* then carries is paid.
LEMMA PaidStep ==
  ASSUME IInv, PaidInv, [Next]_vars, payments' = payments, NEW t \in Thread,
         NEW work, job' = [job EXCEPT ![t] = work], JobPaid(work)
  PROVE  PaidInv'
<1>1. \A p : Paid(p) => Paid(p)'
  BY PaidKept
<1>2. ConfirmedMeansPaid'
  BY <1>1 DEF PaidInv, ConfirmedMeansPaid, Paid
<1>3. ASSUME NEW u \in Thread PROVE JobPaid(job[u])'
  <2>1. job'[u] = IF u = t THEN work ELSE job[u]
    BY DEF IInv, TypeOK
  <2>. QED  BY <1>1, <2>1 DEF PaidInv, JobPaid
<1>. QED  BY <1>2, <1>3 DEF PaidInv

LEMMA FreshJobPaid ==
  ASSUME NEW pc, NEW action, NEW x, NEW seen, action # "confirmed", seen # "CONFIRMED"
  PROVE  JobPaid(Work(pc, action, x, seen)) /\ JobPaid(Refused)
BY DEF JobPaid, Work, Refused, Idle, PaidStatuses, Absent

LEMMA PaidNext ==
  ASSUME Operations \cap {"confirm", "simulate"} = {}
  PROVE  IInv /\ PaidInv /\ [Next]_vars => PaidInv'
<1>. SUFFICES ASSUME IInv, PaidInv, [Next]_vars PROVE PaidInv'
  OBVIOUS
<1>t. /\ job \in [Thread -> Job]
      /\ provider \in [ProviderPayment -> ProviderStatus]
  BY DEF IInv, TypeOK
<1>j. \A t \in Thread : JobPaid(job[t])
  BY DEF PaidInv
<1>1. ASSUME NEW t \in Thread, BeginCreate(t) \/ BeginApprove(t) \/ BeginSync(t)
      PROVE  PaidInv'
  <2>1. \E work : job' = [job EXCEPT ![t] = work] /\ JobPaid(work)
    BY <1>1, FreshJobPaid DEF BeginCreate, BeginApprove, ApproveStep, BeginSync, Begin,
                              Absent
  <2>2. payments' = payments
    BY <1>1 DEF BeginCreate, BeginApprove, BeginSync, tables
  <2>. QED  BY <2>1, <2>2, PaidStep
<1>2. ASSUME NEW t \in Thread, BeginFail(t) PROVE PaidInv'
  <2>1. PICK p \in Payment :
          Begin(t, IF CanFail(payments[p]) THEN Work("savePayment", "failed", p, payments[p])
                   ELSE Refused)
    BY <1>2 DEF BeginFail
  <2>2. CanFail(payments[p]) => JobPaid(Work("savePayment", "failed", p, payments[p]))
    BY FreshJobPaid DEF CanFail
  <2>3. JobPaid(Refused)
    BY FreshJobPaid DEF JobPaid, Refused, Idle, Work, PaidStatuses, Absent
  <2>4. payments' = payments
    BY <1>2 DEF BeginFail, tables
  <2>. QED  BY <2>1, <2>2, <2>3, <2>4, PaidStep DEF Begin
<1>3. ASSUME NEW t \in Thread, BeginConfirm(t) \/ BeginSimulate(t) PROVE FALSE
  BY <1>3 DEF BeginConfirm, BeginSimulate
<1>4. ASSUME NEW t \in Thread, NEW pc, Goto(t, pc), payments' = payments PROVE PaidInv'
  <2>. DEFINE work == [job[t] EXCEPT !.pc = pc]
  <2>1. JobPaid(work)
    BY <1>t, <1>j DEF JobPaid, Job
  <2>2. job' = [job EXCEPT ![t] = work]
    BY <1>4 DEF Goto
  <2>. HIDE DEF work
  <2>. QED  BY <1>4, <2>1, <2>2, PaidStep
<1>5. ASSUME NEW t \in Thread, NEW resp, Answer(t, resp), payments' = payments
      PROVE  PaidInv'
  <2>. DEFINE work == [job[t] EXCEPT !.pc = "idle", !.seen = Absent, !.heard = "none",
                                     !.outbox = <<>>, !.resp = resp]
  <2>1. JobPaid(work)
    BY <1>t, <1>j DEF JobPaid, Job, PaidStatuses, Absent
  <2>2. job' = [job EXCEPT ![t] = work]
    BY <1>5 DEF Answer
  <2>. HIDE DEF work
  <2>. QED  BY <1>5, <2>1, <2>2, PaidStep
<1>6. ASSUME NEW t \in Thread, NEW pp \in ProviderPayment, Found(job[t].target, pp),
             job' = [job EXCEPT ![t].heard = provider[pp], ![t].pc = "apply"],
             payments' = payments
      PROVE  PaidInv'
  <2>. DEFINE work == [job[t] EXCEPT !.heard = provider[pp], !.pc = "apply"]
  <2>1. provider[pp] \in PaidStatuses => Paid(job[t].target)
    BY <1>6, <1>t DEF PaidStatuses, ProviderStatus, Found, Matches, Paid, WasPaid
  <2>2. JobPaid(work)
    BY <1>t, <1>j, <2>1 DEF JobPaid, Job
  <2>3. job' = [job EXCEPT ![t] = work]
    BY <1>6
  <2>. HIDE DEF work
  <2>. QED  BY <1>6, <2>2, <2>3, PaidStep
<1>7. ASSUME NEW t \in Thread, ApplyStatus(t) PROVE PaidInv'
  <2>. DEFINE p == job[t].target
              action == ApplyAction(job[t].heard, payments[p])
  <2>1. p \in Payment
    BY <1>7 DEF ApplyStatus, IInv, JobOk
  <2>2. payments[p] # Absent => payments[p] \in {"PENDING", "CONFIRMED", "FAILED"}
    BY <2>1 DEF IInv, TypeOK, PaymentStatus, PaymentBacked, Stored
  <2>3. payments[p] # Absent /\ action = "confirmed" => Paid(p)
    <3>. SUFFICES ASSUME payments[p] # Absent, action = "confirmed"
                  PROVE  job[t].heard \in PaidStatuses
      BY <1>j DEF JobPaid
    <3>. QED  BY <2>2 DEF ApplyAction, LostAction
  <2>4. payments[p] = "CONFIRMED" => Paid(p)
    BY <2>1 DEF PaidInv, ConfirmedMeansPaid, Paid
  <2>5. JobPaid(Applied(p, job[t].heard))
    BY <2>3, <2>4, FreshJobPaid DEF Applied, JobPaid, Work, PaidStatuses, Refused, Idle, Absent
  <2>6. /\ job' = [job EXCEPT ![t] = Applied(p, job[t].heard)]
        /\ payments' = payments
    BY <1>7 DEF ApplyStatus, tables
  <2>. QED  BY <2>5, <2>6, PaidStep
<1>8. ASSUME NEW t \in Thread, SavePayment(t) PROVE PaidInv'
  <2>1. /\ job[t].target \in Payment
        /\ job[t].action = "approved" \/ Decided(job[t].action, job[t].seen)
    BY <1>8 DEF SavePayment, IInv, JobOk
  <2>2. StatusAfter(job[t].action, job[t].seen) = "CONFIRMED" =>
          job[t].action = "confirmed" \/ job[t].seen = "CONFIRMED"
    BY <2>1 DEF Decided, StatusAfter
  <2>3. \A p : Paid(p) => Paid(p)'
    BY PaidKept
  <2>4. payments' = [payments EXCEPT ![job[t].target] =
                       StatusAfter(job[t].action, job[t].seen)]
    BY <1>8 DEF SavePayment
  <2>5. ASSUME NEW p \in Payment, payments'[p] = "CONFIRMED" PROVE Paid(p)'
    <3>1. CASE p = job[t].target
      BY <2>1, <2>2, <2>3, <2>4, <2>5, <3>1, <1>j DEF JobPaid, IInv, TypeOK
    <3>2. CASE p # job[t].target
      <4>1. payments[p] = "CONFIRMED"
        BY <2>4, <2>5, <3>2 DEF IInv, TypeOK
      <4>. QED  BY <2>3, <4>1 DEF PaidInv, ConfirmedMeansPaid, Paid
    <3>. QED  BY <3>1, <3>2
  <2>6. ConfirmedMeansPaid'
    BY <2>5 DEF ConfirmedMeansPaid, Paid
  <2>7. ASSUME NEW u \in Thread
        PROVE  /\ job'[u].action = job[u].action /\ job'[u].seen = job[u].seen
               /\ job'[u].heard = job[u].heard /\ job'[u].target = job[u].target
    BY <1>8, <1>t DEF SavePayment, Goto, Job
  <2>8. \A u \in Thread : JobPaid(job[u])'
    BY <1>j, <2>3, <2>7 DEF JobPaid
  <2>. QED  BY <2>6, <2>8 DEF PaidInv
<1>9. ASSUME NEW t \in Thread, Publish(t) PROVE PaidInv'
  <2>. DEFINE work == [job[t] EXCEPT !.outbox = Tail(@),
                         !.pc = IF Len(job[t].outbox) = 1 THEN "reply" ELSE "publish"]
  <2>1. JobPaid(work)
    BY <1>t, <1>j DEF JobPaid, Job
  <2>2. job' = [job EXCEPT ![t] = work] /\ payments' = payments
    BY <1>9 DEF Publish, tables
  <2>. HIDE DEF work
  <2>. QED  BY <2>1, <2>2, PaidStep
<1>10. CASE job' = job /\ payments' = payments
  <2>1. \A p : Paid(p) => Paid(p)'
    BY PaidKept
  <2>. QED  BY <1>10, <1>j, <2>1 DEF PaidInv, ConfirmedMeansPaid, Paid, JobPaid
<1>11. ASSUME NEW t \in Thread, CallGateway(t) \/ SaveQuote(t) PROVE PaidInv'
  BY <1>4, <1>5, <1>11 DEF CallGateway, SaveQuote, tables
<1>12. ASSUME NEW t \in Thread, Reply(t) \/ Interrupt(t) PROVE PaidInv'
  BY <1>5, <1>12 DEF Reply, Interrupt, tables
<1>13. ASSUME NEW t \in Thread, SearchPayments(t) PROVE PaidInv'
  BY <1>5, <1>6, <1>13 DEF SearchPayments, tables
<1>14. (\E pp \in ProviderPayment : ProviderStep(pp)) \/ UNCHANGED vars =>
         job' = job /\ payments' = payments
  BY DEF ProviderStep, vars, tables
<1>. QED
  BY <1>1, <1>2, <1>3, <1>7, <1>8, <1>9, <1>10, <1>11, <1>12, <1>13, <1>14
  DEF Next, Request, LocalStep

\* Where the clients' own word confirms nothing, a confirmed payment was paid at
\* the provider, for its service order and its amount, however syncs, approvals
\* and refunds interleave (MercadoPagoCheckoutAdapter.get_payment_status).
THEOREM SyncConfirmsPaid ==
  ASSUME Operations \cap {"confirm", "simulate"} = {}
  PROVE  Spec => []ConfirmedMeansPaid
<1>1. Init => PaidInv
  BY DEF Init, PaidInv, ConfirmedMeansPaid, JobPaid, Idle, Work, PaidStatuses, Absent
<1>2. IInv /\ PaidInv /\ [Next]_vars => PaidInv'
  BY PaidNext
<1>3. PaidInv => ConfirmedMeansPaid
  BY DEF PaidInv
<1>. QED  BY <1>1, <1>2, <1>3, Invariance, PTL DEF Spec
=============================================================================
