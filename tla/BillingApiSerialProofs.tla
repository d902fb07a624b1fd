----------------------- MODULE BillingApiSerialProofs -----------------------
(***************************************************************************)
(* What BillingApi promises where requests do not overlap, even if they    *)
(* are cut short: a quote is approved once, a payment is confirmed once,   *)
(* and the payments table with its events implements PaymentLedger.        *)
(***************************************************************************)
EXTENDS BillingApiProofs

\* One request at a time.
Solo == \A t, u \in Thread : t = u

Unpaid(q) == \A p \in Payment : QuoteOf[p] = q => payments[p] = Absent

\* What the only thread has read is still true when it saves, and what it has
\* saved is still true when it publishes.
SoloOk(j) ==
  /\ j.pc \in {"gateway", "saveQuote"} /\ j.action = "approved" =>
       quotes[QuoteOf[j.target]] # "APPROVED"
  /\ j.pc = "savePayment" =>
       /\ payments[j.target] = j.seen
       /\ j.action = "approved" => Unpaid(QuoteOf[j.target])
  /\ j.pc = "publish" =>
       /\ j.action = "confirmed" => /\ payments[j.target] = "CONFIRMED"
                                    /\ ~Announced("PAYMENT_CONFIRMED", j.target)
       /\ j.action = "failed" => payments[j.target] = "FAILED"
       /\ j.action = "approved" /\ j.outbox = Story(j.action, j.target) =>
            ~Announced("QUOTE_APPROVED", QuoteOf[j.target])

\* An outcome that was announced is the one in the table.
ToldIsTrue ==
  \A p \in Payment, status \in Settled :
    Announced(SettledEvent(status), p) => payments[p] = status

SoloInv ==
  /\ ApprovedOnce
  /\ ConfirmedOnce
  /\ ToldIsTrue
  /\ \A t \in Thread : SoloOk(job[t])
-----------------------------------------------------------------------------
\* A step that neither saves a payment nor publishes keeps SoloInv if the
\* thread may be where it gets to.
LEMMA SoloStep ==
  ASSUME Solo, IInv, SoloInv, payments' = payments, published' = published,
         NEW t \in Thread, NEW work, job' = [job EXCEPT ![t] = work], SoloOk(work)'
  PROVE  SoloInv'
<1>1. ApprovedOnce' /\ ConfirmedOnce' /\ ToldIsTrue'
  BY DEF SoloInv, ApprovedOnce, ConfirmedOnce, ToldIsTrue, Stored, Announced
<1>2. ASSUME NEW u \in Thread PROVE job'[u] = work
  BY <1>2 DEF Solo, IInv, TypeOK
<1>3. \A u \in Thread : SoloOk(job[u])'
  BY <1>2 DEF SoloOk, Unpaid, Announced
<1>. QED  BY <1>1, <1>3 DEF SoloInv

\* A thread that has read a payment may save what it decided on it.
LEMMA DecidedSolo ==
  ASSUME NEW action, action # "approved", NEW p
  PROVE  SoloOk(Work("savePayment", action, p, payments[p])) /\ SoloOk(Refused)
BY DEF SoloOk, Work, Refused, Idle

LEMMA AppliedSolo ==
  ASSUME IInv, NEW p \in Payment, NEW status
  PROVE  SoloOk(Applied(p, status))
<1>. DEFINE action == ApplyAction(status, payments[p])
<1>1. CASE payments[p] = Absent \/ action = "refused"
  BY <1>1, DecidedSolo DEF Applied, SoloOk, Refused, Idle, Work
<1>2. CASE payments[p] # Absent /\ action # "refused"
  <2>1. payments[p] \in {"PENDING", "CONFIRMED", "FAILED"}
    BY <1>2 DEF IInv, TypeOK, PaymentStatus, PaymentBacked, Stored
  <2>2. Decided(action, payments[p])
    BY <1>2, <2>1, ApplyDecides
  <2>3. action # "approved"
    BY <2>2 DEF Decided
  <2>4. Applied(p, status) = Work("savePayment", action, p, payments[p])
    BY <1>2 DEF Applied
  <2>. HIDE DEF action
  <2>. QED  BY <2>3, <2>4, DecidedSolo
<1>. QED  BY <1>1, <1>2

LEMMA RequestSolo ==
  ASSUME Solo, IInv, SoloInv, NEW t \in Thread, Request(t)
  PROVE  SoloInv'
<1>1. payments' = payments /\ published' = published /\ quotes' = quotes
  BY DEF Request, BeginCreate, BeginApprove, BeginConfirm, BeginFail, BeginSimulate,
         BeginSync, tables
<1>2. \E work : job' = [job EXCEPT ![t] = work] /\ SoloOk(work)
  <2>1. CASE BeginCreate(t) \/ BeginApprove(t) \/ BeginSync(t)
    BY <2>1 DEF BeginCreate, BeginApprove, ApproveStep, BeginSync, Begin, SoloOk,
                Work, Refused, Idle, CanApprove, FreshPayments
  <2>2. CASE BeginConfirm(t) \/ BeginFail(t)
    BY <2>2, DecidedSolo DEF BeginConfirm, BeginFail, Begin
  <2>3. CASE BeginSimulate(t)
    BY <2>3, AppliedSolo DEF BeginSimulate, Begin
  <2>. QED  BY <2>1, <2>2, <2>3 DEF Request
<1>3. PICK work : job' = [job EXCEPT ![t] = work] /\ SoloOk(work)
  BY <1>2
<1>4. SoloOk(work)'
  BY <1>1, <1>3 DEF SoloOk, Unpaid, Announced
<1>. QED  BY <1>1, <1>3, <1>4, SoloStep

\* An answer ends the request, and with it all that SoloOk asks of it.
LEMMA AnswerSolo ==
  ASSUME Solo, IInv, SoloInv, NEW t \in Thread, NEW resp, Answer(t, resp),
         payments' = payments, published' = published
  PROVE  SoloInv'
<1>1. PICK work : /\ work = [job[t] EXCEPT !.pc = "idle", !.seen = Absent,
                               !.heard = "none", !.outbox = <<>>, !.resp = resp]
                  /\ job' = [job EXCEPT ![t] = work]
  BY DEF Answer
<1>2. work.pc = "idle"
  BY <1>1 DEF IInv, TypeOK, Job
<1>3. SoloOk(work)'
  BY <1>2 DEF SoloOk
<1>. QED  BY <1>1, <1>3, SoloStep

\* Where a thread gets to by a Goto.
LEMMA GotoWork ==
  ASSUME IInv, NEW t \in Thread, NEW pc, Goto(t, pc)
  PROVE  \E work : /\ job' = [job EXCEPT ![t] = work]
                   /\ work.pc = pc /\ work.action = job[t].action
                   /\ work.target = job[t].target /\ work.seen = job[t].seen
                   /\ work.outbox = job[t].outbox
<1>. DEFINE work == [job[t] EXCEPT !.pc = pc]
<1>1. /\ work.pc = pc /\ work.action = job[t].action
      /\ work.target = job[t].target /\ work.seen = job[t].seen
      /\ work.outbox = job[t].outbox
  BY DEF IInv, TypeOK, Job
<1>2. job' = [job EXCEPT ![t] = work]
  BY DEF Goto
<1>. HIDE DEF work
<1>. QED  BY <1>1, <1>2

LEMMA GatewaySolo ==
  ASSUME Solo, IInv, SoloInv, NEW t \in Thread, CallGateway(t)
  PROVE  SoloInv'
<1>1. UNCHANGED <<quotes, payments, published>>
  BY DEF CallGateway, tables
<1>2. CASE Goto(t, "saveQuote")
  <2>1. PICK work : /\ job' = [job EXCEPT ![t] = work]
                    /\ work.pc = "saveQuote" /\ work.action = job[t].action
                    /\ work.target = job[t].target
    BY <1>2, GotoWork
  <2>2. SoloOk(work)'
    BY <1>1, <2>1 DEF SoloInv, SoloOk, CallGateway
  <2>. QED  BY <1>1, <2>1, <2>2, SoloStep
<1>. QED  BY <1>1, <1>2, AnswerSolo DEF CallGateway

LEMMA SearchSolo ==
  ASSUME Solo, IInv, SoloInv, NEW t \in Thread, SearchPayments(t)
  PROVE  SoloInv'
<1>1. UNCHANGED <<quotes, payments, published>>
  BY DEF SearchPayments, tables
<1>2. ASSUME NEW pp \in ProviderPayment,
             job' = [job EXCEPT ![t].heard = provider[pp], ![t].pc = "apply"]
      PROVE  SoloInv'
  <2>1. PICK work : /\ work = [job[t] EXCEPT !.heard = provider[pp], !.pc = "apply"]
                    /\ job' = [job EXCEPT ![t] = work]
    BY <1>2
  <2>2. work.pc = "apply"
    BY <2>1 DEF IInv, TypeOK, Job
  <2>3. SoloOk(work)'
    BY <2>2 DEF SoloOk
  <2>. QED  BY <1>1, <2>1, <2>3, SoloStep
<1>. QED  BY <1>1, <1>2, AnswerSolo DEF SearchPayments

LEMMA SaveQuoteSolo ==
  ASSUME Solo, IInv, SoloInv, NEW t \in Thread, SaveQuote(t)
  PROVE  SoloInv'
<1>. DEFINE p == job[t].target
<1>1. payments' = payments /\ published' = published
  BY DEF SaveQuote
<1>2. CASE job[t].action = "created" /\ Goto(t, "publish")
  <2>1. PICK work : /\ job' = [job EXCEPT ![t] = work]
                    /\ work.pc = "publish" /\ work.action = "created"
    BY <1>2, GotoWork
  <2>2. SoloOk(work)'
    BY <2>1 DEF SoloOk
  <2>. QED  BY <1>1, <2>1, <2>2, SoloStep
<1>3. CASE job[t].action = "approved" /\ Goto(t, "savePayment")
  <2>1. PICK work : /\ job' = [job EXCEPT ![t] = work]
                    /\ work.pc = "savePayment" /\ work.action = "approved"
                    /\ work.target = p /\ work.seen = job[t].seen
    BY <1>3, GotoWork
  <2>2. /\ p \in Payment /\ job[t].seen = Absent
        /\ quotes[QuoteOf[p]] # "APPROVED"
    BY <1>3 DEF SaveQuote, IInv, JobOk, SoloInv, SoloOk
  <2>3. Unpaid(QuoteOf[p])
    BY <2>2 DEF Unpaid, IInv, PaymentBacked, Stored
  <2>4. SoloOk(work)'
    BY <1>1, <2>1, <2>2, <2>3 DEF SoloOk, Unpaid
  <2>. QED  BY <1>1, <2>1, <2>4, SoloStep
<1>. QED  BY <1>2, <1>3 DEF SaveQuote

\* What a save does to its payment, and what was stored and announced of it
\* before.
LEMMA SaveCases ==
  ASSUME IInv, SoloInv, NEW t \in Thread, SavePayment(t)
  PROVE  LET p == job[t].target
             status == StatusAfter(job[t].action, job[t].seen)
         IN  /\ p \in Payment /\ payments[p] = job[t].seen
             /\ payments' = [payments EXCEPT ![p] = status]
             /\ \/ /\ job[t].action = "approved" /\ payments[p] = Absent
                   /\ status = "PENDING" /\ Unpaid(QuoteOf[p])
                \/ /\ job[t].action = "confirmed" /\ payments[p] = "PENDING"
                   /\ status = "CONFIRMED"
                \/ /\ job[t].action = "failed" /\ payments[p] \in {"PENDING", "FAILED"}
                   /\ status = "FAILED"
                \/ /\ job[t].action \in {"ignored", "duplicate"}
                   /\ payments[p] # Absent /\ status = payments[p]
<1>1. /\ job[t].target \in Payment
      /\ \/ job[t].action = "approved" /\ job[t].seen = Absent
         \/ Decided(job[t].action, job[t].seen) /\ job[t].action # "approved"
  BY DEF IInv, JobOk, SavePayment, Decided
<1>2. /\ payments[job[t].target] = job[t].seen
      /\ job[t].action = "approved" => Unpaid(QuoteOf[job[t].target])
  BY DEF SoloInv, SoloOk, SavePayment
<1>3. payments' = [payments EXCEPT ![job[t].target] =
                     StatusAfter(job[t].action, job[t].seen)]
  BY DEF SavePayment
<1>. QED  BY <1>1, <1>2, <1>3 DEF Decided, StatusAfter, Absent

LEMMA SavePaymentSolo ==
  ASSUME Solo, IInv, SoloInv, NEW t \in Thread, SavePayment(t)
  PROVE  SoloInv'
<1>. DEFINE p == job[t].target
            status == StatusAfter(job[t].action, job[t].seen)
<1>1. /\ p \in Payment
      /\ payments' = [payments EXCEPT ![p] = status]
      /\ \/ /\ job[t].action = "approved" /\ payments[p] = Absent
            /\ status = "PENDING" /\ Unpaid(QuoteOf[p])
         \/ /\ job[t].action = "confirmed" /\ payments[p] = "PENDING"
            /\ status = "CONFIRMED"
         \/ /\ job[t].action = "failed" /\ payments[p] \in {"PENDING", "FAILED"}
            /\ status = "FAILED"
         \/ /\ job[t].action \in {"ignored", "duplicate"}
            /\ payments[p] # Absent /\ status = payments[p]
  BY SaveCases
<1>2. published' = published /\ \E pc : Goto(t, pc)
  BY DEF SavePayment
<1>3. PICK work : /\ job' = [job EXCEPT ![t] = work]
                  /\ work.action = job[t].action /\ work.target = p
                  /\ work.pc \in {"reply", "publish"}
  <2>1. CASE Goto(t, "reply")
    BY <2>1, GotoWork
  <2>2. CASE Goto(t, "publish")
    BY <2>2, GotoWork
  <2>. QED  BY <2>1, <2>2 DEF SavePayment
<1>4. payments \in [Payment -> PaymentStatus \cup {Absent}]
  BY DEF IInv, TypeOK
<1>. HIDE DEF p, status
<1>5. ASSUME NEW x \in Payment PROVE payments'[x] = IF x = p THEN status ELSE payments[x]
  BY <1>1, <1>4
<1>6. ApprovedOnce'
  <2>1. \A q \in Quote : published'[<<"QUOTE_APPROVED", q>>] =< 1
    BY <1>2 DEF SoloInv, ApprovedOnce
  <2>2. ASSUME NEW q \in Quote, NEW x \in Payment, NEW y \in Payment,
               QuoteOf[x] = q, QuoteOf[y] = q, payments'[x] # Absent, payments'[y] # Absent
        PROVE  x = y
    <3>a. \A p1, p2 \in Payment : QuoteOf[p1] = q /\ QuoteOf[p2] = q
                                  /\ payments[p1] # Absent /\ payments[p2] # Absent => p1 = p2
      BY DEF SoloInv, ApprovedOnce, Stored
    <3>b. /\ x # p => payments[x] # Absent
          /\ y # p => payments[y] # Absent
      BY <2>2, <1>5
    <3>1. CASE payments[p] = Absent /\ Unpaid(QuoteOf[p])
      <4>1. \A z \in Payment : QuoteOf[z] = QuoteOf[p] => payments[z] = Absent
        BY <3>1 DEF Unpaid
      <4>2. CASE x = p
        <5>1. payments[y] = Absent
          BY <4>1, <4>2, <2>2
        <5>. QED  BY <5>1, <4>2, <3>b
      <4>3. CASE y = p
        <5>1. payments[x] = Absent
          BY <4>1, <4>3, <2>2
        <5>. QED  BY <5>1, <4>3, <3>b
      <4>4. CASE x # p /\ y # p
        BY <4>4, <3>a, <3>b, <2>2
      <4>. QED  BY <4>2, <4>3, <4>4
    <3>2. CASE payments[p] # Absent
      <4>1. payments[x] # Absent /\ payments[y] # Absent
        BY <3>2, <3>b
      <4>. QED  BY <4>1, <3>a, <2>2
    <3>. QED  BY <1>1, <3>1, <3>2 DEF Absent
  <2>. QED  BY <2>1, <2>2 DEF ApprovedOnce, Stored
<1>7. ConfirmedOnce'
  BY <1>2 DEF SoloInv, ConfirmedOnce
<1>8. ASSUME NEW x \in Payment, NEW outcome \in Settled,
             Announced(SettledEvent(outcome), x)
      PROVE  payments[x] = outcome
  BY <1>8 DEF SoloInv, ToldIsTrue
<1>9. ToldIsTrue'
  <2>. SUFFICES ASSUME NEW x \in Payment, NEW outcome \in Settled,
                       Announced(SettledEvent(outcome), x)
                PROVE  payments'[x] = outcome
    BY <1>2 DEF ToldIsTrue, Announced
  <2>. QED  BY <1>1, <1>5, <1>8 DEF Settled, Absent
<1>10. SoloOk(work)'
  <2>1. CASE job[t].action = "confirmed"
    <3>1. payments'[p] = "CONFIRMED" /\ ~Announced("PAYMENT_CONFIRMED", p)
      BY <2>1, <1>1, <1>5, <1>8 DEF Settled, SettledEvent
    <3>. QED  BY <2>1, <3>1, <1>2, <1>3 DEF SoloOk, Announced
  <2>2. CASE job[t].action = "failed"
    BY <2>2, <1>1, <1>3, <1>5 DEF SoloOk
  <2>3. CASE job[t].action = "approved"
    <3>1. ~Announced("QUOTE_APPROVED", QuoteOf[p])
      BY <2>3, <1>1, ConstantsAssumption DEF Unpaid, IInv, AnnouncedIsStored, Stored
    <3>. QED  BY <2>3, <3>1, <1>2, <1>3 DEF SoloOk, Announced
  <2>4. CASE job[t].action \in {"ignored", "duplicate"}
    BY <2>4, <1>3 DEF SoloOk
  <2>. QED  BY <1>1, <2>1, <2>2, <2>3, <2>4
<1>11. \A u \in Thread : SoloOk(job[u])'
  <2>1. \A u \in Thread : job'[u] = work
    BY <1>3 DEF Solo, IInv, TypeOK
  <2>. QED  BY <1>10, <2>1 DEF SoloOk, Unpaid, Announced
<1>. QED  BY <1>6, <1>7, <1>9, <1>11 DEF SoloInv

\* A publish adds one event, and tells of a payment only what it is.
LEMMA PublishSays ==
  ASSUME IInv, SoloInv, NEW t \in Thread, Publish(t)
  PROVE  \E e \in Event :
           /\ published' = [published EXCEPT ![e] = @ + 1]
           /\ \A x \in Payment, outcome \in Settled :
                e = <<SettledEvent(outcome), x>> => payments[x] = outcome
           /\ \A x \in Payment :
                e = <<"PAYMENT_CONFIRMED", x>> => ~Announced("PAYMENT_CONFIRMED", x)
           /\ \A q \in Quote :
                e = <<"QUOTE_APPROVED", q>> => ~Announced("QUOTE_APPROVED", q)
<1>. DEFINE j == job[t]
<1>1. PICK e \in Event : Publishes(j, e) /\ e = Head(j.outbox)
  BY PublishCases DEF Publish
<1>2. published' = [published EXCEPT ![e] = @ + 1]
  BY <1>1 DEF Publish
<1>3. SoloOk(j) /\ j.pc = "publish"
  BY DEF SoloInv, Publish
<1>. HIDE DEF j
<1>4. CASE j.action = "created" /\ e = <<"QUOTE_CREATED", j.target>>
  BY <1>2, <1>4 DEF Settled, SettledEvent
<1>5. CASE j.action = "confirmed" /\ e = <<"PAYMENT_CONFIRMED", j.target>>
  BY <1>2, <1>3, <1>5 DEF SoloOk, Settled, SettledEvent
<1>6. CASE j.action = "failed" /\ e = <<"PAYMENT_FAILED", j.target>>
  BY <1>2, <1>3, <1>6 DEF SoloOk, Settled, SettledEvent
<1>7. CASE /\ j.action = "approved" /\ j.outbox = Story(j.action, j.target)
           /\ e = <<"QUOTE_APPROVED", QuoteOf[j.target]>>
  BY <1>2, <1>3, <1>7 DEF SoloOk, Settled, SettledEvent
<1>8. CASE e = <<"PAYMENT_PREFERENCE_CREATED", j.target>>
  BY <1>2, <1>8 DEF Settled, SettledEvent
<1>. QED  BY <1>1, <1>4, <1>5, <1>6, <1>7, <1>8 DEF Publishes

LEMMA PublishSolo ==
  ASSUME Solo, IInv, SoloInv, NEW t \in Thread, Publish(t)
  PROVE  SoloInv'
<1>1. PICK e \in Event :
        /\ published' = [published EXCEPT ![e] = @ + 1]
        /\ \A x \in Payment, outcome \in Settled :
             e = <<SettledEvent(outcome), x>> => payments[x] = outcome
        /\ \A x \in Payment :
             e = <<"PAYMENT_CONFIRMED", x>> => ~Announced("PAYMENT_CONFIRMED", x)
        /\ \A q \in Quote :
             e = <<"QUOTE_APPROVED", q>> => ~Announced("QUOTE_APPROVED", q)
  BY PublishSays
<1>2. payments' = payments /\ published \in [Event -> Nat]
  BY DEF Publish, tables, IInv, TypeOK
<1>3. ASSUME NEW f \in Event
      PROVE  /\ published'[f] = IF f = e THEN published[f] + 1 ELSE published[f]
             /\ published[f] \in Nat
  BY <1>1, <1>2
<1>4. /\ \A q \in Quote : <<"QUOTE_APPROVED", q>> \in Event
      /\ \A x \in Payment, outcome \in Settled : <<SettledEvent(outcome), x>> \in Event
      /\ \A x \in Payment : <<"PAYMENT_CONFIRMED", x>> \in Event
  BY DEF Event, QuoteEventTypes, PaymentEventTypes, Settled, SettledEvent
<1>5. ApprovedOnce'
  <2>1. ASSUME NEW q \in Quote PROVE published'[<<"QUOTE_APPROVED", q>>] =< 1
    <3>1. published[<<"QUOTE_APPROVED", q>>] =< 1
      BY DEF SoloInv, ApprovedOnce
    <3>. QED  BY <3>1, <1>1, <1>3, <1>4 DEF Announced
  <2>. QED  BY <2>1, <1>2 DEF SoloInv, ApprovedOnce, Stored
<1>6. ConfirmedOnce'
  <2>1. ASSUME NEW x \in Payment PROVE published'[<<"PAYMENT_CONFIRMED", x>>] =< 1
    <3>1. published[<<"PAYMENT_CONFIRMED", x>>] =< 1
      BY DEF SoloInv, ConfirmedOnce
    <3>. QED  BY <3>1, <1>1, <1>3, <1>4 DEF Announced
  <2>. QED  BY <2>1 DEF ConfirmedOnce
<1>7. ToldIsTrue'
  <2>. SUFFICES ASSUME NEW x \in Payment, NEW outcome \in Settled,
                       published'[<<SettledEvent(outcome), x>>] > 0
                PROVE  payments[x] = outcome
    BY <1>2 DEF ToldIsTrue, Announced
  <2>1. CASE e = <<SettledEvent(outcome), x>>
    BY <2>1, <1>1
  <2>2. CASE e # <<SettledEvent(outcome), x>>
    <3>1. published[<<SettledEvent(outcome), x>>] > 0
      BY <2>2, <1>3, <1>4
    <3>. QED  BY <3>1 DEF SoloInv, ToldIsTrue, Announced
  <2>. QED  BY <2>1, <2>2
<1>8. PICK work :
        /\ work = [job[t] EXCEPT !.outbox = Tail(@),
                     !.pc = IF Len(job[t].outbox) = 1 THEN "reply" ELSE "publish"]
        /\ job' = [job EXCEPT ![t] = work]
  BY DEF Publish
<1>9. /\ work.pc = IF Len(job[t].outbox) = 1 THEN "reply" ELSE "publish"
      /\ work.action = job[t].action /\ work.target = job[t].target
      /\ work.outbox = Tail(job[t].outbox)
  BY <1>8 DEF IInv, TypeOK, Job
<1>10. SoloOk(work)'
  <2>1. PICK f \in Event : Publishes(job[t], f)
    BY PublishCases DEF Publish
  <2>2. CASE Len(job[t].outbox) = 1
    BY <2>2, <1>9 DEF SoloOk
  <2>3. CASE job[t].action = "approved" /\ job[t].outbox = Story(job[t].action, job[t].target)
    <3>1. Tail(job[t].outbox) # Story(job[t].action, job[t].target)
      BY <2>3, StoryOf
    <3>. QED  BY <3>1, <2>3, <1>9 DEF SoloOk
  <2>4. job[t].outbox = <<f>> => Len(job[t].outbox) = 1
    OBVIOUS
  <2>. QED  BY <2>1, <2>2, <2>3, <2>4 DEF Publishes
<1>11. \A u \in Thread : SoloOk(job[u])'
  <2>1. \A u \in Thread : job'[u] = work
    BY <1>8 DEF Solo, IInv, TypeOK
  <2>. QED  BY <1>10, <2>1 DEF SoloOk, Unpaid, Announced
<1>. QED  BY <1>5, <1>6, <1>7, <1>11 DEF SoloInv

LEMMA SoloNext ==
  ASSUME Solo
  PROVE  IInv /\ SoloInv /\ [Next]_vars => SoloInv'
<1>. SUFFICES ASSUME IInv, SoloInv, [Next]_vars PROVE SoloInv'
  OBVIOUS
<1>1. ASSUME NEW t \in Thread, Request(t) PROVE SoloInv'
  BY <1>1, RequestSolo
<1>2. ASSUME NEW t \in Thread, CallGateway(t) \/ SearchPayments(t) PROVE SoloInv'
  BY <1>2, GatewaySolo, SearchSolo
<1>3. ASSUME NEW t \in Thread, ApplyStatus(t) PROVE SoloInv'
  <2>1. job[t].target \in Payment
    BY <1>3 DEF ApplyStatus, IInv, JobOk
  <2>2. PICK work : work = Applied(job[t].target, job[t].heard)
                    /\ job' = [job EXCEPT ![t] = work]
    BY <1>3 DEF ApplyStatus
  <2>3. UNCHANGED <<quotes, payments, published>>
    BY <1>3 DEF ApplyStatus, tables
  <2>4. SoloOk(work)
    BY <2>1, <2>2, AppliedSolo
  <2>5. SoloOk(work)'
    BY <2>3, <2>4 DEF SoloOk, Unpaid, Announced
  <2>. QED  BY <2>2, <2>3, <2>5, SoloStep
<1>4. ASSUME NEW t \in Thread, SaveQuote(t) \/ SavePayment(t) \/ Publish(t)
      PROVE  SoloInv'
  BY <1>4, SaveQuoteSolo, SavePaymentSolo, PublishSolo
<1>5. ASSUME NEW t \in Thread, Reply(t) \/ Interrupt(t) PROVE SoloInv'
  BY <1>5, AnswerSolo DEF Reply, Interrupt, tables
<1>6. CASE UNCHANGED <<quotes, payments, published, job>>
  BY <1>6 DEF SoloInv, ApprovedOnce, ConfirmedOnce, ToldIsTrue, Stored, Announced,
              SoloOk, Unpaid
<1>7. (\E pp \in ProviderPayment : ProviderStep(pp)) \/ UNCHANGED vars =>
        UNCHANGED <<quotes, payments, published, job>>
  BY DEF ProviderStep, vars, tables
<1>. QED  BY <1>1, <1>2, <1>3, <1>4, <1>5, <1>6, <1>7 DEF Next, LocalStep

LEMMA SoloInit ==
  ASSUME Init
  PROVE  SoloInv
<1>1. \A e \in Event : published[e] = 0
  BY DEF Init
<1>2. /\ \A q \in Quote : <<"QUOTE_APPROVED", q>> \in Event
      /\ \A x \in Payment, outcome \in Settled : <<SettledEvent(outcome), x>> \in Event
      /\ \A x \in Payment : <<"PAYMENT_CONFIRMED", x>> \in Event
  BY DEF Event, QuoteEventTypes, PaymentEventTypes, Settled, SettledEvent
<1>3. \A p \in Payment : payments[p] = Absent
  BY DEF Init
<1>4. ApprovedOnce /\ ConfirmedOnce /\ ToldIsTrue
  BY <1>1, <1>2, <1>3 DEF ApprovedOnce, ConfirmedOnce, ToldIsTrue, Stored, Announced
<1>5. \A t \in Thread : SoloOk(job[t])
  BY DEF Init, SoloOk, Idle, Work
<1>. QED  BY <1>4, <1>5 DEF SoloInv

\* SoloInv holds of every behaviour in which requests do not overlap.
THEOREM SoloInvariance ==
  ASSUME Solo
  PROVE  Spec => []SoloInv
<1>1. Init => SoloInv
  BY SoloInit
<1>2. IInv /\ SoloInv /\ [Next]_vars => SoloInv'
  BY SoloNext
<1>. QED  BY <1>1, <1>2, Invariance, PTL DEF Spec

\* Requests that do not overlap approve a quote once: Quote.approve sees the
\* save of the approval before it.
THEOREM QuotesApproveOnce ==
  ASSUME Solo
  PROVE  Spec => []ApprovedOnce
<1>1. SoloInv => ApprovedOnce
  BY DEF SoloInv
<1>. QED  BY <1>1, SoloInvariance, PTL

\* Requests that do not overlap announce a confirmation once: Payment.confirm
\* and the status table see the save of the confirmation before them.
THEOREM PaymentsConfirmOnce ==
  ASSUME Solo
  PROVE  Spec => []ConfirmedOnce
<1>1. SoloInv => ConfirmedOnce
  BY DEF SoloInv
<1>. QED  BY <1>1, SoloInvariance, PTL
-----------------------------------------------------------------------------
(* The refinement.                                                         *)

LEMMA ToldKept ==
  ASSUME published' = published
  PROVE  [p \in Payment |-> ToldOf(p)]' = [p \in Payment |-> ToldOf(p)]
BY DEF ToldOf, Announced

\* A save opens or settles a payment, or writes what is there.
LEMMA SaveRefines ==
  ASSUME IInv, SoloInv, NEW t \in Thread, SavePayment(t)
  PROVE  [Ledger!Next]_<<payments, [p \in Payment |-> ToldOf(p)]>>
<1>. DEFINE x == job[t].target
            status == StatusAfter(job[t].action, job[t].seen)
<1>1. /\ x \in Payment
      /\ payments' = [payments EXCEPT ![x] = status]
      /\ \/ payments[x] = Absent /\ status = "PENDING"
         \/ payments[x] = "PENDING" /\ status \in Settled
         \/ status = payments[x]
  BY SaveCases DEF Settled
<1>2. [p \in Payment |-> ToldOf(p)]' = [p \in Payment |-> ToldOf(p)]
  BY ToldKept DEF SavePayment
<1>. HIDE DEF x, status
<1>3. CASE payments[x] = Absent /\ status = "PENDING"
  BY <1>1, <1>2, <1>3 DEF Ledger!Next, Ledger!Open, Ledger!Absent, Absent
<1>4. CASE payments[x] = "PENDING" /\ status \in Settled
  BY <1>1, <1>2, <1>4 DEF Ledger!Next, Ledger!Settle, Ledger!Settled, Settled
<1>5. CASE status = payments[x]
  <2>1. payments' = payments
    BY <1>1, <1>5 DEF IInv, TypeOK
  <2>. QED  BY <1>2, <2>1
<1>. QED  BY <1>1, <1>3, <1>4, <1>5

\* A publish of an outcome tells the one in the table; any other is no step of
\* the ledger.
LEMMA PublishRefines ==
  ASSUME IInv, SoloInv, NEW t \in Thread, Publish(t)
  PROVE  [Ledger!Next]_<<payments, [p \in Payment |-> ToldOf(p)]>>
<1>1. PICK e \in Event :
        /\ published' = [published EXCEPT ![e] = @ + 1]
        /\ \A x \in Payment, outcome \in Settled :
             e = <<SettledEvent(outcome), x>> => payments[x] = outcome
  BY PublishSays
<1>2. payments' = payments /\ published \in [Event -> Nat]
  BY DEF Publish, tables, IInv, TypeOK
<1>3. ASSUME NEW p \in Payment, NEW outcome \in Settled
      PROVE  Announced(SettledEvent(outcome), p)' <=>
               Announced(SettledEvent(outcome), p) \/ e = <<SettledEvent(outcome), p>>
  <2>1. <<SettledEvent(outcome), p>> \in Event
    BY DEF Event, PaymentEventTypes, Settled, SettledEvent
  <2>. QED  BY <1>1, <1>2, <2>1 DEF Announced
<1>4. ASSUME NEW p \in Payment
      PROVE  ToldOf(p)' = ToldOf(p) \cup {outcome \in Settled : e = <<SettledEvent(outcome), p>>}
  BY <1>3 DEF ToldOf
<1>5. CASE \E x \in Payment, outcome \in Settled : e = <<SettledEvent(outcome), x>>
  <2>1. PICK x \in Payment, outcome \in Settled : e = <<SettledEvent(outcome), x>>
    BY <1>5
  <2>2. payments[x] = outcome
    BY <1>1, <2>1
  <2>3. ToldOf(x)' = ToldOf(x) \cup {payments[x]}
    BY <1>4, <2>1, <2>2 DEF Settled, SettledEvent
  <2>4. ASSUME NEW p \in Payment, p # x PROVE ToldOf(p)' = ToldOf(p)
    BY <1>4, <2>1, <2>4
  <2>5. [p \in Payment |-> ToldOf(p)]' =
          [[p \in Payment |-> ToldOf(p)] EXCEPT ![x] = @ \cup {payments[x]}]
    BY <2>3, <2>4
  <2>. QED  BY <1>2, <2>1, <2>2, <2>5 DEF Ledger!Next, Ledger!Tell, Ledger!Settled, Settled
<1>6. CASE ~\E x \in Payment, outcome \in Settled : e = <<SettledEvent(outcome), x>>
  <2>1. [p \in Payment |-> ToldOf(p)]' = [p \in Payment |-> ToldOf(p)]
    BY <1>4, <1>6
  <2>. QED  BY <1>2, <2>1
<1>. QED  BY <1>5, <1>6

\* Requests that do not overlap, cut short or not, make of the payments table and
\* its events a PaymentLedger: no listener hears two outcomes of a payment or one
\* that is not stored (the saves and publishes of ConfirmPaymentUseCase,
\* FailPaymentUseCase and ApplyPaymentStatusUseCase).
THEOREM LedgerImplemented ==
  ASSUME Solo
  PROVE  Spec => ImplementsLedger
<1>1. Init => Ledger!Init
  <2>. SUFFICES ASSUME Init PROVE Ledger!Init
    OBVIOUS
  <2>1. ASSUME NEW p \in Payment PROVE ToldOf(p) = {}
    <3>1. \A outcome \in Settled : <<SettledEvent(outcome), p>> \in Event
      BY DEF Event, PaymentEventTypes, Settled, SettledEvent
    <3>. QED  BY <3>1 DEF Init, ToldOf, Announced
  <2>. QED  BY <2>1 DEF Init, Ledger!Init, Ledger!Absent, Absent
<1>2. IInv /\ SoloInv /\ [Next]_vars =>
        [Ledger!Next]_<<payments, [p \in Payment |-> ToldOf(p)]>>
  <2>. SUFFICES ASSUME IInv, SoloInv, [Next]_vars
                PROVE  [Ledger!Next]_<<payments, [p \in Payment |-> ToldOf(p)]>>
    OBVIOUS
  <2>1. ASSUME NEW t \in Thread, SavePayment(t) \/ Publish(t)
        PROVE  [Ledger!Next]_<<payments, [p \in Payment |-> ToldOf(p)]>>
    BY <2>1, SaveRefines, PublishRefines
  <2>2. CASE ~\E t \in Thread : SavePayment(t) \/ Publish(t)
    <3>1. payments' = payments /\ published' = published
      BY <2>2 DEF Next, Request, LocalStep, BeginCreate, BeginApprove, BeginConfirm,
                  BeginFail, BeginSimulate, BeginSync, CallGateway, SearchPayments,
                  ApplyStatus, SaveQuote, Reply, Interrupt, ProviderStep, vars, tables
    <3>. QED  BY <3>1, ToldKept
  <2>. QED  BY <2>1, <2>2
<1>. QED  BY <1>1, <1>2, Invariance, SoloInvariance, PTL
          DEF Spec, ImplementsLedger, Ledger!Spec

\* ... and so, as the ledger promises, a payment is told of with its one outcome.
THEOREM OutcomesAreOne ==
  ASSUME Solo
  PROVE  Spec => []Ledger!OneOutcome
<1>1. SoloInv => Ledger!OneOutcome
  BY DEF SoloInv, ToldIsTrue, ToldOf, Ledger!OneOutcome
<1>. QED  BY <1>1, SoloInvariance, PTL
=============================================================================
