--------------------------- MODULE MemoryRuntime ---------------------------
(***************************************************************************)
(* The API in APP_RUNTIME_MODE=memory: one process whose repositories are  *)
(* dictionaries of live objects and whose publisher is a list.  A request  *)
(* changes the stored object itself, so save only files an object that is  *)
(* new; a check and the assignment it guards are in one domain method,     *)
(* which CPython runs without giving way to another thread (it does so     *)
(* only at calls and at the end of a loop).                                *)
(*                                                                         *)
(* Ids are as in BillingApi.  An event is named after its type, the quote  *)
(* or payment it is about and the request that published it.               *)
(***************************************************************************)
EXTENDS BillingDomain

CONSTANTS
  Thread, Quote, Payment,
  QuoteOf,
  ProviderStatuses,   \* statuses the provider and the test endpoint report
  MaxRequests,        \* bound on the number of requests
  NoTarget

ASSUME ConstantsAssumption ==
  /\ QuoteOf \in [Payment -> Quote]
  /\ NoTarget \notin Quote \cup Payment
  /\ MaxRequests \in Nat

VARIABLES
  mode,                      \* PAYMENT_PROVIDER_MODE, "mock" unless it is set
  quotes, payments,          \* the status of each object in the dictionaries
  messages,                  \* InMemoryEventPublisher.messages
  job,                       \* what each thread is doing
  served,                    \* requests begun so far
  announced,                 \* the events that were ever in messages
  drained,                   \* those an answered drain has returned
  atRisk                     \* those published between a drain's copy and its clear

store == <<mode, quotes, payments>>
events == <<messages, announced, drained, atRisk>>
vars == <<mode, quotes, payments, messages, job, served, announced, drained, atRisk>>

Members(list) == {list[i] : i \in DOMAIN list}

Event == (QuoteEventTypes \cup PaymentEventTypes) \X (Quote \cup Payment)
           \X (1..MaxRequests)

\* Story of BillingApi, for request n.
Story(action, target, n) ==
  CASE action = "created" -> << <<"QUOTE_CREATED", target, n>> >>
    [] action = "approved" -> << <<"QUOTE_APPROVED", QuoteOf[target], n>>,
                                 <<"PAYMENT_PREFERENCE_CREATED", target, n>> >>
    [] action = "confirmed" -> << <<"PAYMENT_CONFIRMED", target, n>> >>
    [] action = "failed" -> << <<"PAYMENT_FAILED", target, n>> >>
    [] OTHER -> <<>>

\* n is the number of the request, outbox what it still has to publish, copy
\* what a drain has read, code the HTTP status of the answer.
Work(pc, action, target) ==
  [pc |-> pc, action |-> action, target |-> target, n |-> 0,
   outbox |-> <<>>, copy |-> {}, code |-> 0]
Answered(code) == [Work("idle", "none", NoTarget) EXCEPT !.code = code]

Begin(t, work) ==
  /\ job[t].pc = "idle"
  /\ served < MaxRequests
  /\ served' = served + 1
  /\ job' = [job EXCEPT ![t] = [work EXCEPT !.n = served + 1]]

Goto(t, pc) == job' = [job EXCEPT ![t].pc = pc]
Answer(t, code) == job' = [job EXCEPT ![t] = Answered(code)]
GoPublish(t) ==
  job' = [job EXCEPT ![t] =
            [@ EXCEPT !.pc = "publish",
                      !.outbox = Story(job[t].action, job[t].target, job[t].n)]]

InUse(id) == \E t \in Thread : job[t].pc # "idle" /\ job[t].target = id
FreshQuotes == {q \in Quote : quotes[q] = Absent /\ ~InUse(q)}
FreshPayments(q) == {p \in Payment : QuoteOf[p] = q /\ payments[p] = Absent /\ ~InUse(p)}
-----------------------------------------------------------------------------
\* POST /quotes: the object is not stored before save.
BeginCreate(t) ==
  /\ \/ \E q \in FreshQuotes : Begin(t, Work("saveQuote", "created", q))
     \/ Begin(t, Answered(400))
  /\ UNCHANGED <<store, events>>

\* InMemoryQuoteRepository.save of an object that is new.
SaveQuote(t) ==
  LET q == job[t].target
  IN  /\ job[t].pc = "saveQuote"
      /\ quotes' = [quotes EXCEPT ![q] = "CREATED"]
      /\ GoPublish(t)
      /\ UNCHANGED <<mode, payments, events, served>>

\* POST /quotes/{id}/approve: Quote.approve changes the stored quote before
\* the gateway is called.
BeginApprove(t) ==
  /\ \E q \in Quote :
       \/ /\ CanApprove(quotes[q])
          /\ quotes' = [quotes EXCEPT ![q] = "APPROVED"]
          /\ \E p \in FreshPayments(q) : Begin(t, Work("gateway", "approved", p))
       \/ /\ ~CanApprove(quotes[q])
          /\ Begin(t, Answered(IF quotes[q] = Absent THEN 404 ELSE 400))
          /\ UNCHANGED quotes
  /\ UNCHANGED <<mode, payments, events>>

\* The fake gateway always answers.  Mercado Pago's may refuse (502) or lack
\* an id or a URL (400): nothing takes the approval back.
CallGateway(t) ==
  /\ job[t].pc = "gateway"
  /\ \/ Goto(t, "savePayment")
     \/ /\ mode = "mercado_pago"
        /\ \E code \in {400, 502} : Answer(t, code)
  /\ UNCHANGED <<store, events, served>>

\* The quote's save puts back the object that is there; then the payment's.
SavePayment(t) ==
  LET p == job[t].target
  IN  /\ job[t].pc = "savePayment"
      /\ payments' = [payments EXCEPT ![p] = "PENDING"]
      /\ GoPublish(t)
      /\ UNCHANGED <<mode, quotes, events, served>>
-----------------------------------------------------------------------------
\* Payment.confirm and Payment.fail on the stored payment.
BeginSettle(t, status) ==
  /\ \E p \in Payment :
       LET can == IF status = "CONFIRMED" THEN CanConfirm(payments[p])
                  ELSE CanFail(payments[p])
       IN  \/ /\ can
              /\ payments' = [payments EXCEPT ![p] = status]
              /\ Begin(t, Work("file", IF status = "CONFIRMED" THEN "confirmed"
                                       ELSE "failed", p))
           \/ /\ ~can
              /\ Begin(t, Answered(IF payments[p] = Absent THEN 404 ELSE 400))
              /\ UNCHANGED payments
  /\ UNCHANGED <<mode, quotes, events>>

\* The save that follows files the object under the key it has.
File(t) ==
  /\ job[t].pc = "file"
  /\ GoPublish(t)
  /\ UNCHANGED <<store, events, served>>

\* What ApplyPaymentStatusUseCase decides on the status it sees: the method
\* it then calls is a call, where another thread may come in between.
Decided(action, p) ==
  IF action \in {"confirmed", "failed"} THEN Work("act", action, p)
  ELSE Answered(IF action = "refused" THEN 400 ELSE 200)

\* The test endpoint, where it is enabled, and POST /payments/{id}/sync, which the fake gateway
\* refuses with 501.
BeginReport(t) ==
  /\ \E p \in Payment :
       IF payments[p] = Absent THEN Begin(t, Answered(404))
       ELSE \/ \E s \in ProviderStatuses :
                 Begin(t, Decided(ApplyAction(s, payments[p]), p))
            \/ mode = "mock" /\ Begin(t, Answered(501))
            \/ mode = "mercado_pago" /\ Begin(t, Work("search", "none", p))
  /\ UNCHANGED <<store, events>>

\* The provider's answer, or its refusal with its own code.
Search(t) ==
  /\ job[t].pc = "search"
  /\ \/ \E s \in ProviderStatuses :
          LET p == job[t].target
              work == Decided(ApplyAction(s, payments[p]), p)
          IN  job' = [job EXCEPT ![t] = [work EXCEPT !.n = job[t].n]]
     \/ \E code \in {404, 409, 502} : Answer(t, code)
  /\ UNCHANGED <<store, events, served>>

\* (Mutant: the method does not check again.)
ActsBlindly(t) ==
  /\ job[t].pc = "act"
  /\ payments' = [payments EXCEPT ![job[t].target] = StatusAfter(job[t].action, @)]
  /\ GoPublish(t)
  /\ UNCHANGED <<mode, quotes, events, served>>
Act(t) ==
  LET p == job[t].target
      can == IF job[t].action = "confirmed" THEN CanConfirm(payments[p])
             ELSE CanFail(payments[p])
  IN  /\ job[t].pc = "act"
      /\ payments' = IF can THEN [payments EXCEPT ![p] = StatusAfter(job[t].action, @)]
                     ELSE payments
      /\ IF can THEN GoPublish(t) ELSE Answer(t, 400)
      /\ UNCHANGED <<mode, quotes, events, served>>
-----------------------------------------------------------------------------
(* InMemoryEventPublisher, without a lock.  The list of DomainEvent beside *)
(* messages is written and cleared with it and read by nothing.            *)

Publish(t) ==
  LET e == Head(job[t].outbox)
      left == Tail(job[t].outbox)
  IN  /\ job[t].pc = "publish"
      /\ messages' = Append(messages, e)
      /\ announced' = announced \cup {e}
      /\ atRisk' = IF \E u \in Thread : job[u].pc = "clear" THEN atRisk \cup {e}
                   ELSE atRisk
      /\ job' = [job EXCEPT ![t] =
                   IF left # <<>> THEN [@ EXCEPT !.outbox = left]
                   ELSE [@ EXCEPT !.pc = "idle", !.outbox = <<>>,
                                  !.code = IF job[t].action = "created" THEN 201 ELSE 200]]
      /\ UNCHANGED <<store, served, drained>>

\* POST /events/drain: the copy, then the clear, which is the answer too.
BeginDrain(t) ==
  /\ Begin(t, [Work("clear", "none", NoTarget) EXCEPT !.copy = Members(messages)])
  /\ UNCHANGED <<store, events>>

\* (Mutant: the copy is dropped.)
AnswersNothing(t) ==
  /\ job[t].pc = "clear"
  /\ messages' = <<>>
  /\ Answer(t, 200)
  /\ UNCHANGED <<store, announced, drained, atRisk, served>>
Clear(t) ==
  /\ job[t].pc = "clear"
  /\ messages' = <<>>
  /\ drained' = drained \cup job[t].copy
  /\ Answer(t, 200)
  /\ UNCHANGED <<store, announced, atRisk, served>>
-----------------------------------------------------------------------------
Init ==
  /\ mode \in {"mock", "mercado_pago"}
  /\ quotes = [q \in Quote |-> Absent]
  /\ payments = [p \in Payment |-> Absent]
  /\ messages = <<>>
  /\ job = [t \in Thread |-> Answered(0)]
  /\ served = 0
  /\ announced = {} /\ drained = {} /\ atRisk = {}

Step(t) ==
  \/ BeginCreate(t) \/ SaveQuote(t)
  \/ BeginApprove(t) \/ CallGateway(t) \/ SavePayment(t)
  \/ BeginSettle(t, "CONFIRMED") \/ BeginSettle(t, "FAILED") \/ File(t)
  \/ BeginReport(t) \/ Search(t) \/ Act(t)
  \/ Publish(t)
  \/ BeginDrain(t) \/ Clear(t)

Next == \E t \in Thread : Step(t)

Spec == Init /\ [][Next]_vars
-----------------------------------------------------------------------------
\* The types of the variables.
TypeOK ==
  /\ mode \in {"mock", "mercado_pago"}
  /\ quotes \in [Quote -> QuoteStatus \cup {Absent}]
  /\ payments \in [Payment -> PaymentStatus \cup {Absent}]
  /\ messages \in Seq(Event)
  /\ served \in 0..MaxRequests
  /\ announced \subseteq Event
  /\ drained \subseteq Event
  /\ atRisk \subseteq Event

\* A quote is approved once and a payment confirmed once, however requests
\* overlap: unlike the tables' copies, the objects carry the first decision
\* to every thread at once.
Once(type, id) == \A m, n \in 1..MaxRequests :
  <<type, id, m>> \in announced /\ <<type, id, n>> \in announced => m = n
SettledOnce ==
  /\ \A q \in Quote : Once("QUOTE_APPROVED", q)
  /\ \A p \in Payment : Once("PAYMENT_CONFIRMED", p)
  /\ \A p1, p2 \in Payment :
       QuoteOf[p1] = QuoteOf[p2] /\ Absent \notin {payments[p1], payments[p2]} => p1 = p2

\* The objects and the announced outcomes are a PaymentLedger.
ToldOf(p) == {s \in Settled : \E n \in 1..MaxRequests : <<SettledEvent(s), p, n>> \in announced}
Ledger == INSTANCE PaymentLedger WITH
  status <- payments, told <- [p \in Payment |-> ToldOf(p)]
ImplementsLedger == Ledger!Spec

\* An approved quote whose approval is over has its payment, or was refused
\* by the gateway; and one that was refused never gets one.
Approving(q) == \E t \in Thread : job[t].action = "approved" /\ job[t].pc # "idle"
                                  /\ QuoteOf[job[t].target] = q
Stranded(q) == /\ quotes[q] = "APPROVED"
               /\ ~Approving(q)
               /\ \A p \in Payment : QuoteOf[p] = q => payments[p] = Absent
StrandedForGood == [][\A q \in Quote : Stranded(q) => Stranded(q)']_vars

\* An event is listed, or in the hands of a drain, or was published while a
\* drain stood between its copy and its clear.
EventsAreHandedOut ==
  announced \subseteq Members(messages) \cup drained \cup atRisk
                       \cup UNION {job[t].copy : t \in Thread}
=============================================================================
