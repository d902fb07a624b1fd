----------------------------- MODULE BillingApi -----------------------------
(***************************************************************************)
(* The HTTP API of the billing service: threads (of one replica or of      *)
(* several) that run the use cases of src/src/application/use_cases.py     *)
(* over the quotes and payments tables, the payment provider and the event *)
(* publisher.                                                              *)
(*                                                                         *)
(* A use case is a sequence of steps, each of which touches one thing      *)
(* outside the thread: a read, a gateway call, a save (one transaction     *)
(* that overwrites the whole row; rows carry no version) or a publish.     *)
(* Steps of different threads interleave; MayInterrupt lets a request stop *)
(* before any step, as it does when the process dies or a save, a publish  *)
(* or the connection to the client fails.                                  *)
(*                                                                         *)
(* Ids are fresh uuids, so an id stands for the immutable part of its row: *)
(* OrderOf and AmountOf give a quote its service order and total, QuoteOf  *)
(* a payment its quote, CheckoutOf a provider payment the checkout         *)
(* preference (named after the billing payment it was created for) that    *)
(* the customer paid through.                                              *)
(***************************************************************************)
EXTENDS BillingDomain, FiniteSets

CONSTANTS
  Thread, Quote, Payment, ProviderPayment,
  OrderOf, AmountOf, QuoteOf, CheckoutOf,
  InitialQuotes,      \* quotes the worker has already created
  Operations,         \* the endpoints clients use
  SimulatedStatuses,  \* provider statuses clients send to the test endpoint
  MayInterrupt,
  MaxRequests,        \* bound on the number of requests
  NoTarget            \* the target of a thread that has served nothing yet

AllOperations == {"create", "approve", "confirm", "fail", "simulate", "sync"}

ASSUME ConstantsAssumption ==
  /\ QuoteOf \in [Payment -> Quote]
  /\ CheckoutOf \in [ProviderPayment -> Payment]
  /\ InitialQuotes \subseteq Quote
  /\ Operations \subseteq AllOperations
  /\ MayInterrupt \in BOOLEAN
  /\ MaxRequests \in Nat
  /\ NoTarget \notin Quote \cup Payment

VARIABLES
  quotes,       \* the quotes table: the status of each row
  payments,     \* the payments table: the status of each row
  preferences,  \* payments whose checkout preference the provider holds
  provider,     \* the provider's payments: "none" or their status
  published,    \* how often each event has been accepted by the publisher
  job,          \* what each thread is doing, or how its last request ended
  served        \* requests begun so far

tables == <<quotes, payments>>
outside == <<preferences, provider>>
vars == <<quotes, payments, preferences, provider, published, job, served>>

Event == (QuoteEventTypes \X Quote) \cup (PaymentEventTypes \X Payment)

Actions == {"none", "created", "approved", "synced", "confirmed", "failed",
            "ignored", "duplicate"}
Pcs == {"idle", "gateway", "search", "apply", "saveQuote", "savePayment",
        "publish", "reply"}
Responses == {"none", "ok", "rejected", "error"}
ProviderStatus == {"none", "pending", "approved", "rejected", "refunded",
                   "in_mediation"}
-----------------------------------------------------------------------------
(* A request in progress.  action is what the use case has decided to do   *)
(* to its target, seen the payment status it read, heard the provider      *)
(* status it was given, outbox the events it still has to publish.         *)

\* The events a use case builds, in the order it publishes them.
Story(action, target) ==
  CASE action = "created" -> << <<"QUOTE_CREATED", target>> >>
    [] action = "approved" -> << <<"QUOTE_APPROVED", QuoteOf[target]>>,
                                 <<"PAYMENT_PREFERENCE_CREATED", target>> >>
    [] action = "confirmed" -> << <<"PAYMENT_CONFIRMED", target>> >>
    [] action = "failed" -> << <<"PAYMENT_FAILED", target>> >>
    [] OTHER -> <<>>

Work(pc, action, target, seen) ==
  [pc |-> pc, action |-> action, target |-> target, seen |-> seen,
   heard |-> "none", outbox |-> Story(action, target), resp |-> "none"]

Idle == Work("idle", "none", NoTarget, Absent)

\* A request refused before it touched anything: 400, 404 or a gateway error.
Refused == [Idle EXCEPT !.resp = "rejected"]

Begin(t, work) ==
  /\ job[t].pc = "idle"
  /\ served < MaxRequests
  /\ served' = served + 1
  /\ job' = [job EXCEPT ![t] = work]

Goto(t, pc) == job' = [job EXCEPT ![t].pc = pc]

Answer(t, resp) ==
  job' = [job EXCEPT ![t] = [@ EXCEPT !.pc = "idle", !.seen = Absent,
                                      !.heard = "none", !.outbox = <<>>,
                                      !.resp = resp]]

InUse(id) == \E t \in Thread : job[t].target = id
FreshQuotes == {q \in Quote : quotes[q] = Absent /\ ~InUse(q)}
FreshPayments == {p \in Payment : payments[p] = Absent /\ p \notin preferences
                                  /\ ~InUse(p)}
-----------------------------------------------------------------------------
(* POST /quotes: CreateQuoteUseCase.  The invalid requests are those with  *)
(* a blank service order, no items or an amount that is not positive.      *)

\* (Mutant: the event is published before the save.)
PublishesBeforeSave(t) ==
  /\ "create" \in Operations
  /\ \E q \in FreshQuotes : Begin(t, Work("publish", "created", q, Absent))
  /\ UNCHANGED <<tables, outside, published>>

BeginCreate(t) ==
  /\ "create" \in Operations
  /\ \/ \E q \in FreshQuotes : Begin(t, Work("saveQuote", "created", q, Absent))
     \/ Begin(t, Refused)
  /\ UNCHANGED <<tables, outside, published>>

(* POST /quotes/{id}/approve: ApproveQuoteUseCase.  Quote.approve and      *)
(* Payment.from_quote change objects in memory; the row is still CREATED   *)
(* while the gateway is called.                                            *)

ApproveStep(t, q) ==
  IF CanApprove(quotes[q])
  THEN \E p \in FreshPayments : /\ QuoteOf[p] = q
                                /\ Begin(t, Work("gateway", "approved", p, Absent))
  ELSE Begin(t, Refused)

BeginApprove(t) ==
  /\ "approve" \in Operations
  /\ \E q \in Quote : ApproveStep(t, q)
  /\ UNCHANGED <<tables, outside, published>>

\* (Mutant: the quote is not saved.)
SavesPaymentFirst(t) ==
  /\ job[t].pc = "gateway"
  /\ preferences' = preferences \cup {job[t].target}
  /\ Goto(t, "savePayment")
  /\ UNCHANGED <<tables, provider, published, served>>

\* (Mutant: the quote is saved before the gateway answers.)
SavesQuoteFirst(t) ==
  /\ job[t].pc = "gateway"
  /\ quotes' = [quotes EXCEPT ![QuoteOf[job[t].target]] = "APPROVED"]
  /\ preferences' = preferences \cup {job[t].target}
  /\ Goto(t, "savePayment") \/ Answer(t, "rejected")
  /\ UNCHANGED <<payments, provider, published, served>>

\* The preference may exist at the provider although the call failed: the
\* answer was lost, or lacked an id or a checkout URL.  A later approval
\* sends another idempotency key.
CallGateway(t) ==
  /\ job[t].pc = "gateway"
  /\ \/ /\ preferences' = preferences \cup {job[t].target}
        /\ Goto(t, "saveQuote")
     \/ /\ preferences' \in {preferences, preferences \cup {job[t].target}}
        /\ Answer(t, "rejected")
  /\ UNCHANGED <<tables, provider, published, served>>
-----------------------------------------------------------------------------
(* POST /payments/{id}/confirm and /fail: the read and the transition.     *)

BeginConfirm(t) ==
  /\ "confirm" \in Operations
  /\ \E p \in Payment :
       Begin(t, IF CanConfirm(payments[p])
                THEN Work("savePayment", "confirmed", p, payments[p])
                ELSE Refused)
  /\ UNCHANGED <<tables, outside, published>>

BeginFail(t) ==
  /\ "fail" \in Operations
  /\ \E p \in Payment :
       Begin(t, IF CanFail(payments[p])
                THEN Work("savePayment", "failed", p, payments[p])
                ELSE Refused)
  /\ UNCHANGED <<tables, outside, published>>

(* ApplyPaymentStatusUseCase: the read and the decision.  Whatever the     *)
(* action, ignored and duplicate included, the payment read is saved.      *)

Applied(p, status) ==
  LET action == ApplyAction(status, payments[p])
  IN  IF payments[p] = Absent \/ action = "refused"
      THEN Refused
      ELSE Work("savePayment", action, p, payments[p])

\* POST /internal/test/payments/{id}/simulate: the status is the client's.
BeginSimulate(t) ==
  /\ "simulate" \in Operations
  /\ \E p \in Payment, status \in SimulatedStatuses : Begin(t, Applied(p, status))
  /\ UNCHANGED <<tables, outside, published>>

\* POST /payments/{id}/sync: the first read.  It serves the search only,
\* which uses the immutable part of the row.
BeginSync(t) ==
  /\ "sync" \in Operations
  /\ \E p \in Payment :
       Begin(t, IF payments[p] = Absent THEN Refused
                ELSE Work("search", "synced", p, Absent))
  /\ UNCHANGED <<tables, outside, published>>

\* MercadoPagoCheckoutAdapter.get_payment_status searches by service order.
Matches(p) ==
  {pp \in ProviderPayment : /\ provider[pp] # "none"
                            /\ OrderOf[QuoteOf[CheckoutOf[pp]]] = OrderOf[QuoteOf[p]]}
SameAmount(p, pp) == AmountOf[QuoteOf[CheckoutOf[pp]]] = AmountOf[QuoteOf[p]]

\* (Mutant: the amount is not compared.)
FoundAnyAmount(p, pp) == Matches(p) = {pp}

Found(p, pp) == Matches(p) = {pp} /\ SameAmount(p, pp)

\* The search is refused when no payment or several match, when the amount
\* differs, and when the provider fails.
SearchPayments(t) ==
  /\ job[t].pc = "search"
  /\ \/ \E pp \in ProviderPayment :
          /\ Found(job[t].target, pp)
          /\ job' = [job EXCEPT ![t].heard = provider[pp], ![t].pc = "apply"]
     \/ Answer(t, "rejected")
  /\ UNCHANGED <<tables, outside, published, served>>

\* The second read of a sync, inside ApplyPaymentStatusUseCase.
ApplyStatus(t) ==
  /\ job[t].pc = "apply"
  /\ job' = [job EXCEPT ![t] = Applied(job[t].target, job[t].heard)]
  /\ UNCHANGED <<tables, outside, published, served>>
-----------------------------------------------------------------------------
(* The saves, the publishes and the answer every use case ends with.       *)

SaveQuote(t) ==
  /\ job[t].pc = "saveQuote"
  /\ \/ /\ job[t].action = "created"
        /\ quotes' = [quotes EXCEPT ![job[t].target] = "CREATED"]
        /\ Goto(t, "publish")
     \/ /\ job[t].action = "approved"
        /\ quotes' = [quotes EXCEPT ![QuoteOf[job[t].target]] = "APPROVED"]
        /\ Goto(t, "savePayment")
  /\ UNCHANGED <<payments, outside, published, served>>

\* (Mutant: the events are forgotten.)
RepliesUnpublished(t) ==
  /\ job[t].pc = "savePayment"
  /\ payments' = [payments EXCEPT
       ![job[t].target] = StatusAfter(job[t].action, job[t].seen)]
  /\ Goto(t, "reply")
  /\ UNCHANGED <<quotes, outside, published, served>>

SavePayment(t) ==
  /\ job[t].pc = "savePayment"
  /\ payments' = [payments EXCEPT
       ![job[t].target] = StatusAfter(job[t].action, job[t].seen)]
  /\ Goto(t, IF job[t].outbox = <<>> THEN "reply" ELSE "publish")
  /\ UNCHANGED <<quotes, outside, published, served>>

\* (Mutant: only the first event is published.)
PublishesFirstOnly(t) ==
  /\ job[t].pc = "publish"
  /\ published' = [published EXCEPT ![Head(job[t].outbox)] = @ + 1]
  /\ job' = [job EXCEPT ![t].outbox = <<>>, ![t].pc = "reply"]
  /\ UNCHANGED <<tables, outside, served>>

\* (Mutant: events in reverse order.)
PublishesLastFirst(t) ==
  /\ job[t].pc = "publish"
  /\ LET outbox == job[t].outbox
     IN  /\ published' = [published EXCEPT ![outbox[Len(outbox)]] = @ + 1]
         /\ job' = [job EXCEPT ![t].outbox = SubSeq(outbox, 1, Len(outbox) - 1),
                               ![t].pc = IF Len(outbox) = 1 THEN "reply" ELSE "publish"]
  /\ UNCHANGED <<tables, outside, served>>

Publish(t) ==
  /\ job[t].pc = "publish"
  /\ published' = [published EXCEPT ![Head(job[t].outbox)] = @ + 1]
  /\ job' = [job EXCEPT ![t].outbox = Tail(@),
                        ![t].pc = IF Len(job[t].outbox) = 1 THEN "reply" ELSE "publish"]
  /\ UNCHANGED <<tables, outside, served>>

Reply(t) ==
  /\ job[t].pc = "reply"
  /\ Answer(t, "ok")
  /\ UNCHANGED <<tables, outside, published, served>>

\* The request ends without its next step: the process died, or the next
\* call raised something no handler catches (500).
Interrupt(t) ==
  /\ MayInterrupt
  /\ job[t].pc # "idle"
  /\ Answer(t, "error")
  /\ UNCHANGED <<tables, outside, published, served>>
-----------------------------------------------------------------------------
(* The provider, as far as the code depends on it: the customer pays       *)
(* through a preference, and the payment's status moves.                   *)

ProviderMoves ==
  [none |-> {"pending", "approved", "rejected"},
   pending |-> {"approved", "rejected"},
   approved |-> {"refunded", "in_mediation"},
   rejected |-> {}, refunded |-> {}, in_mediation |-> {}]

ProviderStep(pp) ==
  /\ CheckoutOf[pp] \in preferences
  /\ \E status \in ProviderMoves[provider[pp]] :
       provider' = [provider EXCEPT ![pp] = status]
  /\ UNCHANGED <<tables, preferences, published, job, served>>
-----------------------------------------------------------------------------
Init ==
  /\ quotes = [q \in Quote |-> IF q \in InitialQuotes THEN "CREATED" ELSE Absent]
  /\ payments = [p \in Payment |-> Absent]
  /\ preferences = {}
  /\ provider = [pp \in ProviderPayment |-> "none"]
  /\ published = [e \in Event |-> 0]
  /\ job = [t \in Thread |-> Idle]
  /\ served = 0

Request(t) ==
  \/ BeginCreate(t) \/ BeginApprove(t) \/ BeginConfirm(t)
  \/ BeginFail(t) \/ BeginSimulate(t) \/ BeginSync(t)

\* What a thread does once it needs nothing but itself, the database and the
\* broker: the steps that cannot wait for ever.
LocalStep(t) ==
  \/ ApplyStatus(t) \/ SaveQuote(t) \/ SavePayment(t) \/ Publish(t) \/ Reply(t)

Next ==
  \/ \E t \in Thread : \/ Request(t) \/ CallGateway(t) \/ SearchPayments(t)
                       \/ LocalStep(t) \/ Interrupt(t)
  \/ \E pp \in ProviderPayment : ProviderStep(pp)

Spec == Init /\ [][Next]_vars
FairSpec == Spec /\ \A t \in Thread : WF_vars(LocalStep(t))
-----------------------------------------------------------------------------
(* Properties.                                                             *)

Job == [pc : Pcs, action : Actions, target : Quote \cup Payment \cup {NoTarget},
        seen : PaymentStatus \cup {Absent}, heard : ProviderStatus,
        outbox : Seq(Event), resp : Responses]

\* The type invariant.
TypeOK ==
  /\ quotes \in [Quote -> QuoteStatus \cup {Absent}]
  /\ payments \in [Payment -> PaymentStatus \cup {Absent}]
  /\ preferences \subseteq Payment
  /\ provider \in [ProviderPayment -> ProviderStatus]
  /\ published \in [Event -> Nat]
  /\ job \in [Thread -> Job]
  /\ served \in Nat

Stored(p) == payments[p] # Absent
Announced(type, id) == published[<<type, id>>] > 0

\* A payment row is only ever stored with its checkout preference created at
\* the provider and its quote already approved, however approvals interleave
\* and wherever they stop (the order of the saves in ApproveQuoteUseCase).
PaymentBacked ==
  \A p \in Payment : Stored(p) =>
    /\ payments[p] # "WAITING_PREFERENCE"
    /\ p \in preferences
    /\ quotes[QuoteOf[p]] = "APPROVED"

\* No event tells another service of something the tables do not hold: every
\* use case saves before it publishes.
AnnouncedIsStored ==
  /\ \A q \in Quote :
       /\ Announced("QUOTE_CREATED", q) => quotes[q] # Absent
       /\ Announced("QUOTE_APPROVED", q) =>
            /\ quotes[q] = "APPROVED"
            /\ \E p \in Payment : QuoteOf[p] = q /\ Stored(p)
  /\ \A p \in Payment, type \in PaymentEventTypes :
       Announced(type, p) => Stored(p)

\* The preference of a payment is announced after the approval of its quote.
PreferenceFollowsApproval ==
  \A p \in Payment : Announced("PAYMENT_PREFERENCE_CREATED", p) =>
    Announced("QUOTE_APPROVED", QuoteOf[p])

\* A client that is told its request succeeded can rely on it: the row is in
\* the table and every event of the operation is with the publisher.
OkIsDurable ==
  \A t \in Thread : job[t].pc = "idle" /\ job[t].resp = "ok" =>
    LET told == Story(job[t].action, job[t].target)
    IN  /\ \A i \in DOMAIN told : published[told[i]] > 0
        /\ job[t].action # "created" => Stored(job[t].target)

\* A settled payment only ever changes because a thread saves what it
\* decided on a read that is no longer true: the guards of confirm, fail and
\* the status table leave lost updates as the only way out of a settled
\* status.
UnsettledOnlyByStaleSave ==
  [][\A p \in Payment : payments[p] \in Settled /\ payments'[p] # payments[p] =>
       \E t \in Thread : /\ job[t].pc = "savePayment"
                         /\ job[t].target = p
                         /\ job[t].seen # payments[p]]_vars

\* Where payments are confirmed by sync alone, a confirmed payment has a
\* provider payment of its service order and amount that was approved (it
\* may have been refunded or disputed since).
WasPaid(pp) == provider[pp] \in {"approved", "refunded", "in_mediation"}
ConfirmedMeansPaid ==
  \A p \in Payment : payments[p] = "CONFIRMED" =>
    \E pp \in ProviderPayment :
      /\ WasPaid(pp)
      /\ OrderOf[QuoteOf[CheckoutOf[pp]]] = OrderOf[QuoteOf[p]]
      /\ SameAmount(p, pp)

\* When no request is cut short, an approved quote has a payment, or an
\* approval on its way to the save of one.
ApprovedQuoteHasPayment ==
  \A q \in Quote : quotes[q] = "APPROVED" =>
    \E p \in Payment :
      /\ QuoteOf[p] = q
      /\ \/ Stored(p)
         \/ \E t \in Thread : job[t].pc = "savePayment" /\ job[t].target = p

\* When requests do not overlap, a quote is approved once: it has at most
\* one payment and its approval is announced at most once.
ApprovedOnce ==
  \A q \in Quote :
    /\ published[<<"QUOTE_APPROVED", q>>] =< 1
    /\ \A p1, p2 \in Payment :
         QuoteOf[p1] = q /\ QuoteOf[p2] = q /\ Stored(p1) /\ Stored(p2) => p1 = p2

\* When requests do not overlap, a payment is announced as confirmed at most
\* once, whatever the clients and the provider repeat.
ConfirmedOnce == \A p \in Payment : published[<<"PAYMENT_CONFIRMED", p>>] =< 1

\* Every provider payment settles one billing payment: the uniqueness check
\* of the adapter.
PaysForOne ==
  Cardinality({p \in Payment : payments[p] = "CONFIRMED"})
    =< Cardinality({pp \in ProviderPayment : WasPaid(pp)})

\* When no request is cut short, a payment that reaches a settled status is
\* eventually announced with it, whatever other threads save meanwhile.
SettledIsAnnounced ==
  \A p \in Payment, status \in Settled :
    payments[p] = status ~> Announced(SettledEvent(status), p)

\* When no request is cut short, a stored payment is eventually announced with
\* its checkout preference, even if another thread has settled it before the
\* approval that stored it got to its events.
StoredIsAnnounced ==
  \A p \in Payment : Stored(p) ~> Announced("PAYMENT_PREFERENCE_CREATED", p)

\* When requests do not overlap, the payments table and the settled events
\* implement PaymentLedger, even if requests are cut short: no listener hears
\* two outcomes of one payment, or one that is not in the table.
ToldOf(p) == {status \in Settled : Announced(SettledEvent(status), p)}
Ledger == INSTANCE PaymentLedger
            WITH status <- payments, told <- [p \in Payment |-> ToldOf(p)]
ImplementsLedger == Ledger!Spec

=============================================================================
