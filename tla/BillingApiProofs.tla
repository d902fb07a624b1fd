-------------------------- MODULE BillingApiProofs --------------------------
(***************************************************************************)
(* What BillingApi promises for every number of threads, quotes, payments  *)
(* and requests.                                                           *)
(***************************************************************************)
EXTENDS BillingApi, TLAPS

(***************************************************************************)
(* The inductive invariant.  JobOk says what a thread may rely on at each  *)
(* of its steps; all of it but quotes[target] = Absent survives whatever   *)
(* other threads do, because rows are never removed, an approved quote     *)
(* stays approved and preferences and published only grow.                 *)
(***************************************************************************)

\* What confirm, fail and the status table may decide on a payment they found.
Decided(action, seen) ==
  \/ action = "confirmed" /\ seen = "PENDING"
  \/ action = "failed" /\ seen \in {"PENDING", "FAILED"}
  \/ action \in {"ignored", "duplicate"} /\ seen \in {"PENDING", "CONFIRMED", "FAILED"}

Row(j) ==
  /\ j.action = "created" => j.target \in Quote /\ quotes[j.target] # Absent
  /\ j.action # "created" => j.target \in Payment /\ Stored(j.target)

Durable(j) ==
  LET told == Story(j.action, j.target)
  IN  /\ \A i \in DOMAIN told : told[i] \in Event /\ published[told[i]] > 0
      /\ Row(j)

JobOk(j) ==
  /\ j.pc \in {"gateway", "saveQuote", "savePayment"} =>
       /\ j.outbox = Story(j.action, j.target)
       /\ j.action = "approved" => j.seen = Absent
  /\ j.pc = "gateway" =>
       /\ j.action = "approved"
       /\ j.target \in Payment
       /\ quotes[QuoteOf[j.target]] # Absent
  /\ j.pc \in {"search", "apply"} => j.target \in Payment /\ Stored(j.target)
  /\ j.pc = "saveQuote" =>
       \/ j.action = "created" /\ j.target \in Quote
       \/ /\ j.action = "approved"
          /\ j.target \in Payment
          /\ j.target \in preferences
          /\ quotes[QuoteOf[j.target]] # Absent
  /\ j.pc = "savePayment" =>
       /\ j.target \in Payment
       /\ \/ /\ j.action = "approved"
             /\ j.target \in preferences
             /\ quotes[QuoteOf[j.target]] = "APPROVED"
          \/ Decided(j.action, j.seen) /\ Stored(j.target)
  /\ j.pc = "publish" =>
       /\ Row(j)
       /\ j.action \in {"created", "approved", "confirmed", "failed"}
       /\ \/ j.outbox = Story(j.action, j.target)
          \/ /\ j.action = "approved"
             /\ j.outbox = << <<"PAYMENT_PREFERENCE_CREATED", j.target>> >>
             /\ Announced("QUOTE_APPROVED", QuoteOf[j.target])
  /\ j.pc = "reply" \/ (j.pc = "idle" /\ j.resp = "ok") => Durable(j)

Creates(j) == j.pc = "saveQuote" /\ j.action = "created"

\* A quote that is about to be inserted has no row yet, and no other thread
\* is about to insert it.
CreateInv ==
  \A t \in Thread : Creates(job[t]) =>
    /\ quotes[job[t].target] = Absent
    /\ \A u \in Thread : Creates(job[u]) /\ job[u].target = job[t].target => u = t

IInv ==
  /\ TypeOK
  /\ \A t \in Thread : JobOk(job[t])
  /\ CreateInv
  /\ PaymentBacked
  /\ AnnouncedIsStored
  /\ PreferenceFollowsApproval
-----------------------------------------------------------------------------
(* Lemmas about the operators BillingApi is built from.                    *)

\* What a use case publishes, action by action.
LEMMA StoryOf ==
  ASSUME NEW x
  PROVE  /\ Story("created", x) = << <<"QUOTE_CREATED", x>> >>
         /\ Story("approved", x) = << <<"QUOTE_APPROVED", QuoteOf[x]>>,
                                      <<"PAYMENT_PREFERENCE_CREATED", x>> >>
         /\ Story("confirmed", x) = << <<"PAYMENT_CONFIRMED", x>> >>
         /\ Story("failed", x) = << <<"PAYMENT_FAILED", x>> >>
         /\ \A action \in {"none", "synced", "ignored", "duplicate"} :
              Story(action, x) = <<>>
BY DEF Story

\* A use case publishes events of the service.
LEMMA StoryType ==
  ASSUME NEW action \in Actions, NEW x,
         action = "created" => x \in Quote,
         action \in {"approved", "confirmed", "failed"} => x \in Payment
  PROVE  Story(action, x) \in Seq(Event)
<1>1. CASE action = "created"
  <2>1. <<"QUOTE_CREATED", x>> \in Event
    BY <1>1 DEF Event, QuoteEventTypes
  <2>. QED  BY <1>1, <2>1 DEF Story
<1>2. CASE action = "approved"
  <2>1. <<"QUOTE_APPROVED", QuoteOf[x]>> \in Event
    BY <1>2, ConstantsAssumption DEF Event, QuoteEventTypes
  <2>2. <<"PAYMENT_PREFERENCE_CREATED", x>> \in Event
    BY <1>2 DEF Event, PaymentEventTypes
  <2>. QED  BY <1>2, <2>1, <2>2 DEF Story
<1>3. CASE action \in {"confirmed", "failed"}
  <2>1. <<"PAYMENT_CONFIRMED", x>> \in Event /\ <<"PAYMENT_FAILED", x>> \in Event
    BY <1>3 DEF Event, PaymentEventTypes
  <2>. QED  BY <1>3, <2>1 DEF Story
<1>4. CASE action \in {"none", "synced", "ignored", "duplicate"}
  BY <1>4 DEF Story
<1>. QED  BY <1>1, <1>2, <1>3, <1>4 DEF Actions

\* A job is well formed when its parts are.
LEMMA WorkType ==
  ASSUME NEW pc \in Pcs, NEW action \in Actions,
         NEW x \in Quote \cup Payment \cup {NoTarget},
         NEW seen \in PaymentStatus \cup {Absent},
         action = "created" => x \in Quote,
         action \in {"approved", "confirmed", "failed"} => x \in Payment
  PROVE  Work(pc, action, x, seen) \in Job
BY StoryType DEF Work, Job, ProviderStatus, Responses

LEMMA RefusedType == Idle \in Job /\ Refused \in Job
BY WorkType, StoryOf DEF Idle, Refused, Work, Job, Pcs, Actions, Responses, ProviderStatus

\* The status table decides only what the status it finds allows.
LEMMA ApplyDecides ==
  ASSUME NEW status, NEW seen \in {"PENDING", "CONFIRMED", "FAILED"}
  PROVE  \/ ApplyAction(status, seen) = "refused"
         \/ Decided(ApplyAction(status, seen), seen)
BY DEF ApplyAction, PaidAction, LostAction, PaidStatuses, LostStatuses,
       OpenStatuses, Decided
-----------------------------------------------------------------------------
(* What the other threads rely on is kept by every step.                   *)

Grows ==
  /\ \A q \in Quote : /\ quotes[q] # Absent => quotes'[q] # Absent
                      /\ quotes[q] = "APPROVED" => quotes'[q] = "APPROVED"
  /\ \A p \in Payment : payments[p] # Absent => payments'[p] # Absent
  /\ preferences \subseteq preferences'
  /\ \A e \in Event : published[e] > 0 => published'[e] > 0

LEMMA JobKept ==
  ASSUME TypeOK, Grows, NEW u \in Thread, job'[u] = job[u], JobOk(job[u])
  PROVE  JobOk(job[u])'
<1>. DEFINE j == job[u]
<1>1. j \in Job /\ j' = j
  BY DEF TypeOK
<1>2. Row(j) => Row(j)'
  BY <1>1 DEF Row, Grows, Stored
<1>3. Durable(j) => Durable(j)'
  BY <1>1, <1>2 DEF Durable, Grows
<1>4. ASSUME j.pc = "savePayment" PROVE
        /\ j.target \in Payment
        /\ \/ /\ j.action = "approved"
              /\ j.target \in preferences'
              /\ quotes'[QuoteOf[j.target]] = "APPROVED"
           \/ Decided(j.action, j.seen) /\ payments'[j.target] # Absent
  BY <1>4, ConstantsAssumption DEF JobOk, Grows, Stored
<1>5. ASSUME j.action = "approved", j.target \in Payment,
             Announced("QUOTE_APPROVED", QuoteOf[j.target])
      PROVE  Announced("QUOTE_APPROVED", QuoteOf[j.target])'
  <2>1. <<"QUOTE_APPROVED", QuoteOf[j.target]>> \in Event
    BY <1>5, ConstantsAssumption DEF Event, QuoteEventTypes
  <2>. QED  BY <1>1, <1>5, <2>1 DEF Announced, Grows
<1>6. j.pc = "publish" => JobOk(j)'
  BY <1>1, <1>2, <1>5 DEF JobOk, Row
<1>7. j.pc \in {"search", "apply"} => JobOk(j)'
  BY <1>1 DEF JobOk, Grows, Stored
<1>8. j.pc = "savePayment" => JobOk(j)'
  BY <1>1, <1>4 DEF JobOk, Stored
<1>9. j.pc \in {"gateway", "saveQuote"} => JobOk(j)'
  BY <1>1, ConstantsAssumption DEF JobOk, Grows
<1>10. j.pc \in {"reply", "idle"} => JobOk(j)'
  BY <1>1, <1>3 DEF JobOk
<1>. QED  BY <1>1, <1>6, <1>7, <1>8, <1>9, <1>10 DEF Job, Pcs

\* A step of one thread that leaves the tables and the broker alone keeps the
\* invariant if the thread may be where it gets to.
LEMMA PreferenceStep ==
  ASSUME IInv, NEW t \in Thread, UNCHANGED <<tables, provider, published>>,
         preferences \subseteq preferences', preferences' \subseteq Payment,
         NEW work \in Job, job' = [job EXCEPT ![t] = work],
         JobOk(work)', ~Creates(work) \/ work.target \in FreshQuotes,
         served' \in Nat
  PROVE  IInv'
<1>1. TypeOK'
  BY DEF IInv, TypeOK, tables
<1>2. job'[t] = work /\ \A u \in Thread \ {t} : job'[u] = job[u]
  BY DEF IInv, TypeOK
<1>3. Grows
  BY DEF Grows, tables
<1>4. ASSUME NEW u \in Thread PROVE JobOk(job[u])'
  <2>1. CASE u = t
    BY <2>1, <1>2
  <2>2. CASE u # t
    BY <2>2, <1>2, <1>3, JobKept DEF IInv
  <2>. QED  BY <2>1, <2>2
<1>5. CreateInv'
  BY <1>2 DEF IInv, CreateInv, Creates, FreshQuotes, InUse, tables
<1>6. PaymentBacked' /\ AnnouncedIsStored' /\ PreferenceFollowsApproval'
  BY DEF IInv, PaymentBacked, AnnouncedIsStored, PreferenceFollowsApproval,
         Stored, Announced, tables
<1>. QED  BY <1>1, <1>4, <1>5, <1>6 DEF IInv

LEMMA QuietStep ==
  ASSUME IInv, NEW t \in Thread, UNCHANGED <<tables, outside, published>>,
         NEW work \in Job, job' = [job EXCEPT ![t] = work],
         JobOk(work), ~Creates(work) \/ work.target \in FreshQuotes,
         served' \in Nat
  PROVE  IInv'
<1>1. JobOk(work)'
  BY DEF JobOk, Row, Durable, Stored, Announced, tables, outside
<1>. QED  BY <1>1, PreferenceStep DEF outside, IInv, TypeOK
-----------------------------------------------------------------------------
(* One lemma per action: it keeps the invariant.                           *)

\* A request that is refused at once, whatever the endpoint.
LEMMA RefusedStep ==
  ASSUME IInv, NEW t \in Thread, UNCHANGED <<tables, outside, published>>,
         job' = [job EXCEPT ![t] = Refused], served' \in Nat
  PROVE  IInv'
<1>1. Refused \in Job
  BY RefusedType
<1>2. JobOk(Refused) /\ ~Creates(Refused)
  BY DEF JobOk, Creates, Refused, Idle, Work
<1>. QED  BY <1>1, <1>2, QuietStep

LEMMA BeginCreateStep ==
  ASSUME IInv, NEW t \in Thread, BeginCreate(t)
  PROVE  IInv'
<1>1. UNCHANGED <<tables, outside, published>> /\ served' \in Nat
  BY DEF IInv, TypeOK, BeginCreate, Begin
<1>2. CASE Begin(t, Refused)
  BY <1>1, <1>2, RefusedStep DEF Begin
<1>3. CASE \E q \in FreshQuotes : Begin(t, Work("saveQuote", "created", q, Absent))
  <2>1. PICK q \in FreshQuotes : Begin(t, Work("saveQuote", "created", q, Absent))
    BY <1>3
  <2>. DEFINE work == Work("saveQuote", "created", q, Absent)
  <2>2. work \in Job
    BY WorkType DEF FreshQuotes, Pcs, Actions
  <2>3. JobOk(work) /\ work.target = q
    BY DEF JobOk, Work, FreshQuotes
  <2>4. job' = [job EXCEPT ![t] = work]
    BY <2>1 DEF Begin
  <2>5. ~Creates(work) \/ work.target \in FreshQuotes
    BY <2>3
  <2>. HIDE DEF work
  <2>. QED  BY <1>1, <2>2, <2>3, <2>4, <2>5, QuietStep
<1>. QED  BY <1>2, <1>3 DEF BeginCreate

LEMMA BeginApproveStep ==
  ASSUME IInv, NEW t \in Thread, BeginApprove(t)
  PROVE  IInv'
<1>1. UNCHANGED <<tables, outside, published>>
  BY DEF BeginApprove
<1>2. PICK q \in Quote : ApproveStep(t, q)
  BY DEF BeginApprove
<1>3. CASE Begin(t, Refused)
  <2>1. served' \in Nat
    BY <1>3 DEF Begin, IInv, TypeOK
  <2>. QED  BY <1>1, <1>3, <2>1, RefusedStep DEF Begin
<1>4. CASE CanApprove(quotes[q])
  <2>1. PICK p \in FreshPayments :
          QuoteOf[p] = q /\ Begin(t, Work("gateway", "approved", p, Absent))
    BY <1>2, <1>4 DEF ApproveStep
  <2>. DEFINE work == Work("gateway", "approved", p, Absent)
  <2>2. work \in Job
    BY WorkType DEF FreshPayments, Pcs, Actions
  <2>3. JobOk(work) /\ ~Creates(work)
    <3>1. quotes[QuoteOf[p]] # Absent
      BY <1>4, <2>1 DEF CanApprove, Absent
    <3>. QED  BY <3>1 DEF JobOk, Work, FreshPayments, Creates
  <2>4. served' \in Nat
    BY <2>1 DEF Begin, IInv, TypeOK
  <2>. HIDE DEF work
  <2>. QED  BY <1>1, <2>1, <2>2, <2>3, <2>4, QuietStep DEF Begin, work
<1>. QED  BY <1>2, <1>3, <1>4 DEF ApproveStep

\* The start of a request on a stored payment whose outcome is decided.
LEMMA DecidedStep ==
  ASSUME IInv, NEW t \in Thread, UNCHANGED <<tables, outside, published>>,
         NEW p \in Payment, Stored(p), NEW action \in Actions,
         Decided(action, payments[p]),
         job' = [job EXCEPT ![t] = Work("savePayment", action, p, payments[p])],
         served' \in Nat
  PROVE  IInv'
<1>. DEFINE work == Work("savePayment", action, p, payments[p])
<1>1. payments[p] \in PaymentStatus /\ action \notin {"created", "approved"}
  BY DEF IInv, TypeOK, Stored, Decided
<1>2. work \in Job
  BY <1>1, WorkType DEF Pcs
<1>3. JobOk(work) /\ ~Creates(work)
  BY <1>1 DEF JobOk, Work, Creates
<1>. HIDE DEF work
<1>. QED  BY <1>2, <1>3, QuietStep DEF work

LEMMA BeginConfirmStep ==
  ASSUME IInv, NEW t \in Thread, BeginConfirm(t)
  PROVE  IInv'
<1>1. UNCHANGED <<tables, outside, published>> /\ served' \in Nat
  BY DEF IInv, TypeOK, BeginConfirm, Begin
<1>2. PICK p \in Payment :
        Begin(t, IF CanConfirm(payments[p])
                 THEN Work("savePayment", "confirmed", p, payments[p])
                 ELSE Refused)
  BY DEF BeginConfirm
<1>3. CASE CanConfirm(payments[p])
  <2>1. Stored(p) /\ Decided("confirmed", payments[p])
    BY <1>3 DEF CanConfirm, Stored, Decided, Absent
  <2>. QED  BY <1>1, <1>2, <1>3, <2>1, DecidedStep DEF Begin, Actions
<1>4. CASE ~CanConfirm(payments[p])
  BY <1>1, <1>2, <1>4, RefusedStep DEF Begin
<1>. QED  BY <1>3, <1>4

LEMMA BeginFailStep ==
  ASSUME IInv, NEW t \in Thread, BeginFail(t)
  PROVE  IInv'
<1>1. UNCHANGED <<tables, outside, published>> /\ served' \in Nat
  BY DEF IInv, TypeOK, BeginFail, Begin
<1>2. PICK p \in Payment :
        Begin(t, IF CanFail(payments[p])
                 THEN Work("savePayment", "failed", p, payments[p])
                 ELSE Refused)
  BY DEF BeginFail
<1>3. CASE CanFail(payments[p])
  <2>1. Stored(p) /\ Decided("failed", payments[p])
    BY <1>3 DEF CanFail, Stored, Decided, IInv, TypeOK, PaymentStatus, PaymentBacked
  <2>. QED  BY <1>1, <1>2, <1>3, <2>1, DecidedStep DEF Begin, Actions
<1>4. CASE ~CanFail(payments[p])
  BY <1>1, <1>2, <1>4, RefusedStep DEF Begin
<1>. QED  BY <1>3, <1>4

\* Both ways into the status table: simulate, and the second half of sync.
LEMMA AppliedStep ==
  ASSUME IInv, NEW t \in Thread, UNCHANGED <<tables, outside, published>>,
         NEW p \in Payment, NEW status,
         job' = [job EXCEPT ![t] = Applied(p, status)], served' \in Nat
  PROVE  IInv'
<1>. DEFINE action == ApplyAction(status, payments[p])
<1>1. CASE payments[p] = Absent \/ action = "refused"
  BY <1>1, RefusedStep DEF Applied
<1>2. CASE payments[p] # Absent /\ action # "refused"
  <2>1. payments[p] \in {"PENDING", "CONFIRMED", "FAILED"} /\ Stored(p)
    BY <1>2 DEF IInv, TypeOK, PaymentStatus, PaymentBacked, Stored
  <2>2. Decided(action, payments[p])
    BY <1>2, <2>1, ApplyDecides
  <2>3. action \in Actions
    BY <2>2 DEF Decided, Actions
  <2>4. Applied(p, status) = Work("savePayment", action, p, payments[p])
    BY <1>2 DEF Applied
  <2>. HIDE DEF action
  <2>. QED  BY <2>1, <2>2, <2>3, <2>4, DecidedStep
<1>. QED  BY <1>1, <1>2

LEMMA BeginSimulateStep ==
  ASSUME IInv, NEW t \in Thread, BeginSimulate(t)
  PROVE  IInv'
<1>1. UNCHANGED <<tables, outside, published>> /\ served' \in Nat
  BY DEF IInv, TypeOK, BeginSimulate, Begin
<1>2. PICK p \in Payment, status \in SimulatedStatuses : Begin(t, Applied(p, status))
  BY DEF BeginSimulate
<1>. QED  BY <1>1, <1>2, AppliedStep DEF Begin

LEMMA BeginSyncStep ==
  ASSUME IInv, NEW t \in Thread, BeginSync(t)
  PROVE  IInv'
<1>1. UNCHANGED <<tables, outside, published>> /\ served' \in Nat
  BY DEF IInv, TypeOK, BeginSync, Begin
<1>2. PICK p \in Payment :
        Begin(t, IF payments[p] = Absent THEN Refused
                 ELSE Work("search", "synced", p, Absent))
  BY DEF BeginSync
<1>3. CASE payments[p] = Absent
  BY <1>1, <1>2, <1>3, RefusedStep DEF Begin
<1>4. CASE payments[p] # Absent
  <2>. DEFINE work == Work("search", "synced", p, Absent)
  <2>1. work \in Job
    BY WorkType DEF Pcs, Actions
  <2>2. JobOk(work) /\ ~Creates(work)
    BY <1>4 DEF JobOk, Work, Creates, Stored
  <2>. HIDE DEF work
  <2>. QED  BY <1>1, <1>2, <1>4, <2>1, <2>2, QuietStep DEF Begin, work
<1>. QED  BY <1>3, <1>4

LEMMA AnswerType ==
  ASSUME NEW j \in Job, NEW resp \in Responses
  PROVE  [j EXCEPT !.pc = "idle", !.seen = Absent, !.heard = "none",
                   !.outbox = <<>>, !.resp = resp] \in Job
<1>1. <<>> \in Seq(Event)
  OBVIOUS
<1>. QED  BY <1>1 DEF Job, Pcs, ProviderStatus

\* A thread that stops keeps the invariant, unless it claims success.
LEMMA AnswerStep ==
  ASSUME IInv, NEW t \in Thread, NEW resp \in Responses \ {"ok"}, Answer(t, resp),
         UNCHANGED <<tables, outside, published, served>>
  PROVE  IInv'
<1>. DEFINE work == [job[t] EXCEPT !.pc = "idle", !.seen = Absent, !.heard = "none",
                                   !.outbox = <<>>, !.resp = resp]
<1>1. work \in Job
  BY AnswerType DEF IInv, TypeOK
<1>2. work.pc = "idle" /\ work.resp = resp
  BY DEF IInv, TypeOK, Job
<1>3. JobOk(work) /\ ~Creates(work)
  BY <1>2 DEF JobOk, Creates
<1>4. job' = [job EXCEPT ![t] = work] /\ served' \in Nat
  BY DEF Answer, IInv, TypeOK
<1>. HIDE DEF work
<1>. QED  BY <1>1, <1>3, <1>4, QuietStep

LEMMA SearchPaymentsStep ==
  ASSUME IInv, NEW t \in Thread, SearchPayments(t)
  PROVE  IInv'
<1>1. CASE Answer(t, "rejected")
  BY <1>1, AnswerStep DEF SearchPayments, Responses
<1>2. CASE ~Answer(t, "rejected")
  <2>1. PICK pp \in ProviderPayment :
          job' = [job EXCEPT ![t].heard = provider[pp], ![t].pc = "apply"]
    BY <1>2 DEF SearchPayments
  <2>. DEFINE work == [job[t] EXCEPT !.heard = provider[pp], !.pc = "apply"]
  <2>2. work \in Job
    BY DEF IInv, TypeOK, Job, Pcs
  <2>3. work.pc = "apply" /\ work.target = job[t].target /\ job[t].pc = "search"
    BY DEF IInv, TypeOK, Job, SearchPayments
  <2>4. JobOk(work) /\ ~Creates(work)
    BY <2>3 DEF JobOk, Creates, IInv
  <2>5. job' = [job EXCEPT ![t] = work] /\ served' \in Nat
    BY <2>1 DEF SearchPayments, IInv, TypeOK
  <2>. HIDE DEF work
  <2>. QED  BY <2>2, <2>4, <2>5, QuietStep DEF SearchPayments
<1>. QED  BY <1>1, <1>2

LEMMA ApplyStatusStep ==
  ASSUME IInv, NEW t \in Thread, ApplyStatus(t)
  PROVE  IInv'
<1>1. job[t].target \in Payment /\ served' \in Nat
  BY DEF ApplyStatus, IInv, TypeOK, JobOk
<1>. QED  BY <1>1, AppliedStep DEF ApplyStatus

LEMMA ReplyStep ==
  ASSUME IInv, NEW t \in Thread, Reply(t)
  PROVE  IInv'
<1>. DEFINE work == [job[t] EXCEPT !.pc = "idle", !.seen = Absent, !.heard = "none",
                                   !.outbox = <<>>, !.resp = "ok"]
<1>1. work \in Job
  BY AnswerType DEF IInv, TypeOK, Responses
<1>2. work.pc = "idle" /\ work.action = job[t].action /\ work.target = job[t].target
  BY DEF IInv, TypeOK, Job
<1>3. Durable(job[t])
  BY DEF Reply, IInv, JobOk
<1>4. JobOk(work) /\ ~Creates(work)
  BY <1>2, <1>3, Zenon DEF JobOk, Creates, Durable, Row
<1>5. job' = [job EXCEPT ![t] = work] /\ served' \in Nat
  BY DEF Reply, Answer, IInv, TypeOK
<1>. HIDE DEF work
<1>. QED  BY <1>1, <1>4, <1>5, QuietStep DEF Reply

\* Where the others are does not change when one thread moves on.
LEMMA OthersKept ==
  ASSUME IInv, NEW t \in Thread, NEW work \in Job,
         job' = [job EXCEPT ![t] = work], Grows, JobOk(work)'
  PROVE  \A u \in Thread : JobOk(job[u])'
<1>1. job'[t] = work /\ \A u \in Thread \ {t} : job'[u] = job[u]
  BY DEF IInv, TypeOK
<1>. SUFFICES ASSUME NEW u \in Thread PROVE JobOk(job[u])'
  OBVIOUS
<1>2. CASE u = t
  BY <1>1, <1>2
<1>3. CASE u # t
  BY <1>1, <1>3, JobKept DEF IInv
<1>. QED  BY <1>2, <1>3

LEMMA CallGatewayStep ==
  ASSUME IInv, NEW t \in Thread, CallGateway(t)
  PROVE  IInv'
<1>. DEFINE p == job[t].target
<1>1. /\ job[t] \in Job /\ job[t].action = "approved" /\ p \in Payment
      /\ quotes[QuoteOf[p]] # Absent /\ job[t].outbox = Story("approved", p)
      /\ job[t].seen = Absent
  BY DEF IInv, TypeOK, JobOk, CallGateway
<1>2. /\ UNCHANGED <<tables, provider, published, served>>
      /\ preferences \subseteq preferences' /\ preferences' \subseteq Payment
      /\ served' \in Nat
  BY <1>1 DEF CallGateway, IInv, TypeOK
<1>3. CASE preferences' = preferences \cup {p} /\ Goto(t, "saveQuote")
  <2>1. PICK work \in Job : /\ work = [job[t] EXCEPT !.pc = "saveQuote"]
                            /\ job' = [job EXCEPT ![t] = work]
    BY <1>1, <1>3 DEF Job, Pcs, Goto
  <2>2. /\ work.pc = "saveQuote" /\ work.action = "approved" /\ work.target = p
        /\ work.outbox = job[t].outbox /\ work.seen = Absent
    BY <1>1, <2>1 DEF Job
  <2>3. JobOk(work)' /\ ~Creates(work)
    BY <1>1, <1>2, <1>3, <2>2 DEF JobOk, Creates, tables
  <2>. QED  BY <1>2, <2>1, <2>3, PreferenceStep
<1>4. CASE Answer(t, "rejected")
  <2>1. PICK work \in Job :
          /\ work = [job[t] EXCEPT !.pc = "idle", !.seen = Absent, !.heard = "none",
                                   !.outbox = <<>>, !.resp = "rejected"]
          /\ job' = [job EXCEPT ![t] = work]
    BY <1>1, <1>4, AnswerType DEF Responses, Answer
  <2>2. work.pc = "idle" /\ work.resp = "rejected"
    BY <1>1, <2>1 DEF Job
  <2>3. JobOk(work)' /\ ~Creates(work)
    BY <2>2 DEF JobOk, Creates
  <2>. QED  BY <1>2, <2>1, <2>3, PreferenceStep
<1>. QED  BY <1>3, <1>4 DEF CallGateway

\* Saving a quote cannot take from a payment or an event what it rests on.
LEMMA DataKept ==
  ASSUME IInv, Grows, UNCHANGED <<payments, preferences, published>>
  PROVE  PaymentBacked' /\ AnnouncedIsStored' /\ PreferenceFollowsApproval'
<1>1. PaymentBacked'
  BY ConstantsAssumption DEF IInv, Grows, PaymentBacked, Stored
<1>2. AnnouncedIsStored'
  BY DEF IInv, Grows, AnnouncedIsStored, Stored, Announced
<1>3. PreferenceFollowsApproval'
  BY DEF IInv, PreferenceFollowsApproval, Announced
<1>. QED  BY <1>1, <1>2, <1>3

LEMMA SaveQuoteStep ==
  ASSUME IInv, NEW t \in Thread, SaveQuote(t)
  PROVE  IInv'
<1>. DEFINE x == job[t].target
<1>1. /\ job[t] \in Job /\ job[t].pc = "saveQuote"
      /\ job[t].outbox = Story(job[t].action, x)
      /\ job[t].action = "approved" => job[t].seen = Absent
  BY DEF IInv, TypeOK, JobOk, SaveQuote
<1>2. UNCHANGED <<payments, preferences, provider, published, served>>
  BY DEF SaveQuote, outside
<1>3. CASE job[t].action = "created"
  <2>1. x \in Quote /\ quotes[x] = Absent
    BY <1>1, <1>3 DEF IInv, JobOk, CreateInv, Creates
  <2>2. quotes' = [quotes EXCEPT ![x] = "CREATED"]
    BY <1>3 DEF SaveQuote
  <2>3. PICK work \in Job : /\ work = [job[t] EXCEPT !.pc = "publish"]
                            /\ job' = [job EXCEPT ![t] = work]
    BY <1>1, <1>3 DEF SaveQuote, Goto, Job, Pcs
  <2>4. work.pc = "publish" /\ work.action = "created" /\ work.target = x
        /\ work.outbox = job[t].outbox
    BY <1>1, <1>3, <2>3 DEF Job
  <2>. HIDE DEF x
  <2>5. TypeOK'
    BY <1>2, <2>1, <2>2, <2>3 DEF IInv, TypeOK, QuoteStatus
  <2>6. Grows
    BY <1>2, <2>1, <2>2 DEF Grows, IInv, TypeOK, Absent
  <2>7. JobOk(work)'
    <3>1. quotes'[x] # Absent
      BY <2>1, <2>2 DEF IInv, TypeOK, Absent
    <3>. QED  BY <1>1, <1>3, <2>1, <2>4, <3>1 DEF JobOk, Row
  <2>8. \A u \in Thread : JobOk(job[u])'
    BY <2>3, <2>6, <2>7, OthersKept
  <2>9. CreateInv'
    <3>1. job'[t] = work /\ \A u \in Thread \ {t} : job'[u] = job[u]
      BY <2>3 DEF IInv, TypeOK
    <3>2. \A u \in Thread \ {t} : Creates(job[u]) => job[u].target # x
      BY <1>1, <1>3 DEF IInv, CreateInv, Creates, x
    <3>. QED  BY <2>2, <2>4, <3>1, <3>2 DEF IInv, TypeOK, CreateInv, Creates
  <2>10. PaymentBacked' /\ AnnouncedIsStored' /\ PreferenceFollowsApproval'
    BY <1>2, <2>6, DataKept
  <2>. QED  BY <2>5, <2>8, <2>9, <2>10 DEF IInv
<1>4. CASE job[t].action = "approved"
  <2>. DEFINE q == QuoteOf[x]
  <2>1. x \in Payment /\ x \in preferences /\ q \in Quote
    BY <1>1, <1>4, ConstantsAssumption DEF IInv, JobOk
  <2>2. quotes' = [quotes EXCEPT ![q] = "APPROVED"]
    BY <1>4 DEF SaveQuote
  <2>3. PICK work \in Job : /\ work = [job[t] EXCEPT !.pc = "savePayment"]
                            /\ job' = [job EXCEPT ![t] = work]
    BY <1>1, <1>4 DEF SaveQuote, Goto, Job, Pcs
  <2>4. work.pc = "savePayment" /\ work.action = "approved" /\ work.target = x
        /\ work.outbox = job[t].outbox /\ work.seen = Absent
    BY <1>1, <1>4, <2>3 DEF Job
  <2>. HIDE DEF x
  <2>5. TypeOK'
    BY <1>2, <2>1, <2>2, <2>3 DEF IInv, TypeOK, QuoteStatus
  <2>6. Grows
    BY <1>2, <2>1, <2>2 DEF Grows, IInv, TypeOK, Absent
  <2>7. JobOk(work)'
    <3>1. quotes'[q] = "APPROVED"
      BY <2>1, <2>2 DEF IInv, TypeOK
    <3>. QED  BY <1>1, <1>2, <1>4, <2>1, <2>4, <3>1 DEF JobOk
  <2>8. \A u \in Thread : JobOk(job[u])'
    BY <2>3, <2>6, <2>7, OthersKept
  <2>9. CreateInv'
    <3>1. job'[t] = work /\ \A u \in Thread \ {t} : job'[u] = job[u]
      BY <2>3 DEF IInv, TypeOK
    <3>2. quotes[q] # Absent
      BY <1>1, <1>4 DEF IInv, JobOk, x
    <3>. QED  BY <2>2, <2>4, <3>1, <3>2 DEF IInv, TypeOK, CreateInv, Creates
  <2>10. PaymentBacked' /\ AnnouncedIsStored' /\ PreferenceFollowsApproval'
    BY <1>2, <2>6, DataKept
  <2>. QED  BY <2>5, <2>8, <2>9, <2>10 DEF IInv
<1>. QED  BY <1>3, <1>4 DEF SaveQuote

LEMMA SavePaymentStep ==
  ASSUME IInv, NEW t \in Thread, SavePayment(t)
  PROVE  IInv'
<1>. DEFINE p == job[t].target
            status == StatusAfter(job[t].action, job[t].seen)
<1>1. /\ job[t] \in Job /\ p \in Payment
      /\ job[t].outbox = Story(job[t].action, p)
      /\ \/ /\ job[t].action = "approved"
            /\ p \in preferences
            /\ quotes[QuoteOf[p]] = "APPROVED"
         \/ Decided(job[t].action, job[t].seen) /\ Stored(p)
  BY DEF IInv, TypeOK, JobOk, SavePayment
<1>2. UNCHANGED <<quotes, preferences, provider, published, served>>
  BY DEF SavePayment, outside
<1>3. status \in {"PENDING", "CONFIRMED", "FAILED"}
  BY <1>1 DEF StatusAfter, Decided
<1>4. payments' = [payments EXCEPT ![p] = status]
  BY DEF SavePayment
<1>5. PICK work \in Job :
        /\ work = [job[t] EXCEPT !.pc = IF job[t].outbox = <<>> THEN "reply" ELSE "publish"]
        /\ job' = [job EXCEPT ![t] = work]
  BY <1>1 DEF SavePayment, Goto, Job, Pcs
<1>6. /\ work.pc = IF job[t].outbox = <<>> THEN "reply" ELSE "publish"
      /\ work.action = job[t].action /\ work.target = p /\ work.outbox = job[t].outbox
  BY <1>1, <1>5 DEF Job
<1>. HIDE DEF p, status
<1>7. TypeOK'
  BY <1>1, <1>2, <1>3, <1>4, <1>5 DEF IInv, TypeOK, PaymentStatus
<1>8. Grows /\ payments'[p] # Absent
  BY <1>1, <1>2, <1>3, <1>4 DEF Grows, IInv, TypeOK, Absent
<1>9. Row(work)' /\ work.action # "created"
  BY <1>1, <1>6, <1>8 DEF Row, Stored, Decided
<1>10. JobOk(work)'
  <2>1. CASE job[t].outbox = <<>>
    <3>1. Story(work.action, work.target) = <<>> /\ work.pc = "reply"
      BY <2>1, <1>1, <1>6
    <3>2. Durable(work)'
      BY <3>1, <1>9 DEF Durable
    <3>. QED  BY <3>1, <3>2 DEF JobOk
  <2>2. CASE job[t].outbox # <<>>
    <3>1. work.action \in {"approved", "confirmed", "failed"}
      BY <2>2, <1>1, <1>6, StoryOf DEF Decided
    <3>. QED  BY <2>2, <3>1, <1>1, <1>6, <1>9 DEF JobOk
  <2>. QED  BY <2>1, <2>2
<1>11. \A u \in Thread : JobOk(job[u])'
  BY <1>5, <1>8, <1>10, OthersKept
<1>12. CreateInv'
  <2>1. job'[t] = work /\ \A u \in Thread \ {t} : job'[u] = job[u]
    BY <1>5 DEF IInv, TypeOK
  <2>. QED  BY <1>2, <1>6, <2>1 DEF IInv, CreateInv, Creates
<1>13. PaymentBacked'
  BY <1>1, <1>2, <1>3, <1>4 DEF IInv, TypeOK, PaymentBacked, Stored
<1>14. AnnouncedIsStored' /\ PreferenceFollowsApproval'
  BY <1>2, <1>8 DEF IInv, Grows, AnnouncedIsStored, PreferenceFollowsApproval,
                    Stored, Announced
<1>. QED  BY <1>7, <1>11, <1>12, <1>13, <1>14 DEF IInv

\* The three situations a thread can publish in.
Publishes(j, e) ==
  \/ /\ j.action \in {"created", "confirmed", "failed"}
     /\ j.outbox = <<e>> /\ Story(j.action, j.target) = <<e>>
     /\ j.action = "created" => e = <<"QUOTE_CREATED", j.target>>
     /\ j.action = "confirmed" => e = <<"PAYMENT_CONFIRMED", j.target>>
     /\ j.action = "failed" => e = <<"PAYMENT_FAILED", j.target>>
  \/ /\ j.action = "approved"
     /\ j.outbox = Story(j.action, j.target)
     /\ e = <<"QUOTE_APPROVED", QuoteOf[j.target]>>
  \/ /\ j.action = "approved"
     /\ j.outbox = <<e>>
     /\ e = <<"PAYMENT_PREFERENCE_CREATED", j.target>>
     /\ Announced("QUOTE_APPROVED", QuoteOf[j.target])

LEMMA PublishCases ==
  ASSUME NEW t \in Thread, IInv, job[t].pc = "publish"
  PROVE  \E e \in Event : /\ Publishes(job[t], e)
                          /\ e = Head(job[t].outbox)
                          /\ Row(job[t])
<1>. DEFINE j == job[t]
<1>1. /\ Row(j) /\ j.action \in {"created", "approved", "confirmed", "failed"}
      /\ \/ j.outbox = Story(j.action, j.target)
         \/ /\ j.action = "approved"
            /\ j.outbox = << <<"PAYMENT_PREFERENCE_CREATED", j.target>> >>
            /\ Announced("QUOTE_APPROVED", QuoteOf[j.target])
  BY DEF IInv, JobOk
<1>. HIDE DEF j
<1>2. CASE j.action = "created"
  <2>1. <<"QUOTE_CREATED", j.target>> \in Event
    BY <1>1, <1>2 DEF Event, QuoteEventTypes, Row
  <2>. QED  BY <1>1, <1>2, <2>1, StoryOf DEF Publishes, j
<1>3. CASE j.action \in {"confirmed", "failed"}
  <2>1. <<"PAYMENT_CONFIRMED", j.target>> \in Event /\ <<"PAYMENT_FAILED", j.target>> \in Event
    BY <1>1, <1>3 DEF Event, PaymentEventTypes, Row
  <2>2. CASE j.action = "confirmed"
    BY <1>1, <2>1, <2>2, StoryOf DEF Publishes, j
  <2>3. CASE j.action = "failed"
    BY <1>1, <2>1, <2>3, StoryOf DEF Publishes, j
  <2>. QED  BY <1>3, <2>2, <2>3
<1>4. CASE j.action = "approved" /\ j.outbox = Story(j.action, j.target)
  <2>1. <<"QUOTE_APPROVED", QuoteOf[j.target]>> \in Event
    BY <1>1, <1>4, ConstantsAssumption DEF Event, QuoteEventTypes, Row
  <2>2. Head(j.outbox) = <<"QUOTE_APPROVED", QuoteOf[j.target]>>
    BY <1>4, StoryOf
  <2>. QED  BY <1>1, <1>4, <2>1, <2>2 DEF Publishes, j
<1>5. CASE j.action = "approved" /\ j.outbox # Story(j.action, j.target)
  <2>1. <<"PAYMENT_PREFERENCE_CREATED", j.target>> \in Event
    BY <1>1, <1>5 DEF Event, PaymentEventTypes, Row
  <2>. QED  BY <1>1, <1>5, <2>1 DEF Publishes, j
<1>. QED  BY <1>1, <1>2, <1>3, <1>4, <1>5

LEMMA PublishStep ==
  ASSUME IInv, NEW t \in Thread, Publish(t)
  PROVE  IInv'
<1>. DEFINE j == job[t]
<1>1. j \in Job /\ UNCHANGED <<tables, preferences, provider, served>>
  BY DEF IInv, TypeOK, Publish, outside
<1>2. PICK e \in Event : Publishes(j, e) /\ e = Head(j.outbox) /\ Row(j)
  BY PublishCases DEF Publish
<1>3. published' = [published EXCEPT ![e] = @ + 1] /\ published \in [Event -> Nat]
  BY <1>2 DEF Publish, IInv, TypeOK
<1>4. /\ published' \in [Event -> Nat] /\ published'[e] > 0
      /\ \A f \in Event : published[f] > 0 => published'[f] > 0
      /\ \A f \in Event : published'[f] > 0 => published[f] > 0 \/ f = e
  BY <1>3
<1>5. PICK work \in Job :
        /\ work = [j EXCEPT !.outbox = Tail(@),
                            !.pc = IF Len(j.outbox) = 1 THEN "reply" ELSE "publish"]
        /\ job' = [job EXCEPT ![t] = work]
  <2>1. j.outbox \in Seq(Event) /\ j.outbox # <<>>
    BY <1>1, <1>2, StoryOf DEF Job, Publishes
  <2>2. Tail(j.outbox) \in Seq(Event)
    BY <2>1
  <2>. DEFINE next == [j EXCEPT !.outbox = Tail(@),
                         !.pc = IF Len(j.outbox) = 1 THEN "reply" ELSE "publish"]
  <2>3. next \in Job
    BY <1>1, <2>2 DEF Job, Pcs
  <2>4. job' = [job EXCEPT ![t] = next]
    BY DEF Publish
  <2>. QED  BY <2>3, <2>4
<1>6. /\ work.action = j.action /\ work.target = j.target
      /\ work.outbox = Tail(j.outbox)
      /\ work.pc = IF Len(j.outbox) = 1 THEN "reply" ELSE "publish"
  BY <1>1, <1>5 DEF Job
<1>. HIDE DEF j
<1>7. TypeOK'
  BY <1>1, <1>4, <1>5 DEF IInv, TypeOK, tables
<1>8. Grows
  BY <1>1, <1>4 DEF Grows, tables
<1>9. Row(work)'
  BY <1>1, <1>2, <1>6 DEF Row, Stored, tables
<1>10. JobOk(work)'
  <2>1. CASE Story(j.action, j.target) = <<e>> /\ j.outbox = <<e>>
    <3>1. work.pc = "reply" /\ Story(work.action, work.target) = <<e>>
      BY <2>1, <1>6
    <3>2. Durable(work)'
      BY <3>1, <1>4, <1>9 DEF Durable
    <3>. QED  BY <3>1, <3>2 DEF JobOk
  <2>2. CASE /\ j.action = "approved" /\ j.outbox = Story(j.action, j.target)
             /\ e = <<"QUOTE_APPROVED", QuoteOf[j.target]>>
    <3>1. j.outbox = <<e, <<"PAYMENT_PREFERENCE_CREATED", j.target>> >>
      BY <2>2, StoryOf
    <3>2. /\ work.pc = "publish"
          /\ work.outbox = << <<"PAYMENT_PREFERENCE_CREATED", work.target>> >>
      BY <3>1, <1>6
    <3>. QED  BY <2>2, <3>2, <1>4, <1>6, <1>9 DEF JobOk, Announced
  <2>3. CASE /\ j.action = "approved" /\ j.outbox = <<e>>
             /\ e = <<"PAYMENT_PREFERENCE_CREATED", j.target>>
             /\ Announced("QUOTE_APPROVED", QuoteOf[j.target])
    <3>1. work.pc = "reply"
      BY <2>3, <1>6
    <3>2. Story(work.action, work.target) = << <<"QUOTE_APPROVED", QuoteOf[j.target]>>, e>>
      BY <2>3, <1>6, StoryOf
    <3>3. <<"QUOTE_APPROVED", QuoteOf[j.target]>> \in Event
      BY <2>3, <1>2, ConstantsAssumption DEF Event, QuoteEventTypes, Row
    <3>4. published'[<<"QUOTE_APPROVED", QuoteOf[j.target]>>] > 0
      BY <2>3, <3>3, <1>4 DEF Announced
    <3>5. Durable(work)'
      BY <3>2, <3>3, <3>4, <1>4, <1>9 DEF Durable
    <3>. QED  BY <3>1, <3>5 DEF JobOk
  <2>. QED  BY <1>2, <2>1, <2>2, <2>3 DEF Publishes
<1>11. \A u \in Thread : JobOk(job[u])'
  BY <1>5, <1>8, <1>10, OthersKept
<1>12. CreateInv'
  <2>1. job'[t] = work /\ \A u \in Thread \ {t} : job'[u] = job[u]
    BY <1>5 DEF IInv, TypeOK
  <2>. QED  BY <1>1, <1>6, <2>1 DEF IInv, CreateInv, Creates, tables
<1>13. PaymentBacked'
  BY <1>1 DEF IInv, PaymentBacked, Stored, tables
<1>14. AnnouncedIsStored'
  <2>1. ASSUME NEW q \in Quote
        PROVE  /\ Announced("QUOTE_CREATED", q)' => quotes'[q] # Absent
               /\ Announced("QUOTE_APPROVED", q)' =>
                    /\ quotes'[q] = "APPROVED"
                    /\ \E p \in Payment : QuoteOf[p] = q /\ Stored(p)'
    <3>1. <<"QUOTE_CREATED", q>> \in Event /\ <<"QUOTE_APPROVED", q>> \in Event
      BY DEF Event, QuoteEventTypes
    <3>2. CASE e = <<"QUOTE_CREATED", q>>
      <4>1. j.action = "created" /\ j.target = q
        BY <3>2, <1>2 DEF Publishes
      <4>2. e # <<"QUOTE_APPROVED", q>>
        BY <3>2
      <4>. QED  BY <3>1, <4>1, <4>2, <1>1, <1>2, <1>4
             DEF IInv, AnnouncedIsStored, Announced, Row, Stored, tables
    <3>3. CASE e = <<"QUOTE_APPROVED", q>>
      <4>1. j.action = "approved" /\ QuoteOf[j.target] = q
        BY <3>3, <1>2 DEF Publishes
      <4>2. j.target \in Payment /\ Stored(j.target) /\ quotes[q] = "APPROVED"
        BY <4>1, <1>2 DEF Row, IInv, PaymentBacked
      <4>. QED  BY <4>1, <4>2, <1>1 DEF Stored, tables, Absent
    <3>4. CASE e # <<"QUOTE_CREATED", q>> /\ e # <<"QUOTE_APPROVED", q>>
      BY <3>1, <3>4, <1>1, <1>4 DEF IInv, AnnouncedIsStored, Announced, Stored, tables
    <3>. QED  BY <3>2, <3>3, <3>4
  <2>2. ASSUME NEW p \in Payment, NEW type \in PaymentEventTypes, Announced(type, p)'
        PROVE  Stored(p)'
    <3>1. <<type, p>> \in Event
      BY DEF Event
    <3>2. CASE e = <<type, p>>
      <4>1. j.action # "created" /\ j.target = p
        BY <3>2, <1>2 DEF Publishes, PaymentEventTypes
      <4>. QED  BY <4>1, <1>1, <1>2 DEF Row, Stored, tables
    <3>3. CASE e # <<type, p>>
      BY <2>2, <3>1, <3>3, <1>1, <1>4 DEF IInv, AnnouncedIsStored, Announced, Stored, tables
    <3>. QED  BY <3>2, <3>3
  <2>. QED  BY <2>1, <2>2 DEF AnnouncedIsStored
<1>15. PreferenceFollowsApproval'
  <2>. SUFFICES ASSUME NEW p \in Payment, Announced("PAYMENT_PREFERENCE_CREATED", p)'
                PROVE  Announced("QUOTE_APPROVED", QuoteOf[p])'
    BY DEF PreferenceFollowsApproval
  <2>1. /\ <<"PAYMENT_PREFERENCE_CREATED", p>> \in Event
        /\ <<"QUOTE_APPROVED", QuoteOf[p]>> \in Event
    BY ConstantsAssumption DEF Event, PaymentEventTypes, QuoteEventTypes
  <2>2. CASE e = <<"PAYMENT_PREFERENCE_CREATED", p>>
    <3>1. Announced("QUOTE_APPROVED", QuoteOf[p])
      BY <2>2, <1>2 DEF Publishes
    <3>. QED  BY <3>1, <2>1, <1>4 DEF Announced
  <2>3. CASE e # <<"PAYMENT_PREFERENCE_CREATED", p>>
    BY <2>1, <2>3, <1>4 DEF IInv, PreferenceFollowsApproval, Announced
  <2>. QED  BY <2>2, <2>3
<1>. QED  BY <1>7, <1>11, <1>12, <1>13, <1>14, <1>15 DEF IInv

LEMMA InterruptStep ==
  ASSUME IInv, NEW t \in Thread, Interrupt(t)
  PROVE  IInv'
BY AnswerStep DEF Interrupt, Responses

LEMMA ProviderStepStep ==
  ASSUME IInv, NEW pp \in ProviderPayment, ProviderStep(pp)
  PROVE  IInv'
<1>1. UNCHANGED <<quotes, payments, preferences, published, job, served>>
  BY DEF ProviderStep, tables
<1>2. provider' \in [ProviderPayment -> ProviderStatus]
  BY DEF ProviderStep, ProviderMoves, ProviderStatus, IInv, TypeOK
<1>3. TypeOK'
  BY <1>1, <1>2 DEF IInv, TypeOK
<1>4. \A u \in Thread : JobOk(job[u])'
  BY <1>1 DEF IInv, JobOk, Row, Durable, Stored, Announced
<1>5. CreateInv'
  BY <1>1 DEF IInv, CreateInv, Creates
<1>6. PaymentBacked' /\ AnnouncedIsStored' /\ PreferenceFollowsApproval'
  BY <1>1 DEF IInv, PaymentBacked, AnnouncedIsStored, PreferenceFollowsApproval,
              Stored, Announced
<1>. QED  BY <1>3, <1>4, <1>5, <1>6 DEF IInv

LEMMA StutterStep ==
  ASSUME IInv, UNCHANGED vars
  PROVE  IInv'
<1>1. UNCHANGED <<quotes, payments, preferences, published, provider, job, served>>
  BY DEF vars, tables
<1>2. TypeOK'
  BY <1>1 DEF IInv, TypeOK
<1>3. \A u \in Thread : JobOk(job[u])'
  <2>. SUFFICES ASSUME NEW u \in Thread PROVE JobOk(job[u])'
    OBVIOUS
  <2>1. JobOk(job[u])
    BY DEF IInv
  <2>. QED  BY <1>1, <2>1 DEF JobOk, Row, Durable, Stored, Announced
<1>4. CreateInv'
  BY <1>1 DEF IInv, CreateInv, Creates
<1>5. PaymentBacked'
  BY <1>1 DEF IInv, PaymentBacked, Stored
<1>6. AnnouncedIsStored'
  BY <1>1 DEF IInv, AnnouncedIsStored, Stored, Announced
<1>7. PreferenceFollowsApproval'
  BY <1>1 DEF IInv, PreferenceFollowsApproval, Stored, Announced
<1>. QED  BY <1>2, <1>3, <1>4, <1>5, <1>6, <1>7 DEF IInv

LEMMA InitHolds ==
  ASSUME Init
  PROVE  IInv
<1>1. TypeOK
  <2>1. quotes \in [Quote -> QuoteStatus \cup {Absent}]
    BY DEF Init, QuoteStatus
  <2>2. payments \in [Payment -> PaymentStatus \cup {Absent}] /\ preferences \subseteq Payment
    BY DEF Init
  <2>3. provider \in [ProviderPayment -> ProviderStatus]
    BY DEF Init, ProviderStatus
  <2>4. published \in [Event -> Nat] /\ served \in Nat
    BY DEF Init
  <2>5. job \in [Thread -> Job]
    BY RefusedType DEF Init
  <2>. QED  BY <2>1, <2>2, <2>3, <2>4, <2>5 DEF TypeOK
<1>2. \A t \in Thread : JobOk(job[t])
  BY DEF Init, JobOk, Idle, Work
<1>3. CreateInv
  BY DEF Init, CreateInv, Creates, Idle, Work
<1>4. PaymentBacked
  BY DEF Init, PaymentBacked, Stored
<1>5. \A type, id : <<type, id>> \in Event => ~Announced(type, id)
  BY DEF Init, Announced
<1>6. AnnouncedIsStored /\ PreferenceFollowsApproval
  BY <1>5 DEF AnnouncedIsStored, PreferenceFollowsApproval, Event,
              QuoteEventTypes, PaymentEventTypes
<1>. QED  BY <1>1, <1>2, <1>3, <1>4, <1>6 DEF IInv
-----------------------------------------------------------------------------
(* The theorems.                                                           *)

\* The invariant holds, whatever requests do and wherever they stop.
THEOREM Invariance == Spec => []IInv
<1>1. Init => IInv
  BY InitHolds
<1>2. IInv /\ [Next]_vars => IInv'
  <2>. SUFFICES ASSUME IInv, [Next]_vars PROVE IInv'
    OBVIOUS
  <2>1. ASSUME NEW t \in Thread, Request(t) PROVE IInv'
    BY <2>1, BeginCreateStep, BeginApproveStep, BeginConfirmStep, BeginFailStep,
       BeginSimulateStep, BeginSyncStep DEF Request
  <2>2. ASSUME NEW t \in Thread, CallGateway(t) PROVE IInv'
    BY <2>2, CallGatewayStep
  <2>3. ASSUME NEW t \in Thread, SearchPayments(t) PROVE IInv'
    BY <2>3, SearchPaymentsStep
  <2>4. ASSUME NEW t \in Thread, LocalStep(t) PROVE IInv'
    BY <2>4, ApplyStatusStep, SaveQuoteStep, SavePaymentStep, PublishStep,
       ReplyStep DEF LocalStep
  <2>5. ASSUME NEW t \in Thread, Interrupt(t) PROVE IInv'
    BY <2>5, InterruptStep
  <2>6. ASSUME NEW pp \in ProviderPayment, ProviderStep(pp) PROVE IInv'
    BY <2>6, ProviderStepStep
  <2>7. CASE UNCHANGED vars
    BY <2>7, StutterStep
  <2>. QED  BY <2>1, <2>2, <2>3, <2>4, <2>5, <2>6, <2>7 DEF Next
<1>. QED  BY <1>1, <1>2, PTL DEF Spec

\* The variables keep their types, for every number of threads and requests.
THEOREM TypeCorrect == Spec => []TypeOK
<1>1. IInv => TypeOK
  BY DEF IInv
<1>. QED  BY <1>1, Invariance, PTL

\* A stored payment has its preference and its approved quote: the order of
\* the saves in ApproveQuoteUseCase.
THEOREM PaymentsAreBacked == Spec => []PaymentBacked
<1>1. IInv => PaymentBacked
  BY DEF IInv
<1>. QED  BY <1>1, Invariance, PTL

\* What is announced is stored: every use case saves before it publishes.
THEOREM AnnouncementsAreStored == Spec => []AnnouncedIsStored
<1>1. IInv => AnnouncedIsStored
  BY DEF IInv
<1>. QED  BY <1>1, Invariance, PTL

\* A preference is announced after the approval it follows from.
THEOREM PreferencesFollowApprovals == Spec => []PreferenceFollowsApproval
<1>1. IInv => PreferenceFollowsApproval
  BY DEF IInv
<1>. QED  BY <1>1, Invariance, PTL

\* A success told to a client is in the tables and with the publisher.
THEOREM SuccessIsDurable == Spec => []OkIsDurable
<1>1. IInv => OkIsDurable
  <2>. SUFFICES ASSUME IInv, NEW t \in Thread, job[t].pc = "idle", job[t].resp = "ok"
                PROVE  Durable(job[t])
    BY DEF OkIsDurable, Durable, Row
  <2>. QED  BY DEF IInv, JobOk
<1>. QED  BY <1>1, Invariance, PTL

\* A settled payment changes only by the save of a stale read: the guards of
\* Payment.confirm, Payment.fail and the status table allow nothing else.
THEOREM LostUpdatesOnly == Spec => UnsettledOnlyByStaleSave
<1>. DEFINE Stale(p) == \E t \in Thread : /\ job[t].pc = "savePayment"
                                          /\ job[t].target = p
                                          /\ job[t].seen # payments[p]
            Changed(p) == payments[p] \in Settled /\ payments'[p] # payments[p]
<1>1. ASSUME IInv, Next, NEW p \in Payment, Changed(p)
      PROVE  Stale(p)
  <2>1. PICK t \in Thread : SavePayment(t)
    BY <1>1 DEF Next, Request, LocalStep, BeginCreate, BeginApprove, BeginConfirm,
                BeginFail, BeginSimulate, BeginSync, CallGateway, SearchPayments,
                ApplyStatus, SaveQuote, Publish, Reply, Interrupt, ProviderStep,
                tables
  <2>2. /\ job[t].pc = "savePayment" /\ job[t].target = p
        /\ payments'[p] = StatusAfter(job[t].action, job[t].seen)
    BY <1>1, <2>1 DEF SavePayment, IInv, TypeOK
  <2>3. CASE job[t].action = "approved"
    BY <1>1, <2>2, <2>3 DEF IInv, JobOk, Settled, Absent
  <2>4. CASE Decided(job[t].action, job[t].seen)
    BY <2>2, <2>4, <1>1 DEF Decided, StatusAfter, Settled
  <2>. QED  BY <1>1, <2>2, <2>3, <2>4 DEF IInv, JobOk
<1>2. IInv /\ [Next]_vars => [\A p \in Payment : Changed(p) => Stale(p)]_vars
  BY <1>1
<1>. QED  BY <1>2, Invariance, PTL DEF UnsettledOnlyByStaleSave, Spec
-----------------------------------------------------------------------------
(* Where no request is cut short, an approved quote has a payment.         *)

\* An approval that has saved its quote and is about to save its payment.
Saving(p) == \E t \in Thread : job[t].pc = "savePayment" /\ job[t].target = p

\* Saving a payment stores it, and takes no other one away.
LEMMA SaveStores ==
  ASSUME IInv, NEW t \in Thread, SavePayment(t)
  PROVE  /\ payments'[job[t].target] # Absent
         /\ \A p \in Payment : Stored(p) => Stored(p)'
<1>. DEFINE status == StatusAfter(job[t].action, job[t].seen)
<1>1. /\ job[t].target \in Payment
      /\ job[t].action = "approved" \/ Decided(job[t].action, job[t].seen)
  BY DEF IInv, JobOk, SavePayment
<1>2. status # Absent
  BY <1>1 DEF StatusAfter, Decided, Absent
<1>3. payments' = [payments EXCEPT ![job[t].target] = status]
  BY DEF SavePayment
<1>. HIDE DEF status
<1>4. \A p \in Payment :
        payments'[p] = IF p = job[t].target THEN status ELSE payments[p]
  BY <1>3 DEF IInv, TypeOK
<1>5. /\ payments'[job[t].target] # Absent
      /\ \A p \in Payment : payments[p] # Absent => payments'[p] # Absent
  BY <1>1, <1>2, <1>4
<1>. QED  BY <1>5 DEF Stored

LEMMA RowsStay ==
  ASSUME IInv, [Next]_vars, NEW p \in Payment, Stored(p)
  PROVE  Stored(p)'
<1>1. ASSUME NEW t \in Thread, SavePayment(t) PROVE Stored(p)'
  BY <1>1, SaveStores
<1>2. CASE UNCHANGED payments
  BY <1>2 DEF Stored
<1>3. UNCHANGED payments \/ \E t \in Thread : SavePayment(t)
  BY DEF Next, Request, LocalStep, BeginCreate, BeginApprove, BeginConfirm,
         BeginFail, BeginSimulate, BeginSync, CallGateway, SearchPayments,
         ApplyStatus, SaveQuote, Publish, Reply, Interrupt, ProviderStep, tables, vars
<1>. QED  BY <1>1, <1>2, <1>3

\* A thread about to save its payment does nothing else first.
LEMMA SavesNext ==
  ASSUME IInv, [Next]_vars, MayInterrupt = FALSE,
         NEW u \in Thread, job[u].pc = "savePayment"
  PROVE  SavePayment(u) \/ job'[u] = job[u]
<1>. SUFFICES ASSUME job'[u] # job[u] PROVE SavePayment(u)
  OBVIOUS
<1>1. job \in [Thread -> Job]
  BY DEF IInv, TypeOK
<1>2. PICK t \in Thread :
        Request(t) \/ CallGateway(t) \/ SearchPayments(t) \/ LocalStep(t)
  BY DEF Next, vars, ProviderStep, Interrupt
<1>3. \E work : job' = [job EXCEPT ![t] = work]
  BY <1>2, Zenon DEF Request, LocalStep, BeginCreate, BeginApprove, ApproveStep, BeginConfirm,
                BeginFail, BeginSimulate, BeginSync, CallGateway, SearchPayments,
                ApplyStatus, SaveQuote, SavePayment, Publish, Reply, Begin, Goto, Answer
<1>4. t = u
  BY <1>1, <1>3
<1>. QED
  BY <1>2, <1>4
  DEF Request, LocalStep, BeginCreate, BeginApprove, ApproveStep, BeginConfirm,
      BeginFail, BeginSimulate, BeginSync, CallGateway, SearchPayments,
      ApplyStatus, SaveQuote, Publish, Reply, Begin

\* Only an approval on its way to its payment makes a quote approved.
LEMMA ApprovedBySave ==
  ASSUME IInv, [Next]_vars, NEW q \in Quote,
         quotes[q] # "APPROVED", quotes'[q] = "APPROVED"
  PROVE  \E p \in Payment : QuoteOf[p] = q /\ Saving(p)'
<1>1. PICK t \in Thread : SaveQuote(t)
  BY DEF Next, Request, LocalStep, BeginCreate, BeginApprove, BeginConfirm,
         BeginFail, BeginSimulate, BeginSync, CallGateway, SearchPayments,
         ApplyStatus, SavePayment, Publish, Reply, Interrupt, ProviderStep, tables, vars
<1>2. /\ job[t].action = "approved"
      /\ quotes' = [quotes EXCEPT ![QuoteOf[job[t].target]] = "APPROVED"]
      /\ Goto(t, "savePayment")
  BY <1>1 DEF SaveQuote, IInv, TypeOK
<1>3. QuoteOf[job[t].target] = q
  BY <1>2 DEF IInv, TypeOK
<1>4. job[t].target \in Payment
  BY <1>1, <1>2 DEF IInv, JobOk, SaveQuote
<1>5. job'[t].pc = "savePayment" /\ job'[t].target = job[t].target
  BY <1>2 DEF Goto, IInv, TypeOK, Job
<1>. QED  BY <1>3, <1>4, <1>5 DEF Saving

LEMMA StepApproved ==
  ASSUME IInv, [Next]_vars, MayInterrupt = FALSE, ApprovedQuoteHasPayment
  PROVE  ApprovedQuoteHasPayment'
<1>. SUFFICES ASSUME NEW q \in Quote, quotes'[q] = "APPROVED"
              PROVE  \E p \in Payment : QuoteOf[p] = q /\ (Stored(p) \/ Saving(p))'
  BY DEF ApprovedQuoteHasPayment, Saving
<1>1. CASE quotes[q] # "APPROVED"
  BY <1>1, ApprovedBySave
<1>2. CASE quotes[q] = "APPROVED"
  <2>1. PICK p \in Payment : QuoteOf[p] = q /\ (Stored(p) \/ Saving(p))
    BY <1>2 DEF ApprovedQuoteHasPayment, Saving
  <2>2. CASE Stored(p)
    BY <2>1, <2>2, RowsStay
  <2>3. CASE Saving(p)
    <3>1. PICK u \in Thread : job[u].pc = "savePayment" /\ job[u].target = p
      BY <2>3 DEF Saving
    <3>2. CASE SavePayment(u)
      <4>1. payments'[p] # Absent
        BY <3>1, <3>2, SaveStores
      <4>. QED  BY <2>1, <4>1 DEF Stored
    <3>3. CASE job'[u] = job[u]
      BY <2>1, <3>1, <3>3 DEF Saving
    <3>. QED  BY <3>1, <3>2, <3>3, SavesNext
  <2>. QED  BY <2>1, <2>2, <2>3
<1>. QED  BY <1>1, <1>2

\* When no request is cut short, every approved quote has its payment, or the
\* thread that approved it is about to save one: the window between the two
\* saves of ApproveQuoteUseCase closes.
THEOREM ApprovalsReachTheirPayment ==
  ASSUME MayInterrupt = FALSE
  PROVE  Spec => []ApprovedQuoteHasPayment
<1>1. Init => ApprovedQuoteHasPayment
  BY DEF Init, ApprovedQuoteHasPayment, Absent
<1>2. IInv /\ ApprovedQuoteHasPayment /\ [Next]_vars => ApprovedQuoteHasPayment'
  BY StepApproved
<1>. QED  BY <1>1, <1>2, Invariance, PTL DEF Spec
-----------------------------------------------------------------------------
(* Where no request is cut short, no event is forgotten.                   *)

\* The event is among those a thread has left to publish.
Owed(e) ==
  \E t \in Thread : /\ job[t].pc \in {"savePayment", "publish"}
                    /\ \E i \in DOMAIN job[t].outbox : job[t].outbox[i] = e

Told(e) == published[e] > 0 \/ Owed(e)

\* What the tables hold has been announced, or a thread is about to announce it.
EventsAreOwed ==
  /\ \A q \in Quote \ InitialQuotes :
       quotes[q] # Absent => Told(<<"QUOTE_CREATED", q>>)
  /\ \A q \in Quote : quotes[q] = "APPROVED" => Told(<<"QUOTE_APPROVED", q>>)
  /\ \A p \in Payment : Stored(p) => Told(<<"PAYMENT_PREFERENCE_CREATED", p>>)
  /\ \A p \in Payment, status \in Settled :
       payments[p] = status => Told(<<SettledEvent(status), p>>)

\* So has the outcome that a thread has read: it may write it back.
ReadOutcomesAreOwed ==
  \A t \in Thread : job[t].pc = "savePayment" /\ job[t].seen \in Settled =>
    Told(<<SettledEvent(job[t].seen), job[t].target>>)

TellInv == EventsAreOwed /\ ReadOutcomesAreOwed

\* What the outbox of a thread has in it before its last save.
LEMMA StoryTells ==
  ASSUME NEW x
  PROVE  /\ Story("created", x)[1] = <<"QUOTE_CREATED", x>>
         /\ Story("approved", x)[1] = <<"QUOTE_APPROVED", QuoteOf[x]>>
         /\ Story("approved", x)[2] = <<"PAYMENT_PREFERENCE_CREATED", x>>
         /\ Story("confirmed", x)[1] = <<"PAYMENT_CONFIRMED", x>>
         /\ Story("failed", x)[1] = <<"PAYMENT_FAILED", x>>
         /\ DOMAIN Story("created", x) = {1} /\ DOMAIN Story("approved", x) = {1, 2}
         /\ DOMAIN Story("confirmed", x) = {1} /\ DOMAIN Story("failed", x) = {1}
         /\ \A action \in {"created", "approved", "confirmed", "failed"} :
              Story(action, x) # <<>>
BY StoryOf

\* A thread with events left to publish only saves or publishes.
LEMMA OwingStep ==
  ASSUME IInv, [Next]_vars, MayInterrupt = FALSE,
         NEW u \in Thread, job[u].pc \in {"savePayment", "publish"}
  PROVE  SavePayment(u) \/ Publish(u) \/ job'[u] = job[u]
<1>. SUFFICES ASSUME job'[u] # job[u] PROVE SavePayment(u) \/ Publish(u)
  OBVIOUS
<1>1. job \in [Thread -> Job]
  BY DEF IInv, TypeOK
<1>2. PICK t \in Thread :
        Request(t) \/ CallGateway(t) \/ SearchPayments(t) \/ LocalStep(t)
  BY DEF Next, vars, ProviderStep, Interrupt
<1>3. \E work : job' = [job EXCEPT ![t] = work]
  BY <1>2, Zenon DEF Request, LocalStep, BeginCreate, BeginApprove, ApproveStep, BeginConfirm,
                BeginFail, BeginSimulate, BeginSync, CallGateway, SearchPayments,
                ApplyStatus, SaveQuote, SavePayment, Publish, Reply, Begin, Goto, Answer
<1>4. t = u
  BY <1>1, <1>3
<1>. QED
  BY <1>2, <1>4
  DEF Request, LocalStep, BeginCreate, BeginApprove, ApproveStep, BeginConfirm,
      BeginFail, BeginSimulate, BeginSync, CallGateway, SearchPayments,
      ApplyStatus, SaveQuote, Reply, Begin

LEMMA PublishedStays ==
  ASSUME IInv, [Next]_vars, NEW e \in Event, published[e] > 0
  PROVE  published'[e] > 0
<1>1. ASSUME NEW t \in Thread, Publish(t) PROVE published'[e] > 0
  <2>1. PICK f \in Event : f = Head(job[t].outbox)
    BY <1>1, PublishCases DEF Publish
  <2>2. published' = [published EXCEPT ![f] = @ + 1] /\ published \in [Event -> Nat]
    BY <1>1, <2>1 DEF Publish, IInv, TypeOK
  <2>. QED  BY <2>2
<1>2. UNCHANGED published \/ \E t \in Thread : Publish(t)
  BY DEF Next, Request, LocalStep, BeginCreate, BeginApprove, BeginConfirm,
         BeginFail, BeginSimulate, BeginSync, CallGateway, SearchPayments,
         ApplyStatus, SaveQuote, SavePayment, Reply, Interrupt, ProviderStep, vars
<1>. QED  BY <1>1, <1>2

\* Nothing that was announced or is owed is ever forgotten.
LEMMA ToldStays ==
  ASSUME IInv, [Next]_vars, MayInterrupt = FALSE, NEW e \in Event, Told(e)
  PROVE  Told(e)'
<1>1. CASE published[e] > 0
  BY <1>1, PublishedStays DEF Told
<1>2. CASE Owed(e)
  <2>1. PICK u \in Thread : /\ job[u].pc \in {"savePayment", "publish"}
                            /\ \E i \in DOMAIN job[u].outbox : job[u].outbox[i] = e
    BY <1>2 DEF Owed
  <2>2. PICK i \in DOMAIN job[u].outbox : job[u].outbox[i] = e
    BY <2>1
  <2>3. /\ job \in [Thread -> Job] /\ job[u] \in Job /\ job[u].outbox \in Seq(Event)
        /\ published \in [Event -> Nat]
    BY DEF IInv, TypeOK, Job
  <2>4. i \in 1..Len(job[u].outbox) /\ job[u].outbox # <<>>
    BY <2>2, <2>3
  <2>5. CASE job'[u] = job[u]
    BY <2>1, <2>5 DEF Told, Owed
  <2>6. CASE SavePayment(u)
    <3>1. job'[u].pc = "publish" /\ job'[u].outbox = job[u].outbox
      BY <2>3, <2>4, <2>6 DEF SavePayment, Goto, Job
    <3>. QED  BY <2>2, <3>1 DEF Told, Owed
  <2>7. CASE Publish(u)
    <3>1. PICK work : /\ work = [job[u] EXCEPT !.outbox = Tail(@),
                            !.pc = IF Len(job[u].outbox) = 1 THEN "reply" ELSE "publish"]
                      /\ job' = [job EXCEPT ![u] = work]
      BY <2>7 DEF Publish
    <3>2. /\ work.outbox = Tail(job[u].outbox) /\ job'[u] = work
          /\ work.pc = IF Len(job[u].outbox) = 1 THEN "reply" ELSE "publish"
      BY <2>3, <3>1 DEF Job
    <3>3. CASE i = 1
      <4>1. Head(job[u].outbox) = e
        BY <2>2, <2>3, <2>4, <3>3
      <4>2. published' = [published EXCEPT ![e] = @ + 1]
        BY <2>7, <4>1 DEF Publish
      <4>3. published'[e] > 0
        BY <2>3, <4>2
      <4>. QED  BY <4>3 DEF Told
    <3>4. CASE i # 1
      <4>1. /\ Len(job[u].outbox) # 1 /\ i - 1 \in DOMAIN Tail(job[u].outbox)
            /\ Tail(job[u].outbox)[i - 1] = e
        BY <2>2, <2>3, <2>4, <3>4
      <4>. QED  BY <3>2, <4>1 DEF Told, Owed
    <3>. QED  BY <3>3, <3>4
  <2>. QED  BY <2>1, <2>5, <2>6, <2>7, OwingStep
<1>. QED  BY <1>1, <1>2 DEF Told

LEMMA EventsNamed ==
  /\ \A q \in Quote : <<"QUOTE_CREATED", q>> \in Event /\ <<"QUOTE_APPROVED", q>> \in Event
  /\ \A p \in Payment : <<"PAYMENT_PREFERENCE_CREATED", p>> \in Event
  /\ \A p \in Payment, status \in Settled : <<SettledEvent(status), p>> \in Event
BY DEF Event, QuoteEventTypes, PaymentEventTypes, Settled, SettledEvent

\* A quote enters the table, or is approved, with its event to be published.
LEMMA QuotesAreTold ==
  ASSUME IInv, [Next]_vars, NEW q \in Quote, quotes'[q] # quotes[q]
  PROVE  \/ quotes'[q] = "CREATED" /\ Owed(<<"QUOTE_CREATED", q>>)'
         \/ quotes'[q] = "APPROVED" /\ quotes[q] # Absent /\ Owed(<<"QUOTE_APPROVED", q>>)'
<1>1. PICK t \in Thread : SaveQuote(t)
  BY DEF Next, Request, LocalStep, BeginCreate, BeginApprove, BeginConfirm,
         BeginFail, BeginSimulate, BeginSync, CallGateway, SearchPayments,
         ApplyStatus, SavePayment, Publish, Reply, Interrupt, ProviderStep, tables, vars
<1>2. /\ job[t] \in Job /\ job \in [Thread -> Job] /\ quotes \in [Quote -> QuoteStatus \cup {Absent}]
      /\ job[t].pc = "saveQuote" /\ job[t].outbox = Story(job[t].action, job[t].target)
      /\ job[t].action = "approved" => quotes[QuoteOf[job[t].target]] # Absent
  BY <1>1 DEF IInv, TypeOK, JobOk, SaveQuote
<1>3. /\ job'[t].outbox = job[t].outbox /\ job'[t].pc \in {"savePayment", "publish"}
  BY <1>1, <1>2 DEF SaveQuote, Goto, Job
<1>4. CASE job[t].action = "created"
  <2>1. quotes' = [quotes EXCEPT ![job[t].target] = "CREATED"]
    BY <1>1, <1>4 DEF SaveQuote
  <2>2. job[t].target = q /\ quotes'[q] = "CREATED"
    BY <1>2, <2>1
  <2>. QED  BY <1>2, <1>3, <1>4, <2>2, StoryTells DEF Owed
<1>5. CASE job[t].action = "approved"
  <2>1. quotes' = [quotes EXCEPT ![QuoteOf[job[t].target]] = "APPROVED"]
    BY <1>1, <1>5 DEF SaveQuote
  <2>2. QuoteOf[job[t].target] = q /\ quotes'[q] = "APPROVED"
    BY <1>2, <2>1
  <2>. QED  BY <1>2, <1>3, <1>5, <2>2, StoryTells DEF Owed
<1>. QED  BY <1>1, <1>4, <1>5 DEF SaveQuote

\* A payment enters the table with its preference to be announced, and changes
\* to an outcome that is to be announced or was read.
LEMMA PaymentsAreTold ==
  ASSUME IInv, [Next]_vars, NEW p \in Payment, payments'[p] # payments[p]
  PROVE  /\ payments[p] = Absent => Owed(<<"PAYMENT_PREFERENCE_CREATED", p>>)'
         /\ \A status \in Settled : payments'[p] = status =>
              \/ Owed(<<SettledEvent(status), p>>)'
              \/ \E t \in Thread : /\ job[t].pc = "savePayment" /\ job[t].target = p
                                   /\ job[t].seen = status
<1>1. PICK t \in Thread : SavePayment(t)
  BY DEF Next, Request, LocalStep, BeginCreate, BeginApprove, BeginConfirm,
         BeginFail, BeginSimulate, BeginSync, CallGateway, SearchPayments,
         ApplyStatus, SaveQuote, Publish, Reply, Interrupt, ProviderStep, tables, vars
<1>2. /\ job[t] \in Job /\ job \in [Thread -> Job]
      /\ payments \in [Payment -> PaymentStatus \cup {Absent}]
      /\ job[t].pc = "savePayment" /\ job[t].outbox = Story(job[t].action, job[t].target)
      /\ job[t].action = "approved" \/ (Decided(job[t].action, job[t].seen) /\ Stored(job[t].target))
  BY <1>1 DEF IInv, TypeOK, JobOk, SavePayment
<1>3. /\ job[t].target = p
      /\ payments'[p] = StatusAfter(job[t].action, job[t].seen)
  BY <1>1, <1>2 DEF SavePayment
<1>4. ASSUME job[t].action \in {"approved", "confirmed", "failed"}
      PROVE  job'[t].outbox = job[t].outbox /\ job'[t].pc = "publish"
  <2>1. job[t].outbox # <<>>
    BY <1>2, <1>4, StoryTells
  <2>. QED  BY <1>1, <1>2, <2>1 DEF SavePayment, Goto, Job
<1>5. CASE job[t].action = "approved"
  <2>1. payments'[p] \notin Settled
    BY <1>3, <1>5 DEF StatusAfter, Settled
  <2>. QED  BY <1>2, <1>3, <1>4, <1>5, <2>1, StoryTells DEF Owed
<1>6. CASE Decided(job[t].action, job[t].seen) /\ Stored(job[t].target)
  <2>1. payments[p] # Absent
    BY <1>3, <1>6 DEF Stored
  <2>2. CASE job[t].action = "confirmed"
    <3>1. payments'[p] = "CONFIRMED"
      BY <1>3, <2>2 DEF StatusAfter
    <3>2. SettledEvent("CONFIRMED") = "PAYMENT_CONFIRMED"
      BY DEF SettledEvent
    <3>3. Owed(<<"PAYMENT_CONFIRMED", p>>)'
      BY <1>2, <1>3, <1>4, <2>2, StoryTells DEF Owed
    <3>. QED  BY <2>1, <3>1, <3>2, <3>3
  <2>3. CASE job[t].action = "failed"
    <3>1. payments'[p] = "FAILED"
      BY <1>3, <2>3 DEF StatusAfter
    <3>2. SettledEvent("FAILED") = "PAYMENT_FAILED"
      BY DEF SettledEvent
    <3>3. Owed(<<"PAYMENT_FAILED", p>>)'
      BY <1>2, <1>3, <1>4, <2>3, StoryTells DEF Owed
    <3>. QED  BY <2>1, <3>1, <3>2, <3>3
  <2>4. CASE job[t].action \in {"ignored", "duplicate"}
    BY <1>2, <1>3, <2>1, <2>4 DEF StatusAfter
  <2>. QED  BY <1>6, <2>2, <2>3, <2>4 DEF Decided
<1>. QED  BY <1>2, <1>5, <1>6

\* A thread about to save a payment has just read what it saw.
LEMMA SavesWhatItRead ==
  ASSUME IInv, [Next]_vars, NEW u \in Thread,
         job'[u].pc = "savePayment", job'[u].seen \in Settled
  PROVE  \/ job'[u] = job[u]
         \/ job'[u].target \in Payment /\ job'[u].seen = payments[job'[u].target]
<1>. SUFFICES ASSUME job'[u] # job[u]
              PROVE  job'[u].target \in Payment /\ job'[u].seen = payments[job'[u].target]
  OBVIOUS
<1>1. job \in [Thread -> Job]
  BY DEF IInv, TypeOK
<1>2. PICK t \in Thread :
        Request(t) \/ CallGateway(t) \/ SearchPayments(t) \/ LocalStep(t) \/ Interrupt(t)
  BY DEF Next, vars, ProviderStep
<1>3. \E work : job' = [job EXCEPT ![t] = work]
  BY <1>2, Zenon DEF Request, LocalStep, BeginCreate, BeginApprove, ApproveStep, BeginConfirm,
                BeginFail, BeginSimulate, BeginSync, CallGateway, SearchPayments, Interrupt,
                ApplyStatus, SaveQuote, SavePayment, Publish, Reply, Begin, Goto, Answer
<1>4. t = u
  BY <1>1, <1>3
<1>5. job[u] \in Job
  BY <1>1
<1>6. ASSUME NEW work, job' = [job EXCEPT ![u] = work] PROVE job'[u] = work
  BY <1>1, <1>6
<1>7. Refused.pc = "idle"
  BY DEF Refused, Idle, Work
<1>8. ASSUME NEW p, NEW status, job'[u] = Applied(p, status)
      PROVE  job'[u].target = p /\ job'[u].seen = payments[p]
  BY <1>7, <1>8 DEF Applied, Work
<1>9. CASE BeginSimulate(u)
  <2>1. PICK p \in Payment, status \in SimulatedStatuses : job' = [job EXCEPT ![u] = Applied(p, status)]
    BY <1>9 DEF BeginSimulate, Begin
  <2>. QED  BY <1>6, <1>8, <2>1
<1>10. CASE ApplyStatus(u)
  <2>1. job[u].target \in Payment /\ job' = [job EXCEPT ![u] = Applied(job[u].target, job[u].heard)]
    BY <1>10 DEF ApplyStatus, IInv, JobOk
  <2>. QED  BY <1>6, <1>8, <2>1
<1>11. CASE BeginConfirm(u) \/ BeginFail(u)
  <2>1. PICK p \in Payment :
          \/ job' = [job EXCEPT ![u] = Refused]
          \/ job' = [job EXCEPT ![u] = Work("savePayment", "confirmed", p, payments[p])]
          \/ job' = [job EXCEPT ![u] = Work("savePayment", "failed", p, payments[p])]
    BY <1>11 DEF BeginConfirm, BeginFail, Begin
  <2>2. \/ job'[u] = Refused
        \/ job'[u] = Work("savePayment", "confirmed", p, payments[p])
        \/ job'[u] = Work("savePayment", "failed", p, payments[p])
    BY <1>1, <2>1
  <2>. QED  BY <1>7, <2>2 DEF Work
<1>12. CASE BeginCreate(u) \/ BeginApprove(u) \/ BeginSync(u)
  <2>1. PICK work : job' = [job EXCEPT ![u] = work] /\ work.pc # "savePayment"
    BY <1>7, <1>12 DEF BeginCreate, BeginApprove, ApproveStep, BeginSync, Begin, Work
  <2>. QED  BY <1>6, <2>1
<1>13. CASE CallGateway(u) \/ SearchPayments(u) \/ SavePayment(u) \/ Publish(u) \/ Reply(u) \/ Interrupt(u)
  <2>1. \A to \in Pcs : Goto(u, to) => job'[u].pc = to
    BY <1>1, <1>5 DEF Goto, Job
  <2>2. \A resp \in Responses : Answer(u, resp) => job'[u].pc = "idle"
    <3>1. SUFFICES ASSUME NEW resp \in Responses, Answer(u, resp) PROVE job'[u].pc = "idle"
      OBVIOUS
    <3>2. job'[u] = [job[u] EXCEPT !.pc = "idle", !.seen = Absent, !.heard = "none",
                                   !.outbox = <<>>, !.resp = resp]
      BY <1>1, <3>1 DEF Answer
    <3>. QED  BY <1>5, <3>2 DEF Job
  <2>3. CASE CallGateway(u) \/ SavePayment(u)
    BY <2>1, <2>2, <2>3 DEF CallGateway, SavePayment, Pcs, Responses
  <2>4. CASE Reply(u) \/ Interrupt(u)
    BY <2>2, <2>4 DEF Reply, Interrupt, Responses
  <2>5. CASE SearchPayments(u)
    <3>1. CASE Answer(u, "rejected")
      BY <2>2, <3>1 DEF Responses
    <3>2. CASE ~Answer(u, "rejected")
      <4>1. PICK pp : job' = [job EXCEPT ![u].heard = provider[pp], ![u].pc = "apply"]
        BY <2>5, <3>2 DEF SearchPayments
      <4>. QED  BY <1>1, <1>5, <4>1 DEF Job
    <3>. QED  BY <3>1, <3>2
  <2>6. CASE Publish(u)
    BY <1>1, <1>5, <2>6 DEF Publish, Job
  <2>. QED  BY <1>13, <2>3, <2>4, <2>5, <2>6
<1>14. CASE SaveQuote(u)
  <2>1. job'[u].seen = job[u].seen /\ (job'[u].pc = "savePayment" => job[u].action = "approved")
    BY <1>1, <1>5, <1>14 DEF SaveQuote, Goto, Job
  <2>2. job[u].seen = Absent
    BY <1>14, <2>1 DEF SaveQuote, IInv, JobOk
  <2>. QED  BY <2>1, <2>2 DEF Settled, Absent
<1>. QED
  BY <1>2, <1>4, <1>9, <1>10, <1>11, <1>12, <1>13, <1>14 DEF Request, LocalStep

LEMMA TellStep ==
  ASSUME IInv, [Next]_vars, MayInterrupt = FALSE, TellInv
  PROVE  TellInv'
<1>1. /\ \A e \in Event : Told(e) => Told(e)'
      /\ \A e : Owed(e)' => Told(e)'
  <2>1. \A e \in Event : Told(e) => Told(e)'
    BY ToldStays
  <2>. QED  BY <2>1 DEF Told
<1>2. ASSUME NEW q \in Quote \ InitialQuotes, quotes'[q] # Absent
      PROVE  Told(<<"QUOTE_CREATED", q>>)'
  <2>1. CASE quotes[q] # Absent
    BY <1>1, <2>1, EventsNamed DEF TellInv, EventsAreOwed
  <2>2. CASE quotes[q] = Absent
    BY <1>1, <1>2, <2>2, QuotesAreTold
  <2>. QED  BY <2>1, <2>2
<1>3. ASSUME NEW q \in Quote, quotes'[q] = "APPROVED"
      PROVE  Told(<<"QUOTE_APPROVED", q>>)'
  <2>1. CASE quotes[q] = "APPROVED"
    BY <1>1, <2>1, EventsNamed DEF TellInv, EventsAreOwed
  <2>2. CASE quotes[q] # "APPROVED"
    BY <1>1, <1>3, <2>2, QuotesAreTold
  <2>. QED  BY <2>1, <2>2
<1>4. ASSUME NEW p \in Payment, payments'[p] # Absent
      PROVE  Told(<<"PAYMENT_PREFERENCE_CREATED", p>>)'
  <2>1. CASE payments[p] # Absent
    BY <1>1, <2>1, EventsNamed DEF TellInv, EventsAreOwed, Stored
  <2>2. CASE payments[p] = Absent
    BY <1>1, <1>4, <2>2, PaymentsAreTold
  <2>. QED  BY <2>1, <2>2
<1>5. ASSUME NEW p \in Payment, NEW status \in Settled, payments'[p] = status
      PROVE  Told(<<SettledEvent(status), p>>)'
  <2>1. CASE payments[p] = status
    BY <1>1, <2>1, EventsNamed DEF TellInv, EventsAreOwed
  <2>2. CASE payments[p] # status
    <3>1. \/ Owed(<<SettledEvent(status), p>>)'
          \/ \E t \in Thread : /\ job[t].pc = "savePayment" /\ job[t].target = p
                               /\ job[t].seen = status
      BY <1>5, <2>2, PaymentsAreTold
    <3>2. CASE \E t \in Thread : /\ job[t].pc = "savePayment" /\ job[t].target = p
                                 /\ job[t].seen = status
      <4>1. Told(<<SettledEvent(status), p>>)
        BY <3>2 DEF TellInv, ReadOutcomesAreOwed
      <4>. QED  BY <1>1, <4>1, EventsNamed
    <3>. QED  BY <1>1, <3>1, <3>2
  <2>. QED  BY <2>1, <2>2
<1>6. ASSUME NEW u \in Thread, job'[u].pc = "savePayment",
             NEW status \in Settled, job'[u].seen = status,
             NEW x, job'[u].target = x
      PROVE  Told(<<SettledEvent(status), x>>)'
  <2>1. CASE job'[u] = job[u]
    <3>1. job[u].pc = "savePayment" /\ job[u].seen = status /\ job[u].target = x
      BY <1>6, <2>1
    <3>2. Told(<<SettledEvent(status), x>>) /\ x \in Payment
      BY <3>1 DEF TellInv, ReadOutcomesAreOwed, IInv, JobOk
    <3>. QED  BY <1>1, <3>2, EventsNamed
  <2>2. CASE job'[u] # job[u]
    <3>1. x \in Payment /\ payments[x] = status
      BY <1>6, <2>2, SavesWhatItRead
    <3>2. Told(<<SettledEvent(status), x>>)
      BY <3>1 DEF TellInv, EventsAreOwed
    <3>. QED  BY <1>1, <3>1, <3>2, EventsNamed
  <2>. QED  BY <2>1, <2>2
<1>7. EventsAreOwed'
  BY <1>2, <1>3, <1>4, <1>5 DEF EventsAreOwed, Stored
<1>8. ReadOutcomesAreOwed'
  BY <1>6 DEF ReadOutcomesAreOwed
<1>. QED  BY <1>7, <1>8 DEF TellInv

\* When no request is cut short, nothing is ever stored, approved or settled
\* without its event: it has been published, or a thread still has it to
\* publish, whatever other threads save in between.  This is the safety half of
\* SettledIsAnnounced and StoredIsAnnounced; the other half is that the thread
\* goes on.
THEOREM NoEventIsForgotten ==
  ASSUME MayInterrupt = FALSE
  PROVE  Spec => []EventsAreOwed
<1>1. Init => TellInv
  BY DEF Init, TellInv, EventsAreOwed, ReadOutcomesAreOwed, Stored, Absent, Settled, Idle, Work
<1>2. IInv /\ TellInv /\ [Next]_vars => TellInv'
  BY TellStep
<1>3. TellInv => EventsAreOwed
  BY DEF TellInv
<1>. QED  BY <1>1, <1>2, <1>3, Invariance, PTL DEF Spec
=============================================================================
