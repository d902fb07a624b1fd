------------------------- MODULE MemoryRuntimeProofs -------------------------
(***************************************************************************)
(* The invariants of MemoryRuntime, for every number of threads, quotes,   *)
(* payments and requests, and that its objects and announcements           *)
(* implement PaymentLedger.                                                *)
(*                                                                         *)
(* The argument is about ownership: the thread that stores a quote,        *)
(* approves it or confirms a payment is the only one to do so, because the *)
(* object it found had not changed yet and it changed it in the same step; *)
(* so what it is about to announce has not been announced.                 *)
(***************************************************************************)
EXTENDS MemoryRuntime, SequenceTheorems, TLAPS

Pcs == {"idle", "saveQuote", "gateway", "savePayment", "file", "search", "act",
        "publish", "clear"}
Actions == {"none", "created", "approved", "confirmed", "failed"}
Targets == Quote \cup Payment \cup {NoTarget}

Jobs == [pc : Pcs, action : Actions, target : Targets, n : 0..MaxRequests,
         outbox : Seq(Event), copy : SUBSET Event, code : Nat]

AnnouncedApproval(q) == \E n \in 1..MaxRequests : <<"QUOTE_APPROVED", q, n>> \in announced
AnnouncedConfirmation(p) == \E n \in 1..MaxRequests : <<"PAYMENT_CONFIRMED", p, n>> \in announced
AnnouncedFailure(p) == \E n \in 1..MaxRequests : <<"PAYMENT_FAILED", p, n>> \in announced

\* What is left of the story of a request.
Telling(j) ==
  \/ /\ j.action = "created" /\ j.target \in Quote
     /\ j.outbox = << <<"QUOTE_CREATED", j.target, j.n>> >>
  \/ /\ j.action = "approved" /\ j.target \in Payment
     /\ \/ j.outbox = << <<"QUOTE_APPROVED", QuoteOf[j.target], j.n>>,
                         <<"PAYMENT_PREFERENCE_CREATED", j.target, j.n>> >>
        \/ j.outbox = << <<"PAYMENT_PREFERENCE_CREATED", j.target, j.n>> >>
  \/ /\ j.action = "confirmed" /\ j.target \in Payment
     /\ j.outbox = << <<"PAYMENT_CONFIRMED", j.target, j.n>> >>
  \/ /\ j.action = "failed" /\ j.target \in Payment
     /\ j.outbox = << <<"PAYMENT_FAILED", j.target, j.n>> >>

Shape(j) ==
  /\ j.pc # "idle" => j.n \in 1..MaxRequests
  /\ j.pc # "clear" => j.copy = {}
  /\ j.pc = "saveQuote" => j.action = "created" /\ j.target \in Quote
  /\ j.pc \in {"gateway", "savePayment"} => j.action = "approved" /\ j.target \in Payment
  /\ j.pc \in {"file", "act"} => j.action \in {"confirmed", "failed"} /\ j.target \in Payment
  /\ j.pc = "search" => j.action = "none" /\ j.target \in Payment
  /\ j.pc = "publish" => Telling(j)

\* What a request has done that no other may do after it.
Creates(j) == j.pc = "saveQuote"
Approves(j) == /\ j.action = "approved"
               /\ j.pc \in {"gateway", "savePayment"} \/ (j.pc = "publish" /\ Len(j.outbox) = 2)
Confirms(j) == j.action = "confirmed" /\ j.pc \in {"file", "publish"}
Fails(j) == j.action = "failed" /\ j.pc \in {"file", "publish"}

\* The objects are as it left them, and it has not announced it yet.
Backed(j) ==
  /\ Creates(j) => quotes[j.target] = Absent
  /\ Approves(j) => /\ quotes[QuoteOf[j.target]] = "APPROVED"
                    /\ ~AnnouncedApproval(QuoteOf[j.target])
  /\ j.pc \in {"gateway", "savePayment"} =>
       \A p \in Payment : QuoteOf[p] = QuoteOf[j.target] => payments[p] = Absent
  /\ Confirms(j) => payments[j.target] = "CONFIRMED" /\ ~AnnouncedConfirmation(j.target)
  /\ Fails(j) => payments[j.target] = "FAILED"
  /\ j.pc = "clear" => Members(messages) \subseteq j.copy \cup atRisk

Clash(j, k) ==
  \/ Creates(j) /\ Creates(k) /\ j.target = k.target
  \/ Approves(j) /\ Approves(k) /\ QuoteOf[j.target] = QuoteOf[k.target]
  \/ Confirms(j) /\ Confirms(k) /\ j.target = k.target

\* The objects and the announcements.
StoreOk ==
  /\ quotes \in [Quote -> {Absent, "CREATED", "APPROVED"}]
  /\ payments \in [Payment -> {Absent, "PENDING", "CONFIRMED", "FAILED"}]
  /\ \A p \in Payment : payments[p] # Absent => quotes[QuoteOf[p]] = "APPROVED"
  /\ \A p1, p2 \in Payment :
       QuoteOf[p1] = QuoteOf[p2] /\ payments[p1] # Absent /\ payments[p2] # Absent => p1 = p2
  /\ \A q \in Quote : AnnouncedApproval(q) => quotes[q] = "APPROVED"
  /\ \A p \in Payment : AnnouncedConfirmation(p) => payments[p] = "CONFIRMED"
  /\ \A p \in Payment : AnnouncedFailure(p) => payments[p] = "FAILED"
  /\ \A q \in Quote : Once("QUOTE_APPROVED", q)
  /\ \A p \in Payment : Once("PAYMENT_CONFIRMED", p)

EventsTyped ==
  /\ messages \in Seq(Event)
  /\ served \in 0..MaxRequests
  /\ announced \subseteq Event
  /\ drained \subseteq Event
  /\ atRisk \subseteq Event

IInv ==
  /\ mode \in {"mock", "mercado_pago"}
  /\ EventsTyped
  /\ job \in [Thread -> Jobs]
  /\ \A t \in Thread : Shape(job[t]) /\ Backed(job[t])
  /\ \A t, u \in Thread : t # u => ~Clash(job[t], job[u])
  /\ StoreOk
  /\ EventsAreHandedOut

-----------------------------------------------------------------------------
(* Lemmas about sequences and jobs.                                        *)

LEMMA MembersAppend ==
  ASSUME NEW S, NEW list \in Seq(S), NEW e
  PROVE  Members(Append(list, e)) = Members(list) \cup {e}
<1>1. DOMAIN Append(list, e) = 1..(Len(list) + 1) /\ DOMAIN list = 1..Len(list)
      /\ Len(list) \in Nat
  OBVIOUS
<1>2. \A i \in 1..Len(list) : Append(list, e)[i] = list[i]
  OBVIOUS
<1>3. Append(list, e)[Len(list) + 1] = e
  OBVIOUS
<1>4. ASSUME NEW x \in Members(Append(list, e)) PROVE x \in Members(list) \cup {e}
  <2>1. PICK i \in 1..(Len(list) + 1) : x = Append(list, e)[i]
    BY <1>1, <1>4 DEF Members
  <2>2. CASE i = Len(list) + 1
    BY <2>1, <2>2, <1>3
  <2>3. CASE i \in 1..Len(list)
    BY <2>1, <2>3, <1>1, <1>2 DEF Members
  <2> QED
    BY <1>1, <2>1, <2>2, <2>3
<1>5. Members(list) \subseteq Members(Append(list, e))
  <2> SUFFICES ASSUME NEW i \in 1..Len(list) PROVE list[i] \in Members(Append(list, e))
    BY <1>1 DEF Members
  <2>1. i \in DOMAIN Append(list, e)
    BY <1>1
  <2> QED
    BY <2>1, <1>2 DEF Members
<1>6. e \in Members(Append(list, e))
  <2>1. Len(list) + 1 \in DOMAIN Append(list, e)
    BY <1>1
  <2> QED
    BY <2>1, <1>3 DEF Members
<1> QED
  BY <1>4, <1>5, <1>6

LEMMA MembersTyped ==
  ASSUME NEW list \in Seq(Event)
  PROVE  Members(list) \subseteq Event
BY DEF Members

LEMMA MembersEmpty == Members(<<>>) = {}
BY DEF Members

\* The events of the requests.
LEMMA EventOfQuote ==
  ASSUME NEW type \in QuoteEventTypes, NEW q \in Quote, NEW n \in 1..MaxRequests
  PROVE  <<type, q, n>> \in Event
BY DEF Event

LEMMA EventOfPayment ==
  ASSUME NEW type \in PaymentEventTypes, NEW p \in Payment, NEW n \in 1..MaxRequests
  PROVE  <<type, p, n>> \in Event
BY DEF Event

LEMMA Stories ==
  ASSUME NEW x, NEW n
  PROVE  /\ Story("created", x, n) = << <<"QUOTE_CREATED", x, n>> >>
         /\ Story("approved", x, n) = << <<"QUOTE_APPROVED", QuoteOf[x], n>>,
                                         <<"PAYMENT_PREFERENCE_CREATED", x, n>> >>
         /\ Story("confirmed", x, n) = << <<"PAYMENT_CONFIRMED", x, n>> >>
         /\ Story("failed", x, n) = << <<"PAYMENT_FAILED", x, n>> >>
<1>1. Story("created", x, n) = << <<"QUOTE_CREATED", x, n>> >>
  BY Zenon DEF Story
<1>2. Story("approved", x, n) = << <<"QUOTE_APPROVED", QuoteOf[x], n>>,
                                   <<"PAYMENT_PREFERENCE_CREATED", x, n>> >>
  BY Zenon DEF Story
<1>3. Story("confirmed", x, n) = << <<"PAYMENT_CONFIRMED", x, n>> >>
  BY Zenon DEF Story
<1>4. Story("failed", x, n) = << <<"PAYMENT_FAILED", x, n>> >>
  BY Zenon DEF Story
<1> QED
  BY <1>1, <1>2, <1>3, <1>4

\* The fields of a job, and what assigning one of them keeps.
LEMMA JobFields ==
  ASSUME NEW j \in Jobs
  PROVE  /\ j.pc \in Pcs /\ j.action \in Actions /\ j.target \in Targets
         /\ j.n \in 0..MaxRequests /\ j.outbox \in Seq(Event) /\ j.copy \subseteq Event
         /\ j.code \in Nat
BY DEF Jobs

LEMMA RecordFields ==
  ASSUME NEW P, NEW A, NEW T, NEW N, NEW O, NEW C, NEW D,
         NEW j \in [pc : P, action : A, target : T, n : N, outbox : O, copy : C, code : D]
  PROVE  /\ \A p \in P : [j EXCEPT !.pc = p] \in
              [pc : P, action : A, target : T, n : N, outbox : O, copy : C, code : D]
         /\ \A n \in N : [j EXCEPT !.n = n] \in
              [pc : P, action : A, target : T, n : N, outbox : O, copy : C, code : D]
         /\ \A o \in O : [j EXCEPT !.outbox = o] \in
              [pc : P, action : A, target : T, n : N, outbox : O, copy : C, code : D]
         /\ \A c \in C : [j EXCEPT !.copy = c] \in
              [pc : P, action : A, target : T, n : N, outbox : O, copy : C, code : D]
         /\ \A d \in D : [j EXCEPT !.code = d] \in
              [pc : P, action : A, target : T, n : N, outbox : O, copy : C, code : D]
         /\ \A p \in P, o \in O : [j EXCEPT !.pc = p, !.outbox = o] \in
              [pc : P, action : A, target : T, n : N, outbox : O, copy : C, code : D]
         /\ \A p \in P, o \in O, d \in D : [j EXCEPT !.pc = p, !.outbox = o, !.code = d] \in
              [pc : P, action : A, target : T, n : N, outbox : O, copy : C, code : D]
OBVIOUS

LEMMA JobUpdates ==
  ASSUME NEW j \in Jobs
  PROVE  /\ \A p \in Pcs : [j EXCEPT !.pc = p] \in Jobs
         /\ \A n \in 0..MaxRequests : [j EXCEPT !.n = n] \in Jobs
         /\ \A o \in Seq(Event) : [j EXCEPT !.outbox = o] \in Jobs
         /\ \A c \in SUBSET Event : [j EXCEPT !.copy = c] \in Jobs
         /\ \A d \in Nat : [j EXCEPT !.code = d] \in Jobs
         /\ \A p \in Pcs, o \in Seq(Event) : [j EXCEPT !.pc = p, !.outbox = o] \in Jobs
         /\ \A p \in Pcs, o \in Seq(Event), d \in Nat :
              [j EXCEPT !.pc = p, !.outbox = o, !.code = d] \in Jobs
BY RecordFields DEF Jobs

LEMMA RecordTyped ==
  ASSUME NEW P, NEW A, NEW T, NEW N, NEW O, NEW C, NEW D,
         NEW p \in P, NEW a \in A, NEW t \in T, NEW n \in N, NEW o \in O, NEW c \in C, NEW d \in D
  PROVE  [pc |-> p, action |-> a, target |-> t, n |-> n, outbox |-> o, copy |-> c, code |-> d]
           \in [pc : P, action : A, target : T, n : N, outbox : O, copy : C, code : D]
OBVIOUS

LEMMA WorkTyped ==
  ASSUME ConstantsAssumption, NEW pc \in Pcs, NEW action \in Actions, NEW target \in Targets
  PROVE  Work(pc, action, target) \in Jobs
<1>1. <<>> \in Seq(Event) /\ 0 \in 0..MaxRequests /\ {} \in SUBSET Event
  BY DEF ConstantsAssumption
<1>2. Work(pc, action, target) = [pc |-> pc, action |-> action, target |-> target, n |-> 0,
                                  outbox |-> <<>>, copy |-> {}, code |-> 0]
  BY DEF Work
<1>3. 0 \in Nat
  OBVIOUS
<1>4. [pc |-> pc, action |-> action, target |-> target, n |-> 0,
       outbox |-> <<>>, copy |-> {}, code |-> 0] \in Jobs
  BY <1>1, <1>3, RecordTyped DEF Jobs
<1> QED
  BY <1>2, <1>4

LEMMA AnsweredTyped ==
  ASSUME ConstantsAssumption, NEW code \in Nat
  PROVE  /\ Answered(code) \in Jobs
         /\ Answered(code).pc = "idle" /\ Answered(code).action = "none"
         /\ Answered(code).copy = {} /\ Answered(code).outbox = <<>>
<1>1. Work("idle", "none", NoTarget) \in Jobs
  BY WorkTyped DEF Pcs, Actions, Targets
<1>2. Answered(code) \in Jobs
  BY <1>1, JobUpdates DEF Answered
<1>3. /\ Answered(code).pc = "idle" /\ Answered(code).action = "none"
      /\ Answered(code).copy = {} /\ Answered(code).outbox = <<>>
  BY DEF Answered, Work
<1> QED
  BY <1>2, <1>3

-----------------------------------------------------------------------------
(* What a step of thread t has to show.                                    *)

Keeps(t) ==
  /\ job' = [job EXCEPT ![t] = job'[t]]
  /\ job'[t] \in Jobs
  /\ Shape(job[t])' /\ Backed(job[t])'
  /\ \A u \in Thread \ {t} : Backed(job[u])' /\ ~Clash(job'[t], job[u])
  /\ mode' = mode /\ EventsTyped' /\ StoreOk' /\ EventsAreHandedOut'

LEMMA IInvInit == ConstantsAssumption /\ Init => IInv
<1> SUFFICES ASSUME ConstantsAssumption, Init PROVE IInv
  OBVIOUS
<1>1. \A t \in Thread : job[t] = Answered(0)
  BY DEF Init
<1>2. 0 \in Nat /\ <<>> \in Seq(Event) /\ 0 \in 0..MaxRequests
  BY DEF ConstantsAssumption
<1>3. job \in [Thread -> Jobs]
  BY <1>2, AnsweredTyped DEF Init
<1>4. \A t \in Thread : job[t].pc = "idle" /\ job[t].copy = {}
  BY <1>1, <1>2, AnsweredTyped
<1>5. \A t \in Thread : Shape(job[t]) /\ Backed(job[t])
  BY <1>4 DEF Shape, Backed, Creates, Approves, Confirms, Fails
<1>6. \A t, u \in Thread : t # u => ~Clash(job[t], job[u])
  BY <1>4 DEF Clash, Creates, Approves, Confirms
<1>7. StoreOk
  BY DEF Init, StoreOk, AnnouncedApproval, AnnouncedConfirmation, AnnouncedFailure, Once
<1>8. EventsTyped
  BY <1>2 DEF Init, EventsTyped
<1>9. EventsAreHandedOut
  BY DEF Init, EventsAreHandedOut
<1> QED
  BY <1>3, <1>5, <1>6, <1>7, <1>8, <1>9 DEF Init, IInv

LEMMA ClashIsMutual == ASSUME NEW j, NEW k, Clash(j, k) PROVE Clash(k, j)
BY DEF Clash

LEMMA KeepsEnough ==
  ASSUME IInv, NEW t \in Thread, Keeps(t)
  PROVE  IInv'
<1>1. job' = [job EXCEPT ![t] = job'[t]] /\ job'[t] \in Jobs /\ job \in [Thread -> Jobs]
  BY DEF Keeps, IInv
<1>2. job' \in [Thread -> Jobs] /\ \A u \in Thread \ {t} : job'[u] = job[u]
  BY <1>1
<1>3. ASSUME NEW u \in Thread PROVE Shape(job[u])' /\ Backed(job[u])'
  <2>1. CASE u = t
    BY <2>1 DEF Keeps
  <2>2. CASE u # t
    <3>1. Shape(job[u]) /\ job'[u] = job[u]
      BY <1>2, <2>2 DEF IInv
    <3>2. Shape(job[u])'
      BY <3>1 DEF Shape, Telling
    <3> QED
      BY <2>2, <3>2 DEF Keeps
  <2> QED
    BY <2>1, <2>2
<1>4. ASSUME NEW u \in Thread, NEW v \in Thread, u # v PROVE ~Clash(job'[u], job'[v])
  <2>1. CASE u # t /\ v # t
    BY <1>2, <1>4, <2>1 DEF IInv
  <2>2. CASE u = t
    BY <1>2, <1>4, <2>2 DEF Keeps
  <2>3. CASE v = t
    <3>1. ~Clash(job'[v], job[u])
      BY <1>4, <2>3 DEF Keeps
    <3> QED
      BY <1>2, <1>4, <2>3, <3>1, ClashIsMutual
  <2> QED
    BY <2>1, <2>2, <2>3
<1>5. \A u, v \in Thread : u # v => ~Clash(job[u], job[v])'
  BY <1>4 DEF Clash, Creates, Approves, Confirms
<1>6. mode' \in {"mock", "mercado_pago"} /\ EventsTyped' /\ StoreOk' /\ EventsAreHandedOut'
  BY DEF Keeps, IInv
<1> QED
  BY <1>2, <1>3, <1>5, <1>6 DEF IInv

\* A step that touches nothing but its own job, and gives up no copy.
LEMMA OwnJobOnly ==
  ASSUME IInv, NEW t \in Thread, UNCHANGED <<store, events>>,
         job' = [job EXCEPT ![t] = job'[t]], job'[t] \in Jobs, served' \in 0..MaxRequests,
         Shape(job[t])', Backed(job[t])', job[t].pc # "clear",
         \A u \in Thread \ {t} : ~Clash(job'[t], job[u])
  PROVE  IInv'
<1>0. UNCHANGED <<mode, quotes, payments, messages, announced, drained, atRisk>>
  BY DEF store, events
<1>1. \A u \in Thread \ {t} : job'[u] = job[u]
  BY DEF IInv
<1>2. ASSUME NEW u \in Thread \ {t} PROVE Backed(job[u])'
  <2>1. Backed(job[u]) /\ job'[u] = job[u]
    BY <1>1 DEF IInv
  <2> QED
    BY <1>0, <2>1 DEF Backed, Creates, Approves, Confirms, Fails, AnnouncedApproval,
       AnnouncedConfirmation
<1>3. EventsTyped'
  BY <1>0 DEF IInv, EventsTyped
<1>4. StoreOk'
  <2>1. StoreOk
    BY DEF IInv
  <2> QED
    BY <1>0, <2>1 DEF StoreOk, AnnouncedApproval, AnnouncedConfirmation, AnnouncedFailure, Once
<1>5. EventsAreHandedOut'
  <2>1. job[t].copy = {}
    BY DEF IInv, Shape
  <2>2. UNION {job[u].copy : u \in Thread} \subseteq UNION {job'[u].copy : u \in Thread}
    BY <1>1, <2>1
  <2>3. announced \subseteq Members(messages) \cup drained \cup atRisk \cup UNION {job[u].copy : u \in Thread}
    BY DEF IInv, EventsAreHandedOut
  <2> QED
    BY <1>0, <2>2, <2>3 DEF EventsAreHandedOut
<1>6. Keeps(t)
  BY <1>0, <1>2, <1>3, <1>4, <1>5 DEF Keeps
<1> QED
  BY <1>6, KeepsEnough

\* A request begins.
LEMMA BeginSets ==
  ASSUME ConstantsAssumption, IInv, NEW t \in Thread, NEW w \in Jobs, Begin(t, w)
  PROVE  /\ job[t].pc = "idle"
         /\ job' = [job EXCEPT ![t] = job'[t]] /\ job'[t] \in Jobs
         /\ job'[t].pc = w.pc /\ job'[t].action = w.action /\ job'[t].target = w.target
         /\ job'[t].outbox = w.outbox /\ job'[t].copy = w.copy
         /\ job'[t].n \in 1..MaxRequests
         /\ served' \in 0..MaxRequests
<1>1. served + 1 \in 1..MaxRequests /\ served + 1 \in 0..MaxRequests /\ served' = served + 1
  BY DEF Begin, IInv, EventsTyped, ConstantsAssumption
<1>2. [w EXCEPT !.n = served + 1] \in Jobs
  BY <1>1, JobUpdates
<1>3. job' = [job EXCEPT ![t] = [w EXCEPT !.n = served + 1]] /\ job[t].pc = "idle"
      /\ job \in [Thread -> Jobs]
  BY DEF Begin, IInv
<1>4. job'[t] = [w EXCEPT !.n = served + 1]
  BY <1>3
<1>5. /\ job'[t].pc = w.pc /\ job'[t].action = w.action /\ job'[t].target = w.target
      /\ job'[t].outbox = w.outbox /\ job'[t].copy = w.copy
      /\ job'[t].n = served + 1
  BY <1>4 DEF Jobs
<1> QED
  BY <1>1, <1>2, <1>3, <1>4, <1>5

LEMMA BeginKeeps ==
  ASSUME ConstantsAssumption, IInv, NEW t \in Thread, NEW w \in Jobs, Begin(t, w),
         UNCHANGED <<store, events>>,
         w.pc \in {"idle", "saveQuote", "search", "act", "clear"},
         w.pc # "clear" => w.copy = {},
         w.pc = "saveQuote" => w.action = "created" /\ w.target \in FreshQuotes,
         w.pc = "search" => w.action = "none" /\ w.target \in Payment,
         w.pc = "act" => w.action \in {"confirmed", "failed"} /\ w.target \in Payment,
         w.pc = "clear" => w.copy = Members(messages)
  PROVE  IInv'
<1>1. /\ job[t].pc = "idle"
      /\ job' = [job EXCEPT ![t] = job'[t]] /\ job'[t] \in Jobs
      /\ job'[t].pc = w.pc /\ job'[t].action = w.action /\ job'[t].target = w.target
      /\ job'[t].copy = w.copy
      /\ job'[t].n \in 1..MaxRequests
      /\ served' \in 0..MaxRequests
  BY BeginSets
<1>2. Shape(job[t])'
  BY <1>1 DEF Shape, FreshQuotes
<1>3. quotes' = quotes /\ messages' = messages
  BY DEF store, events
<1>4. Backed(job[t])'
  BY <1>1, <1>3 DEF Backed, Creates, Approves, Confirms, Fails, FreshQuotes
<1>5. ASSUME NEW u \in Thread \ {t} PROVE ~Clash(job'[t], job[u])
  BY <1>1 DEF Clash, Creates, Approves, Confirms, FreshQuotes, InUse
<1> QED
  BY <1>1, <1>2, <1>4, <1>5, OwnJobOnly

\* A request is answered.
LEMMA AnswerKeeps ==
  ASSUME ConstantsAssumption, IInv, NEW t \in Thread, NEW code \in Nat, Answer(t, code),
         job[t].pc # "clear", UNCHANGED <<store, events, served>>
  PROVE  IInv'
<1>1. job' = [job EXCEPT ![t] = job'[t]] /\ job'[t] = Answered(code)
  BY DEF Answer, IInv
<1>2. job'[t] \in Jobs /\ job'[t].pc = "idle" /\ job'[t].copy = {}
  BY <1>1, AnsweredTyped
<1>3. Shape(job[t])' /\ Backed(job[t])'
  BY <1>2 DEF Shape, Backed, Creates, Approves, Confirms, Fails
<1>4. \A u \in Thread \ {t} : ~Clash(job'[t], job[u])
  BY <1>2 DEF Clash, Creates, Approves, Confirms
<1>5. served' \in 0..MaxRequests
  BY DEF IInv, EventsTyped
<1> QED
  BY <1>1, <1>2, <1>3, <1>4, <1>5, OwnJobOnly

\* A request goes on to publish.
LEMMA PublishSets ==
  ASSUME ConstantsAssumption, IInv, NEW t \in Thread, GoPublish(t),
         job[t].pc \notin {"idle", "clear"},
         \/ job[t].action = "created" /\ job[t].target \in Quote
         \/ job[t].action \in {"approved", "confirmed", "failed"} /\ job[t].target \in Payment
  PROVE  /\ job' = [job EXCEPT ![t] = job'[t]] /\ job'[t] \in Jobs
         /\ job'[t].pc = "publish"
         /\ job'[t].action = job[t].action /\ job'[t].target = job[t].target
         /\ Shape(job[t])'
<1> DEFINE o == Story(job[t].action, job[t].target, job[t].n)
<1>1. job[t] \in Jobs /\ job \in [Thread -> Jobs] /\ job[t].n \in 1..MaxRequests /\ job[t].copy = {}
  BY DEF IInv, Shape
<1>2. \/ job[t].action = "created" /\ job[t].target \in Quote
         /\ o = << <<"QUOTE_CREATED", job[t].target, job[t].n>> >>
      \/ job[t].action = "approved" /\ job[t].target \in Payment
         /\ o = << <<"QUOTE_APPROVED", QuoteOf[job[t].target], job[t].n>>,
                   <<"PAYMENT_PREFERENCE_CREATED", job[t].target, job[t].n>> >>
      \/ job[t].action = "confirmed" /\ job[t].target \in Payment
         /\ o = << <<"PAYMENT_CONFIRMED", job[t].target, job[t].n>> >>
      \/ job[t].action = "failed" /\ job[t].target \in Payment
         /\ o = << <<"PAYMENT_FAILED", job[t].target, job[t].n>> >>
  BY Stories
<1>3. o \in Seq(Event)
  <2>1. /\ job[t].target \in Quote => <<"QUOTE_CREATED", job[t].target, job[t].n>> \in Event
        /\ job[t].target \in Payment => <<"QUOTE_APPROVED", QuoteOf[job[t].target], job[t].n>> \in Event
    BY <1>1, EventOfQuote DEF QuoteEventTypes, ConstantsAssumption
  <2>2. job[t].target \in Payment =>
          /\ <<"PAYMENT_PREFERENCE_CREATED", job[t].target, job[t].n>> \in Event
          /\ <<"PAYMENT_CONFIRMED", job[t].target, job[t].n>> \in Event
          /\ <<"PAYMENT_FAILED", job[t].target, job[t].n>> \in Event
    BY <1>1, EventOfPayment DEF PaymentEventTypes
  <2>3. \A e \in Event : <<e>> \in Seq(Event)
    OBVIOUS
  <2>4. \A e, f \in Event : <<e, f>> \in Seq(Event)
    OBVIOUS
  <2> QED
    BY <1>2, <2>1, <2>2, <2>3, <2>4
<1> HIDE DEF o
<1>4. job' = [job EXCEPT ![t] = [job[t] EXCEPT !.pc = "publish", !.outbox = o]]
  BY <1>1 DEF GoPublish, o
<1>5. job'[t] = [job[t] EXCEPT !.pc = "publish", !.outbox = o]
  BY <1>1, <1>4
<1>6. job'[t] \in Jobs
  <2>1. "publish" \in Pcs
    BY DEF Pcs
  <2>2. PICK j \in Jobs : j = job[t]
    BY <1>1
  <2>3. [j EXCEPT !.pc = "publish", !.outbox = o] \in Jobs
    BY <1>3, <2>1, JobUpdates
  <2> QED
    BY <1>5, <2>2, <2>3
<1>7. /\ job'[t].pc = "publish" /\ job'[t].action = job[t].action
      /\ job'[t].target = job[t].target /\ job'[t].n = job[t].n
      /\ job'[t].copy = job[t].copy /\ job'[t].outbox = o
  BY <1>1, <1>5 DEF Jobs
<1>8. Telling(job'[t])
  BY <1>2, <1>7 DEF Telling
<1>9. Telling(job[t])'
  BY <1>8 DEF Telling
<1>10. Shape(job[t])'
  BY <1>1, <1>7, <1>9 DEF Shape
<1> QED
  BY <1>1, <1>4, <1>5, <1>6, <1>7, <1>10

\* A step that leaves the events alone hands nothing out.
LEMMA EventsSame ==
  ASSUME IInv, NEW t \in Thread, UNCHANGED events, served' \in 0..MaxRequests,
         job' = [job EXCEPT ![t] = job'[t]], job[t].pc # "clear"
  PROVE  EventsTyped' /\ EventsAreHandedOut'
<1>0. UNCHANGED <<messages, announced, drained, atRisk>>
  BY DEF events
<1>1. EventsTyped'
  BY <1>0 DEF IInv, EventsTyped
<1>2. \A u \in Thread \ {t} : job'[u] = job[u]
  BY DEF IInv
<1>3. job[t].copy = {}
  BY DEF IInv, Shape
<1>4. UNION {job[u].copy : u \in Thread} \subseteq UNION {job'[u].copy : u \in Thread}
  BY <1>2, <1>3
<1>5. announced \subseteq Members(messages) \cup drained \cup atRisk \cup UNION {job[u].copy : u \in Thread}
  BY DEF IInv, EventsAreHandedOut
<1> QED
  BY <1>0, <1>1, <1>4, <1>5 DEF EventsAreHandedOut

-----------------------------------------------------------------------------
(* The steps that change an object.                                        *)

LEMMA SaveQuoteKeeps ==
  ASSUME ConstantsAssumption, IInv, NEW t \in Thread, SaveQuote(t)
  PROVE  IInv'
<1> DEFINE q == job[t].target
<1>1. /\ job[t].pc = "saveQuote" /\ job[t].action = "created" /\ q \in Quote
      /\ quotes[q] = Absent
      /\ quotes' = [quotes EXCEPT ![q] = "CREATED"]
      /\ UNCHANGED <<mode, payments, messages, announced, drained, atRisk, served>>
      /\ GoPublish(t)
  BY DEF SaveQuote, IInv, Shape, Backed, Creates, events
<1>2. /\ job' = [job EXCEPT ![t] = job'[t]] /\ job'[t] \in Jobs
      /\ job'[t].pc = "publish" /\ job'[t].action = "created"
      /\ Shape(job[t])'
  BY <1>1, PublishSets
<1>3. \A u \in Thread \ {t} : job'[u] = job[u]
  BY <1>2 DEF IInv
<1>4. /\ QuoteOf \in [Payment -> Quote] /\ quotes \in [Quote -> {Absent, "CREATED", "APPROVED"}]
  BY DEF ConstantsAssumption, IInv, StoreOk
<1>5. quotes'[q] = "CREATED" /\ \A r \in Quote \ {q} : quotes'[r] = quotes[r]
  BY <1>1, <1>4
<1>6. Backed(job[t])'
  BY <1>2 DEF Backed, Creates, Approves, Confirms, Fails
<1>7. \A r \in Quote : quotes[r] = "APPROVED" => quotes'[r] = "APPROVED"
  BY <1>1, <1>5 DEF Absent
<1>8. ASSUME NEW u \in Thread \ {t} PROVE Backed(job[u])'
  <2>1. Backed(job[u]) /\ Shape(job[u]) /\ job'[u] = job[u] /\ ~Clash(job[t], job[u])
    BY <1>3 DEF IInv
  <2>2. Creates(job[u]) => quotes'[job[u].target] = Absent
    BY <1>1, <1>5, <2>1 DEF Creates, Clash, Backed, Shape
  <2>3. Approves(job[u]) => QuoteOf[job[u].target] \in Quote
    BY <1>4, <2>1 DEF Approves, Shape, Telling
  <2>4. Approves(job[u]) => quotes'[QuoteOf[job[u].target]] = "APPROVED"
    BY <1>7, <2>1, <2>3 DEF Backed
  <2> QED
    BY <1>1, <2>1, <2>2, <2>4 DEF Backed, Creates, Approves, Confirms, Fails, AnnouncedApproval,
       AnnouncedConfirmation
<1>9. \A u \in Thread \ {t} : ~Clash(job'[t], job[u])
  BY <1>2 DEF Clash, Creates, Approves, Confirms
<1>10. StoreOk'
  <2>1. quotes' \in [Quote -> {Absent, "CREATED", "APPROVED"}]
    BY <1>1, <1>4
  <2>2. \A p \in Payment : payments[p] # Absent => quotes'[QuoteOf[p]] = "APPROVED"
    BY <1>4, <1>7 DEF IInv, StoreOk
  <2>3. \A r \in Quote : AnnouncedApproval(r) => quotes'[r] = "APPROVED"
    BY <1>7 DEF IInv, StoreOk
  <2>4. StoreOk
    BY DEF IInv
  <2> QED
    BY <1>1, <2>1, <2>2, <2>3, <2>4 DEF StoreOk, AnnouncedApproval, AnnouncedConfirmation,
       AnnouncedFailure, Once
<1>11. EventsTyped' /\ EventsAreHandedOut'
  <2>1. served' \in 0..MaxRequests
    BY <1>1 DEF IInv, EventsTyped
  <2> QED
    BY <1>1, <1>2, <2>1, EventsSame DEF events
<1>12. Keeps(t)
  BY <1>1, <1>2, <1>6, <1>8, <1>9, <1>10, <1>11 DEF Keeps
<1> QED
  BY <1>12, KeepsEnough

\* The first half of an approval: the quote is approved, and the thread is
\* the only one to have found it CREATED.
LEMMA ApproveKeeps ==
  ASSUME ConstantsAssumption, IInv, NEW t \in Thread, NEW q \in Quote, NEW p \in FreshPayments(q),
         CanApprove(quotes[q]), quotes' = [quotes EXCEPT ![q] = "APPROVED"],
         Begin(t, Work("gateway", "approved", p)), UNCHANGED <<mode, payments, events>>
  PROVE  IInv'
<1>0. UNCHANGED <<mode, payments, messages, announced, drained, atRisk>>
  BY DEF events
<1>1. p \in Payment /\ QuoteOf[p] = q /\ quotes[q] = "CREATED"
  BY DEF FreshPayments, CanApprove
<1>2. "gateway" \in Pcs /\ "approved" \in Actions /\ p \in Targets
  BY <1>1 DEF Pcs, Actions, Targets
<1>3. Work("gateway", "approved", p) \in Jobs
  BY <1>2, WorkTyped
<1>4. /\ Work("gateway", "approved", p).pc = "gateway"
      /\ Work("gateway", "approved", p).action = "approved"
      /\ Work("gateway", "approved", p).target = p
      /\ Work("gateway", "approved", p).copy = {}
  BY DEF Work
<1>5. /\ job[t].pc = "idle"
      /\ job' = [job EXCEPT ![t] = job'[t]] /\ job'[t] \in Jobs
      /\ job'[t].pc = "gateway" /\ job'[t].action = "approved" /\ job'[t].target = p
      /\ job'[t].copy = {}
      /\ job'[t].n \in 1..MaxRequests
      /\ served' \in 0..MaxRequests
  BY <1>3, <1>4, BeginSets
<1>6. \A u \in Thread \ {t} : job'[u] = job[u]
  BY <1>5 DEF IInv
<1>7. /\ QuoteOf \in [Payment -> Quote] /\ quotes \in [Quote -> {Absent, "CREATED", "APPROVED"}]
  BY DEF ConstantsAssumption, IInv, StoreOk
<1>8. quotes'[q] = "APPROVED" /\ \A r \in Quote \ {q} : quotes'[r] = quotes[r]
  BY <1>7
<1>9. Shape(job[t])'
  BY <1>1, <1>5 DEF Shape
<1>10. ~AnnouncedApproval(q) /\ \A x \in Payment : QuoteOf[x] = q => payments[x] = Absent
  BY <1>1 DEF IInv, StoreOk
<1>11. ~AnnouncedApproval(q)'
  BY <1>0, <1>10 DEF AnnouncedApproval
<1>12. Backed(job[t])'
  <2>1. /\ ~Creates(job[t])' /\ ~Confirms(job[t])' /\ ~Fails(job[t])'
    BY <1>5 DEF Creates, Confirms, Fails
  <2>2. \A x \in Payment : QuoteOf[x] = QuoteOf[job'[t].target] => payments'[x] = Absent
    BY <1>0, <1>1, <1>5, <1>10
  <2>3. quotes'[QuoteOf[job'[t].target]] = "APPROVED" /\ ~AnnouncedApproval(QuoteOf[job[t].target])'
    BY <1>1, <1>5, <1>8, <1>11 DEF AnnouncedApproval
  <2> QED
    BY <1>5, <2>1, <2>2, <2>3 DEF Backed
<1>13. ASSUME NEW u \in Thread \ {t} PROVE Backed(job[u])'
  <2>1. Backed(job[u]) /\ Shape(job[u]) /\ job'[u] = job[u]
    BY <1>6 DEF IInv
  <2>2. Creates(job[u]) => quotes'[job[u].target] = Absent
    BY <1>1, <1>8, <2>1 DEF Creates, Backed, Shape, Absent
  <2>3. Approves(job[u]) => QuoteOf[job[u].target] \in Quote
    BY <1>7, <2>1 DEF Approves, Shape, Telling
  <2>4. Approves(job[u]) => quotes'[QuoteOf[job[u].target]] = "APPROVED"
    BY <1>8, <2>1, <2>3 DEF Backed
  <2> QED
    BY <1>0, <2>1, <2>2, <2>4 DEF Backed, Creates, Approves, Confirms, Fails, AnnouncedApproval,
       AnnouncedConfirmation
<1>14. ASSUME NEW u \in Thread \ {t} PROVE ~Clash(job'[t], job[u])
  <2>1. Approves(job[u]) => QuoteOf[job[u].target] # q
    BY <1>1 DEF IInv, Backed
  <2> QED
    BY <1>1, <1>5, <2>1 DEF Clash, Creates, Confirms
<1>15. StoreOk'
  <2>1. quotes' \in [Quote -> {Absent, "CREATED", "APPROVED"}]
    BY <1>7
  <2>2. \A x \in Payment : payments[x] # Absent => quotes'[QuoteOf[x]] = "APPROVED"
    BY <1>7, <1>8 DEF IInv, StoreOk
  <2>3. \A r \in Quote : AnnouncedApproval(r) => quotes'[r] = "APPROVED"
    BY <1>8 DEF IInv, StoreOk
  <2>4. StoreOk
    BY DEF IInv
  <2> QED
    BY <1>0, <2>1, <2>2, <2>3, <2>4 DEF StoreOk, AnnouncedApproval, AnnouncedConfirmation,
       AnnouncedFailure, Once
<1>16. EventsTyped' /\ EventsAreHandedOut'
  BY <1>5, EventsSame
<1>17. Keeps(t)
  BY <1>0, <1>5, <1>9, <1>12, <1>13, <1>14, <1>15, <1>16 DEF Keeps
<1> QED
  BY <1>17, KeepsEnough

\* The second half: the payment is the quote's first.
LEMMA SavePaymentKeeps ==
  ASSUME ConstantsAssumption, IInv, NEW t \in Thread, SavePayment(t)
  PROVE  IInv'
<1> DEFINE p == job[t].target
<1>1. /\ job[t].pc = "savePayment" /\ job[t].action = "approved" /\ p \in Payment
      /\ payments' = [payments EXCEPT ![p] = "PENDING"]
      /\ UNCHANGED <<mode, quotes, messages, announced, drained, atRisk, served>>
      /\ UNCHANGED events
      /\ GoPublish(t)
  BY DEF SavePayment, IInv, Shape, events
<1>2. /\ job' = [job EXCEPT ![t] = job'[t]] /\ job'[t] \in Jobs
      /\ job'[t].pc = "publish" /\ job'[t].action = "approved" /\ job'[t].target = p
      /\ Shape(job[t])'
  BY <1>1, PublishSets
<1>3. \A u \in Thread \ {t} : job'[u] = job[u]
  BY <1>2 DEF IInv
<1>4. /\ QuoteOf \in [Payment -> Quote]
      /\ payments \in [Payment -> {Absent, "PENDING", "CONFIRMED", "FAILED"}]
  BY DEF ConstantsAssumption, IInv, StoreOk
<1>5. Approves(job[t])
  BY <1>1 DEF Approves
<1>6. /\ quotes[QuoteOf[p]] = "APPROVED" /\ ~AnnouncedApproval(QuoteOf[p])
      /\ \A x \in Payment : QuoteOf[x] = QuoteOf[p] => payments[x] = Absent
  BY <1>1, <1>5 DEF IInv, Backed
<1>7. payments'[p] = "PENDING" /\ \A x \in Payment \ {p} : payments'[x] = payments[x]
  BY <1>1, <1>4
<1>8. Backed(job[t])'
  <2>1. /\ ~Creates(job[t])' /\ ~Confirms(job[t])' /\ ~Fails(job[t])'
    BY <1>2 DEF Creates, Confirms, Fails
  <2>2. quotes'[QuoteOf[job'[t].target]] = "APPROVED" /\ ~AnnouncedApproval(QuoteOf[job[t].target])'
    BY <1>1, <1>2, <1>6 DEF AnnouncedApproval
  <2> QED
    BY <1>2, <2>1, <2>2 DEF Backed
<1>9. ASSUME NEW u \in Thread \ {t} PROVE Backed(job[u])'
  <2>1. Backed(job[u]) /\ Shape(job[u]) /\ job'[u] = job[u] /\ ~Clash(job[t], job[u])
    BY <1>3 DEF IInv
  <2>2. Approves(job[u]) => QuoteOf[job[u].target] # QuoteOf[p]
    BY <1>5, <2>1 DEF Clash
  <2>3. job[u].pc \in {"gateway", "savePayment"} =>
          \A x \in Payment : QuoteOf[x] = QuoteOf[job[u].target] => payments'[x] = Absent
    BY <1>7, <2>1, <2>2 DEF Backed, Shape, Approves
  <2>4. Confirms(job[u]) => payments'[job[u].target] = "CONFIRMED"
    BY <1>6, <1>7, <1>1, <2>1 DEF Confirms, Shape, Telling, Backed, Absent
  <2>5. Fails(job[u]) => payments'[job[u].target] = "FAILED"
    BY <1>6, <1>7, <1>1, <2>1 DEF Fails, Shape, Telling, Backed, Absent
  <2> QED
    BY <1>1, <2>1, <2>3, <2>4, <2>5 DEF Backed, Creates, Approves, Confirms, Fails,
       AnnouncedApproval, AnnouncedConfirmation
<1>10. ASSUME NEW u \in Thread \ {t} PROVE ~Clash(job'[t], job[u])
  <2>1. ~Clash(job[t], job[u])
    BY DEF IInv
  <2> QED
    BY <1>2, <1>5, <2>1 DEF Clash, Creates, Confirms
<1>11. StoreOk'
  <2>1. payments' \in [Payment -> {Absent, "PENDING", "CONFIRMED", "FAILED"}]
    BY <1>1, <1>4
  <2>2. \A x \in Payment : payments'[x] # Absent => quotes[QuoteOf[x]] = "APPROVED"
    BY <1>6, <1>7 DEF IInv, StoreOk
  <2>3. \A p1, p2 \in Payment : QuoteOf[p1] = QuoteOf[p2] /\ payments'[p1] # Absent
                                 /\ payments'[p2] # Absent => p1 = p2
    BY <1>6, <1>7 DEF IInv, StoreOk
  <2>4. \A x \in Payment : AnnouncedConfirmation(x) => payments'[x] = "CONFIRMED"
    BY <1>1, <1>6, <1>7 DEF IInv, StoreOk, Absent
  <2>5. \A x \in Payment : AnnouncedFailure(x) => payments'[x] = "FAILED"
    BY <1>1, <1>6, <1>7 DEF IInv, StoreOk, Absent
  <2>6. StoreOk
    BY DEF IInv
  <2> QED
    BY <1>1, <2>1, <2>2, <2>3, <2>4, <2>5, <2>6 DEF StoreOk, AnnouncedApproval,
       AnnouncedConfirmation, AnnouncedFailure, Once
<1>12. EventsTyped' /\ EventsAreHandedOut'
  <2>1. served' \in 0..MaxRequests
    BY <1>1 DEF IInv, EventsTyped
  <2> QED
    BY <1>1, <1>2, <2>1, EventsSame
<1>13. Keeps(t)
  BY <1>1, <1>2, <1>8, <1>9, <1>10, <1>11, <1>12 DEF Keeps
<1> QED
  BY <1>13, KeepsEnough

\* A payment is settled by the thread that finds it open, or failed again.
LEMMA SettleKeeps ==
  ASSUME ConstantsAssumption, IInv, NEW t \in Thread, NEW p \in Payment, NEW s \in Settled,
         payments[p] = "PENDING" \/ (payments[p] = "FAILED" /\ s = "FAILED"),
         payments' = [payments EXCEPT ![p] = s],
         UNCHANGED <<mode, quotes, events>>, served' \in 0..MaxRequests,
         job' = [job EXCEPT ![t] = job'[t]], job'[t] \in Jobs, Shape(job[t])',
         job[t].pc # "clear", job'[t].pc \in {"file", "publish"}, job'[t].target = p,
         job'[t].action = IF s = "CONFIRMED" THEN "confirmed" ELSE "failed"
  PROVE  IInv'
<1>0. UNCHANGED <<mode, quotes, messages, announced, drained, atRisk>>
  BY DEF events
<1>1. \A u \in Thread \ {t} : job'[u] = job[u]
  BY DEF IInv
<1>2. payments \in [Payment -> {Absent, "PENDING", "CONFIRMED", "FAILED"}]
  BY DEF IInv, StoreOk
<1>3. payments'[p] = s /\ \A x \in Payment \ {p} : payments'[x] = payments[x]
  BY <1>2
<1>4. payments[p] \notin {Absent, "CONFIRMED"} /\ ~AnnouncedConfirmation(p)
  BY DEF IInv, StoreOk, Absent
<1>5. ~AnnouncedConfirmation(p)'
  BY <1>0, <1>4 DEF AnnouncedConfirmation
<1>6. Backed(job[t])'
  <2>1. ~Creates(job[t])' /\ ~Approves(job[t])' /\ job'[t].pc \notin {"gateway", "savePayment", "clear"}
    BY DEF Creates, Approves
  <2>2. Confirms(job[t])' => payments'[p] = "CONFIRMED"
    BY <1>3 DEF Confirms, Settled
  <2>3. Fails(job[t])' => payments'[p] = "FAILED"
    BY <1>3 DEF Fails, Settled
  <2>4. ~AnnouncedConfirmation(job[t].target)'
    BY <1>5 DEF AnnouncedConfirmation
  <2> QED
    BY <2>1, <2>2, <2>3, <2>4 DEF Backed
<1>7. ASSUME NEW u \in Thread \ {t} PROVE Backed(job[u])'
  <2>1. Backed(job[u]) /\ Shape(job[u]) /\ job'[u] = job[u]
    BY <1>1 DEF IInv
  <2>2. job[u].pc \in {"gateway", "savePayment"} =>
          \A x \in Payment : QuoteOf[x] = QuoteOf[job[u].target] => payments'[x] = Absent
    BY <1>3, <1>4, <2>1 DEF Backed
  <2>3. Confirms(job[u]) => payments'[job[u].target] = "CONFIRMED"
    BY <1>3, <1>4, <2>1 DEF Confirms, Shape, Telling, Backed
  <2>4. Fails(job[u]) => payments'[job[u].target] = "FAILED"
    BY <1>3, <2>1 DEF Fails, Shape, Telling, Backed, Settled
  <2> QED
    BY <1>0, <2>1, <2>2, <2>3, <2>4 DEF Backed, Creates, Approves, Confirms, Fails,
       AnnouncedApproval, AnnouncedConfirmation
<1>8. ASSUME NEW u \in Thread \ {t} PROVE ~Clash(job'[t], job[u])
  <2>1. Confirms(job[u]) => job[u].target # p
    BY <1>4 DEF IInv, Backed
  <2> QED
    BY <2>1 DEF Clash, Creates, Approves
<1>9. StoreOk'
  <2>1. payments' \in [Payment -> {Absent, "PENDING", "CONFIRMED", "FAILED"}]
    BY <1>2 DEF Settled
  <2>2. \A x \in Payment : payments'[x] # Absent <=> payments[x] # Absent
    BY <1>3, <1>4 DEF Settled, Absent
  <2>3. \A x \in Payment : AnnouncedConfirmation(x) => payments'[x] = "CONFIRMED"
    BY <1>3, <1>4 DEF IInv, StoreOk
  <2>4. \A x \in Payment : AnnouncedFailure(x) => payments'[x] = "FAILED"
    BY <1>3 DEF IInv, StoreOk
  <2>5. StoreOk
    BY DEF IInv
  <2> QED
    BY <1>0, <2>1, <2>2, <2>3, <2>4, <2>5 DEF StoreOk, AnnouncedApproval,
       AnnouncedConfirmation, AnnouncedFailure, Once
<1>10. EventsTyped' /\ EventsAreHandedOut'
  BY EventsSame
<1>11. Keeps(t)
  BY <1>0, <1>6, <1>7, <1>8, <1>9, <1>10 DEF Keeps
<1> QED
  BY <1>11, KeepsEnough

LEMMA FileKeeps ==
  ASSUME ConstantsAssumption, IInv, NEW t \in Thread, File(t)
  PROVE  IInv'
<1>1. /\ job[t].pc = "file" /\ job[t].action \in {"confirmed", "failed"} /\ job[t].target \in Payment
      /\ UNCHANGED <<store, events, served>> /\ GoPublish(t)
  BY DEF File, IInv, Shape
<1>2. /\ job' = [job EXCEPT ![t] = job'[t]] /\ job'[t] \in Jobs
      /\ job'[t].pc = "publish" /\ job'[t].action = job[t].action /\ job'[t].target = job[t].target
      /\ Shape(job[t])'
  BY <1>1, PublishSets
<1>3. payments' = payments /\ announced' = announced /\ served' \in 0..MaxRequests
  BY <1>1 DEF store, events, IInv, EventsTyped
<1>4. Backed(job[t])'
  <2>1. Backed(job[t])
    BY DEF IInv
  <2> QED
    BY <1>1, <1>2, <1>3, <2>1 DEF Backed, Creates, Approves, Confirms, Fails, AnnouncedConfirmation
<1>5. ASSUME NEW u \in Thread \ {t} PROVE ~Clash(job'[t], job[u])
  <2>1. ~Clash(job[t], job[u])
    BY DEF IInv
  <2> QED
    BY <1>1, <1>2, <2>1 DEF Clash, Creates, Approves, Confirms
<1> QED
  BY <1>1, <1>2, <1>3, <1>4, <1>5, OwnJobOnly

-----------------------------------------------------------------------------
(* The steps that change no object.                                        *)

LEMMA WorkIs ==
  ASSUME ConstantsAssumption, NEW pc \in Pcs, NEW action \in Actions, NEW target \in Targets
  PROVE  /\ Work(pc, action, target) \in Jobs
         /\ Work(pc, action, target).pc = pc /\ Work(pc, action, target).action = action
         /\ Work(pc, action, target).target = target /\ Work(pc, action, target).copy = {}
<1>1. Work(pc, action, target) \in Jobs
  BY WorkTyped
<1> QED
  BY <1>1 DEF Work

LEMMA DecidedIs ==
  ASSUME ConstantsAssumption, NEW action, NEW p \in Payment
  PROVE  LET w == Decided(action, p)
         IN  /\ w \in Jobs /\ w.pc \in {"idle", "act"} /\ w.copy = {}
             /\ w.pc = "act" => w.action \in {"confirmed", "failed"} /\ w.target = p
<1>1. "act" \in Pcs /\ {"confirmed", "failed"} \subseteq Actions /\ p \in Targets
  BY DEF Pcs, Actions, Targets
<1>2. CASE action \in {"confirmed", "failed"}
  <2>1. Decided(action, p) = Work("act", action, p)
    BY <1>2 DEF Decided
  <2> QED
    BY <1>1, <1>2, <2>1, WorkIs
<1>3. CASE action \notin {"confirmed", "failed"}
  <2>1. PICK code \in Nat : Decided(action, p) = Answered(code)
    BY <1>3 DEF Decided
  <2> QED
    BY <2>1, AnsweredTyped
<1> QED
  BY <1>2, <1>3

LEMMA BeginAnswered ==
  ASSUME ConstantsAssumption, IInv, NEW t \in Thread, NEW code \in Nat, Begin(t, Answered(code)),
         UNCHANGED <<store, events>>
  PROVE  IInv'
<1>1. Answered(code) \in Jobs /\ Answered(code).pc = "idle" /\ Answered(code).copy = {}
  BY AnsweredTyped
<1> QED
  BY <1>1, BeginKeeps

LEMMA BeginCreateKeeps ==
  ASSUME ConstantsAssumption, IInv, NEW t \in Thread, BeginCreate(t)
  PROVE  IInv'
<1>1. ASSUME NEW q \in FreshQuotes, Begin(t, Work("saveQuote", "created", q)) PROVE IInv'
  <2>1. "saveQuote" \in Pcs /\ "created" \in Actions /\ q \in Targets
    BY DEF Pcs, Actions, Targets, FreshQuotes
  <2>2. PICK w \in Jobs : /\ w = Work("saveQuote", "created", q) /\ w.pc = "saveQuote"
                          /\ w.action = "created" /\ w.target = q /\ w.copy = {}
    BY <2>1, WorkIs
  <2>3. Begin(t, w) /\ UNCHANGED <<store, events>>
    BY <1>1, <2>2 DEF BeginCreate
  <2> QED
    BY <2>2, <2>3, BeginKeeps
<1>2. ASSUME Begin(t, Answered(400)) PROVE IInv'
  BY <1>2, BeginAnswered DEF BeginCreate
<1> QED
  BY <1>1, <1>2 DEF BeginCreate

LEMMA BeginApproveKeeps ==
  ASSUME ConstantsAssumption, IInv, NEW t \in Thread, BeginApprove(t)
  PROVE  IInv'
<1>1. UNCHANGED <<mode, payments, events>>
  BY DEF BeginApprove
<1>2. PICK q \in Quote :
        \/ /\ CanApprove(quotes[q])
           /\ quotes' = [quotes EXCEPT ![q] = "APPROVED"]
           /\ \E p \in FreshPayments(q) : Begin(t, Work("gateway", "approved", p))
        \/ /\ Begin(t, Answered(IF quotes[q] = Absent THEN 404 ELSE 400))
           /\ UNCHANGED quotes
  BY DEF BeginApprove
<1>3. CASE /\ CanApprove(quotes[q]) /\ quotes' = [quotes EXCEPT ![q] = "APPROVED"]
           /\ \E p \in FreshPayments(q) : Begin(t, Work("gateway", "approved", p))
  BY <1>1, <1>3, ApproveKeeps
<1>4. CASE /\ Begin(t, Answered(IF quotes[q] = Absent THEN 404 ELSE 400)) /\ UNCHANGED quotes
  <2>1. PICK code \in Nat : code = IF quotes[q] = Absent THEN 404 ELSE 400
    OBVIOUS
  <2>2. Begin(t, Answered(code)) /\ UNCHANGED <<store, events>>
    BY <1>1, <1>4, <2>1 DEF store
  <2> QED
    BY <2>2, BeginAnswered
<1> QED
  BY <1>2, <1>3, <1>4

LEMMA CallGatewayKeeps ==
  ASSUME ConstantsAssumption, IInv, NEW t \in Thread, CallGateway(t)
  PROVE  IInv'
<1>1. job[t].pc = "gateway" /\ UNCHANGED <<store, events, served>>
  BY DEF CallGateway
<1>2. ASSUME NEW code \in {400, 502}, Answer(t, code) PROVE IInv'
  BY <1>1, <1>2, AnswerKeeps
<1>3. ASSUME Goto(t, "savePayment") PROVE IInv'
  <2>1. job' = [job EXCEPT ![t] = [job[t] EXCEPT !.pc = "savePayment"]] /\ job[t] \in Jobs
        /\ job \in [Thread -> Jobs]
    BY <1>3 DEF Goto, IInv
  <2>2. PICK j \in Jobs : j = job[t]
    BY <2>1
  <2>3. [j EXCEPT !.pc = "savePayment"] \in Jobs
    <3>1. "savePayment" \in Pcs
      BY DEF Pcs
    <3> QED
      BY <3>1, JobUpdates
  <2>4. job'[t] = [j EXCEPT !.pc = "savePayment"]
    BY <2>1, <2>2
  <2>5. /\ job'[t].pc = "savePayment" /\ job'[t].action = job[t].action
        /\ job'[t].target = job[t].target /\ job'[t].n = job[t].n /\ job'[t].copy = job[t].copy
    BY <2>2, <2>4 DEF Jobs
  <2>6. Shape(job[t]) /\ Backed(job[t])
    BY DEF IInv
  <2>7. Shape(job[t])'
    BY <1>1, <2>5, <2>6 DEF Shape
  <2>8. Backed(job[t])'
    BY <1>1, <2>5, <2>6 DEF Backed, Shape, Creates, Approves, Confirms, Fails, store, events,
       AnnouncedApproval
  <2>9. ASSUME NEW u \in Thread \ {t} PROVE ~Clash(job'[t], job[u])
    <3>1. ~Clash(job[t], job[u])
      BY DEF IInv
    <3> QED
      BY <1>1, <2>5, <3>1 DEF Clash, Creates, Approves, Confirms
  <2>10. job' = [job EXCEPT ![t] = job'[t]] /\ job'[t] \in Jobs /\ served' \in 0..MaxRequests
    BY <1>1, <2>1, <2>3, <2>4 DEF IInv, EventsTyped
  <2> QED
    BY <1>1, <2>7, <2>8, <2>9, <2>10, OwnJobOnly
<1> QED
  BY <1>2, <1>3 DEF CallGateway

LEMMA BeginSettleKeeps ==
  ASSUME ConstantsAssumption, IInv, NEW t \in Thread, NEW s \in Settled, BeginSettle(t, s)
  PROVE  IInv'
<1>1. UNCHANGED <<mode, quotes, events>>
  BY DEF BeginSettle
<1> DEFINE action == IF s = "CONFIRMED" THEN "confirmed" ELSE "failed"
<1>2. PICK p \in Payment :
        \/ /\ IF s = "CONFIRMED" THEN CanConfirm(payments[p]) ELSE CanFail(payments[p])
           /\ payments' = [payments EXCEPT ![p] = s]
           /\ Begin(t, Work("file", action, p))
        \/ /\ Begin(t, Answered(IF payments[p] = Absent THEN 404 ELSE 400))
           /\ UNCHANGED payments
  BY DEF BeginSettle
<1>3. CASE /\ IF s = "CONFIRMED" THEN CanConfirm(payments[p]) ELSE CanFail(payments[p])
           /\ payments' = [payments EXCEPT ![p] = s]
           /\ Begin(t, Work("file", action, p))
  <2>1. "file" \in Pcs /\ action \in Actions /\ p \in Targets /\ action \in {"confirmed", "failed"}
    BY DEF Pcs, Actions, Targets
  <2>2. PICK w \in Jobs : /\ w = Work("file", action, p) /\ w.pc = "file"
                          /\ w.action = action /\ w.target = p /\ w.copy = {}
    BY <2>1, WorkIs
  <2>3. /\ job[t].pc = "idle"
        /\ job' = [job EXCEPT ![t] = job'[t]] /\ job'[t] \in Jobs
        /\ job'[t].pc = "file" /\ job'[t].action = action /\ job'[t].target = p
        /\ job'[t].copy = {}
        /\ job'[t].n \in 1..MaxRequests
        /\ served' \in 0..MaxRequests
    BY <1>3, <2>2, BeginSets
  <2>4. Shape(job[t])'
    BY <2>1, <2>3 DEF Shape
  <2>5. payments[p] = "PENDING" \/ (payments[p] = "FAILED" /\ s = "FAILED")
    BY <1>3 DEF CanConfirm, CanFail, Settled, IInv, StoreOk
  <2> QED
    BY <1>1, <1>3, <2>3, <2>4, <2>5, SettleKeeps
<1>4. CASE /\ Begin(t, Answered(IF payments[p] = Absent THEN 404 ELSE 400)) /\ UNCHANGED payments
  <2>1. PICK code \in Nat : code = IF payments[p] = Absent THEN 404 ELSE 400
    OBVIOUS
  <2>2. Begin(t, Answered(code)) /\ UNCHANGED <<store, events>>
    BY <1>1, <1>4, <2>1 DEF store
  <2> QED
    BY <2>2, BeginAnswered
<1> QED
  BY <1>2, <1>3, <1>4

LEMMA BeginReportKeeps ==
  ASSUME ConstantsAssumption, IInv, NEW t \in Thread, BeginReport(t)
  PROVE  IInv'
<1>1. UNCHANGED <<store, events>>
  BY DEF BeginReport
<1>2. PICK p \in Payment :
        \/ \E code \in {404, 501} : Begin(t, Answered(code))
        \/ \E s \in ProviderStatuses : Begin(t, Decided(ApplyAction(s, payments[p]), p))
        \/ Begin(t, Work("search", "none", p))
  BY DEF BeginReport
<1>3. ASSUME NEW code \in {404, 501}, Begin(t, Answered(code)) PROVE IInv'
  BY <1>1, <1>3, BeginAnswered
<1>4. ASSUME NEW s \in ProviderStatuses, Begin(t, Decided(ApplyAction(s, payments[p]), p))
      PROVE  IInv'
  <2>1. PICK action : action = ApplyAction(s, payments[p])
    OBVIOUS
  <2>2. PICK w \in Jobs : /\ w = Decided(action, p) /\ w.pc \in {"idle", "act"} /\ w.copy = {}
                          /\ w.pc = "act" => w.action \in {"confirmed", "failed"} /\ w.target = p
    BY DecidedIs
  <2>3. Begin(t, w)
    BY <1>4, <2>1, <2>2
  <2> QED
    BY <1>1, <2>2, <2>3, BeginKeeps
<1>5. ASSUME Begin(t, Work("search", "none", p)) PROVE IInv'
  <2>1. "search" \in Pcs /\ "none" \in Actions /\ p \in Targets
    BY DEF Pcs, Actions, Targets
  <2>2. PICK w \in Jobs : /\ w = Work("search", "none", p) /\ w.pc = "search"
                          /\ w.action = "none" /\ w.target = p /\ w.copy = {}
    BY <2>1, WorkIs
  <2> QED
    BY <1>1, <1>5, <2>2, BeginKeeps
<1> QED
  BY <1>2, <1>3, <1>4, <1>5

LEMMA SearchKeeps ==
  ASSUME ConstantsAssumption, IInv, NEW t \in Thread, Search(t)
  PROVE  IInv'
<1>1. job[t].pc = "search" /\ UNCHANGED <<store, events, served>>
  BY DEF Search
<1>2. ASSUME NEW code \in {404, 409, 502}, Answer(t, code) PROVE IInv'
  BY <1>1, <1>2, AnswerKeeps
<1>3. ASSUME NEW s \in ProviderStatuses,
             job' = [job EXCEPT ![t] = [Decided(ApplyAction(s, payments[job[t].target]), job[t].target)
                                          EXCEPT !.n = job[t].n]]
      PROVE  IInv'
  <2>1. job[t].target \in Payment /\ job[t].n \in 1..MaxRequests /\ job \in [Thread -> Jobs]
    BY <1>1 DEF IInv, Shape
  <2>2. PICK p \in Payment : p = job[t].target
    BY <2>1
  <2>3. PICK action : action = ApplyAction(s, payments[p])
    OBVIOUS
  <2>4. PICK w \in Jobs : /\ w = Decided(action, p) /\ w.pc \in {"idle", "act"} /\ w.copy = {}
                          /\ w.pc = "act" => w.action \in {"confirmed", "failed"} /\ w.target = p
    BY DecidedIs
  <2>5. PICK n \in 1..MaxRequests : n = job[t].n
    BY <2>1
  <2>6. job' = [job EXCEPT ![t] = [w EXCEPT !.n = n]]
    BY <1>3, <2>2, <2>3, <2>4, <2>5
  <2>7. [w EXCEPT !.n = n] \in Jobs
    <3>1. n \in 0..MaxRequests
      BY DEF ConstantsAssumption
    <3> QED
      BY <3>1, JobUpdates
  <2>8. job'[t] = [w EXCEPT !.n = n] /\ job' = [job EXCEPT ![t] = job'[t]]
    BY <2>1, <2>6
  <2>9. /\ job'[t].pc = w.pc /\ job'[t].action = w.action /\ job'[t].target = w.target
        /\ job'[t].n = n /\ job'[t].copy = {}
    BY <2>4, <2>8 DEF Jobs
  <2>10. Shape(job[t])' /\ Backed(job[t])'
    BY <2>4, <2>9 DEF Shape, Backed, Creates, Approves, Confirms, Fails
  <2>11. \A u \in Thread \ {t} : ~Clash(job'[t], job[u])
    BY <2>4, <2>9 DEF Clash, Creates, Approves, Confirms
  <2>12. served' \in 0..MaxRequests
    BY <1>1 DEF IInv, EventsTyped
  <2> QED
    BY <1>1, <2>7, <2>8, <2>10, <2>11, <2>12, OwnJobOnly
<1> QED
  BY <1>2, <1>3 DEF Search

LEMMA ActKeeps ==
  ASSUME ConstantsAssumption, IInv, NEW t \in Thread, Act(t)
  PROVE  IInv'
<1> DEFINE p == job[t].target
           can == IF job[t].action = "confirmed" THEN CanConfirm(payments[p]) ELSE CanFail(payments[p])
<1>1. /\ job[t].pc = "act" /\ p \in Payment /\ job[t].action \in {"confirmed", "failed"}
      /\ UNCHANGED <<mode, quotes, events, served>>
  BY DEF Act, IInv, Shape
<1>2. CASE can
  <2>1. PICK s \in Settled : s = IF job[t].action = "confirmed" THEN "CONFIRMED" ELSE "FAILED"
    BY DEF Settled
  <2>2. StatusAfter(job[t].action, payments[p]) = s
    BY <1>1, <2>1 DEF StatusAfter
  <2>3. payments' = [payments EXCEPT ![p] = s] /\ GoPublish(t)
    BY <1>2, <2>2 DEF Act
  <2>4. /\ job' = [job EXCEPT ![t] = job'[t]] /\ job'[t] \in Jobs
        /\ job'[t].pc = "publish" /\ job'[t].action = job[t].action /\ job'[t].target = p
        /\ Shape(job[t])'
    BY <1>1, <2>3, PublishSets
  <2>5. payments[p] = "PENDING" \/ (payments[p] = "FAILED" /\ s = "FAILED")
    BY <1>1, <1>2, <2>1 DEF CanConfirm, CanFail, IInv, StoreOk
  <2>6. job'[t].action = IF s = "CONFIRMED" THEN "confirmed" ELSE "failed"
    BY <1>1, <2>1, <2>4
  <2>7. served' \in 0..MaxRequests
    BY <1>1 DEF IInv, EventsTyped
  <2> QED
    BY <1>1, <2>3, <2>4, <2>5, <2>6, <2>7, SettleKeeps
<1>3. CASE ~can
  <2>1. payments' = payments /\ Answer(t, 400)
    BY <1>3 DEF Act
  <2> QED
    BY <1>1, <2>1, AnswerKeeps DEF store
<1> QED
  BY <1>2, <1>3

LEMMA BeginDrainKeeps ==
  ASSUME ConstantsAssumption, IInv, NEW t \in Thread, BeginDrain(t)
  PROVE  IInv'
<1>1. "clear" \in Pcs /\ "none" \in Actions /\ NoTarget \in Targets
  BY DEF Pcs, Actions, Targets
<1>2. PICK v \in Jobs : v = Work("clear", "none", NoTarget) /\ v.pc = "clear"
  BY <1>1, WorkIs
<1>3. PICK c \in SUBSET Event : c = Members(messages)
  BY MembersTyped DEF IInv, EventsTyped
<1>4. PICK w \in Jobs : w = [v EXCEPT !.copy = c]
  BY JobUpdates
<1>5. w.pc = "clear" /\ w.copy = Members(messages)
  BY <1>2, <1>3, <1>4 DEF Jobs
<1>6. Begin(t, w) /\ UNCHANGED <<store, events>>
  BY <1>2, <1>3, <1>4 DEF BeginDrain
<1> QED
  BY <1>5, <1>6, BeginKeeps

-----------------------------------------------------------------------------
(* The publisher.                                                          *)

\* What t publishes, and what backs it.
LEMMA Publishable ==
  ASSUME ConstantsAssumption, IInv, NEW t \in Thread, job[t].pc = "publish"
  PROVE  LET j == job[t]
             e == Head(j.outbox)
         IN  /\ e \in Event /\ Tail(j.outbox) \in Seq(Event)
             /\ \/ e = <<"QUOTE_CREATED", j.target, j.n>>
                \/ /\ e = <<"QUOTE_APPROVED", QuoteOf[j.target], j.n>>
                   /\ Approves(j) /\ QuoteOf[j.target] \in Quote
                \/ e = <<"PAYMENT_PREFERENCE_CREATED", j.target, j.n>>
                \/ e = <<"PAYMENT_CONFIRMED", j.target, j.n>> /\ Confirms(j) /\ j.target \in Payment
                \/ e = <<"PAYMENT_FAILED", j.target, j.n>> /\ Fails(j) /\ j.target \in Payment
             /\ Tail(j.outbox) # <<>> =>
                  /\ j.action = "approved" /\ j.target \in Payment
                  /\ Tail(j.outbox) = << <<"PAYMENT_PREFERENCE_CREATED", j.target, j.n>> >>
<1> DEFINE j == job[t]
<1>1. Telling(j) /\ j \in Jobs /\ j.outbox \in Seq(Event)
  BY JobFields DEF IInv, Shape
<1>2. j.outbox # <<>>
  <2>1. \A a, b : <<a>> # <<>> /\ <<a, b>> # <<>>
    OBVIOUS
  <2> QED
    BY <1>1, <2>1, Zenon DEF Telling
<1>3. Head(j.outbox) \in Event /\ Tail(j.outbox) \in Seq(Event)
  BY <1>1, <1>2
<1>4. CASE j.action = "created"
  <2>1. j.outbox = << <<"QUOTE_CREATED", j.target, j.n>> >>
    BY <1>1, <1>4 DEF Telling
  <2>2. Head(j.outbox) = <<"QUOTE_CREATED", j.target, j.n>> /\ Tail(j.outbox) = <<>>
    BY <2>1
  <2> QED
    BY <1>3, <2>2
<1>5. CASE /\ j.action = "approved" /\ j.target \in Payment
           /\ j.outbox = << <<"QUOTE_APPROVED", QuoteOf[j.target], j.n>>,
                            <<"PAYMENT_PREFERENCE_CREATED", j.target, j.n>> >>
  <2>1. /\ Head(j.outbox) = <<"QUOTE_APPROVED", QuoteOf[j.target], j.n>>
        /\ Tail(j.outbox) = << <<"PAYMENT_PREFERENCE_CREATED", j.target, j.n>> >>
        /\ Len(j.outbox) = 2
    BY <1>5
  <2>2. Approves(j)
    BY <1>5, <2>1 DEF Approves
  <2>3. QuoteOf[j.target] \in Quote
    BY <1>5 DEF ConstantsAssumption
  <2> QED
    BY <1>3, <1>5, <2>1, <2>2, <2>3
<1>6. CASE /\ j.action = "approved" /\ j.target \in Payment
           /\ j.outbox = << <<"PAYMENT_PREFERENCE_CREATED", j.target, j.n>> >>
  <2>1. /\ Head(j.outbox) = <<"PAYMENT_PREFERENCE_CREATED", j.target, j.n>>
        /\ Tail(j.outbox) = <<>>
    BY <1>6
  <2> QED
    BY <1>3, <2>1
<1>7. CASE j.action = "confirmed"
  <2>1. j.outbox = << <<"PAYMENT_CONFIRMED", j.target, j.n>> >> /\ j.target \in Payment
    BY <1>1, <1>7 DEF Telling
  <2>2. Head(j.outbox) = <<"PAYMENT_CONFIRMED", j.target, j.n>> /\ Tail(j.outbox) = <<>>
    BY <2>1
  <2>3. Confirms(j)
    BY <1>7 DEF Confirms
  <2> QED
    BY <1>3, <2>1, <2>2, <2>3
<1>8. CASE j.action = "failed"
  <2>1. j.outbox = << <<"PAYMENT_FAILED", j.target, j.n>> >> /\ j.target \in Payment
    BY <1>1, <1>8 DEF Telling
  <2>2. Head(j.outbox) = <<"PAYMENT_FAILED", j.target, j.n>> /\ Tail(j.outbox) = <<>>
    BY <2>1
  <2>3. Fails(j)
    BY <1>8 DEF Fails
  <2> QED
    BY <1>3, <2>1, <2>2, <2>3
<1> QED
  BY <1>1, <1>4, <1>5, <1>6, <1>7, <1>8 DEF Telling

LEMMA PublishJob ==
  ASSUME ConstantsAssumption, IInv, NEW t \in Thread, Publish(t)
  PROVE  /\ job' = [job EXCEPT ![t] = job'[t]] /\ job'[t] \in Jobs
         /\ Shape(job[t])' /\ job'[t].copy = job[t].copy
         /\ job'[t].pc \in {"idle", "publish"}
         /\ ~Creates(job'[t]) /\ ~Approves(job'[t]) /\ ~Confirms(job'[t]) /\ ~Fails(job'[t])
<1> DEFINE left == Tail(job[t].outbox)
<1>1. /\ job[t].pc = "publish" /\ job[t] \in Jobs /\ job \in [Thread -> Jobs]
      /\ job[t].n \in 1..MaxRequests /\ job[t].copy = {}
  BY DEF Publish, IInv, Shape
<1>2. /\ left \in Seq(Event)
      /\ left # <<>> => /\ job[t].action = "approved" /\ job[t].target \in Payment
                        /\ left = << <<"PAYMENT_PREFERENCE_CREATED", job[t].target, job[t].n>> >>
  BY <1>1, Publishable
<1>3. job' = [job EXCEPT ![t] =
                IF left # <<>> THEN [job[t] EXCEPT !.outbox = left]
                ELSE [job[t] EXCEPT !.pc = "idle", !.outbox = <<>>,
                        !.code = IF job[t].action = "created" THEN 201 ELSE 200]]
  BY <1>1 DEF Publish
<1>4. PICK j \in Jobs : j = job[t]
  BY <1>1
<1> HIDE DEF left
<1>5. CASE left # <<>>
  <2>1. job'[t] = [j EXCEPT !.outbox = left] /\ job' = [job EXCEPT ![t] = job'[t]]
    BY <1>1, <1>3, <1>4, <1>5
  <2>2. [j EXCEPT !.outbox = left] \in Jobs
    BY <1>2, JobUpdates
  <2>3. /\ job'[t].pc = "publish" /\ job'[t].action = "approved" /\ job'[t].target = j.target
        /\ job'[t].n = j.n /\ job'[t].copy = j.copy /\ job'[t].outbox = left
    BY <1>1, <1>2, <1>4, <1>5, <2>1 DEF Jobs
  <2>4. Len(job'[t].outbox) = 1
    BY <1>2, <1>5, <2>3
  <2>5. Shape(job[t])'
    BY <1>1, <1>2, <1>4, <1>5, <2>3 DEF Shape, Telling
  <2> QED
    BY <1>4, <2>1, <2>2, <2>3, <2>4, <2>5 DEF Creates, Approves, Confirms, Fails
<1>6. CASE left = <<>>
  <2>1. PICK code \in Nat : code = IF job[t].action = "created" THEN 201 ELSE 200
    OBVIOUS
  <2>2. job'[t] = [j EXCEPT !.pc = "idle", !.outbox = <<>>, !.code = code]
        /\ job' = [job EXCEPT ![t] = job'[t]]
    BY <1>1, <1>3, <1>4, <1>6, <2>1
  <2>3. [j EXCEPT !.pc = "idle", !.outbox = <<>>, !.code = code] \in Jobs
    <3>1. "idle" \in Pcs /\ <<>> \in Seq(Event)
      BY DEF Pcs
    <3> QED
      BY <3>1, JobUpdates
  <2>4. job'[t].pc = "idle" /\ job'[t].copy = j.copy
    BY <2>2 DEF Jobs
  <2>5. Shape(job[t])'
    BY <1>1, <1>4, <2>4 DEF Shape
  <2> QED
    BY <1>4, <2>2, <2>3, <2>4, <2>5 DEF Creates, Approves, Confirms, Fails
<1> QED
  BY <1>5, <1>6

LEMMA PublishKeeps ==
  ASSUME ConstantsAssumption, IInv, NEW t \in Thread, Publish(t)
  PROVE  IInv'
<1>1. PICK e \in Event : e = Head(job[t].outbox)
  BY Publishable DEF Publish
<1>2. /\ messages' = Append(messages, e)
      /\ announced' = announced \cup {e}
      /\ atRisk' = IF \E u \in Thread : job[u].pc = "clear" THEN atRisk \cup {e} ELSE atRisk
      /\ UNCHANGED <<mode, quotes, payments, served, drained>>
      /\ job[t].pc = "publish"
  BY <1>1 DEF Publish, store
<1> DEFINE x == job[t].target
           n == job[t].n
<1>3. /\ \/ e = <<"QUOTE_CREATED", x, n>>
         \/ e = <<"QUOTE_APPROVED", QuoteOf[x], n>> /\ Approves(job[t]) /\ QuoteOf[x] \in Quote
         \/ e = <<"PAYMENT_PREFERENCE_CREATED", x, n>>
         \/ e = <<"PAYMENT_CONFIRMED", x, n>> /\ Confirms(job[t]) /\ x \in Payment
         \/ e = <<"PAYMENT_FAILED", x, n>> /\ Fails(job[t]) /\ x \in Payment
      /\ n \in 1..MaxRequests
  BY <1>1, <1>2, Publishable DEF IInv, Shape
<1>4. /\ job' = [job EXCEPT ![t] = job'[t]] /\ job'[t] \in Jobs
      /\ Shape(job[t])' /\ job'[t].copy = job[t].copy
      /\ job'[t].pc \in {"idle", "publish"}
      /\ ~Creates(job'[t]) /\ ~Approves(job'[t]) /\ ~Confirms(job'[t]) /\ ~Fails(job'[t])
  BY PublishJob
<1>5. \A u \in Thread \ {t} : job'[u] = job[u]
  BY <1>4 DEF IInv
<1>6. Members(messages') = Members(messages) \cup {e}
  BY <1>2, MembersAppend DEF IInv, EventsTyped
<1>7. Backed(job[t])'
  <2>1. ~Creates(job[t])' /\ ~Approves(job[t])' /\ ~Confirms(job[t])' /\ ~Fails(job[t])'
    BY <1>4 DEF Creates, Approves, Confirms, Fails
  <2> QED
    BY <1>4, <2>1 DEF Backed
<1>8. \A q : AnnouncedApproval(q)' => AnnouncedApproval(q) \/ (Approves(job[t]) /\ q = QuoteOf[x])
  <2> SUFFICES ASSUME NEW q, NEW m \in 1..MaxRequests, <<"QUOTE_APPROVED", q, m>> \in announced'
               PROVE  AnnouncedApproval(q) \/ (Approves(job[t]) /\ q = QuoteOf[x])
    BY DEF AnnouncedApproval
  <2>1. CASE <<"QUOTE_APPROVED", q, m>> \in announced
    BY <2>1 DEF AnnouncedApproval
  <2>2. CASE <<"QUOTE_APPROVED", q, m>> = e
    BY <1>3, <2>2
  <2> QED
    BY <1>2, <2>1, <2>2
<1>9. \A p : AnnouncedConfirmation(p)' => AnnouncedConfirmation(p) \/ (Confirms(job[t]) /\ p = x)
  <2> SUFFICES ASSUME NEW p, NEW m \in 1..MaxRequests, <<"PAYMENT_CONFIRMED", p, m>> \in announced'
               PROVE  AnnouncedConfirmation(p) \/ (Confirms(job[t]) /\ p = x)
    BY DEF AnnouncedConfirmation
  <2>1. CASE <<"PAYMENT_CONFIRMED", p, m>> \in announced
    BY <2>1 DEF AnnouncedConfirmation
  <2>2. CASE <<"PAYMENT_CONFIRMED", p, m>> = e
    BY <1>3, <2>2
  <2> QED
    BY <1>2, <2>1, <2>2
<1>10. \A p : AnnouncedFailure(p)' => AnnouncedFailure(p) \/ (Fails(job[t]) /\ p = x)
  <2> SUFFICES ASSUME NEW p, NEW m \in 1..MaxRequests, <<"PAYMENT_FAILED", p, m>> \in announced'
               PROVE  AnnouncedFailure(p) \/ (Fails(job[t]) /\ p = x)
    BY DEF AnnouncedFailure
  <2>1. CASE <<"PAYMENT_FAILED", p, m>> \in announced
    BY <2>1 DEF AnnouncedFailure
  <2>2. CASE <<"PAYMENT_FAILED", p, m>> = e
    BY <1>3, <2>2
  <2> QED
    BY <1>2, <2>1, <2>2
<1>11. ASSUME NEW u \in Thread \ {t} PROVE Backed(job[u])'
  <2>1. Backed(job[u]) /\ job'[u] = job[u] /\ ~Clash(job[t], job[u])
    BY <1>5 DEF IInv
  <2>2. Approves(job[u]) => ~AnnouncedApproval(QuoteOf[job[u].target])'
    BY <1>8, <2>1 DEF Backed, Clash
  <2>3. Confirms(job[u]) => ~AnnouncedConfirmation(job[u].target)'
    BY <1>9, <2>1 DEF Backed, Clash
  <2>4. job[u].pc = "clear" => Members(messages') \subseteq job[u].copy \cup atRisk'
    BY <1>2, <1>6, <2>1 DEF Backed
  <2>5. Creates(job[u]) => quotes'[job[u].target] = Absent
    BY <1>2, <2>1 DEF Backed
  <2>6. Approves(job[u]) => quotes'[QuoteOf[job[u].target]] = "APPROVED"
    BY <1>2, <2>1 DEF Backed
  <2>7. job[u].pc \in {"gateway", "savePayment"} =>
          \A p \in Payment : QuoteOf[p] = QuoteOf[job[u].target] => payments'[p] = Absent
    BY <1>2, <2>1 DEF Backed
  <2>8. /\ Confirms(job[u]) => payments'[job[u].target] = "CONFIRMED"
        /\ Fails(job[u]) => payments'[job[u].target] = "FAILED"
    BY <1>2, <2>1 DEF Backed
  <2>9. /\ Creates(job[u])' <=> Creates(job[u])
        /\ Approves(job[u])' <=> Approves(job[u])
        /\ Confirms(job[u])' <=> Confirms(job[u])
        /\ Fails(job[u])' <=> Fails(job[u])
    BY <2>1 DEF Creates, Approves, Confirms, Fails
  <2> QED
    BY <2>1, <2>2, <2>3, <2>4, <2>5, <2>6, <2>7, <2>8, <2>9 DEF Backed
<1>12. \A u \in Thread \ {t} : ~Clash(job'[t], job[u])
  BY <1>4 DEF Clash
<1>13. Backed(job[t])
  BY DEF IInv
<1>14. \A q \in Quote : AnnouncedApproval(q)' => quotes[q] = "APPROVED"
  BY <1>8, <1>13 DEF IInv, StoreOk, Backed
<1>15. \A p \in Payment : AnnouncedConfirmation(p)' => payments[p] = "CONFIRMED"
  BY <1>9, <1>13 DEF IInv, StoreOk, Backed
<1>16. \A p \in Payment : AnnouncedFailure(p)' => payments[p] = "FAILED"
  BY <1>10, <1>13 DEF IInv, StoreOk, Backed
<1>17. \A q \in Quote : Once("QUOTE_APPROVED", q)'
  <2> SUFFICES ASSUME NEW q \in Quote, NEW m \in 1..MaxRequests, NEW k \in 1..MaxRequests,
                      <<"QUOTE_APPROVED", q, m>> \in announced', <<"QUOTE_APPROVED", q, k>> \in announced'
               PROVE  m = k
    BY DEF Once
  <2>1. Once("QUOTE_APPROVED", q)
    BY DEF IInv, StoreOk
  <2>2. CASE e = <<"QUOTE_APPROVED", q, n>>
    <3>1. Approves(job[t]) /\ QuoteOf[x] = q
      BY <1>3, <2>2
    <3>2. ~AnnouncedApproval(q)
      BY <1>13, <3>1 DEF Backed
    <3> QED
      BY <1>2, <2>2, <3>2 DEF AnnouncedApproval
  <2>3. CASE e # <<"QUOTE_APPROVED", q, n>>
    <3>1. e # <<"QUOTE_APPROVED", q, m>> /\ e # <<"QUOTE_APPROVED", q, k>>
      BY <1>3, <2>3
    <3> QED
      BY <1>2, <2>1, <3>1 DEF Once
  <2> QED
    BY <2>2, <2>3
<1>18. \A p \in Payment : Once("PAYMENT_CONFIRMED", p)'
  <2> SUFFICES ASSUME NEW p \in Payment, NEW m \in 1..MaxRequests, NEW k \in 1..MaxRequests,
                      <<"PAYMENT_CONFIRMED", p, m>> \in announced',
                      <<"PAYMENT_CONFIRMED", p, k>> \in announced'
               PROVE  m = k
    BY DEF Once
  <2>1. Once("PAYMENT_CONFIRMED", p)
    BY DEF IInv, StoreOk
  <2>2. CASE e = <<"PAYMENT_CONFIRMED", p, n>>
    <3>1. Confirms(job[t]) /\ x = p
      BY <1>3, <2>2
    <3>2. ~AnnouncedConfirmation(p)
      BY <1>13, <3>1 DEF Backed
    <3> QED
      BY <1>2, <2>2, <3>2 DEF AnnouncedConfirmation
  <2>3. CASE e # <<"PAYMENT_CONFIRMED", p, n>>
    <3>1. e # <<"PAYMENT_CONFIRMED", p, m>> /\ e # <<"PAYMENT_CONFIRMED", p, k>>
      BY <1>3, <2>3
    <3> QED
      BY <1>2, <2>1, <3>1 DEF Once
  <2> QED
    BY <2>2, <2>3
<1>19. StoreOk'
  <2>1. StoreOk
    BY DEF IInv
  <2> QED
    BY <1>2, <1>14, <1>15, <1>16, <1>17, <1>18, <2>1 DEF StoreOk
<1>20. EventsTyped'
  BY <1>2 DEF IInv, EventsTyped
<1>21. EventsAreHandedOut'
  <2>1. UNION {job[u].copy : u \in Thread} \subseteq UNION {job'[u].copy : u \in Thread}
    BY <1>4, <1>5
  <2>2. announced \subseteq Members(messages) \cup drained \cup atRisk \cup UNION {job[u].copy : u \in Thread}
    BY DEF IInv, EventsAreHandedOut
  <2>3. atRisk \subseteq atRisk'
    BY <1>2
  <2> QED
    BY <1>2, <1>6, <2>1, <2>2, <2>3 DEF EventsAreHandedOut
<1>22. Keeps(t)
  BY <1>2, <1>4, <1>7, <1>11, <1>12, <1>19, <1>20, <1>21 DEF Keeps
<1> QED
  BY <1>22, KeepsEnough

LEMMA ClearKeeps ==
  ASSUME ConstantsAssumption, IInv, NEW t \in Thread, Clear(t)
  PROVE  IInv'
<1>1. /\ job[t].pc = "clear" /\ messages' = <<>> /\ drained' = drained \cup job[t].copy
      /\ Answer(t, 200)
      /\ UNCHANGED <<mode, quotes, payments, announced, atRisk, served>>
  BY DEF Clear, store
<1>2. job' = [job EXCEPT ![t] = job'[t]] /\ job'[t] = Answered(200) /\ job \in [Thread -> Jobs]
  BY <1>1 DEF Answer, IInv
<1>3. job'[t] \in Jobs /\ job'[t].pc = "idle" /\ job'[t].copy = {}
  BY <1>2, AnsweredTyped
<1>4. \A u \in Thread \ {t} : job'[u] = job[u]
  BY <1>2
<1>5. Shape(job[t])' /\ Backed(job[t])'
  BY <1>3 DEF Shape, Backed, Creates, Approves, Confirms, Fails
<1>6. Members(messages') = {}
  BY <1>1, MembersEmpty
<1>7. ASSUME NEW u \in Thread \ {t} PROVE Backed(job[u])'
  <2>1. Backed(job[u]) /\ job'[u] = job[u]
    BY <1>4 DEF IInv
  <2> QED
    BY <1>1, <1>6, <2>1 DEF Backed, Creates, Approves, Confirms, Fails, AnnouncedApproval,
       AnnouncedConfirmation
<1>8. \A u \in Thread \ {t} : ~Clash(job'[t], job[u])
  BY <1>3 DEF Clash, Creates, Approves, Confirms
<1>9. StoreOk'
  <2>1. StoreOk
    BY DEF IInv
  <2> QED
    BY <1>1, <2>1 DEF StoreOk, AnnouncedApproval, AnnouncedConfirmation, AnnouncedFailure, Once
<1>10. EventsTyped'
  <2>1. <<>> \in Seq(Event) /\ job[t].copy \subseteq Event
    BY <1>2, JobFields
  <2> QED
    BY <1>1, <2>1 DEF IInv, EventsTyped
<1>11. EventsAreHandedOut'
  <2>1. Members(messages) \subseteq job[t].copy \cup atRisk
    BY <1>1 DEF IInv, Backed
  <2>2. announced \subseteq Members(messages) \cup drained \cup atRisk \cup UNION {job[u].copy : u \in Thread}
    BY DEF IInv, EventsAreHandedOut
  <2>3. UNION {job[u].copy : u \in Thread} \subseteq job[t].copy \cup UNION {job'[u].copy : u \in Thread}
    BY <1>4
  <2> QED
    BY <1>1, <2>1, <2>2, <2>3 DEF EventsAreHandedOut
<1>12. Keeps(t)
  BY <1>1, <1>2, <1>3, <1>5, <1>7, <1>8, <1>9, <1>10, <1>11 DEF Keeps
<1> QED
  BY <1>12, KeepsEnough

-----------------------------------------------------------------------------
(* The invariant.                                                          *)

LEMMA IInvStep ==
  ASSUME ConstantsAssumption, IInv, [Next]_vars
  PROVE  IInv'
<1>1. ASSUME NEW t \in Thread, BeginSettle(t, "CONFIRMED") \/ BeginSettle(t, "FAILED") PROVE IInv'
  BY <1>1, BeginSettleKeeps DEF Settled
<1>2. ASSUME NEW t \in Thread, Step(t) PROVE IInv'
  BY <1>1, <1>2, BeginCreateKeeps, SaveQuoteKeeps, BeginApproveKeeps, CallGatewayKeeps,
     SavePaymentKeeps, FileKeeps, BeginReportKeeps, SearchKeeps, ActKeeps, PublishKeeps,
     BeginDrainKeeps, ClearKeeps DEF Step
<1>3. ASSUME UNCHANGED vars PROVE IInv'
  <2>1. UNCHANGED <<mode, quotes, payments, messages, job, served, announced, drained, atRisk>>
    BY <1>3 DEF vars
  <2>2. ASSUME NEW t \in Thread PROVE Shape(job[t])' /\ Backed(job[t])'
    <3>1. Shape(job[t]) /\ Backed(job[t])
      BY DEF IInv
    <3>2. Shape(job[t])'
      BY <2>1, <3>1 DEF Shape, Telling
    <3>3. Backed(job[t])'
      BY <2>1, <3>1 DEF Backed, Creates, Approves, Confirms, Fails, AnnouncedApproval,
         AnnouncedConfirmation
    <3> QED
      BY <3>2, <3>3
  <2>3. \A t, u \in Thread : t # u => ~Clash(job[t], job[u])'
    BY <2>1 DEF IInv, Clash, Creates, Approves, Confirms
  <2>4. StoreOk'
    <3>1. StoreOk
      BY DEF IInv
    <3> QED
      BY <2>1, <3>1 DEF StoreOk, AnnouncedApproval, AnnouncedConfirmation, AnnouncedFailure, Once
  <2>5. EventsTyped' /\ EventsAreHandedOut'
    BY <2>1 DEF IInv, EventsTyped, EventsAreHandedOut
  <2> QED
    BY <2>1, <2>2, <2>3, <2>4, <2>5 DEF IInv
<1> QED
  BY <1>2, <1>3 DEF Next

THEOREM IInvAlways == Spec => []IInv
<1>1. IInv /\ [Next]_vars => IInv'
  BY IInvStep, ConstantsAssumption
<1>2. Init => IInv
  BY IInvInit, ConstantsAssumption
<1> QED
  BY <1>1, <1>2, PTL DEF Spec

-----------------------------------------------------------------------------
(* The theorems.                                                           *)

\* The variables of the runtime keep their types.
THEOREM TypeCorrect == Spec => []TypeOK
<1>1. IInv => TypeOK
  BY DEF IInv, TypeOK, EventsTyped, StoreOk, QuoteStatus, PaymentStatus
<1> QED
  BY <1>1, IInvAlways, PTL

\* A quote is approved once and a payment confirmed once, and a quote has one
\* payment: the objects carry the first decision to every thread.
THEOREM SettlesOnce == Spec => []SettledOnce
<1>1. IInv => SettledOnce
  BY DEF IInv, SettledOnce, StoreOk
<1> QED
  BY <1>1, IInvAlways, PTL

\* What drain loses was published between its copy and its clear.
THEOREM EventsAlwaysHandedOut == Spec => []EventsAreHandedOut
<1>1. IInv => EventsAreHandedOut
  BY DEF IInv
<1> QED
  BY <1>1, IInvAlways, PTL

\* An approval goes on, or begins on a quote that was CREATED.
LEMMA ApprovalsBegin ==
  ASSUME ConstantsAssumption, IInv, NEW t \in Thread, Step(t),
         job'[t].action = "approved", job'[t].pc # "idle"
  PROVE  \/ /\ job[t].action = "approved" /\ job[t].pc # "idle"
            /\ job'[t].target = job[t].target
         \/ job'[t].target \in Payment /\ quotes[QuoteOf[job'[t].target]] = "CREATED"
<1>1. job \in [Thread -> Jobs] /\ job[t] \in Jobs /\ Shape(job[t])
  BY DEF IInv
<1>2. ASSUME NEW code \in Nat, Begin(t, Answered(code)) PROVE FALSE
  <2>1. PICK w \in Jobs : w = Answered(code) /\ w.pc = "idle"
    BY AnsweredTyped
  <2> QED
    BY <1>2, <2>1, BeginSets
<1>3. ASSUME NEW code, Answer(t, code) PROVE FALSE
  BY <1>1, <1>3 DEF Answer, Answered, Work
<1>4. ASSUME NEW pc \in Pcs, NEW action \in Actions, NEW x \in Targets, Begin(t, Work(pc, action, x))
      PROVE  action = "approved" /\ job'[t].target = x
  <2>1. PICK w \in Jobs : w = Work(pc, action, x) /\ w.action = action /\ w.target = x
    BY WorkIs
  <2> QED
    BY <1>4, <2>1, BeginSets
<1>5. Payment \subseteq Targets /\ Quote \subseteq Targets /\ NoTarget \in Targets
  BY DEF Targets
<1>6. ASSUME GoPublish(t), job[t].pc # "idle"
      PROVE  job[t].action = "approved" /\ job'[t].target = job[t].target
  <2>1. job'[t] = [job[t] EXCEPT !.pc = "publish",
                                 !.outbox = Story(job[t].action, job[t].target, job[t].n)]
    BY <1>1, <1>6 DEF GoPublish
  <2>2. job'[t].action = job[t].action /\ job'[t].target = job[t].target
    BY <1>1, <2>1 DEF Jobs
  <2> QED
    BY <2>2
<1>7. CASE BeginCreate(t)
  <2>1. "saveQuote" \in Pcs /\ "created" \in Actions
    BY DEF Pcs, Actions
  <2> QED
    BY <1>2, <1>4, <1>5, <1>7, <2>1 DEF BeginCreate, FreshQuotes
<1>8. CASE SaveQuote(t)
  BY <1>6, <1>8 DEF SaveQuote
<1>9. CASE BeginApprove(t)
  <2>1. PICK q \in Quote :
          \/ /\ CanApprove(quotes[q])
             /\ \E p \in FreshPayments(q) : Begin(t, Work("gateway", "approved", p))
          \/ Begin(t, Answered(IF quotes[q] = Absent THEN 404 ELSE 400))
    BY <1>9 DEF BeginApprove
  <2>2. ~Begin(t, Answered(IF quotes[q] = Absent THEN 404 ELSE 400))
    <3>1. PICK code \in Nat : code = IF quotes[q] = Absent THEN 404 ELSE 400
      OBVIOUS
    <3> QED
      BY <1>2, <3>1
  <2>3. PICK p \in FreshPayments(q) : Begin(t, Work("gateway", "approved", p))
    BY <2>1, <2>2
  <2>4. p \in Payment /\ QuoteOf[p] = q /\ quotes[q] = "CREATED"
    BY <2>1, <2>2 DEF FreshPayments, CanApprove
  <2>5. "gateway" \in Pcs /\ "approved" \in Actions
    BY DEF Pcs, Actions
  <2> QED
    BY <1>4, <1>5, <2>3, <2>4, <2>5
<1>10. CASE CallGateway(t)
  <2>1. Goto(t, "savePayment") /\ job[t].pc = "gateway"
    BY <1>3, <1>10 DEF CallGateway
  <2>2. job'[t].action = job[t].action /\ job'[t].target = job[t].target
    BY <1>1, <2>1 DEF Goto, Jobs
  <2> QED
    BY <2>1, <2>2
<1>11. CASE SavePayment(t)
  BY <1>6, <1>11 DEF SavePayment
<1>12. CASE BeginSettle(t, "CONFIRMED") \/ BeginSettle(t, "FAILED")
  <2>1. PICK p \in Payment :
          \/ Begin(t, Work("file", "confirmed", p)) \/ Begin(t, Work("file", "failed", p))
          \/ Begin(t, Answered(IF payments[p] = Absent THEN 404 ELSE 400))
    BY <1>12 DEF BeginSettle
  <2>2. ~Begin(t, Answered(IF payments[p] = Absent THEN 404 ELSE 400))
    <3>1. PICK code \in Nat : code = IF payments[p] = Absent THEN 404 ELSE 400
      OBVIOUS
    <3> QED
      BY <1>2, <3>1
  <2>3. "file" \in Pcs /\ {"confirmed", "failed"} \subseteq Actions
    BY DEF Pcs, Actions
  <2> QED
    BY <1>4, <1>5, <2>1, <2>2, <2>3
<1>13. CASE File(t)
  BY <1>6, <1>13 DEF File
<1>14. ASSUME NEW w \in Jobs, w.pc = "idle" \/ w.action # "approved", Begin(t, w) PROVE FALSE
  BY <1>14, BeginSets
<1>15. CASE BeginReport(t)
  <2>1. PICK p \in Payment :
          \/ \E code \in {404, 501} : Begin(t, Answered(code))
          \/ \E s \in ProviderStatuses : Begin(t, Decided(ApplyAction(s, payments[p]), p))
          \/ Begin(t, Work("search", "none", p))
    BY <1>15 DEF BeginReport
  <2>2. ASSUME NEW s \in ProviderStatuses, Begin(t, Decided(ApplyAction(s, payments[p]), p))
        PROVE  FALSE
    <3>1. PICK action : action = ApplyAction(s, payments[p])
      OBVIOUS
    <3>2. PICK w \in Jobs : /\ w = Decided(action, p) /\ w.pc \in {"idle", "act"}
                            /\ w.pc = "act" => w.action \in {"confirmed", "failed"}
      BY DecidedIs
    <3>3. Begin(t, w)
      BY <2>2, <3>1, <3>2
    <3> QED
      BY <1>14, <3>2, <3>3
  <2>3. "search" \in Pcs /\ "none" \in Actions
    BY DEF Pcs, Actions
  <2> QED
    BY <1>2, <1>4, <1>5, <2>1, <2>2, <2>3
<1>16. CASE Search(t)
  <2>1. PICK s \in ProviderStatuses :
          job' = [job EXCEPT ![t] = [Decided(ApplyAction(s, payments[job[t].target]), job[t].target)
                                       EXCEPT !.n = job[t].n]]
    BY <1>3, <1>16 DEF Search
  <2>2. job[t].target \in Payment
    BY <1>1, <1>16 DEF Search, Shape
  <2>3. PICK action : action = ApplyAction(s, payments[job[t].target])
    OBVIOUS
  <2>4. PICK w \in Jobs : /\ w = Decided(action, job[t].target) /\ w.pc \in {"idle", "act"}
                          /\ w.pc = "act" => w.action \in {"confirmed", "failed"}
    BY <2>2, DecidedIs
  <2>5. job'[t] = [w EXCEPT !.n = job[t].n]
    BY <1>1, <2>1, <2>3, <2>4
  <2>6. job'[t].pc = w.pc /\ job'[t].action = w.action
    BY <2>4, <2>5 DEF Jobs
  <2> QED
    BY <2>4, <2>6
<1>17. CASE Act(t)
  BY <1>3, <1>6, <1>17 DEF Act
<1>18. CASE Publish(t)
  <2>1. job'[t] = IF Tail(job[t].outbox) # <<>> THEN [job[t] EXCEPT !.outbox = Tail(job[t].outbox)]
                  ELSE [job[t] EXCEPT !.pc = "idle", !.outbox = <<>>,
                          !.code = IF job[t].action = "created" THEN 201 ELSE 200]
    BY <1>1, <1>18 DEF Publish
  <2>2. job'[t].action = job[t].action /\ job'[t].target = job[t].target
    BY <1>1, <2>1 DEF Jobs
  <2> QED
    BY <1>18, <2>2 DEF Publish
<1>19. CASE BeginDrain(t)
  <2>1. job'[t].action = "none"
    BY <1>1, <1>19 DEF BeginDrain, Begin, Work
  <2> QED
    BY <2>1
<1>20. CASE Clear(t)
  BY <1>3, <1>20 DEF Clear
<1> QED
  BY <1>7, <1>8, <1>9, <1>10, <1>11, <1>12, <1>13, <1>15, <1>16, <1>17, <1>18, <1>19, <1>20 DEF Step

\* A quote stranded by a refusal of the gateway stays stranded: approving it
\* again is refused.
THEOREM StrandedStaysStranded == Spec => StrandedForGood
<1>1. ASSUME IInv, [Next]_vars, NEW q \in Quote, Stranded(q) PROVE Stranded(q)'
  <2>1. /\ quotes[q] = "APPROVED" /\ ~Approving(q)
        /\ \A p \in Payment : QuoteOf[p] = q => payments[p] = Absent
        /\ quotes \in [Quote -> {Absent, "CREATED", "APPROVED"}]
        /\ payments \in [Payment -> {Absent, "PENDING", "CONFIRMED", "FAILED"}]
        /\ job \in [Thread -> Jobs]
    BY <1>1 DEF Stranded, IInv, StoreOk
  <2>2. CASE UNCHANGED vars
    BY <1>1, <2>2 DEF vars, Stranded, Approving
  <2>3. CASE \E t \in Thread : Step(t)
    <3>1. PICK t \in Thread : Step(t)
      BY <2>3
    <3>2. Shape(job[t]) /\ Backed(job[t])
      BY <1>1 DEF IInv
    <3>3. quotes'[q] = "APPROVED"
      <4>1. CASE SaveQuote(t)
        BY <2>1, <3>2, <4>1 DEF SaveQuote, Backed, Creates, Absent
      <4>2. CASE BeginApprove(t)
        BY <2>1, <4>2 DEF BeginApprove, CanApprove
      <4> QED
        BY <2>1, <3>1, <4>1, <4>2 DEF Step, BeginCreate, CallGateway, SavePayment, BeginSettle, File,
           BeginReport, Search, Act, Publish, BeginDrain, Clear, store
    <3>4. ASSUME NEW p \in Payment, QuoteOf[p] = q PROVE payments'[p] = Absent
      <4>1. payments[p] = Absent
        BY <2>1, <3>4
      <4>2. CASE SavePayment(t)
        BY <2>1, <3>2, <3>4, <4>1, <4>2 DEF SavePayment, Shape, Approving
      <4>3. CASE BeginSettle(t, "CONFIRMED") \/ BeginSettle(t, "FAILED")
        BY <2>1, <4>1, <4>3 DEF BeginSettle, CanConfirm, CanFail, Absent
      <4>4. CASE Act(t)
        BY <2>1, <4>1, <4>4 DEF Act, CanConfirm, CanFail, Absent
      <4> QED
        BY <3>1, <4>1, <4>2, <4>3, <4>4 DEF Step, BeginCreate, SaveQuote, BeginApprove, CallGateway,
           File, BeginReport, Search, Publish, BeginDrain, Clear, store
    <3>5. ASSUME Approving(q)' PROVE FALSE
      <4>1. PICK u \in Thread : /\ job'[u].action = "approved" /\ job'[u].pc # "idle"
                                /\ QuoteOf[job'[u].target] = q
        BY <3>5 DEF Approving
      <4>2. u = t
        <5>1. \A v \in Thread \ {t} : job'[v] = job[v]
          BY <2>1, <3>1 DEF Step, BeginCreate, SaveQuote, BeginApprove, CallGateway, SavePayment,
             BeginSettle, File, BeginReport, Search, Act, Publish, BeginDrain, Clear, Begin, Goto,
             Answer, GoPublish
        <5> QED
          BY <2>1, <4>1, <5>1 DEF Approving
      <4> QED
        BY <1>1, <2>1, <3>1, <4>1, <4>2, ApprovalsBegin, ConstantsAssumption DEF Approving
    <3> QED
      BY <3>3, <3>4, <3>5 DEF Stranded
  <2> QED
    BY <1>1, <2>2, <2>3 DEF Next
<1>2. IInv /\ [Next]_vars => [\A q \in Quote : Stranded(q) => Stranded(q)']_vars
  BY <1>1
<1> QED
  BY <1>2, IInvAlways, PTL DEF Spec, StrandedForGood

-----------------------------------------------------------------------------
(* The refinement.                                                         *)

LEMMA ToldKept ==
  ASSUME announced' = announced
  PROVE  [p \in Payment |-> ToldOf(p)]' = [p \in Payment |-> ToldOf(p)]
BY DEF ToldOf

\* A payment that is stored opens, and one that changes settles.
LEMMA StatusRefines ==
  ASSUME IInv, NEW p \in Payment, NEW s,
         \/ payments[p] = Absent /\ s = "PENDING"
         \/ payments[p] = "PENDING" /\ s \in Settled
         \/ payments[p] = s,
         payments' = [payments EXCEPT ![p] = s], announced' = announced
  PROVE  [Ledger!Next]_<<payments, [x \in Payment |-> ToldOf(x)]>>
<1>1. [x \in Payment |-> ToldOf(x)]' = [x \in Payment |-> ToldOf(x)]
  BY ToldKept
<1>2. CASE payments[p] = Absent /\ s = "PENDING"
  BY <1>1, <1>2 DEF Ledger!Next, Ledger!Open, Ledger!Absent, Absent
<1>3. CASE payments[p] = "PENDING" /\ s \in Settled
  BY <1>1, <1>3 DEF Ledger!Next, Ledger!Settle, Ledger!Settled, Settled
<1>4. CASE payments[p] = s
  <2>1. payments' = payments
    BY <1>4 DEF IInv, StoreOk
  <2> QED
    BY <1>1, <2>1
<1> QED
  BY <1>2, <1>3, <1>4

LEMMA SavePaymentRefines ==
  ASSUME ConstantsAssumption, IInv, NEW t \in Thread, SavePayment(t)
  PROVE  [Ledger!Next]_<<payments, [x \in Payment |-> ToldOf(x)]>>
<1>1. job[t].pc = "savePayment" /\ Shape(job[t]) /\ Backed(job[t])
  BY DEF SavePayment, IInv
<1>2. job[t].target \in Payment /\ payments[job[t].target] = Absent
  BY <1>1 DEF Shape, Backed
<1>3. payments' = [payments EXCEPT ![job[t].target] = "PENDING"] /\ announced' = announced
  BY DEF SavePayment, events
<1> QED
  BY <1>2, <1>3, StatusRefines

LEMMA SettleRefines ==
  ASSUME IInv, NEW t \in Thread, NEW s \in Settled, BeginSettle(t, s)
  PROVE  [Ledger!Next]_<<payments, [x \in Payment |-> ToldOf(x)]>>
<1>1. announced' = announced
  BY DEF BeginSettle, events
<1>2. PICK p \in Payment :
        \/ /\ IF s = "CONFIRMED" THEN CanConfirm(payments[p]) ELSE CanFail(payments[p])
           /\ payments' = [payments EXCEPT ![p] = s]
        \/ UNCHANGED payments
  BY DEF BeginSettle
<1>3. CASE UNCHANGED payments
  BY <1>1, <1>3, ToldKept
<1>4. CASE /\ IF s = "CONFIRMED" THEN CanConfirm(payments[p]) ELSE CanFail(payments[p])
           /\ payments' = [payments EXCEPT ![p] = s]
  <2>1. payments[p] = "PENDING" \/ payments[p] = s
    BY <1>4 DEF CanConfirm, CanFail, Settled, IInv, StoreOk
  <2> QED
    BY <1>1, <1>4, <2>1, StatusRefines
<1> QED
  BY <1>2, <1>3, <1>4

LEMMA ActRefines ==
  ASSUME IInv, NEW t \in Thread, Act(t)
  PROVE  [Ledger!Next]_<<payments, [x \in Payment |-> ToldOf(x)]>>
<1> DEFINE p == job[t].target
           can == IF job[t].action = "confirmed" THEN CanConfirm(payments[p]) ELSE CanFail(payments[p])
<1>1. p \in Payment /\ job[t].action \in {"confirmed", "failed"} /\ announced' = announced
  BY DEF Act, IInv, Shape, events
<1>2. CASE can
  <2>1. PICK s \in Settled : s = StatusAfter(job[t].action, payments[p])
    BY <1>1 DEF StatusAfter, Settled
  <2>2. payments' = [payments EXCEPT ![p] = s]
    BY <1>2, <2>1 DEF Act
  <2>3. payments[p] = "PENDING" \/ payments[p] = s
    BY <1>1, <1>2, <2>1 DEF CanConfirm, CanFail, StatusAfter, IInv, StoreOk
  <2> QED
    BY <1>1, <2>2, <2>3, StatusRefines
<1>3. CASE ~can
  BY <1>1, <1>3, ToldKept DEF Act
<1> QED
  BY <1>2, <1>3

LEMMA PublishRefines ==
  ASSUME ConstantsAssumption, IInv, NEW t \in Thread, Publish(t)
  PROVE  [Ledger!Next]_<<payments, [x \in Payment |-> ToldOf(x)]>>
<1> DEFINE x == job[t].target
           n == job[t].n
<1>1. PICK e \in Event : e = Head(job[t].outbox)
  BY Publishable DEF Publish
<1>2. announced' = announced \cup {e} /\ payments' = payments /\ job[t].pc = "publish"
  BY <1>1 DEF Publish, store
<1>3. /\ \/ e = <<"QUOTE_CREATED", x, n>>
         \/ e = <<"QUOTE_APPROVED", QuoteOf[x], n>>
         \/ e = <<"PAYMENT_PREFERENCE_CREATED", x, n>>
         \/ e = <<"PAYMENT_CONFIRMED", x, n>> /\ Confirms(job[t]) /\ x \in Payment
         \/ e = <<"PAYMENT_FAILED", x, n>> /\ Fails(job[t]) /\ x \in Payment
      /\ n \in 1..MaxRequests
  BY <1>1, <1>2, Publishable DEF IInv, Shape
<1>4. Backed(job[t])
  BY DEF IInv
<1>5. CASE \E s \in Settled : e = <<SettledEvent(s), x, n>>
  <2>1. PICK s \in Settled : e = <<SettledEvent(s), x, n>>
    BY <1>5
  <2>2. x \in Payment /\ payments[x] = s
    BY <1>3, <1>4, <2>1 DEF Settled, SettledEvent, Backed
  <2>3. ASSUME NEW p \in Payment PROVE ToldOf(p)' = IF p = x THEN ToldOf(p) \cup {s} ELSE ToldOf(p)
    <3>1. ASSUME NEW o \in Settled
          PROVE  (\E m \in 1..MaxRequests : <<SettledEvent(o), p, m>> \in announced') <=>
                   \/ \E m \in 1..MaxRequests : <<SettledEvent(o), p, m>> \in announced
                   \/ o = s /\ p = x
      <4>1. \A m \in 1..MaxRequests : <<SettledEvent(o), p, m>> = e <=> o = s /\ p = x /\ m = n
        BY <2>1 DEF SettledEvent, Settled
      <4> QED
        BY <1>2, <1>3, <4>1
    <3> QED
      BY <3>1 DEF ToldOf
  <2>4. [p \in Payment |-> ToldOf(p)]' = [[p \in Payment |-> ToldOf(p)] EXCEPT ![x] = @ \cup {payments[x]}]
    BY <2>2, <2>3
  <2> QED
    BY <1>2, <2>2, <2>4 DEF Ledger!Next, Ledger!Tell, Ledger!Settled, Settled
<1>6. CASE ~\E s \in Settled : e = <<SettledEvent(s), x, n>>
  <2>1. \A o \in Settled, p \in Payment, m \in 1..MaxRequests : <<SettledEvent(o), p, m>> # e
    BY <1>3, <1>6 DEF SettledEvent, Settled
  <2>2. \A p \in Payment : ToldOf(p)' = ToldOf(p)
    BY <1>2, <2>1 DEF ToldOf
  <2>3. [p \in Payment |-> ToldOf(p)]' = [p \in Payment |-> ToldOf(p)]
    BY <2>2
  <2> QED
    BY <1>2, <2>3
<1> QED
  BY <1>5, <1>6

\* The objects in memory and what is announced of them implement
\* PaymentLedger, with requests that overlap.
THEOREM RuntimeImplementsLedger == Spec => ImplementsLedger
<1>1. Init => Ledger!Init
  <2> SUFFICES ASSUME Init PROVE Ledger!Init
    OBVIOUS
  <2>1. \A p \in Payment : ToldOf(p) = {}
    BY DEF Init, ToldOf
  <2> QED
    BY <2>1 DEF Init, Ledger!Init, Ledger!Absent, Absent
<1>2. IInv /\ [Next]_vars => [Ledger!Next]_<<payments, [p \in Payment |-> ToldOf(p)]>>
  <2> SUFFICES ASSUME IInv, [Next]_vars
               PROVE  [Ledger!Next]_<<payments, [p \in Payment |-> ToldOf(p)]>>
    OBVIOUS
  <2>1. ASSUME NEW t \in Thread, \/ SavePayment(t) \/ Act(t) \/ Publish(t)
                                 \/ BeginSettle(t, "CONFIRMED") \/ BeginSettle(t, "FAILED")
        PROVE  [Ledger!Next]_<<payments, [p \in Payment |-> ToldOf(p)]>>
    BY <2>1, SavePaymentRefines, ActRefines, PublishRefines, SettleRefines, ConstantsAssumption
       DEF Settled
  <2>2. ASSUME NEW t \in Thread, \/ BeginCreate(t) \/ SaveQuote(t) \/ BeginApprove(t)
                                 \/ CallGateway(t) \/ File(t) \/ BeginReport(t) \/ Search(t)
                                 \/ BeginDrain(t) \/ Clear(t)
        PROVE  payments' = payments /\ announced' = announced
    BY <2>2 DEF BeginCreate, SaveQuote, BeginApprove, CallGateway, File, BeginReport, Search,
       BeginDrain, Clear, store, events
  <2>3. ASSUME UNCHANGED vars PROVE payments' = payments /\ announced' = announced
    BY <2>3 DEF vars
  <2>4. ASSUME payments' = payments /\ announced' = announced
        PROVE  [Ledger!Next]_<<payments, [p \in Payment |-> ToldOf(p)]>>
    BY <2>4, ToldKept
  <2> QED
    BY <2>1, <2>2, <2>3, <2>4 DEF Next, Step
<1> QED
  BY <1>1, <1>2, IInvAlways, PTL DEF Spec, ImplementsLedger, Ledger!Spec
=============================================================================
