---------------------------- MODULE QuoteIntake ----------------------------
(***************************************************************************)
(* The worker process: messages from the service's RabbitMQ queue, handled *)
(* one at a time by BillingIntegrationEventHandler, which answers an       *)
(* OS_OPENED with a quote.                                                 *)
(*                                                                         *)
(* The broker is modelled from how the worker uses it: a durable queue,    *)
(* prefetch 1, manual acknowledgement.  A message whose consumer goes away *)
(* returns to the head of the queue; one that is refused without requeue   *)
(* is gone, since the queue has no dead-letter exchange.  The worker's own *)
(* QUOTE_CREATED comes back to it, because the publisher binds the same    *)
(* queue to its routing key.                                               *)
(*                                                                         *)
(* Deployment runs one worker; two exist while a rollout replaces it.      *)
(***************************************************************************)
EXTENDS Naturals, Sequences, FiniteSets

CONSTANTS
  Worker,
  Msg,         \* the messages other services publish
  Event,       \* their event ids: a publisher that retries repeats one
  EventOf,     \* the event id of a message
  TypeOf,      \* what the worker can tell of a message
  OwnEvent,    \* a QUOTE_CREATED that came back
  MaxCrashes,  \* bound on the crashes and lost connections
  MaxErrors    \* bound on the exceptions out of the database and the broker

\* Other: any event type but OS_OPENED.  Invalid: not JSON, a field missing,
\* an unknown type, a payload that is no object.  Incomplete: an OS_OPENED
\* whose payload lacks service_order_id, which no validation looks for.
MsgTypes == {"OS_OPENED", "Other", "Invalid", "Incomplete"}

ASSUME ConstantsAssumption ==
  /\ IsFiniteSet(Worker)
  /\ EventOf \in [Msg -> Event]
  /\ TypeOf \in [Msg -> MsgTypes]
  /\ OwnEvent \notin Msg
  /\ MaxCrashes \in Nat
  /\ MaxErrors \in Nat

VARIABLES
  sent,       \* messages published so far
  queue,      \* the queue, ready messages only
  worker,     \* each worker: where it is, its message, its connection
  created,    \* how many quotes each event has put in the quotes table
  announced,  \* how many QUOTE_CREATED it has put on the exchange
  processed,  \* the processed_events table
  settled,    \* what the broker was told about each message
  crashes, errors

tables == <<created, processed>>
faults == <<crashes, errors>>
vars == <<sent, queue, worker, created, announced, processed, settled,
          crashes, errors>>

Handling == {"check", "save", "publish", "markCheck", "markInsert"}
Pcs == {"down", "idle", "ack", "nack"} \cup Handling
Delivery == Msg \cup {OwnEvent}

Goto(w, pc) == worker' = [worker EXCEPT ![w].pc = pc]
Ev(w) == EventOf[worker[w].msg]
-----------------------------------------------------------------------------
\* Another service publishes a message.
Produce(m) ==
  /\ m \notin sent
  /\ sent' = sent \cup {m}
  /\ queue' = Append(queue, m)
  /\ UNCHANGED <<worker, tables, announced, settled, faults>>

\* (Mutant: auto_ack.)
AcksOnDelivery(w) ==
  /\ worker[w].pc = "idle"
  /\ queue # <<>>
  /\ queue' = Tail(queue)
  /\ worker' = [worker EXCEPT ![w].pc = "check", ![w].msg = Head(queue)]
  /\ settled' = [m \in Msg |-> IF m = Head(queue) THEN "acked" ELSE settled[m]]
  /\ UNCHANGED <<sent, tables, announced, faults>>

\* The broker hands the head of the queue to a worker that holds nothing.
Deliver(w) ==
  /\ worker[w].pc = "idle"
  /\ queue # <<>>
  /\ queue' = Tail(queue)
  /\ worker' = [worker EXCEPT ![w].pc = "check", ![w].msg = Head(queue)]
  /\ UNCHANGED <<sent, tables, announced, settled, faults>>

(* BillingIntegrationEventHandler.handle, between validate_event_message   *)
(* and the acknowledgement.                                                *)

\* (Mutant: is_processed is not asked.)
SkipsLookup(msg) ==
  IF msg = OwnEvent THEN "ack"
  ELSE IF TypeOf[msg] = "Invalid" THEN "nack"
  ELSE IF TypeOf[msg] = "Other" THEN "ack"
  ELSE IF TypeOf[msg] = "Incomplete" THEN "nack" ELSE "save"

\* What comes after the validation, is_processed, the type test and the look
\* into the payload: an event that was processed is not looked into again.
NextPc(msg) ==
  IF msg = OwnEvent THEN "ack"
  ELSE IF TypeOf[msg] = "Invalid" THEN "nack"
  ELSE IF EventOf[msg] \in processed \/ TypeOf[msg] = "Other" THEN "ack"
  ELSE IF TypeOf[msg] = "Incomplete" THEN "nack" ELSE "save"

Check(w) ==
  /\ worker[w].pc = "check"
  /\ Goto(w, NextPc(worker[w].msg))
  /\ UNCHANGED <<sent, queue, tables, announced, settled, faults>>

\* (Mutant: the mark is made with the save.)
MarksOnSave(w) ==
  /\ worker[w].pc = "save"
  /\ created' = [created EXCEPT ![Ev(w)] = @ + 1]
  /\ processed' = processed \cup {Ev(w)}
  /\ Goto(w, "publish")
  /\ UNCHANGED <<sent, queue, announced, settled, faults>>

\* (Mutant: one quote for each event.)
SaveRefusesSecond(w) ==
  /\ worker[w].pc = "save"
  /\ created' = [created EXCEPT ![Ev(w)] = 1]
  /\ Goto(w, IF created[Ev(w)] = 0 THEN "publish" ELSE "nack")
  /\ UNCHANGED <<sent, queue, announced, processed, settled, faults>>

\* CreateQuoteUseCase with the default items and amount, under a new quote
\* id whatever quotes the service order has.
SaveQuote(w) ==
  /\ worker[w].pc = "save"
  /\ created' = [created EXCEPT ![Ev(w)] = @ + 1]
  /\ Goto(w, "publish")
  /\ UNCHANGED <<sent, queue, announced, processed, settled, faults>>

\* (Mutant: the mark is skipped.)
PublishAndAck(w) ==
  /\ worker[w].pc = "publish"
  /\ announced' = [announced EXCEPT ![Ev(w)] = @ + 1]
  /\ queue' = Append(queue, OwnEvent)
  /\ Goto(w, "ack")
  /\ UNCHANGED <<sent, tables, settled, faults>>

Publish(w) ==
  /\ worker[w].pc = "publish"
  /\ announced' = [announced EXCEPT ![Ev(w)] = @ + 1]
  /\ queue' = Append(queue, OwnEvent)
  /\ Goto(w, "markCheck")
  /\ UNCHANGED <<sent, tables, settled, faults>>

\* mark_processed looks the event up again, in a transaction of its own ...
MarkCheck(w) ==
  /\ worker[w].pc = "markCheck"
  /\ Goto(w, IF Ev(w) \in processed THEN "ack" ELSE "markInsert")
  /\ UNCHANGED <<sent, queue, tables, announced, settled, faults>>

\* (Mutant: the message is marked in the place of its event.)
MarksMessage(w) ==
  /\ worker[w].pc = "markInsert"
  /\ processed' = processed \cup {worker[w].msg}
  /\ Goto(w, "ack")
  /\ UNCHANGED <<sent, queue, created, announced, settled, faults>>

\* ... and inserts: the primary key refuses a second row.
MarkInsert(w) ==
  /\ worker[w].pc = "markInsert"
  /\ processed' = processed \cup {Ev(w)}
  /\ Goto(w, IF Ev(w) \in processed THEN "nack" ELSE "ack")
  /\ UNCHANGED <<sent, queue, created, announced, settled, faults>>

(* RabbitMqBlockingEventWorker._handle_delivery.  On a connection the      *)
(* broker has closed, the acknowledgement raises, the nack in the handler  *)
(* of that raises too, start_consuming ends and the process exits.         *)

Settle(w, outcome) ==
  IF worker[w].connected
  THEN /\ Goto(w, "idle")
       /\ settled' = IF worker[w].msg = OwnEvent THEN settled
                     ELSE [settled EXCEPT ![worker[w].msg] = outcome]
  ELSE Goto(w, "down") /\ UNCHANGED settled

Ack(w) ==
  /\ worker[w].pc = "ack"
  /\ Settle(w, "acked")
  /\ UNCHANGED <<sent, queue, tables, announced, faults>>

\* (Mutant: requeue=True.)
NackRequeues(w) ==
  /\ worker[w].pc = "nack"
  /\ queue' = <<worker[w].msg>> \o queue
  /\ Goto(w, "idle")
  /\ UNCHANGED <<sent, tables, announced, settled, faults>>

Nack(w) ==
  /\ worker[w].pc = "nack"
  /\ Settle(w, "dropped")
  /\ UNCHANGED <<sent, queue, tables, announced, faults>>

\* A call of the handler raises: the database or the broker is away.  (That
\* a call takes effect and then raises is the step followed by this one.)
Fail(w) ==
  /\ worker[w].pc \in Handling
  /\ errors < MaxErrors
  /\ errors' = errors + 1
  /\ Goto(w, "nack")
  /\ UNCHANGED <<sent, queue, tables, announced, settled, crashes>>
-----------------------------------------------------------------------------
(* Crashes, lost connections, and the restart by Kubernetes.               *)

Holds(w) == worker[w].pc \notin {"down", "idle"} /\ worker[w].connected
Requeued(w) == IF Holds(w) THEN <<worker[w].msg>> \o queue ELSE queue

Crash(w) ==
  /\ worker[w].pc # "down"
  /\ crashes < MaxCrashes
  /\ crashes' = crashes + 1
  /\ queue' = Requeued(w)
  /\ Goto(w, "down")
  /\ UNCHANGED <<sent, tables, announced, settled, errors>>

\* The broker gives a busy worker up (it sends no heartbeats from inside its
\* callback) and requeues; the worker only learns of it at its ack.
DropConnection(w) ==
  /\ Holds(w)
  /\ crashes < MaxCrashes
  /\ crashes' = crashes + 1
  /\ queue' = Requeued(w)
  /\ worker' = [worker EXCEPT ![w].connected = FALSE]
  /\ UNCHANGED <<sent, tables, announced, settled, errors>>

Restart(w) ==
  /\ worker[w].pc = "down"
  /\ worker' = [worker EXCEPT ![w].pc = "idle", ![w].connected = TRUE]
  /\ UNCHANGED <<sent, queue, tables, announced, settled, faults>>
-----------------------------------------------------------------------------
Init ==
  /\ sent = {}
  /\ queue = <<>>
  /\ worker = [w \in Worker |-> [pc |-> "idle", msg |-> OwnEvent, connected |-> TRUE]]
  /\ created = [e \in Event |-> 0]
  /\ announced = [e \in Event |-> 0]
  /\ processed = {}
  /\ settled = [m \in Msg |-> "no"]
  /\ crashes = 0
  /\ errors = 0

WorkerStep(w) ==
  \/ Deliver(w) \/ Check(w) \/ SaveQuote(w) \/ Publish(w) \/ MarkCheck(w)
  \/ MarkInsert(w) \/ Ack(w) \/ Nack(w) \/ Restart(w)

Next ==
  \/ \E m \in Msg : Produce(m)
  \/ \E w \in Worker : WorkerStep(w) \/ Fail(w) \/ Crash(w) \/ DropConnection(w)

Spec == Init /\ [][Next]_vars

\* A worker that can go on does, and Kubernetes restarts one that exited.
FairSpec == Spec /\ \A w \in Worker : WF_vars(WorkerStep(w))
-----------------------------------------------------------------------------
(* Properties.                                                             *)

\* The type invariant.
TypeOK ==
  /\ sent \subseteq Msg
  /\ queue \in Seq(Delivery)
  /\ worker \in [Worker -> [pc : Pcs, msg : Delivery, connected : BOOLEAN]]
  /\ created \in [Event -> Nat]
  /\ announced \in [Event -> Nat]
  /\ processed \subseteq Event
  /\ settled \in [Msg -> {"no", "acked", "dropped"}]
  /\ crashes \in Nat
  /\ errors \in Nat

Opened == {m \in Msg : TypeOf[m] = "OS_OPENED"}

\* A published message is in exactly one place: once in the queue, with one
\* connected worker, or settled.
OnePlace ==
  \A m \in sent :
    Cardinality({i \in DOMAIN queue : queue[i] = m})
      + Cardinality({w \in Worker : Holds(w) /\ worker[w].msg = m})
      + (IF settled[m] = "no" THEN 0 ELSE 1) = 1

\* An event is marked as processed only once its quote is in the table and
\* announced (the order of the calls in handle).
ProcessedIsAnnounced ==
  \A e \in processed : created[e] >= announced[e] /\ announced[e] > 0

\* An OS_OPENED is acknowledged only once it is processed (README.md:109).
AckedIsProcessed ==
  \A m \in Opened : settled[m] = "acked" => EventOf[m] \in processed

\* As long as no exception comes out of the database or the broker, an
\* OS_OPENED that is refused has been processed nonetheless: by the worker
\* that won the insert into processed_events.
RefusedIsProcessed ==
  errors = 0 => \A m \in Opened : settled[m] = "dropped" => EventOf[m] \in processed

\* Redelivery multiplies quotes, but only so far: an event has at most one
\* quote for each worker, crash, lost connection and exception, however often
\* its publisher repeats it.  With a single worker and no fault,
\* processed_events makes the consumption idempotent.
QuotesBounded ==
  \A e \in Event : created[e] =< Cardinality(Worker) + crashes + errors

\* What README.md:132 and fase4-final.md:37 say of processed_events: the
\* consumption is idempotent.  (It is not: the mark is made after the quote
\* and in a transaction of its own.)
OneQuotePerEvent == \A e \in Event : created[e] =< 1

\* Every message is settled in the end: nothing blocks the queue.
EventuallySettled == []<>(\A m \in sent : settled[m] # "no")

\* Unless a call raises, every OS_OPENED ends in a quote that is announced and
\* an event that is marked, whatever crashes and connections are lost.
EventuallyProcessed ==
  []<>(errors > 0 \/ \A m \in sent \cap Opened : EventOf[m] \in processed)
=============================================================================
