-------------------------- MODULE RabbitPublisher --------------------------
(***************************************************************************)
(* RabbitMqBlockingEventPublisher in every replica of the API: publish     *)
(* opens a connection, writes one message, notes it in a list that lives   *)
(* in the process, and closes the connection, all under the replica's      *)
(* lock.  GET /events and POST /events/drain read and empty the list of    *)
(* the replica that the load balancer picks.                               *)
(*                                                                         *)
(* The broker is modelled from how pika is used: a write is in flight      *)
(* until the broker reads it, the close handshake waits for that, and no   *)
(* publisher confirm is asked for.  When a connection is cut what was in   *)
(* flight may be read late or be lost.                                     *)
(***************************************************************************)
EXTENDS Naturals, Sequences

CONSTANTS
  Event,        \* the domain events, each published by one call
  Replica,
  Caller,       \* the threads of the replicas
  ReplicaOf,    \* the replica of a thread
  Free,         \* what the lock holds when nobody does
  NoEvent,
  MaxReads,     \* bound on the calls of list and drain
  MaxCuts,      \* bound on the connections cut
  MaxRestarts   \* bound on the replicas that go away

ASSUME ConstantsAssumption ==
  /\ ReplicaOf \in [Caller -> Replica]
  /\ Free \notin Caller
  /\ NoEvent \notin Event
  /\ MaxReads \in Nat
  /\ MaxCuts \in Nat
  /\ MaxRestarts \in Nat

VARIABLES
  lock,      \* who holds the lock of each replica
  messages,  \* _messages of each replica
  call,      \* what each thread does: its step, its event, its copy, its connection
  outcome,   \* how the publish call of each event went
  flight,    \* the events written and not yet read by the broker
  exchange,  \* the events the broker has read, in order
  taken,     \* what the drains of each replica have taken from its list
  cut,       \* the events whose connection was cut while they were published
  gone,      \* the events in the list of a replica that went away
  reads, cuts, restarts

broker == <<flight, exchange>>
counts == <<reads, cuts, restarts>>
vars == <<lock, messages, call, outcome, flight, exchange, taken, cut, gone,
          reads, cuts, restarts>>

Log == INSTANCE EventLog WITH kept <- messages

\* The steps that wait for the lock, and those that hold it.
AfterLock == [waitPublish |-> "connect", waitList |-> "list", waitDrain |-> "copy"]
Waiting == DOMAIN AfterLock
Sending == {"send", "sent", "close"}
Holding == {"connect", "list", "copy", "clear"} \cup Sending

Conns == {"none", "open", "cut"}
Idle == [pc |-> "idle", event |-> NoEvent, copy |-> <<>>, conn |-> "none"]

Mine(c) == messages[ReplicaOf[c]]
Goto(c, pc) == call' = [call EXCEPT ![c].pc = pc]
Return(c) ==
  /\ call' = [call EXCEPT ![c] = Idle]
  /\ lock' = [lock EXCEPT ![ReplicaOf[c]] = Free]
-----------------------------------------------------------------------------
\* A use case calls publish; the load balancer sends a GET /events or a
\* POST /events/drain of an admin to one of the replicas.
BeginPublish(c, e) ==
  /\ call[c].pc = "idle"
  /\ outcome[e] = "new"
  /\ outcome' = [outcome EXCEPT ![e] = "calling"]
  /\ call' = [call EXCEPT ![c].pc = "waitPublish", ![c].event = e]
  /\ UNCHANGED <<lock, messages, broker, taken, cut, gone, counts>>

BeginRead(c, pc) ==
  /\ call[c].pc = "idle"
  /\ reads < MaxReads
  /\ reads' = reads + 1
  /\ Goto(c, pc)
  /\ UNCHANGED <<lock, messages, outcome, broker, taken, cut, gone, cuts, restarts>>

\* with self._lock
Acquire(c) ==
  /\ call[c].pc \in Waiting
  /\ lock[ReplicaOf[c]] = Free
  /\ lock' = [lock EXCEPT ![ReplicaOf[c]] = c]
  /\ Goto(c, AfterLock[call[c].pc])
  /\ UNCHANGED <<messages, outcome, broker, taken, cut, gone, counts>>
-----------------------------------------------------------------------------
(* publish.                                                                *)

\* The connection, the channel and its declarations: any of them may raise,
\* outside the try.
BuildPublisher(c) ==
  /\ call[c].pc = "connect"
  /\ call' = [call EXCEPT ![c].pc = "send", ![c].conn = "open"]
  /\ UNCHANGED <<lock, messages, outcome, broker, taken, cut, gone, counts>>

\* (Mutant: a lock without the with statement.)
KeepsLock(c) ==
  /\ call[c].pc = "connect"
  /\ outcome' = [outcome EXCEPT ![call[c].event] = "error"]
  /\ call' = [call EXCEPT ![c] = Idle]
  /\ UNCHANGED <<lock, messages, broker, taken, cut, gone, counts>>

BuildFails(c) ==
  /\ call[c].pc = "connect"
  /\ outcome' = [outcome EXCEPT ![call[c].event] = "error"]
  /\ Return(c)
  /\ UNCHANGED <<messages, broker, taken, cut, gone, counts>>

\* basic_publish: what is written on a connection that was cut goes nowhere.
Send(c) ==
  /\ call[c].pc = "send"
  /\ flight' = IF call[c].conn = "open" THEN flight \cup {call[c].event} ELSE flight
  /\ Goto(c, "sent")
  /\ UNCHANGED <<lock, messages, outcome, exchange, taken, cut, gone, counts>>

\* (Mutant: the exception is swallowed.)
SwallowsError(c) ==
  /\ call[c].pc \in {"send", "sent"}
  /\ call[c].conn = "cut"
  /\ Goto(c, "close")
  /\ UNCHANGED <<lock, messages, outcome, broker, taken, cut, gone, counts>>

\* It raises, before or after the write, if it notices the cut.
SendFails(c) ==
  /\ call[c].pc \in {"send", "sent"}
  /\ call[c].conn = "cut"
  /\ outcome' = [outcome EXCEPT ![call[c].event] = "error"]
  /\ Goto(c, "close")
  /\ UNCHANGED <<lock, messages, broker, taken, cut, gone, counts>>

\* self._messages.append.
Record(c) ==
  /\ call[c].pc = "sent"
  /\ messages' = [messages EXCEPT ![ReplicaOf[c]] = Append(@, call[c].event)]
  /\ Goto(c, "close")
  /\ UNCHANGED <<lock, outcome, broker, taken, cut, gone, counts>>

Ended(e, result) ==
  outcome' = [outcome EXCEPT ![e] = IF @ = "calling" THEN result ELSE @]

\* (Mutant: the connection is left to close by itself.)
ClosesAtOnce(c) ==
  /\ call[c].pc = "close"
  /\ Ended(call[c].event, "ok")
  /\ Return(c)
  /\ UNCHANGED <<messages, broker, taken, cut, gone, counts>>

\* finally: the close handshake, which the broker answers after it has read
\* what was written; or nothing, if the connection is known to be closed; or
\* another exception, if that shows only now.
Close(c) ==
  /\ call[c].pc = "close"
  /\ call[c].conn = "open" => call[c].event \notin flight
  /\ Ended(call[c].event, "ok")
  /\ Return(c)
  /\ UNCHANGED <<messages, broker, taken, cut, gone, counts>>

CloseFails(c) ==
  /\ call[c].pc = "close"
  /\ call[c].conn = "cut"
  /\ Ended(call[c].event, "error")
  /\ Return(c)
  /\ UNCHANGED <<messages, broker, taken, cut, gone, counts>>
-----------------------------------------------------------------------------
(* published_messages and drain.                                           *)

List(c) ==
  /\ call[c].pc = "list"
  /\ Return(c)
  /\ UNCHANGED <<messages, outcome, broker, taken, cut, gone, counts>>

\* (Mutant: only the copy is made under the lock.)
CopyReleases(c) ==
  /\ call[c].pc = "copy"
  /\ call' = [call EXCEPT ![c].pc = "clear", ![c].copy = Mine(c)]
  /\ lock' = [lock EXCEPT ![ReplicaOf[c]] = Free]
  /\ UNCHANGED <<messages, outcome, broker, taken, cut, gone, counts>>

Copy(c) ==
  /\ call[c].pc = "copy"
  /\ call' = [call EXCEPT ![c].pc = "clear", ![c].copy = Mine(c)]
  /\ UNCHANGED <<lock, messages, outcome, broker, taken, cut, gone, counts>>

\* The drain answers with its copy.
Clear(c) ==
  /\ call[c].pc = "clear"
  /\ messages' = [messages EXCEPT ![ReplicaOf[c]] = <<>>]
  /\ taken' = [taken EXCEPT ![ReplicaOf[c]] = @ \o call[c].copy]
  /\ Return(c)
  /\ UNCHANGED <<outcome, broker, cut, gone, counts>>
-----------------------------------------------------------------------------
(* The broker, the network and Kubernetes.                                 *)

BrokerReads(e) ==
  /\ e \in flight
  /\ flight' = flight \ {e}
  /\ exchange' = Append(exchange, e)
  /\ UNCHANGED <<lock, messages, call, outcome, taken, cut, gone, counts>>

FlightLost(e) ==
  /\ e \in flight \cap cut
  /\ flight' = flight \ {e}
  /\ UNCHANGED <<lock, messages, call, outcome, exchange, taken, cut, gone, counts>>

Cut(c) ==
  /\ cuts < MaxCuts
  /\ cuts' = cuts + 1
  /\ call[c].conn = "open"
  /\ call' = [call EXCEPT ![c].conn = "cut"]
  /\ cut' = cut \cup {call[c].event}
  /\ UNCHANGED <<lock, messages, outcome, broker, taken, gone, reads, restarts>>

\* A replica goes away with its list and its threads, and another takes its
\* place.
Restart(r) ==
  LET mine == {c \in Caller : ReplicaOf[c] = r}
      open == {call[c].event : c \in {d \in mine : call[d].event # NoEvent}}
  IN  /\ restarts < MaxRestarts
      /\ restarts' = restarts + 1
      /\ call' = [c \in Caller |-> IF c \in mine THEN Idle ELSE call[c]]
      /\ outcome' = [e \in Event |-> IF e \in open THEN "error" ELSE outcome[e]]
      /\ lock' = [lock EXCEPT ![r] = Free]
      /\ messages' = [messages EXCEPT ![r] = <<>>]
      /\ gone' = gone \cup Log!Members(messages[r])
      /\ cut' = cut \cup open
      /\ UNCHANGED <<broker, taken, reads, cuts>>
-----------------------------------------------------------------------------
Init ==
  /\ lock = [r \in Replica |-> Free]
  /\ messages = [r \in Replica |-> <<>>]
  /\ call = [c \in Caller |-> Idle]
  /\ outcome = [e \in Event |-> "new"]
  /\ flight = {} /\ exchange = <<>>
  /\ taken = [r \in Replica |-> <<>>]
  /\ cut = {} /\ gone = {}
  /\ reads = 0 /\ cuts = 0 /\ restarts = 0

\* What a thread does once its call has begun.
Works(c) ==
  \/ Acquire(c)
  \/ BuildPublisher(c) \/ BuildFails(c)
  \/ Send(c) \/ SendFails(c) \/ Record(c)
  \/ Close(c) \/ CloseFails(c)
  \/ List(c) \/ Copy(c) \/ Clear(c)

Next ==
  \/ \E c \in Caller :
       \/ \E e \in Event : BeginPublish(c, e)
       \/ BeginRead(c, "waitList") \/ BeginRead(c, "waitDrain")
       \/ Works(c)
       \/ Cut(c)
  \/ \E e \in Event : BrokerReads(e) \/ FlightLost(e)
  \/ \E r \in Replica : Restart(r)

Spec == Init /\ [][Next]_vars

\* A thread that can go on does, pika's socket timeouts included, and the
\* broker reads what it receives.  The lock is not fair: it is enough that
\* the calls that compete for it are bounded.
FairSpec ==
  /\ Spec
  /\ \A c \in Caller : WF_vars(Works(c))
  /\ \A e \in Event : WF_vars(BrokerReads(e))
-----------------------------------------------------------------------------
\* The types of the variables.
TypeOK ==
  /\ lock \in [Replica -> Caller \cup {Free}]
  /\ messages \in [Replica -> Seq(Event)]
  /\ call \in [Caller -> [pc : {"idle"} \cup Waiting \cup Holding,
                          event : Event \cup {NoEvent},
                          copy : Seq(Event), conn : Conns]]
  /\ outcome \in [Event -> {"new", "calling", "ok", "error"}]
  /\ flight \subseteq Event
  /\ exchange \in Seq(Event)
  /\ taken \in [Replica -> Seq(Event)]
  /\ cut \subseteq Event
  /\ gone \subseteq Event
  /\ reads \in Nat /\ cuts \in Nat /\ restarts \in Nat

Listed == UNION {Log!Members(messages[r]) : r \in Replica}
Taken == UNION {Log!Members(taken[r]) : r \in Replica}
Publishing(e) == \E c \in Caller : call[c].event = e

\* An event whose publish returned stays in the list of its replica until a
\* drain takes it or the replica goes away: publish notes the event under
\* the lock that drain copies and clears under.
ReturnedIsKept ==
  \A e \in Event : outcome[e] = "ok" => e \in Listed \cup Taken \cup gone

\* An event that /events has listed, and whose publish call is over, has
\* reached the exchange, unless its connection was cut: there are no
\* confirms, and the close handshake takes their place.
ListedIsReceived ==
  \A e \in (Listed \cup Taken \cup gone) \ cut :
    Publishing(e) \/ e \in Log!Members(exchange)

\* The events of a replica reach the exchange in the order of its list, when
\* no connection is cut: a publish call ends before the next one writes.
ListOrderIsExchangeOrder ==
  \A r \in Replica :
    LET list == taken[r] \o messages[r]
    IN  \A i, j \in DOMAIN list :
          i < j /\ list[i] \notin cut /\ list[j] \in Log!Members(exchange)
            => \E k, l \in DOMAIN exchange :
                 k < l /\ exchange[k] = list[i] /\ exchange[l] = list[j]

\* The lists and their drains behave as one log for each replica, with its
\* drains as single steps.
ImplementsLog == Log!Spec

\* Every call ends: no outcome of a step leaves the lock behind.
CallsEnd == \A c \in Caller : call[c].pc # "idle" ~> call[c].pc = "idle"
=============================================================================
