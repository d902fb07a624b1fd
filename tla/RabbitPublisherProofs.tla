------------------------ MODULE RabbitPublisherProofs ------------------------
(***************************************************************************)
(* The invariants of RabbitPublisher, for every number of replicas,        *)
(* threads, events and faults, and that the lists it keeps implement       *)
(* EventLog.                                                               *)
(*                                                                         *)
(* The argument is about one lock: a thread that publishes or drains holds *)
(* the lock of its replica, so the list it is about to copy, clear or      *)
(* extend is still the one it saw.                                         *)
(***************************************************************************)
EXTENDS RabbitPublisher, SequenceTheorems, TLAPS

\* Every event that was ever in a list, and every one the broker has read.
Recorded == Listed \cup Taken \cup gone
Received == Log!Members(exchange)

Publishes == {"waitPublish", "connect", "send", "sent", "close"}

\* What a thread relies on at each of its steps.
CallOk(c) ==
  /\ call[c].pc \in Holding => lock[ReplicaOf[c]] = c
  /\ call[c].event # NoEvent <=> call[c].pc \in Publishes
  /\ call[c].pc \in Publishes \ {"close"} => outcome[call[c].event] = "calling"
  /\ call[c].pc = "close" => \/ outcome[call[c].event] = "error"
                             \/ /\ outcome[call[c].event] = "calling"
                                /\ call[c].event \in Recorded
  /\ call[c].pc = "clear" => call[c].copy = Mine(c)

\* What it has written is on its way or was read, unless its connection was
\* cut.
ConnOk(c) ==
  /\ call[c].pc \in Sending <=> call[c].conn # "none"
  /\ call[c].conn = "cut" => call[c].event \in cut
  /\ call[c].pc \in {"sent", "close"} => call[c].event \in flight \cup Received \cup cut

\* An event is published by one call, and is in a list only from then on.
OneCall ==
  \A c, d \in Caller : call[c].event # NoEvent /\ call[c].event = call[d].event => c = d
RecordedLate ==
  \A e \in Recorded : /\ outcome[e] # "new"
                      /\ \A c \in Caller : call[c].event = e => call[c].pc = "close"

IInv ==
  /\ TypeOK
  /\ \A c \in Caller : CallOk(c) /\ ConnOk(c)
  /\ OneCall
  /\ RecordedLate
  /\ ReturnedIsKept
  /\ ListedIsReceived

-----------------------------------------------------------------------------
(* What a step of a thread c leaves to the others, and what it owes.       *)

OthersSame(c) ==
  /\ call' = [call EXCEPT ![c] = call'[c]]
  /\ \A d \in Caller \ {c} :
       /\ call[d].pc \in Holding => lock'[ReplicaOf[d]] = lock[ReplicaOf[d]]
       /\ call[d].pc = "clear" => Mine(d)' = Mine(d)

\* It changes the outcome of its own event alone, and takes on a new one only
\* between two calls.
OwnEvent(c) ==
  /\ \A e \in Event \ {call[c].event, call'[c].event} : outcome'[e] = outcome[e]
  /\ \/ call'[c].event \in {call[c].event, NoEvent}
     \/ /\ call[c].event = NoEvent /\ call'[c].event \in Event
        /\ outcome[call'[c].event] = "new" /\ outcome'[call'[c].event] = "calling"

\* Events only move on.
MovesOn ==
  /\ Recorded \subseteq Recorded'
  /\ Received \subseteq Received' /\ cut \subseteq cut'
  /\ flight \cup Received \cup cut \subseteq flight' \cup Received' \cup cut'

Owes(c) ==
  LET e == call[c].event
  IN  /\ Recorded' \subseteq Recorded \cup ({e} \ {NoEvent})
      /\ e \in Recorded' => /\ outcome'[e] # "new"
                            /\ call'[c].event = e => call'[c].pc = "close"
      /\ e \in Event /\ outcome'[e] = "ok" => e \in Recorded'
      /\ e \in Recorded' \ cut' => call'[c].event = e \/ e \in Received'

ThreadStep(c) ==
  /\ OthersSame(c) /\ OwnEvent(c) /\ MovesOn /\ Owes(c)
  /\ CallOk(c)' /\ ConnOk(c)'

-----------------------------------------------------------------------------
(* Lemmas about sequences and about the state functions above.             *)

\* Appending adds one member, and concatenating joins the members.
LEMMA MembersAppend ==
  ASSUME NEW S, NEW list \in Seq(S), NEW e
  PROVE  Log!Members(Append(list, e)) = Log!Members(list) \cup {e}
<1>1. DOMAIN Append(list, e) = 1..(Len(list) + 1) /\ DOMAIN list = 1..Len(list)
      /\ Len(list) \in Nat
  OBVIOUS
<1>2. \A i \in 1..Len(list) : Append(list, e)[i] = list[i]
  OBVIOUS
<1>3. Append(list, e)[Len(list) + 1] = e
  OBVIOUS
<1>4. ASSUME NEW x \in Log!Members(Append(list, e)) PROVE x \in Log!Members(list) \cup {e}
  <2>1. PICK i \in 1..(Len(list) + 1) : x = Append(list, e)[i]
    BY <1>1, <1>4 DEF Log!Members
  <2>2. CASE i = Len(list) + 1
    BY <2>1, <2>2, <1>3
  <2>3. CASE i \in 1..Len(list)
    BY <2>1, <2>3, <1>1, <1>2 DEF Log!Members
  <2> QED
    BY <1>1, <2>1, <2>2, <2>3
<1>5. ASSUME NEW x \in Log!Members(list) \cup {e} PROVE x \in Log!Members(Append(list, e))
  <2>1. CASE x = e
    <3>1. Len(list) + 1 \in DOMAIN Append(list, e)
      BY <1>1
    <3> QED
      BY <3>1, <2>1, <1>3 DEF Log!Members
  <2>2. CASE x \in Log!Members(list)
    <3>1. PICK i \in 1..Len(list) : x = list[i]
      BY <2>2, <1>1 DEF Log!Members
    <3>2. i \in DOMAIN Append(list, e)
      BY <1>1
    <3> QED
      BY <3>1, <3>2, <1>2 DEF Log!Members
  <2> QED
    BY <1>5, <2>1, <2>2
<1> QED
  BY <1>4, <1>5

LEMMA MembersConcat ==
  ASSUME NEW S, NEW a \in Seq(S), NEW b \in Seq(S)
  PROVE  Log!Members(a \o b) = Log!Members(a) \cup Log!Members(b)
<1>1. /\ DOMAIN (a \o b) = 1..(Len(a) + Len(b)) /\ DOMAIN a = 1..Len(a)
      /\ DOMAIN b = 1..Len(b) /\ Len(a) \in Nat /\ Len(b) \in Nat
  OBVIOUS
<1>2. \A i \in 1..Len(a) : (a \o b)[i] = a[i]
  OBVIOUS
<1>3. \A i \in 1..Len(b) : (a \o b)[Len(a) + i] = b[i]
  OBVIOUS
<1>4. ASSUME NEW x \in Log!Members(a \o b) PROVE x \in Log!Members(a) \cup Log!Members(b)
  <2>1. PICK i \in 1..(Len(a) + Len(b)) : x = (a \o b)[i]
    BY <1>1, <1>4 DEF Log!Members
  <2>2. CASE i \in 1..Len(a)
    BY <2>1, <2>2, <1>1, <1>2 DEF Log!Members
  <2>3. CASE i - Len(a) \in 1..Len(b)
    <3>1. x = b[i - Len(a)]
      <4>1. i = Len(a) + (i - Len(a))
        BY <1>1
      <4> QED
        BY <4>1, <2>1, <2>3, <1>3
    <3> QED
      BY <3>1, <2>3, <1>1 DEF Log!Members
  <2> QED
    BY <1>1, <2>1, <2>2, <2>3
<1>5. ASSUME NEW x \in Log!Members(a) PROVE x \in Log!Members(a \o b)
  <2>1. PICK i \in 1..Len(a) : x = a[i]
    BY <1>5, <1>1 DEF Log!Members
  <2>2. i \in DOMAIN (a \o b)
    BY <1>1
  <2> QED
    BY <2>1, <2>2, <1>2 DEF Log!Members
<1>6. ASSUME NEW x \in Log!Members(b) PROVE x \in Log!Members(a \o b)
  <2>1. PICK i \in 1..Len(b) : x = b[i]
    BY <1>6, <1>1 DEF Log!Members
  <2>2. Len(a) + i \in DOMAIN (a \o b)
    BY <1>1
  <2> QED
    BY <2>1, <2>2, <1>3 DEF Log!Members
<1> QED
  BY <1>4, <1>5, <1>6

\* Nothing but Record adds to Recorded, and nothing takes from it: a drain
\* and a restart only move events.
LEMMA RecordedSame ==
  ASSUME UNCHANGED <<messages, taken, gone>>
  PROVE  Recorded' = Recorded
BY DEF Recorded, Listed, Taken

LEMMA RecordAdds ==
  ASSUME ConstantsAssumption, TypeOK, NEW c \in Caller, Record(c)
  PROVE  Recorded' = Recorded \cup {call[c].event}
<1> DEFINE r == ReplicaOf[c]
<1>1. r \in Replica /\ messages \in [Replica -> Seq(Event)]
  BY DEF ConstantsAssumption, TypeOK
<1>2. messages' = [messages EXCEPT ![r] = Append(@, call[c].event)]
      /\ taken' = taken /\ gone' = gone
  BY DEF Record
<1>3. messages'[r] = Append(messages[r], call[c].event)
      /\ \A s \in Replica \ {r} : messages'[s] = messages[s]
  BY <1>1, <1>2
<1>4. Log!Members(messages'[r]) = Log!Members(messages[r]) \cup {call[c].event}
  BY <1>1, <1>3, MembersAppend
<1> HIDE DEF r
<1>5. Listed' = Listed \cup {call[c].event}
  <2>1. \A x : x \in Listed' <=> \E s \in Replica : x \in Log!Members(messages'[s])
    BY DEF Listed
  <2>2. \A x : x \in Listed <=> \E s \in Replica : x \in Log!Members(messages[s])
    BY DEF Listed
  <2>3. \A s \in Replica \ {r} : Log!Members(messages'[s]) = Log!Members(messages[s])
    BY <1>3
  <2> QED
    BY <1>1, <1>4, <2>1, <2>2, <2>3
<1>6. Taken' = Taken
  BY <1>2 DEF Taken
<1> QED
  BY <1>2, <1>5, <1>6 DEF Recorded

LEMMA ClearMoves ==
  ASSUME ConstantsAssumption, TypeOK, NEW c \in Caller, Clear(c), call[c].copy = Mine(c)
  PROVE  Recorded' = Recorded
<1> DEFINE r == ReplicaOf[c]
<1>1. r \in Replica /\ messages \in [Replica -> Seq(Event)] /\ taken \in [Replica -> Seq(Event)]
  BY DEF ConstantsAssumption, TypeOK
<1>2. /\ messages' = [messages EXCEPT ![r] = <<>>]
      /\ taken' = [taken EXCEPT ![r] = @ \o messages[r]]
      /\ gone' = gone
  BY DEF Clear, Mine
<1>3. /\ messages'[r] = <<>> /\ taken'[r] = taken[r] \o messages[r]
      /\ \A s \in Replica \ {r} : messages'[s] = messages[s] /\ taken'[s] = taken[s]
  BY <1>1, <1>2
<1>4. /\ Log!Members(messages'[r]) = {}
      /\ Log!Members(taken'[r]) = Log!Members(taken[r]) \cup Log!Members(messages[r])
  <2>1. Log!Members(messages'[r]) = {}
    BY <1>3 DEF Log!Members
  <2> QED
    BY <2>1, <1>1, <1>3, MembersConcat
<1> HIDE DEF r
<1>5. \A x : x \in Listed \cup Taken <=>
             \E s \in Replica : x \in Log!Members(messages[s]) \/ x \in Log!Members(taken[s])
  BY DEF Listed, Taken
<1>6. \A x : x \in (Listed \cup Taken)' <=>
             \E s \in Replica : x \in Log!Members(messages'[s]) \/ x \in Log!Members(taken'[s])
  BY DEF Listed, Taken
<1>7. \A s \in Replica \ {r} : /\ Log!Members(messages'[s]) = Log!Members(messages[s])
                               /\ Log!Members(taken'[s]) = Log!Members(taken[s])
  BY <1>3
<1>8. (Listed \cup Taken)' = Listed \cup Taken
  BY <1>1, <1>4, <1>5, <1>6, <1>7
<1> QED
  BY <1>2, <1>8 DEF Recorded

LEMMA RestartMoves ==
  ASSUME ConstantsAssumption, TypeOK, NEW r \in Replica, Restart(r)
  PROVE  Recorded' = Recorded
<1>1. /\ messages' = [messages EXCEPT ![r] = <<>>]
      /\ taken' = taken
      /\ gone' = gone \cup Log!Members(messages[r])
  BY DEF Restart
<1>2. messages'[r] = <<>> /\ \A s \in Replica \ {r} : messages'[s] = messages[s]
  BY <1>1 DEF TypeOK
<1>3. Log!Members(messages'[r]) = {}
  BY <1>2 DEF Log!Members
<1>4. \A x : x \in Listed' <=> \E s \in Replica : x \in Log!Members(messages'[s])
  BY DEF Listed
<1>5. \A x : x \in Listed <=> \E s \in Replica : x \in Log!Members(messages[s])
  BY DEF Listed
<1>6. \A s \in Replica \ {r} : Log!Members(messages'[s]) = Log!Members(messages[s])
  BY <1>2
<1>7. Listed = Listed' \cup Log!Members(messages[r])
  BY <1>3, <1>4, <1>5, <1>6
<1>8. Taken' = Taken
  BY <1>1 DEF Taken
<1> QED
  BY <1>1, <1>7, <1>8 DEF Recorded

-----------------------------------------------------------------------------
(* Type correctness.                                                       *)

Calls == [pc : {"idle"} \cup Waiting \cup Holding, event : Event \cup {NoEvent},
          copy : Seq(Event), conn : Conns]

\* Assigning fields of a call keeps it a call.
LEMMA FieldsKeepType ==
  ASSUME NEW P, NEW E, NEW S, NEW N, NEW k \in [pc : P, event : E, copy : S, conn : N],
         NEW p \in P, NEW e \in E, NEW s \in S, NEW n \in N
  PROVE  /\ [k EXCEPT !.pc = p] \in [pc : P, event : E, copy : S, conn : N]
         /\ [k EXCEPT !.pc = p, !.event = e] \in [pc : P, event : E, copy : S, conn : N]
         /\ [k EXCEPT !.pc = p, !.copy = s] \in [pc : P, event : E, copy : S, conn : N]
         /\ [k EXCEPT !.pc = p, !.conn = n] \in [pc : P, event : E, copy : S, conn : N]
         /\ [k EXCEPT !.conn = n] \in [pc : P, event : E, copy : S, conn : N]
OBVIOUS

LEMMA CallFields ==
  ASSUME NEW k \in Calls, NEW p \in {"idle"} \cup Waiting \cup Holding,
         NEW e \in Event \cup {NoEvent}, NEW s \in Seq(Event), NEW n \in Conns
  PROVE  /\ [k EXCEPT !.pc = p] \in Calls
         /\ [k EXCEPT !.pc = p, !.event = e] \in Calls
         /\ [k EXCEPT !.pc = p, !.copy = s] \in Calls
         /\ [k EXCEPT !.pc = p, !.conn = n] \in Calls
         /\ [k EXCEPT !.conn = n] \in Calls
BY FieldsKeepType DEF Calls

LEMMA IdleCall == Idle \in Calls
<1>1. <<>> \in Seq(Event)
  OBVIOUS
<1> QED
  BY <1>1 DEF Idle, Calls, Conns

LEMMA TypeInit == Init => TypeOK
<1>1. <<>> \in Seq(Event)
  OBVIOUS
<1> QED
  BY <1>1, IdleCall DEF Init, TypeOK, Calls

LEMMA TypeStep ==
  ASSUME ConstantsAssumption, TypeOK, [Next]_vars,
         \A c \in Caller : CallOk(c) /\ ConnOk(c)
  PROVE  TypeOK'
<1>0. /\ lock \in [Replica -> Caller \cup {Free}]
      /\ messages \in [Replica -> Seq(Event)]
      /\ call \in [Caller -> Calls]
      /\ outcome \in [Event -> {"new", "calling", "ok", "error"}]
      /\ flight \subseteq Event
      /\ exchange \in Seq(Event)
      /\ taken \in [Replica -> Seq(Event)]
      /\ cut \subseteq Event
      /\ gone \subseteq Event
      /\ reads \in Nat /\ cuts \in Nat /\ restarts \in Nat
  BY DEF TypeOK, Calls
<1>1. \A c \in Caller : ReplicaOf[c] \in Replica
  BY DEF ConstantsAssumption
<1>2. \A c \in Caller : call[c].pc \in Publishes => call[c].event \in Event
  BY <1>0 DEF Calls, CallOk
<1>a. <<>> \in Seq(Event) /\ NoEvent \in Event \cup {NoEvent} /\ "none" \in Conns
  BY DEF Conns
<1>3. ASSUME NEW c \in Caller, NEW pc \in {"idle"} \cup Waiting \cup Holding, Goto(c, pc)
      PROVE  call' \in [Caller -> Calls]
  <2>1. call' = [call EXCEPT ![c] = [call[c] EXCEPT !.pc = pc]]
    BY <1>0, <1>3 DEF Goto
  <2>2. [call[c] EXCEPT !.pc = pc] \in Calls
    BY <1>0, <1>a, CallFields
  <2> QED
    BY <1>0, <2>1, <2>2
<1>4. ASSUME NEW c \in Caller, Return(c)
      PROVE  call' \in [Caller -> Calls] /\ lock' \in [Replica -> Caller \cup {Free}]
  BY <1>0, <1>1, <1>4, IdleCall DEF Return
<1>5. ASSUME NEW c \in Caller, NEW e \in Event, BeginPublish(c, e) PROVE TypeOK'
  <2>1. "waitPublish" \in Waiting
    BY DEF Waiting, AfterLock
  <2>2. call' \in [Caller -> Calls]
    <3>1. call' = [call EXCEPT ![c] = [call[c] EXCEPT !.pc = "waitPublish", !.event = e]]
      BY <1>0, <1>5 DEF BeginPublish, Calls
    <3>2. [call[c] EXCEPT !.pc = "waitPublish", !.event = e] \in Calls
      BY <1>0, <1>a, <2>1, CallFields
    <3> QED
      BY <1>0, <3>1, <3>2
  <2> QED
    BY <1>0, <1>5, <2>2 DEF BeginPublish, TypeOK, Calls, broker, counts
<1>6. ASSUME NEW c \in Caller, NEW pc \in {"waitList", "waitDrain"}, BeginRead(c, pc)
      PROVE  TypeOK'
  <2>1. call' \in [Caller -> Calls]
    BY <1>3, <1>6 DEF BeginRead, Waiting, AfterLock
  <2> QED
    BY <1>0, <1>6, <2>1 DEF BeginRead, TypeOK, Calls, broker
<1>7. ASSUME NEW c \in Caller, Acquire(c) PROVE TypeOK'
  <2>1. AfterLock[call[c].pc] \in Holding
    BY <1>7 DEF Acquire, Waiting, AfterLock, Holding
  <2>2. call' \in [Caller -> Calls]
    BY <2>1, <1>3, <1>7 DEF Acquire
  <2>3. lock' \in [Replica -> Caller \cup {Free}]
    BY <1>0, <1>1, <1>7 DEF Acquire
  <2> QED
    BY <1>0, <1>7, <2>2, <2>3 DEF Acquire, TypeOK, Calls, broker, counts
<1>8. ASSUME NEW c \in Caller, BuildPublisher(c) PROVE TypeOK'
  <2>1. "send" \in Holding /\ "open" \in Conns
    BY DEF Holding, Sending, Conns
  <2>2. call' \in [Caller -> Calls]
    <3>1. call' = [call EXCEPT ![c] = [call[c] EXCEPT !.pc = "send", !.conn = "open"]]
      BY <1>0, <1>8 DEF BuildPublisher
    <3>2. [call[c] EXCEPT !.pc = "send", !.conn = "open"] \in Calls
      BY <1>0, <1>a, <2>1, CallFields
    <3> QED
      BY <1>0, <3>1, <3>2
  <2> QED
    BY <1>0, <1>8, <2>2 DEF BuildPublisher, TypeOK, Calls, broker, counts
<1>9. ASSUME NEW c \in Caller, BuildFails(c) PROVE TypeOK'
  BY <1>0, <1>4, <1>9 DEF BuildFails, TypeOK, Calls, broker, counts
<1>10. ASSUME NEW c \in Caller, Send(c) PROVE TypeOK'
  <2>1. call' \in [Caller -> Calls]
    BY <1>3, <1>10 DEF Send, Holding, Sending
  <2>2. flight' \subseteq Event
    BY <1>0, <1>2, <1>10 DEF Send, Publishes
  <2> QED
    BY <1>0, <1>10, <2>1, <2>2 DEF Send, TypeOK, Calls, counts
<1>11. ASSUME NEW c \in Caller, SendFails(c) PROVE TypeOK'
  <2>1. call' \in [Caller -> Calls]
    BY <1>3, <1>11 DEF SendFails, Holding, Sending
  <2> QED
    BY <1>0, <1>11, <2>1 DEF SendFails, TypeOK, Calls, broker, counts
<1>12. ASSUME NEW c \in Caller, Record(c) PROVE TypeOK'
  <2>1. call' \in [Caller -> Calls]
    BY <1>3, <1>12 DEF Record, Holding, Sending
  <2>2. call[c].event \in Event
    BY <1>2, <1>12 DEF Record, Publishes
  <2>3. messages' \in [Replica -> Seq(Event)]
    BY <1>0, <1>1, <1>12, <2>2 DEF Record
  <2> QED
    BY <1>0, <1>12, <2>1, <2>3 DEF Record, TypeOK, Calls, broker, counts
<1>13. ASSUME NEW c \in Caller, Close(c) PROVE TypeOK'
  BY <1>0, <1>4, <1>13 DEF Close, Ended, TypeOK, Calls, broker, counts
<1>14. ASSUME NEW c \in Caller, CloseFails(c) PROVE TypeOK'
  BY <1>0, <1>4, <1>14 DEF CloseFails, Ended, TypeOK, Calls, broker, counts
<1>15. ASSUME NEW c \in Caller, List(c) PROVE TypeOK'
  BY <1>0, <1>4, <1>15 DEF List, TypeOK, Calls, broker, counts
<1>16. ASSUME NEW c \in Caller, Copy(c) PROVE TypeOK'
  <2>1. Mine(c) \in Seq(Event)
    BY <1>0, <1>1 DEF Mine
  <2>2. "clear" \in Holding
    BY DEF Holding
  <2>3. call' \in [Caller -> Calls]
    <3>1. call' = [call EXCEPT ![c] = [call[c] EXCEPT !.pc = "clear", !.copy = Mine(c)]]
      BY <1>0, <1>16 DEF Copy
    <3>2. [call[c] EXCEPT !.pc = "clear", !.copy = Mine(c)] \in Calls
      BY <1>0, <1>a, <2>1, <2>2, CallFields
    <3> QED
      BY <1>0, <3>1, <3>2
  <2> QED
    BY <1>0, <1>16, <2>3 DEF Copy, TypeOK, Calls, broker, counts
<1>17. ASSUME NEW c \in Caller, Clear(c) PROVE TypeOK'
  <2>1. call[c].copy \in Seq(Event) /\ <<>> \in Seq(Event)
    BY <1>0 DEF Calls
  <2>2. messages' \in [Replica -> Seq(Event)]
    BY <1>0, <1>1, <1>17, <2>1 DEF Clear
  <2>3. taken[ReplicaOf[c]] \o call[c].copy \in Seq(Event)
    BY <1>0, <1>1, <2>1
  <2>4. taken' \in [Replica -> Seq(Event)]
    BY <1>0, <1>17, <2>3 DEF Clear
  <2> QED
    BY <1>0, <1>4, <1>17, <2>2, <2>4 DEF Clear, TypeOK, Calls, broker, counts
<1>18. ASSUME NEW c \in Caller, Cut(c) PROVE TypeOK'
  <2>1. call' \in [Caller -> Calls]
    <3>1. call' = [call EXCEPT ![c] = [call[c] EXCEPT !.conn = "cut"]]
      BY <1>0, <1>18 DEF Cut
    <3>2. "cut" \in Conns /\ "idle" \in {"idle"} \cup Waiting \cup Holding
      BY DEF Conns
    <3>3. [call[c] EXCEPT !.conn = "cut"] \in Calls
      BY <1>0, <1>a, <3>2, CallFields
    <3> QED
      BY <1>0, <3>1, <3>3
  <2>2. call[c].pc \in Publishes
    BY <1>18 DEF Cut, ConnOk, Sending, Publishes
  <2>3. cut' \subseteq Event
    BY <1>0, <1>2, <1>18, <2>2 DEF Cut
  <2> QED
    BY <1>0, <1>18, <2>1, <2>3 DEF Cut, TypeOK, Calls, broker
<1>19. ASSUME NEW e \in Event, BrokerReads(e) PROVE TypeOK'
  BY <1>0, <1>19 DEF BrokerReads, TypeOK, Calls, counts
<1>20. ASSUME NEW e \in Event, FlightLost(e) PROVE TypeOK'
  BY <1>0, <1>20 DEF FlightLost, TypeOK, Calls, counts
<1>21. ASSUME NEW r \in Replica, Restart(r) PROVE TypeOK'
  <2>1. call' \in [Caller -> Calls]
    BY <1>0, <1>21, IdleCall DEF Restart
  <2>2. messages' \in [Replica -> Seq(Event)]
    <3>1. <<>> \in Seq(Event)
      OBVIOUS
    <3> QED
      BY <1>0, <1>21, <3>1 DEF Restart
  <2>3. gone' \subseteq Event
    <3>1. Log!Members(messages[r]) \subseteq Event
      BY <1>0 DEF Log!Members
    <3> QED
      BY <1>0, <1>21, <3>1 DEF Restart
  <2>4. cut' \subseteq Event
    <3>1. \A c \in Caller : call[c].event # NoEvent => call[c].event \in Event
      BY <1>0 DEF Calls
    <3> QED
      BY <1>0, <1>21, <3>1 DEF Restart
  <2>5. lock' \in [Replica -> Caller \cup {Free}] /\ outcome' \in [Event -> {"new", "calling", "ok", "error"}]
    BY <1>0, <1>21 DEF Restart
  <2>6. UNCHANGED <<flight, exchange, taken, reads, cuts>> /\ restarts' \in Nat
    BY <1>0, <1>21 DEF Restart, broker
  <2> QED
    BY <1>0, <2>1, <2>2, <2>3, <2>4, <2>5, <2>6 DEF TypeOK, Calls
<1>22. ASSUME UNCHANGED vars PROVE TypeOK'
  BY <1>0, <1>22 DEF vars, TypeOK, Calls
<1> QED
  BY <1>5, <1>6, <1>7, <1>8, <1>9, <1>10, <1>11, <1>12, <1>13, <1>14, <1>15, <1>16,
     <1>17, <1>18, <1>19, <1>20, <1>21, <1>22 DEF Next, Works
-----------------------------------------------------------------------------
(* The invariant.                                                          *)

LEMMA IInvInit == Init => IInv
<1> SUFFICES ASSUME Init PROVE IInv
  OBVIOUS
<1>1. TypeOK
  BY TypeInit
<1>2. \A c \in Caller : CallOk(c) /\ ConnOk(c)
  BY DEF Init, CallOk, ConnOk, Idle, Holding, Sending, Publishes
<1>3. OneCall
  BY DEF Init, OneCall, Idle
<1>4. Recorded = {}
  BY DEF Init, Recorded, Listed, Taken, Log!Members
<1>5. RecordedLate
  BY <1>4 DEF RecordedLate
<1>6. ReturnedIsKept
  BY DEF Init, ReturnedIsKept
<1>7. ListedIsReceived
  BY <1>4 DEF Recorded, ListedIsReceived
<1> QED
  BY <1>1, <1>2, <1>3, <1>5, <1>6, <1>7 DEF IInv

\* A list holds events alone.
LEMMA RecordedAreEvents == ASSUME TypeOK PROVE Recorded \subseteq Event
<1>1. ASSUME NEW list \in Seq(Event) PROVE Log!Members(list) \subseteq Event
  BY DEF Log!Members
<1>2. \A r \in Replica : messages[r] \in Seq(Event) /\ taken[r] \in Seq(Event)
  BY DEF TypeOK
<1>3. gone \subseteq Event
  BY DEF TypeOK
<1> QED
  BY <1>1, <1>2, <1>3 DEF Recorded, Listed, Taken

\* A step of a thread that does what it owes keeps what relates the threads.
LEMMA ThreadStepKeeps ==
  ASSUME ConstantsAssumption, IInv, TypeOK', NEW c \in Caller, ThreadStep(c)
  PROVE  /\ \A d \in Caller : CallOk(d)' /\ ConnOk(d)'
         /\ OneCall' /\ RecordedLate' /\ ReturnedIsKept' /\ ListedIsReceived'
<1>1. \A d \in Caller \ {c} : call'[d] = call[d]
  BY DEF ThreadStep, OthersSame, IInv, TypeOK
<1>2. \A d \in Caller : call[d].event \in Event \cup {NoEvent}
  BY DEF IInv, TypeOK
<1>3. NoEvent \notin Event
  BY DEF ConstantsAssumption
<1>4. \A d \in Caller \ {c} : call[d].event # NoEvent =>
         /\ call[d].event # call[c].event
         /\ call[d].event # call'[c].event
  <2>1. \A d \in Caller : call[d].event # NoEvent => outcome[call[d].event] # "new"
    BY DEF IInv, CallOk
  <2>2. \A d \in Caller \ {c} : call[d].event # NoEvent => call[d].event # call[c].event
    BY DEF IInv, OneCall
  <2> QED
    BY <2>1, <2>2 DEF ThreadStep, OwnEvent
<1>5. \A d \in Caller \ {c} : call[d].event # NoEvent =>
         outcome'[call[d].event] = outcome[call[d].event]
  BY <1>2, <1>4 DEF ThreadStep, OwnEvent
<1>6. ASSUME NEW d \in Caller PROVE CallOk(d)' /\ ConnOk(d)'
  <2>1. CASE d = c
    BY <2>1 DEF ThreadStep
  <2>2. CASE d # c
    <3>1. call'[d] = call[d]
      BY <1>1, <2>2
    <3>2. CallOk(d) /\ ConnOk(d)
      BY DEF IInv
    <3>3. /\ call[d].pc \in Holding => lock'[ReplicaOf[d]] = lock[ReplicaOf[d]]
          /\ call[d].pc = "clear" => Mine(d)' = Mine(d)
      BY <2>2 DEF ThreadStep, OthersSame
    <3>4. call[d].pc \in Publishes => outcome'[call[d].event] = outcome[call[d].event]
      BY <1>5, <2>2, <3>2 DEF CallOk
    <3>5. CallOk(d)'
      <4>1. "close" \in Publishes
        BY DEF Publishes
      <4>2. Recorded \subseteq Recorded'
        BY DEF ThreadStep, MovesOn
      <4>3. call'[d].pc \in Holding => lock'[ReplicaOf[d]] = d
        BY <3>1, <3>2, <3>3 DEF CallOk
      <4>4. call'[d].event # NoEvent <=> call'[d].pc \in Publishes
        BY <3>1, <3>2 DEF CallOk
      <4>5. call'[d].pc \in Publishes \ {"close"} => outcome'[call'[d].event] = "calling"
        BY <3>1, <3>2, <3>4 DEF CallOk
      <4>6. call'[d].pc = "close" => \/ outcome'[call'[d].event] = "error"
                                   \/ /\ outcome'[call'[d].event] = "calling"
                                      /\ call'[d].event \in Recorded'
        BY <3>1, <3>2, <3>4, <4>1, <4>2 DEF CallOk
      <4>7. call'[d].pc = "clear" => call'[d].copy = Mine(d)'
        BY <3>1, <3>2, <3>3 DEF CallOk
      <4> QED
        BY <4>3, <4>4, <4>5, <4>6, <4>7 DEF CallOk
    <3>6. ConnOk(d)'
      <4>1. /\ cut \subseteq cut'
            /\ flight \cup Received \cup cut \subseteq flight' \cup Received' \cup cut'
        BY DEF ThreadStep, MovesOn
      <4> QED
        BY <3>1, <3>2, <4>1 DEF ConnOk
    <3> QED
      BY <3>5, <3>6
  <2> QED
    BY <2>1, <2>2
<1>7. OneCall'
  <2> SUFFICES ASSUME NEW a \in Caller, NEW b \in Caller,
                      call'[a].event # NoEvent, call'[a].event = call'[b].event
               PROVE  a = b
    BY DEF OneCall
  <2>1. CASE a # c /\ b # c
    BY <2>1, <1>1 DEF IInv, OneCall
  <2>2. CASE a = c /\ b # c
    BY <2>2, <1>1, <1>4
  <2>3. CASE a # c /\ b = c
    BY <2>3, <1>1, <1>4
  <2> QED
    BY <2>1, <2>2, <2>3
<1>8. \A e \in Recorded' : e \in Recorded \/ (e = call[c].event /\ e # NoEvent)
  BY DEF ThreadStep, Owes
<1>9. Recorded' \subseteq Event
  <2>1. Recorded \subseteq Event
    BY RecordedAreEvents DEF IInv
  <2> QED
    BY <2>1, <1>2, <1>8
<1>10. ASSUME NEW e \in Recorded', e # call[c].event
       PROVE  e \in Recorded /\ e # call'[c].event /\ outcome'[e] = outcome[e]
  <2>1. e \in Recorded /\ e \in Event
    BY <1>8, <1>9, <1>10
  <2>2. outcome[e] # "new"
    BY <2>1 DEF IInv, RecordedLate
  <2>3. e # call'[c].event
    BY <2>1, <2>2, <1>3, <1>10 DEF ThreadStep, OwnEvent
  <2> QED
    BY <2>1, <2>3, <1>10 DEF ThreadStep, OwnEvent
<1>11. RecordedLate'
  <2> SUFFICES ASSUME NEW e \in Recorded'
               PROVE  /\ outcome'[e] # "new"
                      /\ \A d \in Caller : call'[d].event = e => call'[d].pc = "close"
    BY DEF RecordedLate
  <2>1. CASE e = call[c].event
    <3>1. outcome'[e] # "new" /\ (call'[c].event = e => call'[c].pc = "close")
      BY <2>1 DEF ThreadStep, Owes
    <3>2. \A d \in Caller \ {c} : call'[d].event # e
      BY <2>1, <1>1, <1>3, <1>4, <1>9
    <3> QED
      BY <3>1, <3>2
  <2>2. CASE e # call[c].event
    <3>1. e \in Recorded /\ e # call'[c].event /\ outcome'[e] = outcome[e]
      BY <1>10, <2>2
    <3> QED
      BY <3>1, <1>1 DEF IInv, RecordedLate
  <2> QED
    BY <2>1, <2>2
<1>12. ReturnedIsKept'
  <2> SUFFICES ASSUME NEW e \in Event, outcome'[e] = "ok" PROVE e \in Recorded'
    BY DEF ReturnedIsKept, Recorded
  <2>1. CASE e = call[c].event
    BY <2>1 DEF ThreadStep, Owes
  <2>2. CASE e # call[c].event /\ e = call'[c].event
    BY <2>2, <1>3 DEF ThreadStep, OwnEvent
  <2>3. CASE e # call[c].event /\ e # call'[c].event
    <3>1. outcome[e] = "ok"
      BY <2>3 DEF ThreadStep, OwnEvent
    <3>2. e \in Recorded
      BY <3>1 DEF IInv, ReturnedIsKept, Recorded
    <3> QED
      BY <3>2 DEF ThreadStep, MovesOn
  <2> QED
    BY <2>1, <2>2, <2>3
<1>13. ListedIsReceived'
  <2> SUFFICES ASSUME NEW e \in Recorded' \ cut' PROVE Publishing(e)' \/ e \in Received'
    BY DEF ListedIsReceived, Recorded, Received
  <2>1. CASE e = call[c].event
    <3>1. call'[c].event = e \/ e \in Received'
      BY <2>1 DEF ThreadStep, Owes
    <3> QED
      BY <3>1 DEF Publishing
  <2>2. CASE e # call[c].event
    <3>1. e \in Recorded /\ e \notin cut
      BY <1>10, <2>2 DEF ThreadStep, MovesOn
    <3>2. Publishing(e) \/ e \in Received
      BY <3>1 DEF IInv, ListedIsReceived, Recorded, Received
    <3>3. CASE Publishing(e)
      <4>1. PICK d \in Caller : call[d].event = e
        BY <3>3 DEF Publishing
      <4>2. call'[d].event = e
        BY <4>1, <2>2, <1>1
      <4> QED
        BY <4>2 DEF Publishing
    <3>4. CASE e \in Received
      BY <3>4 DEF ThreadStep, MovesOn
    <3> QED
      BY <3>2, <3>3, <3>4
  <2> QED
    BY <2>1, <2>2
<1> QED
  BY <1>6, <1>7, <1>11, <1>12, <1>13
-----------------------------------------------------------------------------
(* Every step of a thread is one that ThreadStepKeeps allows.              *)

\* Before its event is in the list, a thread owes nothing for it.
LEMMA OwesEarly ==
  ASSUME ConstantsAssumption, IInv, NEW c \in Caller, call[c].pc # "close",
         Recorded' = Recorded,
         call[c].event \in Event => outcome'[call[c].event] \in {outcome[call[c].event], "error"}
  PROVE  Owes(c)
<1> DEFINE e == call[c].event
<1>1. e \notin Recorded
  BY RecordedAreEvents DEF IInv, RecordedLate, ConstantsAssumption
<1>2. e \in Event /\ outcome'[e] = "ok" => e \in Recorded
  BY DEF IInv, ReturnedIsKept, Recorded
<1> QED
  BY <1>1, <1>2 DEF Owes

\* One thread at a time is inside the lock of a replica.
LEMMA Exclusive ==
  ASSUME IInv, NEW c \in Caller, NEW d \in Caller,
         call[c].pc \in Holding, call[d].pc \in Holding, ReplicaOf[c] = ReplicaOf[d]
  PROVE  c = d
BY DEF IInv, CallOk

LEMMA ThreadSteps ==
  ASSUME ConstantsAssumption, IInv, NEW c \in Caller,
         \/ \E e \in Event : BeginPublish(c, e)
         \/ BeginRead(c, "waitList") \/ BeginRead(c, "waitDrain")
         \/ Works(c) \/ Cut(c)
  PROVE  ThreadStep(c)
<1>0. /\ lock \in [Replica -> Caller \cup {Free}]
      /\ messages \in [Replica -> Seq(Event)]
      /\ call \in [Caller -> Calls]
      /\ outcome \in [Event -> {"new", "calling", "ok", "error"}]
      /\ exchange \in Seq(Event)
      /\ taken \in [Replica -> Seq(Event)]
  BY DEF IInv, TypeOK, Calls
<1>1. /\ ReplicaOf \in [Caller -> Replica] /\ Free \notin Caller /\ NoEvent \notin Event
      /\ \A d \in Caller : call[d].event \in Event \cup {NoEvent}
  BY <1>0 DEF ConstantsAssumption, Calls
<1>2. TypeOK /\ \A d \in Caller : CallOk(d) /\ ConnOk(d)
  BY DEF IInv
<1>3. ASSUME UNCHANGED <<messages, taken, gone, exchange, cut>>, flight \subseteq flight'
      PROVE  MovesOn
  BY <1>3, RecordedSame DEF MovesOn, Received
<1>4. ASSUME UNCHANGED <<lock, messages>>, NEW v, call' = [call EXCEPT ![c] = v]
      PROVE  OthersSame(c)
  BY <1>0, <1>4 DEF OthersSame, Mine
<1>5. ASSUME call[c].pc \in Holding, Return(c), UNCHANGED messages
      PROVE  OthersSame(c)
  <2>1. call' = [call EXCEPT ![c] = call'[c]]
    BY <1>0, <1>5 DEF Return
  <2>2. ASSUME NEW d \in Caller \ {c}, call[d].pc \in Holding
        PROVE  lock'[ReplicaOf[d]] = lock[ReplicaOf[d]]
    <3>1. ReplicaOf[d] # ReplicaOf[c]
      BY <1>5, <2>2, Exclusive
    <3> QED
      BY <1>0, <1>1, <1>5, <3>1 DEF Return
  <2> QED
    BY <1>5, <2>1, <2>2 DEF OthersSame, Mine
<1>6. ASSUME Return(c)
      PROVE  /\ call'[c] = Idle /\ CallOk(c)' /\ ConnOk(c)'
  <2>1. call'[c] = Idle
    BY <1>0, <1>6 DEF Return
  <2> QED
    BY <2>1 DEF CallOk, ConnOk, Idle, Holding, Sending, Publishes
<1>7. ASSUME UNCHANGED <<messages, taken, gone>>, call[c].pc # "close",
             call[c].event \in Event => outcome'[call[c].event] \in {outcome[call[c].event], "error"}
      PROVE  Owes(c)
  BY <1>7, RecordedSame, OwesEarly
<1>8. ASSUME NEW e \in Event, BeginPublish(c, e) PROVE ThreadStep(c)
  <2>1. call' = [call EXCEPT ![c] = [call[c] EXCEPT !.pc = "waitPublish", !.event = e]]
    BY <1>0, <1>8 DEF BeginPublish
  <2>2. call'[c].pc = "waitPublish" /\ call'[c].event = e /\ call'[c].conn = call[c].conn
    BY <1>0, <2>1 DEF Calls
  <2>3. call[c].pc = "idle" /\ call[c].event = NoEvent /\ outcome[e] = "new" /\ outcome' = [outcome EXCEPT ![e] = "calling"]
    BY <1>2, <1>8 DEF BeginPublish, CallOk, Publishes
  <2>4. OthersSame(c)
    BY <1>4, <1>8, <2>1 DEF BeginPublish
  <2>5. OwnEvent(c)
    BY <1>0, <1>1, <2>2, <2>3 DEF OwnEvent
  <2>6. MovesOn
    BY <1>3, <1>8 DEF BeginPublish, broker
  <2>7. Owes(c)
    BY <1>1, <1>7, <1>8, <2>3 DEF BeginPublish
  <2>8. CallOk(c)'
    BY <1>0, <1>1, <2>2, <2>3 DEF CallOk, Holding, Sending, Publishes
  <2>9. ConnOk(c)'
    BY <1>2, <2>2, <2>3, <1>8 DEF ConnOk, Sending, BeginPublish
  <2> QED
    BY <2>4, <2>5, <2>6, <2>7, <2>8, <2>9 DEF ThreadStep
<1>9. ASSUME NEW pc \in {"waitList", "waitDrain"}, BeginRead(c, pc) PROVE ThreadStep(c)
  <2>1. call' = [call EXCEPT ![c] = [call[c] EXCEPT !.pc = pc]]
    BY <1>0, <1>9 DEF BeginRead, Goto
  <2>2. call'[c].pc = pc /\ call'[c].event = call[c].event /\ call'[c].conn = call[c].conn
    BY <1>0, <2>1 DEF Calls
  <2>3. call[c].pc = "idle" /\ call[c].event = NoEvent /\ outcome' = outcome
    BY <1>2, <1>9 DEF BeginRead, CallOk, Publishes
  <2>4. OthersSame(c)
    BY <1>4, <1>9, <2>1 DEF BeginRead
  <2>5. OwnEvent(c)
    BY <2>2, <2>3 DEF OwnEvent
  <2>6. MovesOn
    BY <1>3, <1>9 DEF BeginRead, broker
  <2>7. Owes(c)
    BY <1>7, <1>9, <2>3 DEF BeginRead
  <2>8. CallOk(c)'
    BY <2>2, <2>3 DEF CallOk, Holding, Sending, Publishes
  <2>9. ConnOk(c)'
    BY <1>2, <2>2, <2>3, <1>9 DEF ConnOk, Sending, BeginRead
  <2> QED
    BY <2>4, <2>5, <2>6, <2>7, <2>8, <2>9 DEF ThreadStep
<1>10. ASSUME Acquire(c) PROVE ThreadStep(c)
  <2>1. call' = [call EXCEPT ![c] = [call[c] EXCEPT !.pc = AfterLock[call[c].pc]]]
    BY <1>0, <1>10 DEF Acquire, Goto
  <2>2. call'[c].pc = AfterLock[call[c].pc] /\ call'[c].event = call[c].event /\ call'[c].conn = call[c].conn
    BY <1>0, <2>1 DEF Calls
  <2>3. \/ call[c].pc = "waitPublish" /\ call'[c].pc = "connect"
        \/ call[c].pc = "waitList" /\ call'[c].pc = "list"
        \/ call[c].pc = "waitDrain" /\ call'[c].pc = "copy"
    <3>1. call[c].pc \in {"waitPublish", "waitList", "waitDrain"}
      BY <1>10 DEF Acquire, Waiting, AfterLock
    <3> QED
      BY <2>2, <3>1 DEF AfterLock
  <2>4. lock[ReplicaOf[c]] = Free /\ lock' = [lock EXCEPT ![ReplicaOf[c]] = c] /\ outcome' = outcome
    BY <1>10 DEF Acquire
  <2>5. OthersSame(c)
    <3>1. call' = [call EXCEPT ![c] = call'[c]]
      BY <1>0, <2>1
    <3>2. ASSUME NEW d \in Caller \ {c}, call[d].pc \in Holding
          PROVE  lock'[ReplicaOf[d]] = lock[ReplicaOf[d]]
      <4>1. ReplicaOf[d] # ReplicaOf[c]
        BY <1>1, <1>2, <2>4, <3>2 DEF CallOk
      <4> QED
        BY <1>0, <1>1, <2>4, <4>1
    <3> QED
      BY <1>10, <3>1, <3>2 DEF OthersSame, Mine, Acquire
  <2>6. OwnEvent(c)
    BY <2>2, <2>4 DEF OwnEvent
  <2>7. MovesOn
    BY <1>3, <1>10 DEF Acquire, broker
  <2>8. Owes(c)
    BY <1>7, <1>10, <2>3, <2>4 DEF Acquire
  <2>9. CallOk(c)'
    <3>1. lock'[ReplicaOf[c]] = c
      BY <1>0, <1>1, <2>4
    <3> QED
      BY <1>2, <2>2, <2>3, <2>4, <3>1 DEF CallOk, Holding, Sending, Publishes
  <2>10. ConnOk(c)'
    BY <1>2, <2>2, <2>3, <1>10 DEF ConnOk, Sending, Acquire
  <2> QED
    BY <2>5, <2>6, <2>7, <2>8, <2>9, <2>10 DEF ThreadStep
<1>11. ASSUME BuildPublisher(c) PROVE ThreadStep(c)
  <2>1. call' = [call EXCEPT ![c] = [call[c] EXCEPT !.pc = "send", !.conn = "open"]]
    BY <1>0, <1>11 DEF BuildPublisher, Goto
  <2>2. call'[c].pc = "send" /\ call'[c].event = call[c].event /\ call'[c].conn = "open"
    BY <1>0, <2>1 DEF Calls
  <2>3. call[c].pc = "connect" /\ outcome' = outcome /\ lock' = lock
    BY <1>11 DEF BuildPublisher
  <2>4. OthersSame(c)
    BY <1>4, <1>11, <2>1 DEF BuildPublisher
  <2>5. OwnEvent(c)
    BY <2>2, <2>3 DEF OwnEvent
  <2>6. MovesOn
    BY <1>3, <1>11 DEF BuildPublisher, broker
  <2>7. Owes(c)
    BY <1>7, <1>11, <2>3 DEF BuildPublisher
  <2>8. CallOk(c)'
    BY <1>2, <2>2, <2>3 DEF CallOk, Holding, Sending, Publishes
  <2>9. ConnOk(c)'
    BY <1>2, <2>2, <2>3, <1>11 DEF ConnOk, Sending, BuildPublisher
  <2> QED
    BY <2>4, <2>5, <2>6, <2>7, <2>8, <2>9 DEF ThreadStep
<1>12. ASSUME BuildFails(c) PROVE ThreadStep(c)
  <2>1. Return(c) /\ call[c].pc = "connect"
    BY <1>12 DEF BuildFails
  <2>2. OthersSame(c)
    BY <1>5, <1>12, <2>1 DEF BuildFails, Holding
  <2>3. OwnEvent(c)
    BY <1>0, <1>6, <1>12, <2>1 DEF OwnEvent, Idle, BuildFails
  <2>4. MovesOn
    BY <1>3, <1>12 DEF BuildFails, broker
  <2>5. Owes(c)
    BY <1>0, <1>7, <1>12, <2>1 DEF BuildFails
  <2>6. CallOk(c)' /\ ConnOk(c)'
    BY <1>6, <2>1
  <2> QED
    BY <2>2, <2>3, <2>4, <2>5, <2>6 DEF ThreadStep
<1>13. ASSUME Send(c) PROVE ThreadStep(c)
  <2>1. call' = [call EXCEPT ![c] = [call[c] EXCEPT !.pc = "sent"]]
    BY <1>0, <1>13 DEF Send, Goto
  <2>2. call'[c].pc = "sent" /\ call'[c].event = call[c].event /\ call'[c].conn = call[c].conn
    BY <1>0, <2>1 DEF Calls
  <2>3. call[c].pc = "send" /\ outcome' = outcome /\ lock' = lock
    BY <1>13 DEF Send
  <2>4. OthersSame(c)
    BY <1>4, <1>13, <2>1 DEF Send
  <2>5. OwnEvent(c)
    BY <2>2, <2>3 DEF OwnEvent
  <2>6. MovesOn
    BY <1>3, <1>13 DEF Send
  <2>7. Owes(c)
    BY <1>7, <1>13, <2>3 DEF Send
  <2>8. CallOk(c)'
    BY <1>2, <2>2, <2>3 DEF CallOk, Holding, Sending, Publishes
  <2>9. ConnOk(c)'
    <3>1. call[c].conn \in {"open", "cut"}
      BY <1>0, <1>2, <2>3 DEF ConnOk, Sending, Calls, Conns
    <3>2. call[c].event \in flight' \cup cut'
      BY <1>2, <3>1, <1>13 DEF Send, ConnOk
    <3> QED
      BY <1>2, <2>2, <2>3, <3>2, <1>13 DEF ConnOk, Sending, Send
  <2> QED
    BY <2>4, <2>5, <2>6, <2>7, <2>8, <2>9 DEF ThreadStep
<1>14. ASSUME SendFails(c) PROVE ThreadStep(c)
  <2>1. call' = [call EXCEPT ![c] = [call[c] EXCEPT !.pc = "close"]]
    BY <1>0, <1>14 DEF SendFails, Goto
  <2>2. call'[c].pc = "close" /\ call'[c].event = call[c].event /\ call'[c].conn = call[c].conn
    BY <1>0, <2>1 DEF Calls
  <2>3. call[c].pc \in {"send", "sent"} /\ call[c].conn = "cut" /\ call[c].event \in Event /\ outcome' = [outcome EXCEPT ![call[c].event] = "error"] /\ lock' = lock
    BY <1>1, <1>2, <1>14 DEF SendFails, CallOk, Publishes
  <2>4. OthersSame(c)
    BY <1>4, <1>14, <2>1 DEF SendFails
  <2>5. OwnEvent(c)
    BY <1>0, <2>2, <2>3 DEF OwnEvent
  <2>6. MovesOn
    BY <1>3, <1>14 DEF SendFails, broker
  <2>7. Owes(c)
    BY <1>0, <1>7, <1>14, <2>3 DEF SendFails
  <2>8. CallOk(c)'
    <3>1. outcome'[call[c].event] = "error"
      BY <1>0, <2>3
    <3> QED
      BY <1>2, <2>2, <2>3, <3>1 DEF CallOk, Holding, Sending, Publishes
  <2>9. ConnOk(c)'
    BY <1>2, <2>2, <2>3, <1>14 DEF ConnOk, Sending, SendFails
  <2> QED
    BY <2>4, <2>5, <2>6, <2>7, <2>8, <2>9 DEF ThreadStep
<1>15. ASSUME Record(c) PROVE ThreadStep(c)
  <2>1. call' = [call EXCEPT ![c] = [call[c] EXCEPT !.pc = "close"]]
    BY <1>0, <1>15 DEF Record, Goto
  <2>2. call'[c].pc = "close" /\ call'[c].event = call[c].event /\ call'[c].conn = call[c].conn
    BY <1>0, <2>1 DEF Calls
  <2>3. call[c].pc = "sent" /\ outcome' = outcome /\ lock' = lock /\ call[c].event \in Event
    BY <1>1, <1>2, <1>15 DEF Record, CallOk, Publishes
  <2>4. Recorded' = Recorded \cup {call[c].event}
    BY <1>2, <1>15, RecordAdds
  <2>5. OthersSame(c)
    <3>1. call' = [call EXCEPT ![c] = call'[c]]
      BY <1>0, <2>1
    <3>2. ASSUME NEW d \in Caller \ {c}, call[d].pc = "clear" PROVE Mine(d)' = Mine(d)
      <4>1. ReplicaOf[d] # ReplicaOf[c]
        BY <2>3, <3>2, Exclusive DEF Holding, Sending
      <4> QED
        BY <1>0, <1>1, <1>15, <4>1 DEF Record, Mine
    <3> QED
      BY <2>3, <3>1, <3>2 DEF OthersSame
  <2>6. OwnEvent(c)
    BY <2>2, <2>3 DEF OwnEvent
  <2>7. MovesOn
    BY <2>4, <1>15 DEF MovesOn, Received, Record, broker
  <2>8. Owes(c)
    <3>1. outcome[call[c].event] = "calling"
      BY <1>2, <2>3 DEF CallOk, Publishes
    <3> QED
      BY <2>2, <2>3, <2>4, <3>1 DEF Owes
  <2>9. CallOk(c)'
    BY <1>2, <2>2, <2>3, <2>4 DEF CallOk, Holding, Sending, Publishes
  <2>10. ConnOk(c)'
    <3>1. Received' = Received /\ flight' = flight /\ cut' = cut
      BY <1>15 DEF Record, Received, broker
    <3> QED
      BY <1>2, <2>2, <2>3, <3>1 DEF ConnOk, Sending
  <2> QED
    BY <2>5, <2>6, <2>7, <2>8, <2>9, <2>10 DEF ThreadStep
<1>16. ASSUME Close(c) PROVE ThreadStep(c)
  <2>1. Return(c) /\ call[c].pc = "close" /\ call'[c].event = NoEvent /\ call[c].event \in Event
    BY <1>1, <1>2, <1>6, <1>16 DEF Close, Idle, CallOk, Publishes
  <2>2. /\ outcome' \in [Event -> {"new", "calling", "ok", "error"}]
        /\ \A e \in Event \ {call[c].event} : outcome'[e] = outcome[e]
        /\ outcome'[call[c].event] \in {"ok", "error"}
        /\ outcome'[call[c].event] = "ok" => outcome[call[c].event] = "calling"
    BY <1>0, <1>2, <1>16, <2>1 DEF Close, Ended, CallOk
  <2>3. OthersSame(c)
    BY <1>5, <1>16, <2>1 DEF Close, Holding, Sending
  <2>4. OwnEvent(c)
    BY <2>1, <2>2 DEF OwnEvent
  <2>5. MovesOn
    BY <1>3, <1>16 DEF Close, broker
  <2>6. Owes(c)
    <3>1. Recorded' = Recorded /\ Received' = Received /\ cut' = cut
      BY <1>16, RecordedSame DEF Close, Received, broker
    <3>2. call[c].event \in Received \cup cut
      <4>1. call[c].event \in flight \cup Received \cup cut /\ call[c].conn \in {"open", "cut"}
        BY <1>0, <1>2, <2>1 DEF ConnOk, Sending, Calls, Conns
      <4> QED
        BY <1>2, <1>16, <4>1 DEF ConnOk, Close
    <3>3. outcome'[call[c].event] = "ok" => call[c].event \in Recorded
      BY <1>2, <2>1, <2>2 DEF CallOk
    <3> QED
      BY <1>1, <2>1, <2>2, <3>1, <3>2, <3>3 DEF Owes
  <2>7. CallOk(c)' /\ ConnOk(c)'
    BY <1>6, <2>1
  <2> QED
    BY <2>3, <2>4, <2>5, <2>6, <2>7 DEF ThreadStep
<1>17. ASSUME CloseFails(c) PROVE ThreadStep(c)
  <2>1. Return(c) /\ call[c].pc = "close" /\ call'[c].event = NoEvent /\ call[c].event \in Event
    BY <1>1, <1>2, <1>6, <1>17 DEF CloseFails, Idle, CallOk, Publishes
  <2>2. /\ outcome' \in [Event -> {"new", "calling", "ok", "error"}]
        /\ \A e \in Event \ {call[c].event} : outcome'[e] = outcome[e]
        /\ outcome'[call[c].event] \in {"ok", "error"}
        /\ outcome'[call[c].event] = "ok" => outcome[call[c].event] = "calling"
    BY <1>0, <1>2, <1>17, <2>1 DEF CloseFails, Ended, CallOk
  <2>3. OthersSame(c)
    BY <1>5, <1>17, <2>1 DEF CloseFails, Holding, Sending
  <2>4. OwnEvent(c)
    BY <2>1, <2>2 DEF OwnEvent
  <2>5. MovesOn
    BY <1>3, <1>17 DEF CloseFails, broker
  <2>6. Owes(c)
    <3>1. Recorded' = Recorded /\ Received' = Received /\ cut' = cut
      BY <1>17, RecordedSame DEF CloseFails, Received, broker
    <3>2. call[c].event \in Received \cup cut
      <4>1. call[c].event \in flight \cup Received \cup cut /\ call[c].conn \in {"open", "cut"}
        BY <1>0, <1>2, <2>1 DEF ConnOk, Sending, Calls, Conns
      <4> QED
        BY <1>2, <1>17, <4>1 DEF ConnOk, CloseFails
    <3>3. outcome'[call[c].event] = "ok" => call[c].event \in Recorded
      BY <1>2, <2>1, <2>2 DEF CallOk
    <3> QED
      BY <1>1, <2>1, <2>2, <3>1, <3>2, <3>3 DEF Owes
  <2>7. CallOk(c)' /\ ConnOk(c)'
    BY <1>6, <2>1
  <2> QED
    BY <2>3, <2>4, <2>5, <2>6, <2>7 DEF ThreadStep
<1>18. ASSUME List(c) PROVE ThreadStep(c)
  <2>1. Return(c) /\ call[c].pc = "list"
    BY <1>18 DEF List
  <2>2. OthersSame(c)
    BY <1>5, <1>18, <2>1 DEF List, Holding
  <2>3. OwnEvent(c)
    BY <1>0, <1>6, <1>18, <2>1 DEF OwnEvent, Idle, List
  <2>4. MovesOn
    BY <1>3, <1>18 DEF List, broker
  <2>5. Owes(c)
    BY <1>0, <1>7, <1>18, <2>1 DEF List
  <2>6. CallOk(c)' /\ ConnOk(c)'
    BY <1>6, <2>1
  <2> QED
    BY <2>2, <2>3, <2>4, <2>5, <2>6 DEF ThreadStep
<1>19. ASSUME Copy(c) PROVE ThreadStep(c)
  <2>1. call' = [call EXCEPT ![c] = [call[c] EXCEPT !.pc = "clear", !.copy = Mine(c)]]
    BY <1>0, <1>19 DEF Copy
  <2>2. call'[c].pc = "clear" /\ call'[c].event = call[c].event /\ call'[c].conn = call[c].conn /\ call'[c].copy = Mine(c)
    BY <1>0, <2>1 DEF Calls
  <2>3. call[c].pc = "copy" /\ outcome' = outcome /\ lock' = lock /\ Mine(c)' = Mine(c)
    BY <1>19 DEF Copy, Mine
  <2>4. OthersSame(c)
    BY <1>4, <1>19, <2>1 DEF Copy
  <2>5. OwnEvent(c)
    BY <2>2, <2>3 DEF OwnEvent
  <2>6. MovesOn
    BY <1>3, <1>19 DEF Copy, broker
  <2>7. Owes(c)
    BY <1>7, <1>19, <2>3 DEF Copy
  <2>8. CallOk(c)'
    BY <1>2, <2>2, <2>3 DEF CallOk, Holding, Sending, Publishes
  <2>9. ConnOk(c)'
    BY <1>2, <2>2, <2>3, <1>19 DEF ConnOk, Sending, Copy
  <2> QED
    BY <2>4, <2>5, <2>6, <2>7, <2>8, <2>9 DEF ThreadStep
<1>20. ASSUME Clear(c) PROVE ThreadStep(c)
  <2>1. Return(c) /\ call[c].pc = "clear" /\ outcome' = outcome
    BY <1>20 DEF Clear
  <2>2. Recorded' = Recorded
    BY <1>2, <1>20, <2>1, ClearMoves DEF CallOk
  <2>3. OthersSame(c)
    <3>1. call' = [call EXCEPT ![c] = call'[c]]
      BY <1>0, <2>1 DEF Return
    <3>2. ASSUME NEW d \in Caller \ {c}, call[d].pc \in Holding
          PROVE  lock'[ReplicaOf[d]] = lock[ReplicaOf[d]] /\ Mine(d)' = Mine(d)
      <4>1. ReplicaOf[d] # ReplicaOf[c]
        BY <2>1, <3>2, Exclusive DEF Holding
      <4> QED
        BY <1>0, <1>1, <1>20, <2>1, <4>1 DEF Clear, Return, Mine
    <3> QED
      BY <3>1, <3>2 DEF OthersSame, Holding
  <2>4. OwnEvent(c)
    BY <1>6, <2>1 DEF OwnEvent, Idle
  <2>5. MovesOn
    BY <1>20, <2>2 DEF MovesOn, Received, Clear, broker
  <2>6. Owes(c)
    BY <2>1, <2>2, OwesEarly
  <2>7. CallOk(c)' /\ ConnOk(c)'
    BY <1>6, <2>1
  <2> QED
    BY <2>3, <2>4, <2>5, <2>6, <2>7 DEF ThreadStep
<1>21. ASSUME Cut(c) PROVE ThreadStep(c)
  <2>1. call' = [call EXCEPT ![c] = [call[c] EXCEPT !.conn = "cut"]]
    BY <1>0, <1>21 DEF Cut
  <2>2. call'[c].pc = call[c].pc /\ call'[c].event = call[c].event /\ call'[c].conn = "cut" /\ call'[c].copy = call[c].copy
    BY <1>0, <2>1 DEF Calls
  <2>3. call[c].conn = "open" /\ call[c].pc \in Sending /\ call[c].pc \in Publishes /\ call[c].event \in Event
    BY <1>1, <1>2, <1>21 DEF Cut, ConnOk, CallOk, Sending, Publishes
  <2>4. Recorded' = Recorded /\ Received' = Received
    BY <1>21, RecordedSame DEF Cut, broker, Received
  <2>5. outcome' = outcome /\ lock' = lock /\ messages' = messages /\ flight' = flight /\ cut' = cut \cup {call[c].event}
    BY <1>21 DEF Cut, broker
  <2>6. OthersSame(c)
    BY <1>4, <2>1, <2>5
  <2>7. OwnEvent(c)
    BY <2>2, <2>5 DEF OwnEvent
  <2>8. MovesOn
    BY <2>4, <2>5 DEF MovesOn
  <2>9. Owes(c)
    <3>1. call[c].event \in Recorded => outcome[call[c].event] # "new" /\ call[c].pc = "close"
      BY DEF IInv, RecordedLate
    <3>2. outcome[call[c].event] = "ok" => call[c].event \in Recorded
      BY <2>3 DEF IInv, ReturnedIsKept, Recorded
    <3> QED
      BY <2>2, <2>4, <2>5, <3>1, <3>2 DEF Owes
  <2>10. CallOk(c)'
    <3>1. call[c].pc # "clear"
      BY <2>3 DEF Sending
    <3> QED
      BY <1>2, <2>2, <2>4, <2>5, <3>1 DEF CallOk
  <2>11. ConnOk(c)'
    BY <2>2, <2>3, <2>5 DEF ConnOk
  <2> QED
    BY <2>6, <2>7, <2>8, <2>9, <2>10, <2>11 DEF ThreadStep
<1> QED
  BY <1>8, <1>9, <1>10, <1>11, <1>12, <1>13, <1>14, <1>15, <1>16, <1>17, <1>18, <1>19, <1>20, <1>21 DEF Works

\* The broker and the network touch no thread and no list.
LEMMA QuietStep ==
  ASSUME IInv, UNCHANGED <<lock, messages, call, outcome, taken, gone, cut>>,
         Received \subseteq Received', flight \cup Received \cup cut \subseteq flight' \cup Received' \cup cut'
  PROVE  /\ \A d \in Caller : CallOk(d)' /\ ConnOk(d)'
         /\ OneCall' /\ RecordedLate' /\ ReturnedIsKept' /\ ListedIsReceived'
<1>1. Recorded' = Recorded
  BY RecordedSame
<1>2. ASSUME NEW d \in Caller PROVE CallOk(d)'
  <2>1. CallOk(d) /\ Mine(d)' = Mine(d)
    BY DEF IInv, Mine
  <2> QED
    BY <1>1, <2>1 DEF CallOk
<1>3. ASSUME NEW d \in Caller PROVE ConnOk(d)'
  <2>1. ConnOk(d)
    BY DEF IInv
  <2> QED
    BY <2>1 DEF ConnOk
<1>4. OneCall' /\ RecordedLate'
  BY <1>1 DEF IInv, OneCall, RecordedLate
<1>5. ReturnedIsKept'
  BY <1>1 DEF IInv, ReturnedIsKept, Recorded
<1>6. ListedIsReceived'
  <2>1. \A e \in Recorded \ cut : Publishing(e) \/ e \in Received
    BY DEF IInv, ListedIsReceived, Recorded, Received
  <2>2. \A e \in Recorded' \ cut' : Publishing(e)' \/ e \in Received'
    BY <1>1, <2>1 DEF Publishing
  <2> QED
    BY <2>2 DEF ListedIsReceived, Recorded, Received
<1> QED
  BY <1>2, <1>3, <1>4, <1>5, <1>6

\* A replica that goes away takes its threads and its lock with it.
LEMMA RestartKeeps ==
  ASSUME ConstantsAssumption, IInv, NEW r \in Replica, Restart(r)
  PROVE  /\ \A d \in Caller : CallOk(d)' /\ ConnOk(d)'
         /\ OneCall' /\ RecordedLate' /\ ReturnedIsKept' /\ ListedIsReceived'
<1> DEFINE mine == {c \in Caller : ReplicaOf[c] = r}
           open == {call[c].event : c \in {d \in mine : call[d].event # NoEvent}}
<1>1. /\ TypeOK /\ NoEvent \notin Event /\ ReplicaOf \in [Caller -> Replica]
      /\ \A d \in Caller : CallOk(d) /\ ConnOk(d)
  BY DEF IInv, ConstantsAssumption
<1>2. Recorded' = Recorded
  BY <1>1, RestartMoves
<1>3. Received' = Received /\ flight' = flight
  BY DEF Restart, broker, Received
<1>4. cut' = cut \cup open
  BY DEF Restart
<1>5. \A d \in Caller : call'[d] = IF d \in mine THEN Idle ELSE call[d]
  BY DEF Restart
<1>6. \A e \in Event : outcome'[e] = IF e \in open THEN "error" ELSE outcome[e]
  BY DEF Restart
<1>7. \A d \in Caller : call[d].event \in Event \cup {NoEvent}
  BY <1>1 DEF TypeOK
<1>8. \A d \in Caller \ mine : call[d].event # NoEvent =>
        call[d].event \notin open /\ outcome'[call[d].event] = outcome[call[d].event]
  BY <1>6, <1>7 DEF IInv, OneCall
<1>9. \A d \in Caller \ mine : lock'[ReplicaOf[d]] = lock[ReplicaOf[d]] /\ Mine(d)' = Mine(d)
  <2> SUFFICES ASSUME NEW d \in Caller \ mine
               PROVE  lock'[ReplicaOf[d]] = lock[ReplicaOf[d]] /\ Mine(d)' = Mine(d)
    OBVIOUS
  <2>1. ReplicaOf[d] \in Replica /\ ReplicaOf[d] # r
    BY <1>1
  <2>2. lock' = [lock EXCEPT ![r] = Free] /\ messages' = [messages EXCEPT ![r] = <<>>]
    BY DEF Restart
  <2>3. lock \in [Replica -> Caller \cup {Free}] /\ messages \in [Replica -> Seq(Event)]
    BY <1>1 DEF TypeOK
  <2> QED
    BY <2>1, <2>2, <2>3 DEF Mine
<1> HIDE DEF open
<1>10. ASSUME NEW d \in Caller PROVE CallOk(d)' /\ ConnOk(d)'
  <2>1. CASE d \in mine
    <3>1. call'[d] = Idle
      BY <1>5, <2>1
    <3> QED
      BY <3>1 DEF CallOk, ConnOk, Idle, Holding, Sending, Publishes
  <2>2. CASE d \notin mine
    <3>1. call'[d] = call[d]
      BY <1>5, <2>2
    <3>2. call[d].pc \in Publishes => outcome'[call[d].event] = outcome[call[d].event]
      BY <1>1, <1>8, <2>2 DEF CallOk
    <3>3. CallOk(d)'
      <4>1. "close" \in Publishes
        BY DEF Publishes
      <4>2. call'[d].pc \in Holding => lock'[ReplicaOf[d]] = d
        BY <1>1, <1>9, <2>2, <3>1 DEF CallOk
      <4>3. call'[d].event # NoEvent <=> call'[d].pc \in Publishes
        BY <1>1, <3>1 DEF CallOk
      <4>4. call'[d].pc \in Publishes \ {"close"} => outcome'[call'[d].event] = "calling"
        BY <1>1, <3>1, <3>2 DEF CallOk
      <4>5. call'[d].pc = "close" => \/ outcome'[call'[d].event] = "error"
                                     \/ /\ outcome'[call'[d].event] = "calling"
                                        /\ call'[d].event \in Recorded'
        BY <1>1, <1>2, <3>1, <3>2, <4>1 DEF CallOk
      <4>6. call'[d].pc = "clear" => call'[d].copy = Mine(d)'
        BY <1>1, <1>9, <2>2, <3>1 DEF CallOk
      <4> QED
        BY <4>2, <4>3, <4>4, <4>5, <4>6 DEF CallOk
    <3>4. ConnOk(d)'
      BY <1>1, <1>3, <1>4, <3>1 DEF ConnOk
    <3> QED
      BY <3>3, <3>4
  <2> QED
    BY <2>1, <2>2
<1>11. OneCall'
  BY <1>5 DEF IInv, OneCall, Idle
<1>12. Recorded \subseteq Event
  BY <1>1, RecordedAreEvents
<1>13. RecordedLate'
  <2> SUFFICES ASSUME NEW e \in Recorded
               PROVE  /\ outcome'[e] # "new"
                      /\ \A d \in Caller : call'[d].event = e => call'[d].pc = "close"
    BY <1>2 DEF RecordedLate
  <2>1. e \in Event /\ outcome[e] # "new" /\ \A d \in Caller : call[d].event = e => call[d].pc = "close"
    BY <1>12 DEF IInv, RecordedLate
  <2>2. outcome'[e] # "new"
    BY <1>6, <2>1
  <2>3. \A d \in mine : call'[d].event = NoEvent
    BY <1>5 DEF Idle
  <2> QED
    BY <1>1, <1>5, <2>1, <2>2, <2>3
<1>14. ReturnedIsKept'
  <2>1. \A e \in Event : outcome[e] = "ok" => e \in Recorded
    BY DEF IInv, ReturnedIsKept, Recorded
  <2>2. \A e \in Event : outcome'[e] = "ok" => e \in Recorded'
    BY <1>2, <1>6, <2>1
  <2> QED
    BY <2>2 DEF ReturnedIsKept, Recorded
<1>15. ListedIsReceived'
  <2> SUFFICES ASSUME NEW e \in Recorded, e \notin cut' PROVE Publishing(e)' \/ e \in Received'
    BY <1>2 DEF ListedIsReceived, Recorded, Received
  <2>1. Publishing(e) \/ e \in Received
    BY <1>4 DEF IInv, ListedIsReceived, Recorded, Received
  <2>2. CASE Publishing(e)
    <3>1. PICK d \in Caller : call[d].event = e
      BY <2>2 DEF Publishing
    <3>2. d \notin mine
      BY <1>1, <1>4, <1>12, <3>1 DEF open
    <3>3. call'[d].event = e
      BY <1>5, <3>1, <3>2
    <3> QED
      BY <3>3 DEF Publishing
  <2>3. CASE e \in Received
    BY <2>3, <1>3
  <2> QED
    BY <2>1, <2>2, <2>3
<1> QED
  BY <1>10, <1>11, <1>13, <1>14, <1>15

LEMMA IInvStep ==
  ASSUME ConstantsAssumption, IInv, [Next]_vars
  PROVE  IInv'
<1>1. TypeOK'
  BY TypeStep DEF IInv
<1> DEFINE Rest == /\ \A d \in Caller : CallOk(d) /\ ConnOk(d)
                   /\ OneCall /\ RecordedLate /\ ReturnedIsKept /\ ListedIsReceived
<1>2. ASSUME NEW c \in Caller,
             \/ \E e \in Event : BeginPublish(c, e)
             \/ BeginRead(c, "waitList") \/ BeginRead(c, "waitDrain")
             \/ Works(c) \/ Cut(c)
      PROVE  Rest'
  <2>1. ThreadStep(c)
    BY <1>2, ThreadSteps
  <2> QED
    BY <1>1, <2>1, ThreadStepKeeps
<1>3. ASSUME NEW e \in Event, BrokerReads(e) PROVE Rest'
  <2>1. Received' = Received \cup {e}
    BY <1>3, MembersAppend DEF BrokerReads, Received, IInv, TypeOK
  <2> QED
    BY <1>3, <2>1, QuietStep DEF BrokerReads
<1>4. ASSUME NEW e \in Event, FlightLost(e) PROVE Rest'
  <2>1. Received' = Received
    BY <1>4 DEF FlightLost, Received
  <2> QED
    BY <1>4, <2>1, QuietStep DEF FlightLost
<1>5. ASSUME NEW r \in Replica, Restart(r) PROVE Rest'
  BY <1>5, RestartKeeps
<1>6. ASSUME UNCHANGED vars PROVE Rest'
  <2>1. Received' = Received
    BY <1>6 DEF vars, Received
  <2> QED
    BY <1>6, <2>1, QuietStep DEF vars
<1>7. Rest'
  BY <1>2, <1>3, <1>4, <1>5, <1>6 DEF Next
<1> QED
  BY <1>1, <1>7 DEF IInv

THEOREM IInvAlways == Spec => []IInv
<1>1. IInv /\ [Next]_vars => IInv'
  BY IInvStep, ConstantsAssumption
<1> QED
  BY <1>1, IInvInit, PTL DEF Spec
-----------------------------------------------------------------------------
(* The theorems.                                                           *)

\* The variables of the publisher keep their types.
THEOREM TypeCorrect == Spec => []TypeOK
<1>1. IInv => TypeOK
  BY DEF IInv
<1> QED
  BY <1>1, IInvAlways, PTL

\* What publish returned from is listed, drained or gone with its replica.
THEOREM ReturnedIsAlwaysKept == Spec => []ReturnedIsKept
<1>1. IInv => ReturnedIsKept
  BY DEF IInv
<1> QED
  BY <1>1, IInvAlways, PTL

\* What is listed has reached the exchange unless its connection was cut.
THEOREM ListedIsAlwaysReceived == Spec => []ListedIsReceived
<1>1. IInv => ListedIsReceived
  BY DEF IInv
<1> QED
  BY <1>1, IInvAlways, PTL

\* The lists of the replicas and their drains implement EventLog.
THEOREM PublisherImplementsLog == Spec => ImplementsLog
<1>1. Init => Log!Init
  BY DEF Init, Log!Init
<1>2. ASSUME IInv, [Next]_vars PROVE [Log!Next]_<<messages, taken>>
  <2>1. ASSUME NEW c \in Caller, Record(c) PROVE Log!Next
    <3>1. ReplicaOf[c] \in Replica
      BY ConstantsAssumption DEF ConstantsAssumption
    <3>2. call[c].event \in Event
      BY <1>2, <2>1, ConstantsAssumption DEF IInv, CallOk, TypeOK, Record, Publishes
    <3>3. call[c].event \notin Recorded
      BY <1>2, <2>1 DEF IInv, RecordedLate, Record
    <3>4. Log!Known \subseteq Recorded
      BY DEF Log!Known, Recorded, Listed, Taken
    <3>5. Log!Keep(ReplicaOf[c], call[c].event)
      BY <2>1, <3>3, <3>4 DEF Log!Keep, Record
    <3> QED
      BY <3>1, <3>2, <3>5 DEF Log!Next
  <2>2. ASSUME NEW c \in Caller, Clear(c) PROVE Log!Next
    <3>1. ReplicaOf[c] \in Replica
      BY ConstantsAssumption DEF ConstantsAssumption
    <3>2. call[c].copy = messages[ReplicaOf[c]]
      BY <1>2, <2>2 DEF IInv, CallOk, Clear, Mine
    <3>3. Log!Take(ReplicaOf[c])
      BY <2>2, <3>2 DEF Log!Take, Clear
    <3> QED
      BY <3>1, <3>3 DEF Log!Next
  <2>3. ASSUME NEW r \in Replica, Restart(r) PROVE Log!Next
    <3>1. Log!Forget(r)
      BY <2>3 DEF Log!Forget, Restart
    <3> QED
      BY <3>1 DEF Log!Next
  <2>4. ASSUME NEW c \in Caller, Works(c), ~ Record(c), ~ Clear(c)
        PROVE  UNCHANGED <<messages, taken>>
    BY <2>4 DEF Works, Acquire, BuildPublisher, BuildFails, Send, SendFails, Close, CloseFails,
       List, Copy
  <2>5. ASSUME NEW c \in Caller, \/ \E e \in Event : BeginPublish(c, e)
                                 \/ BeginRead(c, "waitList") \/ BeginRead(c, "waitDrain")
                                 \/ Cut(c)
        PROVE  UNCHANGED <<messages, taken>>
    BY <2>5 DEF BeginPublish, BeginRead, Cut
  <2>6. ASSUME NEW e \in Event, BrokerReads(e) \/ FlightLost(e) PROVE UNCHANGED <<messages, taken>>
    BY <2>6 DEF BrokerReads, FlightLost
  <2>7. ASSUME UNCHANGED vars PROVE UNCHANGED <<messages, taken>>
    BY <2>7 DEF vars
  <2> QED
    BY <1>2, <2>1, <2>2, <2>3, <2>4, <2>5, <2>6, <2>7 DEF Next
<1> QED
  BY <1>1, <1>2, IInvAlways, PTL DEF Spec, ImplementsLog, Log!Spec
-----------------------------------------------------------------------------
(* The order of a list is the order of the exchange.  A call writes after   *)
(* it has the lock and leaves it after the broker has read what it wrote,   *)
(* so all that the list of its replica held when it wrote was read before.  *)

\* All a replica has listed and not lost: what its drains took, and its list.
LogOf(r) == taken[r] \o messages[r]

\* The broker read x, and later y.
Before(x, y) ==
  \E k, l \in DOMAIN exchange : k < l /\ exchange[k] = x /\ exchange[l] = y

\* A publish call that has yet to write its event.
Unwritten == {"waitPublish", "connect", "send"}

NewIsUnwritten ==
  \A e \in Event : outcome[e] = "new" => e \notin flight \cup Received
WritesLater ==
  \A c \in Caller : call[c].pc \in Unwritten => call[c].event \notin flight \cup Received

\* A call lists its event in its own replica, and only the last event of a
\* list can be one whose call has not returned.
AtHome ==
  \A c \in Caller, r \in Replica :
    call[c].event \in Log!Members(LogOf(r)) => r = ReplicaOf[c]
LastIsCurrent ==
  \A r \in Replica : \A i \in DOMAIN LogOf(r) :
    i < Len(LogOf(r)) => ~Publishing(LogOf(r)[i])

\* The broker reads what a call has written, but not listed yet, after all
\* that is already in the list.
SentAfter ==
  \A c \in Caller : call[c].pc = "sent" /\ call[c].event \in Received =>
    \A x \in Log!Members(LogOf(ReplicaOf[c])) \ cut : Before(x, call[c].event)

OrderInv ==
  /\ NewIsUnwritten /\ WritesLater
  /\ AtHome /\ LastIsCurrent /\ SentAfter
  /\ ListOrderIsExchangeOrder
-----------------------------------------------------------------------------
\* What a step may do to the calls: finish one, move it on, or begin one.
CallMoves(d) ==
  \/ call'[d].event = NoEvent /\ call'[d].pc \notin Unwritten \cup {"sent"}
  \/ /\ call'[d].event = call[d].event
     /\ call'[d].pc \in Unwritten => call[d].pc \in Unwritten
     /\ call'[d].pc = "sent" => call[d].pc \in {"send", "sent"}
  \/ /\ call'[d].event \in Event /\ call'[d].pc = "waitPublish"
     /\ outcome[call'[d].event] = "new"

LEMMA StepMoves ==
  ASSUME ConstantsAssumption, IInv, [Next]_vars
  PROVE  /\ \A e \in Event : outcome'[e] = "new" => outcome[e] = "new"
         /\ \A d \in Caller : CallMoves(d)
<1>1. /\ call \in [Caller -> Calls]
      /\ outcome \in [Event -> {"new", "calling", "ok", "error"}]
      /\ \A d \in Caller : CallOk(d)
  BY DEF IInv, TypeOK, Calls
<1>2. NoEvent \notin Event
  BY DEF ConstantsAssumption
<1>3. ASSUME NEW d \in Caller, call'[d] = call[d] PROVE CallMoves(d)
  BY <1>3 DEF CallMoves
<1>4. ASSUME NEW d \in Caller, call'[d] = Idle PROVE CallMoves(d)
  BY <1>4 DEF CallMoves, Idle, Unwritten
<1>5. ASSUME NEW c \in Caller, NEW e \in Event, BeginPublish(c, e)
      PROVE  /\ \A f \in Event : outcome'[f] = "new" => outcome[f] = "new"
             /\ \A d \in Caller : CallMoves(d)
  <2>1. \A f \in Event : outcome'[f] = "new" => outcome[f] = "new"
    BY <1>1, <1>5 DEF BeginPublish
  <2>2. /\ call'[c].pc = "waitPublish" /\ call'[c].event = e
        /\ \A d \in Caller \ {c} : call'[d] = call[d]
        /\ outcome[e] = "new"
    BY <1>1, <1>5 DEF BeginPublish, Calls
  <2> QED BY <1>3, <2>1, <2>2 DEF CallMoves
<1>6. ASSUME NEW c \in Caller, Works(c)
      PROVE  \A f \in Event : outcome'[f] = "new" => outcome[f] = "new"
  BY <1>1, <1>6
  DEF Works, Acquire, BuildPublisher, BuildFails, Send, SendFails, Record, Close,
      CloseFails, List, Copy, Clear, Ended
<1>7. ASSUME NEW c \in Caller, Works(c) PROVE \A d \in Caller : CallMoves(d)
  <2>1. \A d \in Caller \ {c} : call'[d] = call[d]
    BY <1>1, <1>7
    DEF Works, Acquire, BuildPublisher, BuildFails, Send, SendFails, Record, Close,
        CloseFails, List, Copy, Clear, Goto, Return
  <2>2. CASE BuildFails(c) \/ Close(c) \/ CloseFails(c) \/ List(c) \/ Clear(c)
    <3>1. call'[c] = Idle
      BY <1>1, <2>2 DEF BuildFails, Close, CloseFails, List, Clear, Return
    <3> QED BY <1>3, <1>4, <2>1, <3>1
  <2>3. CASE BuildPublisher(c) \/ Send(c) \/ SendFails(c) \/ Record(c) \/ Copy(c)
    <3>1. /\ call'[c].event = call[c].event
          /\ \/ call[c].pc = "connect" /\ call'[c].pc = "send"
             \/ call[c].pc = "send" /\ call'[c].pc = "sent"
             \/ call'[c].pc \in {"close", "clear"}
      BY <1>1, <2>3 DEF BuildPublisher, Send, SendFails, Record, Copy, Goto, Calls
    <3>2. CallMoves(c)
      BY <3>1 DEF CallMoves, Unwritten
    <3> QED BY <1>3, <2>1, <3>2
  <2>4. CASE Acquire(c)
    <3>1. /\ call'[c].event = call[c].event
          /\ call[c].pc \in Waiting
          /\ call'[c].pc = AfterLock[call[c].pc]
      BY <1>1, <2>4 DEF Acquire, Goto, Calls
    <3>2. \/ call[c].pc = "waitPublish" /\ call'[c].pc = "connect"
          \/ call'[c].pc \in {"list", "copy"}
      BY <3>1 DEF Waiting, AfterLock
    <3>3. CallMoves(c)
      BY <3>1, <3>2 DEF CallMoves, Unwritten
    <3> QED BY <1>3, <2>1, <3>3
  <2> QED BY <1>7, <2>2, <2>3, <2>4 DEF Works
<1>8. ASSUME NEW c \in Caller, BeginRead(c, "waitList") \/ BeginRead(c, "waitDrain") \/ Cut(c)
      PROVE  /\ \A f \in Event : outcome'[f] = "new" => outcome[f] = "new"
             /\ \A d \in Caller : CallMoves(d)
  <2>1. outcome' = outcome
    BY <1>8 DEF BeginRead, Cut
  <2>2. /\ call'[c].event = call[c].event
        /\ call'[c].pc \in {call[c].pc, "waitList", "waitDrain"}
        /\ \A d \in Caller \ {c} : call'[d] = call[d]
    BY <1>1, <1>8 DEF BeginRead, Cut, Goto, Calls
  <2>3. CallMoves(c)
    BY <2>2 DEF CallMoves, Unwritten
  <2> QED BY <1>3, <2>1, <2>2, <2>3
<1>9. ASSUME NEW r \in Replica, Restart(r)
      PROVE  /\ \A f \in Event : outcome'[f] = "new" => outcome[f] = "new"
             /\ \A d \in Caller : CallMoves(d)
  <2>1. \A d \in Caller : call'[d] = Idle \/ call'[d] = call[d]
    BY <1>9 DEF Restart
  <2>2. \A f \in Event : outcome'[f] \in {"error", outcome[f]}
    BY <1>9 DEF Restart
  <2> QED BY <1>3, <1>4, <2>1, <2>2
<1>10. CASE UNCHANGED <<call, outcome>>
  BY <1>3, <1>10
<1>11. ASSUME NEW e \in Event, BrokerReads(e) \/ FlightLost(e) PROVE UNCHANGED <<call, outcome>>
  BY <1>11 DEF BrokerReads, FlightLost
<1> QED
  BY <1>5, <1>6, <1>7, <1>8, <1>9, <1>10, <1>11 DEF Next, vars

\* What the broker has or will have of an event comes from the call of it.
LEMMA UnwrittenStep ==
  ASSUME ConstantsAssumption, IInv, NewIsUnwritten, WritesLater, [Next]_vars
  PROVE  NewIsUnwritten' /\ WritesLater'
<1>1. /\ \A e \in Event : outcome'[e] = "new" => outcome[e] = "new"
      /\ \A d \in Caller : CallMoves(d)
  BY StepMoves
<1>2. NoEvent \notin Event /\ flight \subseteq Event /\ Received \subseteq Event
  <2>1. Received \subseteq Event
    BY DEF IInv, TypeOK, Received, Log!Members
  <2> QED BY <2>1 DEF ConstantsAssumption, IInv, TypeOK
<1>3. CASE flight' \cup Received' \subseteq flight \cup Received
  <2>1. NewIsUnwritten'
    BY <1>1, <1>3 DEF NewIsUnwritten
  <2>2. ASSUME NEW d \in Caller, call'[d].pc \in Unwritten
        PROVE  call'[d].event \notin flight \cup Received
    BY <1>1, <1>2, <2>2 DEF CallMoves, NewIsUnwritten, WritesLater
  <2> QED BY <1>3, <2>1, <2>2 DEF WritesLater
<1>4. ASSUME NEW c \in Caller, Send(c) PROVE NewIsUnwritten' /\ WritesLater'
  <2>1. /\ call[c].pc = "send" /\ outcome' = outcome /\ Received' = Received
        /\ flight' \subseteq flight \cup {call[c].event}
    BY <1>4 DEF Send, Received
  <2>2. /\ call'[c].pc = "sent"
        /\ \A d \in Caller \ {c} : call'[d] = call[d]
    BY <1>4 DEF Send, Goto, IInv, TypeOK
  <2>3. outcome[call[c].event] = "calling" /\ call[c].event # NoEvent
    BY <2>1 DEF IInv, CallOk, Publishes
  <2>4. NewIsUnwritten'
    BY <2>1, <2>3 DEF NewIsUnwritten
  <2>5. ASSUME NEW d \in Caller, call'[d].pc \in Unwritten
        PROVE  call'[d].event \notin flight' \cup Received'
    <3>1. d # c /\ call'[d] = call[d]
      BY <2>2, <2>5 DEF Unwritten
    <3>2. call[d].event # call[c].event
      BY <2>3, <3>1 DEF IInv, OneCall
    <3> QED BY <2>1, <2>5, <3>1, <3>2 DEF WritesLater
  <2> QED BY <2>4, <2>5 DEF WritesLater
<1>5. ASSUME NEW e \in Event, BrokerReads(e) PROVE flight' \cup Received' \subseteq flight \cup Received
  <2>1. Received' = Received \cup {e}
    BY <1>5, MembersAppend DEF BrokerReads, Received, IInv, TypeOK
  <2> QED BY <1>5, <2>1 DEF BrokerReads
<1>6. ASSUME NEW e \in Event, FlightLost(e) PROVE flight' \cup Received' \subseteq flight \cup Received
  BY <1>6 DEF FlightLost, Received
<1>7. ASSUME NEW c \in Caller,
             \/ \E e \in Event : BeginPublish(c, e)
             \/ BeginRead(c, "waitList") \/ BeginRead(c, "waitDrain")
             \/ (Works(c) /\ ~Send(c)) \/ Cut(c)
      PROVE  flight' = flight /\ exchange' = exchange
  BY <1>7
  DEF BeginPublish, BeginRead, Cut, Works, Acquire, BuildPublisher, BuildFails, SendFails,
      Record, Close, CloseFails, List, Copy, Clear, broker
<1>8. ASSUME NEW r \in Replica, Restart(r) PROVE flight' = flight /\ exchange' = exchange
  BY <1>8 DEF Restart, broker
<1>9. UNCHANGED vars => flight' = flight /\ exchange' = exchange
  BY DEF vars
<1>10. flight' = flight /\ exchange' = exchange => flight' \cup Received' \subseteq flight \cup Received
  BY DEF Received
<1> QED
  BY <1>3, <1>4, <1>5, <1>6, <1>7, <1>8, <1>9, <1>10 DEF Next
-----------------------------------------------------------------------------
(* The lists.                                                              *)

\* Every step but Record leaves of the lists what they had, or a prefix.
IsPrefixOf(a, b) == Len(a) =< Len(b) /\ \A i \in 1..Len(a) : a[i] = b[i]

LEMMA PrefixOfConcat ==
  ASSUME NEW S, NEW a \in Seq(S), NEW b \in Seq(S)
  PROVE  IsPrefixOf(a, a \o b)
<1>1. Len(a \o b) = Len(a) + Len(b) /\ Len(a) \in Nat /\ Len(b) \in Nat
  OBVIOUS
<1>2. Len(a) =< Len(a \o b)
  BY <1>1
<1>3. \A i \in 1..Len(a) : a[i] = (a \o b)[i]
  OBVIOUS
<1> QED BY <1>2, <1>3 DEF IsPrefixOf

LEMMA LogTypes ==
  ASSUME TypeOK, NEW r \in Replica
  PROVE  /\ LogOf(r) \in Seq(Event)
         /\ Log!Members(LogOf(r)) \subseteq Recorded
<1>1. messages[r] \in Seq(Event) /\ taken[r] \in Seq(Event)
  BY DEF TypeOK
<1>2. LogOf(r) \in Seq(Event)
  BY <1>1 DEF LogOf
<1>3. Log!Members(LogOf(r)) = Log!Members(taken[r]) \cup Log!Members(messages[r])
  BY <1>1, MembersConcat DEF LogOf
<1> QED BY <1>2, <1>3 DEF Recorded, Listed, Taken

LEMMA LogsShrink ==
  ASSUME ConstantsAssumption, IInv, [Next]_vars, \A c \in Caller : ~Record(c),
         NEW r \in Replica
  PROVE  IsPrefixOf(LogOf(r)', LogOf(r))
<1>1. messages[r] \in Seq(Event) /\ taken[r] \in Seq(Event)
  BY DEF IInv, TypeOK
<1>2. CASE UNCHANGED <<messages, taken>>
  BY <1>1, <1>2 DEF LogOf, IsPrefixOf
<1>3. ASSUME messages'[r] = <<>>, taken'[r] = taken[r]
      PROVE  IsPrefixOf(LogOf(r)', LogOf(r))
  <2>1. LogOf(r)' = taken[r]
    BY <1>1, <1>3 DEF LogOf
  <2>2. IsPrefixOf(taken[r], taken[r] \o messages[r])
    BY <1>1, PrefixOfConcat
  <2> QED BY <2>1, <2>2 DEF LogOf
<1>4. ASSUME messages'[r] = <<>>, taken'[r] = taken[r] \o messages[r]
      PROVE  IsPrefixOf(LogOf(r)', LogOf(r))
  <2>1. LogOf(r)' = LogOf(r) /\ LogOf(r) \in Seq(Event)
    BY <1>1, <1>4 DEF LogOf
  <2> QED BY <2>1 DEF IsPrefixOf
<1>5. ASSUME messages'[r] = messages[r], taken'[r] = taken[r]
      PROVE  IsPrefixOf(LogOf(r)', LogOf(r))
  <2>1. LogOf(r)' = LogOf(r) /\ LogOf(r) \in Seq(Event)
    BY <1>1, <1>5 DEF LogOf
  <2> QED BY <2>1 DEF IsPrefixOf
<1>6. ASSUME NEW s \in Replica, Restart(s) PROVE IsPrefixOf(LogOf(r)', LogOf(r))
  BY <1>3, <1>5, <1>6 DEF Restart, IInv, TypeOK
<1>7. ASSUME NEW c \in Caller, Clear(c) PROVE IsPrefixOf(LogOf(r)', LogOf(r))
  <2>1. ReplicaOf[c] \in Replica /\ call[c].copy = messages[ReplicaOf[c]]
    BY <1>7 DEF IInv, CallOk, Clear, Mine, ConstantsAssumption
  <2> QED BY <1>4, <1>5, <1>7, <2>1 DEF Clear, IInv, TypeOK
<1>8. ASSUME NEW c \in Caller, Works(c), ~Clear(c) PROVE UNCHANGED <<messages, taken>>
  BY <1>8
  DEF Works, Acquire, BuildPublisher, BuildFails, Send, SendFails, Close, CloseFails,
      List, Copy
<1>9. ASSUME NEW c \in Caller, \/ \E e \in Event : BeginPublish(c, e)
                               \/ BeginRead(c, "waitList") \/ BeginRead(c, "waitDrain")
                               \/ Cut(c)
      PROVE  UNCHANGED <<messages, taken>>
  BY <1>9 DEF BeginPublish, BeginRead, Cut
<1>10. ASSUME NEW e \in Event, BrokerReads(e) \/ FlightLost(e)
       PROVE  UNCHANGED <<messages, taken>>
  BY <1>10 DEF BrokerReads, FlightLost
<1>11. UNCHANGED vars => UNCHANGED <<messages, taken>>
  BY DEF vars
<1> QED
  BY <1>2, <1>6, <1>7, <1>8, <1>9, <1>10, <1>11 DEF Next

\* To append to the second of two lists is to append to both together.
LEMMA AppendConcat ==
  ASSUME NEW a \in Seq(Event), NEW b \in Seq(Event), NEW f \in Event
  PROVE  a \o Append(b, f) = Append(a \o b, f)
OBVIOUS

LEMMA PrefixMembers ==
  ASSUME NEW S, NEW a \in Seq(S), NEW b \in Seq(S), IsPrefixOf(a, b)
  PROVE  Log!Members(a) \subseteq Log!Members(b)
<1> SUFFICES ASSUME NEW i \in DOMAIN a PROVE a[i] \in Log!Members(b)
  BY DEF Log!Members
<1>1. i \in DOMAIN b /\ a[i] = b[i]
  BY DEF IsPrefixOf
<1> QED BY <1>1 DEF Log!Members

LEMMA PrefixAt ==
  ASSUME NEW S, NEW a \in Seq(S), NEW b \in Seq(S), IsPrefixOf(a, b), NEW i \in DOMAIN a
  PROVE  /\ i \in DOMAIN b /\ a[i] = b[i]
         /\ i < Len(a) => i < Len(b)
<1>1. i \in 1..Len(a) /\ Len(a) \in Nat /\ Len(b) \in Nat /\ DOMAIN b = 1..Len(b)
  OBVIOUS
<1> QED BY <1>1 DEF IsPrefixOf

\* A listed event is no longer new, and NoEvent is never listed.
LEMMA ListedMoves ==
  ASSUME ConstantsAssumption, IInv, NEW r \in Replica, NEW x \in Log!Members(LogOf(r)),
         NEW d \in Caller, CallMoves(d), call'[d].event = x
  PROVE  call[d].event = x
<1>1. x \in Recorded /\ x \in Event /\ x # NoEvent
  BY LogTypes, RecordedAreEvents DEF IInv, ConstantsAssumption
<1>2. outcome[x] # "new"
  BY <1>1 DEF IInv, RecordedLate
<1> QED BY <1>1, <1>2 DEF CallMoves

\* Who may publish a listed event keeps being true while no list grows.
LEMMA ListStep ==
  ASSUME ConstantsAssumption, IInv, [Next]_vars, IInv',
         \A c \in Caller : ~Record(c), AtHome, LastIsCurrent
  PROVE  AtHome' /\ LastIsCurrent'
<1>1. \A d \in Caller : CallMoves(d)
  BY StepMoves
<1>2. ASSUME NEW r \in Replica
      PROVE  /\ LogOf(r) \in Seq(Event) /\ LogOf(r)' \in Seq(Event)
             /\ IsPrefixOf(LogOf(r)', LogOf(r))
             /\ Log!Members(LogOf(r)') \subseteq Log!Members(LogOf(r))
  <2>1. LogOf(r) \in Seq(Event) /\ LogOf(r)' \in Seq(Event)
    <3>1. TypeOK /\ TypeOK'
      BY DEF IInv
    <3>2. messages'[r] \in Seq(Event) /\ taken'[r] \in Seq(Event)
      BY <3>1 DEF TypeOK
    <3> QED BY <3>1, <3>2, LogTypes DEF LogOf
  <2>2. IsPrefixOf(LogOf(r)', LogOf(r))
    BY LogsShrink
  <2> QED BY <2>1, <2>2, PrefixMembers
<1>3. ASSUME NEW d \in Caller, NEW r \in Replica, call'[d].event \in Log!Members(LogOf(r)')
      PROVE  r = ReplicaOf[d]
  <2>1. call'[d].event \in Log!Members(LogOf(r))
    BY <1>2, <1>3
  <2>2. call[d].event = call'[d].event
    BY <1>1, <2>1, ListedMoves
  <2> QED BY <2>1, <2>2 DEF AtHome
<1>4. ASSUME NEW r \in Replica, NEW i \in DOMAIN LogOf(r)', i < Len(LogOf(r)'),
             NEW d \in Caller, call'[d].event = LogOf(r)'[i]
      PROVE  FALSE
  <2>1. /\ i \in DOMAIN LogOf(r) /\ i < Len(LogOf(r))
        /\ LogOf(r)'[i] = LogOf(r)[i]
    BY <1>2, <1>4, PrefixAt
  <2>2. LogOf(r)[i] \in Log!Members(LogOf(r))
    BY <2>1 DEF Log!Members
  <2>3. call[d].event = LogOf(r)[i]
    BY <1>1, <1>4, <2>1, <2>2, ListedMoves
  <2> QED BY <2>1, <2>3 DEF LastIsCurrent, Publishing
<1> QED BY <1>3, <1>4 DEF AtHome, LastIsCurrent, Publishing
-----------------------------------------------------------------------------
(* The order.                                                              *)

\* What the broker has read before something else stays read before it.
LEMMA BeforeStays ==
  ASSUME TypeOK, NEW e \in Event, exchange' = exchange \/ exchange' = Append(exchange, e),
         NEW x, NEW y, Before(x, y)
  PROVE  Before(x, y)'
<1>1. PICK k, l \in DOMAIN exchange : k < l /\ exchange[k] = x /\ exchange[l] = y
  BY DEF Before
<1>2. /\ exchange \in Seq(Event)
      /\ k \in DOMAIN exchange' /\ exchange'[k] = exchange[k]
      /\ l \in DOMAIN exchange' /\ exchange'[l] = exchange[l]
  <2>1. exchange \in Seq(Event)
    BY DEF TypeOK
  <2>2. CASE exchange' = exchange
    BY <2>1, <2>2
  <2>3. CASE exchange' = Append(exchange, e)
    BY <2>1, <2>3
  <2> QED BY <2>1, <2>2, <2>3
<1> QED BY <1>1, <1>2 DEF Before

\* What was read is read before what is read next.
LEMMA ReadNext ==
  ASSUME TypeOK, NEW e \in Event, exchange' = Append(exchange, e), NEW x \in Received
  PROVE  Before(x, e)'
<1>1. PICK k \in DOMAIN exchange : exchange[k] = x
  BY DEF Received, Log!Members
<1>2. exchange \in Seq(Event)
  BY DEF TypeOK
<1>3. /\ k \in DOMAIN exchange' /\ exchange'[k] = x
      /\ Len(exchange) + 1 \in DOMAIN exchange' /\ exchange'[Len(exchange) + 1] = e
      /\ k < Len(exchange) + 1
  BY <1>1, <1>2
<1> QED BY <1>3 DEF Before

\* A call that has written its event and not listed it holds the lock of its
\* replica, so what the list holds is published by no call.
LEMMA NobodyPublishes ==
  ASSUME IInv, AtHome, ConstantsAssumption, NEW c \in Caller, call[c].pc = "sent",
         NEW x \in Log!Members(LogOf(ReplicaOf[c]))
  PROVE  ~Publishing(x)
<1> SUFFICES ASSUME NEW d \in Caller, call[d].event = x PROVE FALSE
  BY DEF Publishing
<1>1. ReplicaOf[c] \in Replica
  BY DEF ConstantsAssumption
<1>2. x \in Recorded
  BY <1>1, LogTypes DEF IInv
<1>3. call[d].pc = "close"
  BY <1>2 DEF IInv, RecordedLate
<1>4. ReplicaOf[d] = ReplicaOf[c]
  BY <1>1 DEF AtHome
<1>5. c = d
  BY <1>3, <1>4, Exclusive DEF Holding, Sending
<1> QED BY <1>3, <1>5

LEMMA ListedIsRead ==
  ASSUME IInv, NEW r \in Replica, NEW x \in Log!Members(LogOf(r)) \ cut, ~Publishing(x)
  PROVE  x \in Received
<1>1. x \in Recorded
  BY LogTypes DEF IInv
<1> QED BY <1>1 DEF IInv, ListedIsReceived, Recorded, Received

LEMMA OrderStep ==
  ASSUME ConstantsAssumption, IInv, IInv', [Next]_vars, OrderInv,
         \A c \in Caller : ~Record(c)
  PROVE  SentAfter' /\ ListOrderIsExchangeOrder'
<1>1. /\ TypeOK /\ NewIsUnwritten /\ WritesLater /\ AtHome /\ LastIsCurrent /\ SentAfter
      /\ ListOrderIsExchangeOrder
  BY DEF IInv, OrderInv
<1>2. cut \subseteq cut'
  BY DEF Next, vars, BeginPublish, BeginRead, Cut, Works, Acquire, BuildPublisher, BuildFails,
         Send, SendFails, Record, Close, CloseFails, List, Copy, Clear, BrokerReads,
         FlightLost, Restart
<1>3. exchange' = exchange \/ \E e \in Event : BrokerReads(e)
  BY DEF Next, vars, BeginPublish, BeginRead, Cut, Works, Acquire, BuildPublisher, BuildFails,
         Send, SendFails, Record, Close, CloseFails, List, Copy, Clear, FlightLost, Restart,
         broker
<1> DEFINE Reads(f) == f \in Event /\ BrokerReads(f)
<1>4. PICK e : exchange' = exchange \/ Reads(e)
  BY <1>3
<1>e. Reads(e) => e \in Event /\ exchange' = Append(exchange, e) /\ call' = call
  BY DEF BrokerReads
<1> HIDE DEF Reads
<1>5. IF Reads(e) THEN Received' = Received \cup {e} ELSE Received' = Received
  BY <1>1, <1>4, <1>e, MembersAppend DEF Received, TypeOK
<1>6. ASSUME NEW x, NEW y, Before(x, y) PROVE Before(x, y)'
  <2>1. CASE exchange' = exchange
    BY <1>6, <2>1 DEF Before
  <2>2. CASE Reads(e)
    BY <1>1, <1>6, <1>e, <2>2, BeforeStays
  <2> QED BY <1>4, <2>1, <2>2
<1>7. ASSUME NEW y \in Received' \ Received, NEW x \in Received PROVE Before(x, y)'
  <2>1. e \in Event /\ y = e /\ exchange' = Append(exchange, e)
    BY <1>5, <1>7, <1>e
  <2> QED BY <1>1, <2>1, ReadNext
<1>8. ASSUME NEW r \in Replica
      PROVE  /\ LogOf(r) \in Seq(Event) /\ LogOf(r)' \in Seq(Event)
             /\ IsPrefixOf(LogOf(r)', LogOf(r))
             /\ Log!Members(LogOf(r)') \subseteq Log!Members(LogOf(r))
  <2>1. LogOf(r) \in Seq(Event)
    BY <1>1, LogTypes
  <2>2. LogOf(r)' \in Seq(Event)
    <3>1. messages'[r] \in Seq(Event) /\ taken'[r] \in Seq(Event)
      BY DEF IInv, TypeOK
    <3> QED BY <3>1 DEF LogOf
  <2>3. IsPrefixOf(LogOf(r)', LogOf(r))
    BY LogsShrink
  <2> QED BY <2>1, <2>2, <2>3, PrefixMembers
<1>9. SentAfter'
  <2> SUFFICES ASSUME NEW c \in Caller, NEW y, y = call'[c].event, call'[c].pc = "sent",
                      y \in Received', NEW x \in Log!Members(LogOf(ReplicaOf[c])') \ cut'
               PROVE  Before(x, y)'
    BY DEF SentAfter, Before
  <2>1. ReplicaOf[c] \in Replica
    BY DEF ConstantsAssumption
  <2>2. x \in Log!Members(LogOf(ReplicaOf[c])) /\ x \notin cut
    BY <1>2, <1>8, <2>1
  <2>3. y = call[c].event /\ call[c].pc \in {"send", "sent"}
    <3>1. CallMoves(c)
      BY StepMoves
    <3>2. y # NoEvent
      BY <1>5, <1>e, RecordedAreEvents DEF Received, Log!Members, IInv, TypeOK, ConstantsAssumption
    <3> QED BY <3>1, <3>2 DEF CallMoves
  <2>4. CASE y \in Received
    <3>1. call[c].pc = "sent"
      BY <1>1, <2>3, <2>4 DEF WritesLater, Unwritten
    <3>2. Before(x, y)
      BY <1>1, <2>2, <2>3, <2>4, <3>1 DEF SentAfter
    <3> QED BY <1>6, <3>2
  <2>5. CASE y \notin Received
    <3>1. Reads(e) /\ call' = call
      BY <1>5, <1>e, <2>5
    <3>2. call[c].pc = "sent"
      BY <3>1
    <3>3. ~Publishing(x)
      BY <1>1, <2>2, <3>2, NobodyPublishes
    <3>4. x \in Received
      BY <2>1, <2>2, <3>3, ListedIsRead
    <3> QED BY <1>7, <2>5, <3>4
  <2> QED BY <2>4, <2>5
<1>10. ListOrderIsExchangeOrder'
  <2> SUFFICES ASSUME NEW r \in Replica, NEW i \in DOMAIN LogOf(r)', NEW j \in DOMAIN LogOf(r)',
                      i < j, LogOf(r)'[i] \notin cut', LogOf(r)'[j] \in Received'
               PROVE  Before(LogOf(r)[i], LogOf(r)[j])'
    BY DEF ListOrderIsExchangeOrder, LogOf, Before, Received
  <2>1. /\ i \in DOMAIN LogOf(r) /\ LogOf(r)'[i] = LogOf(r)[i]
        /\ j \in DOMAIN LogOf(r) /\ LogOf(r)'[j] = LogOf(r)[j]
    BY <1>8, PrefixAt
  <2>2. CASE LogOf(r)[j] \in Received
    <3>1. Before(LogOf(r)[i], LogOf(r)[j])
      BY <1>1, <1>2, <2>1, <2>2 DEF ListOrderIsExchangeOrder, LogOf, Before, Received
    <3> QED BY <1>6, <2>1, <3>1
  <2>3. CASE LogOf(r)[j] \notin Received
    <3>1. i < Len(LogOf(r))
      BY <1>8, <2>1
    <3>2. ~Publishing(LogOf(r)[i])
      BY <1>1, <2>1, <3>1 DEF LastIsCurrent
    <3>3. LogOf(r)[i] \in Log!Members(LogOf(r)) \ cut
      BY <1>2, <2>1 DEF Log!Members
    <3>4. LogOf(r)[i] \in Received
      BY <3>2, <3>3, ListedIsRead
    <3> QED BY <1>7, <2>1, <2>3, <3>4
  <2> QED BY <2>2, <2>3
<1> QED BY <1>9, <1>10
\* A call that lists its event adds it after all the broker has read before.
LEMMA RecordOrders ==
  ASSUME ConstantsAssumption, IInv, OrderInv, NEW c \in Caller, Record(c)
  PROVE  AtHome' /\ LastIsCurrent' /\ SentAfter' /\ ListOrderIsExchangeOrder'
<1> DEFINE e == call[c].event
           mine == ReplicaOf[c]
<1>1. /\ TypeOK /\ AtHome /\ LastIsCurrent /\ SentAfter /\ ListOrderIsExchangeOrder
      /\ call[c].pc = "sent" /\ mine \in Replica
      /\ exchange' = exchange /\ cut' = cut
  BY DEF IInv, OrderInv, Record, broker, ConstantsAssumption
<1>2. e \in Event /\ e # NoEvent
  BY <1>1 DEF IInv, TypeOK, CallOk, Publishes
<1>3. /\ \A d \in Caller : call'[d].event = call[d].event
      /\ call'[c].pc = "close"
      /\ \A d \in Caller \ {c} : call'[d] = call[d]
  BY <1>1 DEF Record, Goto, TypeOK
<1>4. \A d \in Caller \ {c} : call[d].pc = "sent" => ReplicaOf[d] # mine
  BY <1>1, Exclusive DEF Holding, Sending
<1>5. /\ LogOf(mine) \in Seq(Event) /\ LogOf(mine)' = Append(LogOf(mine), e)
      /\ \A r \in Replica \ {mine} : LogOf(r)' = LogOf(r)
  <2>1. /\ messages[mine] \in Seq(Event) /\ taken[mine] \in Seq(Event)
        /\ messages'[mine] = Append(messages[mine], e) /\ taken' = taken
        /\ \A r \in Replica \ {mine} : messages'[r] = messages[r]
    BY <1>1 DEF TypeOK, Record
  <2>2. taken[mine] \o Append(messages[mine], e) = Append(taken[mine] \o messages[mine], e)
    BY <1>2, <2>1, AppendConcat
  <2>3. LogOf(mine)' = Append(LogOf(mine), e) /\ LogOf(mine) \in Seq(Event)
    BY <2>1, <2>2 DEF LogOf
  <2>4. \A r \in Replica \ {mine} : LogOf(r)' = LogOf(r)
    BY <2>1 DEF LogOf
  <2> QED BY <2>3, <2>4
<1> DEFINE log == LogOf(mine)
<1>6. /\ Log!Members(LogOf(mine)') = Log!Members(log) \cup {e}
      /\ log \in Seq(Event)
      /\ DOMAIN LogOf(mine)' = 1..(Len(log) + 1) /\ Len(LogOf(mine)') = Len(log) + 1
      /\ \A i \in 1..Len(log) : LogOf(mine)'[i] = log[i]
      /\ LogOf(mine)'[Len(log) + 1] = e
      /\ DOMAIN log = 1..Len(log) /\ Len(log) \in Nat
  BY <1>2, <1>5, MembersAppend
<1>7. \A x \in Log!Members(log) : ~Publishing(x)
  BY <1>1, NobodyPublishes
<1>8. \A i \in 1..Len(log) : log[i] \in Log!Members(log)
  BY <1>6 DEF Log!Members
<1> HIDE DEF e, mine, log
<1>9. AtHome'
  <2> SUFFICES ASSUME NEW d \in Caller, NEW r \in Replica,
                      call[d].event \in Log!Members(LogOf(r)')
               PROVE  r = ReplicaOf[d]
    BY <1>3 DEF AtHome
  <2>1. CASE call[d].event \in Log!Members(LogOf(r))
    BY <1>1, <2>1 DEF AtHome
  <2>2. CASE call[d].event \notin Log!Members(LogOf(r))
    <3>1. r = mine /\ call[d].event = e
      BY <1>5, <1>6, <2>2 DEF log
    <3>2. d = c
      BY <1>2, <3>1 DEF IInv, OneCall, e
    <3> QED BY <3>1, <3>2 DEF mine
  <2> QED BY <2>1, <2>2
<1>10. LastIsCurrent'
  <2>1. ASSUME NEW x PROVE Publishing(x)' <=> Publishing(x)
    BY <1>3 DEF Publishing
  <2> SUFFICES ASSUME NEW r \in Replica, NEW i \in DOMAIN LogOf(r)', i < Len(LogOf(r)')
               PROVE  ~Publishing(LogOf(r)'[i])
    BY <1>3 DEF LastIsCurrent, Publishing
  <2>2. CASE r = mine
    <3>1. i \in 1..Len(log) /\ LogOf(r)'[i] = log[i]
      BY <1>6, <2>2
    <3> QED BY <1>7, <1>8, <3>1
  <2>3. CASE r # mine
    BY <1>1, <1>5, <2>3 DEF LastIsCurrent
  <2> QED BY <2>2, <2>3
<1>11. SentAfter'
  <2> SUFFICES ASSUME NEW d \in Caller, call'[d].pc = "sent", call[d].event \in Received,
                      NEW x \in Log!Members(LogOf(ReplicaOf[d])') \ cut
               PROVE  Before(x, call[d].event)
    BY <1>1, <1>3 DEF SentAfter, Before, Received
  <2>1. d # c /\ call[d].pc = "sent" /\ ReplicaOf[d] # mine /\ ReplicaOf[d] \in Replica
    BY <1>3, <1>4 DEF ConstantsAssumption
  <2>2. LogOf(ReplicaOf[d])' = LogOf(ReplicaOf[d])
    BY <1>5, <2>1
  <2> QED BY <1>1, <2>1, <2>2 DEF SentAfter
<1>12. ListOrderIsExchangeOrder'
  <2> SUFFICES ASSUME NEW r \in Replica, NEW i \in DOMAIN LogOf(r)', NEW j \in DOMAIN LogOf(r)',
                      i < j, LogOf(r)'[i] \notin cut', LogOf(r)'[j] \in Received'
               PROVE  Before(LogOf(r)[i], LogOf(r)[j])'
    BY DEF ListOrderIsExchangeOrder, LogOf, Before, Received
  <2> SUFFICES Before(LogOf(r)'[i], LogOf(r)'[j])
    BY <1>1 DEF Before
  <2>0. LogOf(r)'[i] \notin cut /\ LogOf(r)'[j] \in Received
    BY <1>1 DEF Received
  <2>1. ASSUME NEW k \in DOMAIN LogOf(r), NEW l \in DOMAIN LogOf(r), k < l,
               LogOf(r)[k] \notin cut, LogOf(r)[l] \in Received
        PROVE  Before(LogOf(r)[k], LogOf(r)[l])
    BY <1>1, <2>1 DEF ListOrderIsExchangeOrder, LogOf, Before, Received
  <2>2. CASE r # mine
    <3>1. LogOf(r)' = LogOf(r)
      BY <1>5, <2>2
    <3> QED BY <2>0, <2>1, <3>1
  <2>3. CASE r = mine /\ j \in 1..Len(log)
    <3>1. /\ i \in DOMAIN log /\ LogOf(r)'[i] = log[i]
          /\ j \in DOMAIN log /\ LogOf(r)'[j] = log[j]
      BY <1>6, <2>3
    <3> QED BY <2>0, <2>1, <2>3, <3>1 DEF log
  <2>4. CASE r = mine /\ j = Len(log) + 1
    <3>1. i \in 1..Len(log) /\ LogOf(r)'[i] = log[i] /\ LogOf(r)'[j] = e
      BY <1>6, <2>4
    <3> QED BY <1>1, <1>8, <2>0, <3>1 DEF SentAfter, log, mine, e
  <2> QED BY <1>6, <2>2, <2>3, <2>4
<1> QED BY <1>9, <1>10, <1>11, <1>12

LEMMA OrderInit == Init => OrderInv
<1> SUFFICES ASSUME Init PROVE OrderInv
  OBVIOUS
<1>1. /\ \A c \in Caller : call[c].pc = "idle"
      /\ flight \cup Received = {}
  BY DEF Init, Idle, Received, Log!Members
<1>2. ASSUME NEW r \in Replica PROVE LogOf(r) = <<>> /\ Log!Members(LogOf(r)) = {}
  <2>1. messages[r] = <<>> /\ taken[r] = <<>>
    BY DEF Init
  <2>2. LogOf(r) = <<>>
    BY <2>1 DEF LogOf
  <2> QED BY <2>2 DEF Log!Members
<1>3. NewIsUnwritten /\ WritesLater /\ SentAfter
  BY <1>1 DEF NewIsUnwritten, WritesLater, SentAfter, Unwritten
<1>4. AtHome
  BY <1>2 DEF AtHome
<1>5. \A r \in Replica : DOMAIN LogOf(r) = {}
  BY <1>2
<1>6. LastIsCurrent /\ ListOrderIsExchangeOrder
  BY <1>5 DEF LastIsCurrent, ListOrderIsExchangeOrder, LogOf
<1> QED BY <1>3, <1>4, <1>6 DEF OrderInv

\* The broker reads the events of a replica in the order of its list: publish
\* writes, lists and waits for the close handshake under one lock.
THEOREM ListsFollowTheExchange == Spec => []ListOrderIsExchangeOrder
<1>1. ASSUME IInv, OrderInv, [Next]_vars PROVE OrderInv'
  <2>1. IInv' /\ NewIsUnwritten' /\ WritesLater'
    BY <1>1, ConstantsAssumption, IInvStep, UnwrittenStep DEF OrderInv
  <2>2. CASE \A c \in Caller : ~Record(c)
    <3>1. AtHome' /\ LastIsCurrent'
      BY <1>1, <2>1, <2>2, ConstantsAssumption, ListStep DEF OrderInv
    <3>2. SentAfter' /\ ListOrderIsExchangeOrder'
      BY <1>1, <2>1, <2>2, ConstantsAssumption, OrderStep
    <3> QED BY <2>1, <3>1, <3>2 DEF OrderInv
  <2>3. CASE \E c \in Caller : Record(c)
    <3>1. AtHome' /\ LastIsCurrent' /\ SentAfter' /\ ListOrderIsExchangeOrder'
      BY <1>1, <2>3, ConstantsAssumption, RecordOrders
    <3> QED BY <2>1, <3>1 DEF OrderInv
  <2> QED BY <2>2, <2>3
<1>2. OrderInv => ListOrderIsExchangeOrder
  BY DEF OrderInv
<1> QED
  BY <1>1, <1>2, OrderInit, IInvAlways, PTL DEF Spec
-----------------------------------------------------------------------------
(* A lock that is held is held by somebody who gives it back.  This is the *)
(* half of CallsEnd that does not depend on fairness: no exception of      *)
(* pika's, and no replica that goes away, leaves a lock behind.            *)

\* Whoever holds the lock of a replica is a thread of it, between the with
\* statement of publish, published_messages or drain and its end.
LocksAreHeld ==
  \A r \in Replica, c \in Caller :
    lock[r] = c => ReplicaOf[c] = r /\ call[c].pc \in Holding

\* A step that does not touch the locks takes nobody out of the block.
LEMMA StaysInside ==
  ASSUME LocksAreHeld, UNCHANGED lock,
         \A d \in Caller : call[d].pc \in Holding => call'[d].pc \in Holding
  PROVE  LocksAreHeld'
BY DEF LocksAreHeld

\* The end of the with statement.
LEMMA Releases ==
  ASSUME ConstantsAssumption, TypeOK, LocksAreHeld,
         NEW c \in Caller, lock[ReplicaOf[c]] = c, Return(c)
  PROVE  LocksAreHeld'
<1>1. /\ lock' = [lock EXCEPT ![ReplicaOf[c]] = Free] /\ call' = [call EXCEPT ![c] = Idle]
      /\ ReplicaOf[c] \in Replica /\ Free \notin Caller
  BY DEF Return, ConstantsAssumption
<1> SUFFICES ASSUME NEW r \in Replica, NEW d \in Caller, lock'[r] = d
             PROVE  ReplicaOf[d] = r /\ call'[d].pc \in Holding
  BY DEF LocksAreHeld
<1>2. r # ReplicaOf[c] /\ lock[r] = d
  BY <1>1 DEF TypeOK
<1>3. ReplicaOf[d] = r /\ call[d].pc \in Holding
  BY <1>2 DEF LocksAreHeld
<1>4. call'[d] = call[d]
  BY <1>1, <1>2, <1>3 DEF TypeOK
<1> QED
  BY <1>3, <1>4

LEMMA WorksKeepLocks ==
  ASSUME ConstantsAssumption, IInv, LocksAreHeld, NEW c \in Caller, Works(c)
  PROVE  LocksAreHeld'
<1>1. TypeOK /\ CallOk(c) /\ ReplicaOf[c] \in Replica /\ Free \notin Caller
  BY DEF IInv, ConstantsAssumption
<1>2. CASE Acquire(c)
  <2>1. AfterLock[call[c].pc] \in Holding
    BY <1>2 DEF Acquire, Waiting, AfterLock, Holding
  <2>2. /\ lock' = [lock EXCEPT ![ReplicaOf[c]] = c]
        /\ call'[c].pc \in Holding
        /\ \A d \in Caller \ {c} : call'[d] = call[d]
    BY <1>1, <1>2, <2>1 DEF Acquire, Goto, TypeOK
  <2> SUFFICES ASSUME NEW r \in Replica, NEW d \in Caller, lock'[r] = d
               PROVE  ReplicaOf[d] = r /\ call'[d].pc \in Holding
    BY DEF LocksAreHeld
  <2>3. CASE r = ReplicaOf[c]
    BY <1>1, <2>2, <2>3 DEF TypeOK
  <2>4. CASE r # ReplicaOf[c]
    <3>1. lock[r] = d
      BY <1>1, <2>2, <2>4 DEF TypeOK
    <3> QED
      BY <2>2, <2>4, <3>1 DEF LocksAreHeld
  <2> QED
    BY <2>3, <2>4
<1>3. CASE BuildPublisher(c) \/ Send(c) \/ SendFails(c) \/ Record(c) \/ Copy(c)
  <2>1. UNCHANGED lock
    BY <1>3 DEF BuildPublisher, Send, SendFails, Record, Copy
  <2>2. call'[c].pc \in Holding /\ \A d \in Caller \ {c} : call'[d] = call[d]
    BY <1>1, <1>3 DEF BuildPublisher, Send, SendFails, Record, Copy, Goto, TypeOK,
                      Holding, Sending
  <2> QED
    BY <2>1, <2>2, StaysInside
<1>4. CASE BuildFails(c) \/ Close(c) \/ CloseFails(c) \/ List(c) \/ Clear(c)
  <2>1. Return(c)
    BY <1>4 DEF BuildFails, Close, CloseFails, List, Clear
  <2>2. lock[ReplicaOf[c]] = c
    BY <1>1, <1>4 DEF BuildFails, Close, CloseFails, List, Clear, CallOk, Holding, Sending
  <2> QED
    BY <1>1, <2>1, <2>2, Releases
<1> QED
  BY <1>2, <1>3, <1>4 DEF Works

LEMMA RestartKeepsLocks ==
  ASSUME ConstantsAssumption, TypeOK, LocksAreHeld, NEW q \in Replica, Restart(q)
  PROVE  LocksAreHeld'
<1>1. /\ lock' = [lock EXCEPT ![q] = Free] /\ Free \notin Caller
      /\ \A d \in Caller : ReplicaOf[d] # q => call'[d] = call[d]
  BY DEF Restart, ConstantsAssumption
<1> SUFFICES ASSUME NEW r \in Replica, NEW d \in Caller, lock'[r] = d
             PROVE  ReplicaOf[d] = r /\ call'[d].pc \in Holding
  BY DEF LocksAreHeld
<1>2. r # q /\ lock[r] = d
  BY <1>1 DEF TypeOK
<1> QED
  BY <1>1, <1>2 DEF LocksAreHeld

LEMMA LocksStep ==
  ASSUME ConstantsAssumption, IInv, LocksAreHeld, [Next]_vars
  PROVE  LocksAreHeld'
<1>1. TypeOK
  BY DEF IInv
<1>2. ASSUME NEW c \in Caller,
             \/ \E e \in Event : BeginPublish(c, e)
             \/ BeginRead(c, "waitList") \/ BeginRead(c, "waitDrain")
             \/ Cut(c)
      PROVE  LocksAreHeld'
  <2>1. UNCHANGED lock
    BY <1>2 DEF BeginPublish, BeginRead, Cut
  <2>2. call[c].pc \in Holding => call'[c].pc = call[c].pc
    BY <1>1, <1>2 DEF BeginPublish, BeginRead, Cut, Holding, Sending, TypeOK
  <2>3. \A d \in Caller \ {c} : call'[d] = call[d]
    BY <1>1, <1>2 DEF BeginPublish, BeginRead, Cut, Goto, TypeOK
  <2> QED
    BY <2>1, <2>2, <2>3, StaysInside
<1>3. ASSUME NEW e \in Event, BrokerReads(e) \/ FlightLost(e) PROVE LocksAreHeld'
  BY <1>3, StaysInside DEF BrokerReads, FlightLost
<1>4. CASE UNCHANGED vars
  BY <1>4, StaysInside DEF vars
<1> QED
  BY <1>1, <1>2, <1>3, <1>4, WorksKeepLocks, RestartKeepsLocks DEF Next

\* No lock is left behind: a thread that waits for one waits for a thread
\* that is inside its block.
THEOREM LocksAreNeverLeft == Spec => []LocksAreHeld
<1>1. Init => LocksAreHeld
  BY ConstantsAssumption DEF Init, LocksAreHeld, ConstantsAssumption
<1>2. IInv /\ LocksAreHeld /\ [Next]_vars => LocksAreHeld'
  BY LocksStep, ConstantsAssumption
<1> QED
  BY <1>1, <1>2, IInvAlways, PTL DEF Spec
=============================================================================
