------------------------- MODULE QuoteIntakeProofs -------------------------
(***************************************************************************)
(* Proofs about QuoteIntake, for every set of workers and messages and     *)
(* every number of faults.                                                 *)
(***************************************************************************)
EXTENDS QuoteIntake, FiniteSetTheorems, TLAPS

AfterSave == {"publish", "markCheck", "markInsert"}

\* Only an OS_OPENED gets as far as the quote.
HandlesOpened ==
  \A w \in Worker : worker[w].pc \in AfterSave \cup {"save"} =>
    worker[w].msg \in Opened

\* What a worker has done for its event once it is about to mark it.
MarksAnnounced ==
  \A w \in Worker : worker[w].pc \in {"markCheck", "markInsert"} =>
    announced[Ev(w)] > 0

\* The workers that have saved a quote of e they have not announced.
Publishing(e) == {w \in Worker : worker[w].pc = "publish" /\ Ev(w) = e}

\* Every announcement has a quote of its own, and so has every worker that is
\* about to announce.
QuotesCoverAnnouncements ==
  \A e \in Event : created[e] >= announced[e] + Cardinality(Publishing(e))

AnnouncementInv ==
  /\ MarksAnnounced
  /\ QuotesCoverAnnouncements
  /\ \A e \in processed : announced[e] > 0

\* A worker about to acknowledge an OS_OPENED found its event processed.
AckFollowsMark ==
  \A w \in Worker : worker[w].pc = "ack" /\ worker[w].msg \in Opened =>
    Ev(w) \in processed

\* So did a worker about to refuse one, as long as nothing has raised.
NackFollowsMark ==
  errors = 0 =>
    \A w \in Worker : worker[w].pc = "nack" /\ worker[w].msg \in Opened =>
      Ev(w) \in processed

SettleInv ==
  /\ AckFollowsMark
  /\ AckedIsProcessed
  /\ NackFollowsMark
  /\ RefusedIsProcessed

\* The workers about to save a quote of e, and those that have saved one and
\* not marked e yet.
Saving(e) == {w \in Worker : worker[w].pc = "save" /\ Ev(w) = e}
Saved(e) == {w \in Worker : worker[w].pc \in AfterSave /\ Ev(w) = e}

\* Before an event is marked, each of its quotes belongs to a worker that is
\* still handling it or to a fault; once it is marked, no worker starts on it.
QuoteBudget ==
  \A e \in Event :
    IF e \in processed
    THEN created[e] + Cardinality(Saving(e))
           =< Cardinality(Worker) + crashes + errors
    ELSE created[e] =< Cardinality(Saved(e)) + crashes + errors

\* Sets of workers before and after a step of w.
OneCount(w, S, T) ==
  /\ Cardinality(S) \in Nat
  /\ Cardinality(T) \in Nat
  /\ (w \in S <=> w \in T) => Cardinality(T) = Cardinality(S)
  /\ w \notin S /\ w \in T => Cardinality(T) = Cardinality(S) + 1
  /\ w \in S /\ w \notin T => Cardinality(S) = Cardinality(T) + 1
-----------------------------------------------------------------------------
(* Types, and what kind of message each worker is handling.                *)

TypeInv == TypeOK /\ HandlesOpened

LEMMA InitTypes == Init => TypeInv
  BY ConstantsAssumption
  DEF Init, TypeInv, TypeOK, HandlesOpened, Pcs, Handling, Delivery, AfterSave

LEMMA QueueTypes ==
  ASSUME TypeOK
  PROVE  /\ queue # <<>> => Head(queue) \in Delivery /\ Tail(queue) \in Seq(Delivery)
         /\ \A m \in Delivery : /\ Append(queue, m) \in Seq(Delivery)
                                /\ <<m>> \o queue \in Seq(Delivery)
<1>1. queue \in Seq(Delivery) BY DEF TypeOK
<1>2. \A m \in Delivery : <<m>> \in Seq(Delivery) OBVIOUS
<1> QED BY <1>1, <1>2

LEMMA StepTypes == TypeInv /\ [Next]_vars => TypeInv'
<1> SUFFICES ASSUME TypeInv, [Next]_vars PROVE TypeInv'
  OBVIOUS
<1> USE DEF TypeInv
<1>t. /\ sent \subseteq Msg
      /\ queue \in Seq(Delivery)
      /\ worker \in [Worker -> [pc : Pcs, msg : Delivery, connected : BOOLEAN]]
      /\ created \in [Event -> Nat]
      /\ announced \in [Event -> Nat]
      /\ processed \subseteq Event
      /\ settled \in [Msg -> {"no", "acked", "dropped"}]
      /\ crashes \in Nat
      /\ errors \in Nat
  BY DEF TypeOK
<1>h. HandlesOpened OBVIOUS
<1>m. \A w \in Worker : worker[w].msg \in Delivery
  BY <1>t
<1>e. \A w \in Worker : worker[w].pc \in AfterSave \cup {"save"} => Ev(w) \in Event
  BY <1>h, ConstantsAssumption DEF HandlesOpened, Opened, Ev
<1>1. ASSUME NEW m \in Msg, Produce(m) PROVE TypeInv'
  <2>1. queue' \in Seq(Delivery)
    BY <1>1, QueueTypes DEF Produce, Delivery
  <2> QED
    BY <1>1, <1>t, <1>h, <2>1 DEF Produce, TypeOK, HandlesOpened, tables, faults
<1>2. ASSUME NEW w \in Worker, Deliver(w) PROVE TypeInv'
  <2>1. Head(queue) \in Delivery /\ queue' \in Seq(Delivery)
    BY <1>2, QueueTypes DEF Deliver
  <2>2. worker' \in [Worker -> [pc : Pcs, msg : Delivery, connected : BOOLEAN]]
    BY <1>2, <1>t, <2>1 DEF Deliver, Pcs, Handling
  <2> QED
    BY <1>2, <1>t, <1>h, <2>1, <2>2
    DEF Deliver, TypeOK, HandlesOpened, AfterSave, tables, faults
<1>3. ASSUME NEW w \in Worker, Check(w) PROVE TypeInv'
  <2>1. /\ NextPc(worker[w].msg) \in {"ack", "nack", "save"}
        /\ NextPc(worker[w].msg) = "save" => worker[w].msg \in Opened
    BY <1>m, ConstantsAssumption DEF NextPc, Opened, Delivery, MsgTypes
  <2>2. worker' \in [Worker -> [pc : Pcs, msg : Delivery, connected : BOOLEAN]]
    BY <1>3, <1>t, <2>1 DEF Check, Goto, Pcs, Handling
  <2> QED
    BY <1>3, <1>t, <1>h, <2>1, <2>2
    DEF Check, Goto, TypeOK, HandlesOpened, AfterSave, tables, faults
<1>4. ASSUME NEW w \in Worker, SaveQuote(w) PROVE TypeInv'
  <2>e. Ev(w) \in Event BY <1>4, <1>e DEF SaveQuote
  <2>1. created' \in [Event -> Nat]
    BY <1>4, <1>t, <2>e DEF SaveQuote
  <2>w. worker' \in [Worker -> [pc : Pcs, msg : Delivery, connected : BOOLEAN]]
    BY <1>4, <1>t DEF SaveQuote, Goto, Pcs, Handling
  <2>o. HandlesOpened'
    BY <1>4, <1>t, <1>h DEF SaveQuote, Goto, HandlesOpened, AfterSave
  <2> QED
    BY <1>4, <1>t, <2>1, <2>w, <2>o DEF SaveQuote, TypeOK, faults
<1>5. ASSUME NEW w \in Worker, Publish(w) PROVE TypeInv'
  <2>e. Ev(w) \in Event BY <1>5, <1>e DEF Publish, AfterSave
  <2>1. announced' \in [Event -> Nat]
    BY <1>5, <1>t, <2>e DEF Publish
  <2>2. queue' \in Seq(Delivery)
    BY <1>5, QueueTypes DEF Publish, Delivery
  <2>w. worker' \in [Worker -> [pc : Pcs, msg : Delivery, connected : BOOLEAN]]
    BY <1>5, <1>t DEF Publish, Goto, Pcs, Handling
  <2>o. HandlesOpened'
    BY <1>5, <1>t, <1>h DEF Publish, Goto, HandlesOpened, AfterSave
  <2> QED
    BY <1>5, <1>t, <2>1, <2>2, <2>w, <2>o DEF Publish, TypeOK, tables, faults
<1>6. ASSUME NEW w \in Worker, MarkCheck(w) PROVE TypeInv'
  <2>w. worker' \in [Worker -> [pc : Pcs, msg : Delivery, connected : BOOLEAN]]
    BY <1>6, <1>t DEF MarkCheck, Goto, Pcs, Handling
  <2>o. HandlesOpened'
    BY <1>6, <1>t, <1>h DEF MarkCheck, Goto, HandlesOpened, AfterSave
  <2> QED
    BY <1>6, <1>t, <2>w, <2>o DEF MarkCheck, TypeOK, tables, faults
<1>7. ASSUME NEW w \in Worker, MarkInsert(w) PROVE TypeInv'
  <2>e. Ev(w) \in Event BY <1>7, <1>e DEF MarkInsert, AfterSave
  <2>1. processed' \subseteq Event
    BY <1>7, <1>t, <2>e DEF MarkInsert
  <2>w. worker' \in [Worker -> [pc : Pcs, msg : Delivery, connected : BOOLEAN]]
    BY <1>7, <1>t DEF MarkInsert, Goto, Pcs, Handling
  <2>o. HandlesOpened'
    BY <1>7, <1>t, <1>h DEF MarkInsert, Goto, HandlesOpened, AfterSave
  <2> QED
    BY <1>7, <1>t, <2>1, <2>w, <2>o DEF MarkInsert, TypeOK, faults
<1>8. ASSUME NEW w \in Worker, NEW outcome \in {"acked", "dropped"}, Settle(w, outcome),
             UNCHANGED <<sent, queue, tables, announced, faults>>
      PROVE  TypeInv'
  <2>1. settled' \in [Msg -> {"no", "acked", "dropped"}]
    <3>1. CASE settled' = settled
      BY <3>1, <1>t
    <3>2. CASE settled' = [settled EXCEPT ![worker[w].msg] = outcome]
      BY <3>2, <1>8, <1>t
    <3>3. settled' = settled \/ settled' = [settled EXCEPT ![worker[w].msg] = outcome]
      BY <1>8, Zenon DEF Settle
    <3> QED BY <3>1, <3>2, <3>3
  <2>w. worker' \in [Worker -> [pc : Pcs, msg : Delivery, connected : BOOLEAN]]
    <3>1. CASE worker' = [worker EXCEPT ![w].pc = "idle"]
      BY <3>1, <1>t DEF Pcs
    <3>2. CASE worker' = [worker EXCEPT ![w].pc = "down"]
      BY <3>2, <1>t DEF Pcs
    <3>3. Goto(w, "idle") \/ Goto(w, "down")
      BY <1>8, Zenon DEF Settle
    <3> QED BY <3>1, <3>2, <3>3 DEF Goto
  <2>o. HandlesOpened'
    <3>1. PICK pc \in {"idle", "down"} : worker' = [worker EXCEPT ![w].pc = pc]
      BY <1>8, Zenon DEF Settle, Goto
    <3> QED BY <3>1, <1>t, <1>h DEF HandlesOpened, AfterSave
  <2> QED
    BY <1>8, <1>t, <2>1, <2>w, <2>o DEF Settle, TypeOK, tables, faults
<1>9. ASSUME NEW w \in Worker, Fail(w) PROVE TypeInv'
  <2>w. worker' \in [Worker -> [pc : Pcs, msg : Delivery, connected : BOOLEAN]]
    BY <1>9, <1>t DEF Fail, Goto, Pcs, Handling
  <2>o. HandlesOpened'
    BY <1>9, <1>t, <1>h DEF Fail, Goto, HandlesOpened, AfterSave
  <2> QED
    BY <1>9, <1>t, <2>w, <2>o DEF Fail, TypeOK, tables
<1>10. ASSUME NEW w \in Worker, Crash(w) PROVE TypeInv'
  <2>1. queue' \in Seq(Delivery)
    BY <1>10, <1>t, <1>m, QueueTypes DEF Crash, Requeued
  <2>w. worker' \in [Worker -> [pc : Pcs, msg : Delivery, connected : BOOLEAN]]
    BY <1>10, <1>t DEF Crash, Goto, Pcs, Handling
  <2>o. HandlesOpened'
    BY <1>10, <1>t, <1>h DEF Crash, Goto, HandlesOpened, AfterSave
  <2> QED
    BY <1>10, <1>t, <2>1, <2>w, <2>o DEF Crash, TypeOK, tables
<1>11. ASSUME NEW w \in Worker, DropConnection(w) PROVE TypeInv'
  <2>1. queue' \in Seq(Delivery)
    BY <1>11, <1>t, <1>m, QueueTypes DEF DropConnection, Requeued
  <2>w. worker' \in [Worker -> [pc : Pcs, msg : Delivery, connected : BOOLEAN]]
    BY <1>11, <1>t DEF DropConnection, Goto, Pcs, Handling
  <2>o. HandlesOpened'
    BY <1>11, <1>t, <1>h DEF DropConnection, Goto, HandlesOpened, AfterSave
  <2> QED
    BY <1>11, <1>t, <2>1, <2>w, <2>o DEF DropConnection, TypeOK, tables
<1>12. ASSUME NEW w \in Worker, Restart(w) PROVE TypeInv'
  BY <1>12, <1>t, <1>h
  DEF Restart, TypeOK, HandlesOpened, AfterSave, Pcs, Handling, tables, faults
<1>13. CASE UNCHANGED vars
  BY <1>13, <1>t, <1>h DEF vars, TypeOK, HandlesOpened
<1> QED
  BY <1>1, <1>2, <1>3, <1>4, <1>5, <1>6, <1>7, <1>8, <1>9, <1>10, <1>11, <1>12, <1>13
  DEF Next, WorkerStep, Ack, Nack

\* The worker's variables keep their types, and only an OS_OPENED is ever
\* turned into a quote (BillingIntegrationEventHandler.handle).
THEOREM IntakeTypes == Spec => []TypeInv
<1>1. Init => TypeInv BY InitTypes
<1>2. TypeInv /\ [Next]_vars => TypeInv' BY StepTypes
<1> QED BY <1>1, <1>2, PTL DEF Spec

\* The type invariant alone.
THEOREM IntakeTypeCorrect == Spec => []TypeOK
<1>1. TypeInv => TypeOK BY DEF TypeInv
<1> QED BY <1>1, IntakeTypes, PTL
-----------------------------------------------------------------------------
(* Counting workers.                                                       *)

\* A set of workers that changes at most by one of them.
LEMMA OneWorker ==
  ASSUME NEW w \in Worker, NEW S \in SUBSET Worker, NEW T \in SUBSET Worker,
         \A v \in Worker \ {w} : v \in T <=> v \in S
  PROVE  OneCount(w, S, T)
<1> USE DEF OneCount
<1>1. IsFiniteSet(S) /\ IsFiniteSet(T)
  BY ConstantsAssumption, FS_Subset
<1>2. Cardinality(S) \in Nat /\ Cardinality(T) \in Nat
  BY <1>1, FS_CardinalityType
<1>3. CASE w \in S <=> w \in T
  <2>1. S = T BY <1>3
  <2> QED BY <1>2, <1>3, <2>1
<1>4. CASE w \notin S /\ w \in T
  <2>1. T = S \cup {w} BY <1>4
  <2>2. Cardinality(T) = Cardinality(S) + 1
    BY <1>1, <1>4, <2>1, FS_AddElement
  <2> QED BY <1>2, <1>4, <2>2
<1>5. CASE w \in S /\ w \notin T
  <2>1. S = T \cup {w} BY <1>5
  <2>2. Cardinality(S) = Cardinality(T) + 1
    BY <1>1, <1>5, <2>1, FS_AddElement
  <2> QED BY <1>2, <1>5, <2>2
<1> QED BY <1>3, <1>4, <1>5

\* Disjoint sets of workers.
LEMMA TwoSets ==
  ASSUME NEW S \in SUBSET Worker, NEW T \in SUBSET Worker, S \cap T = {}
  PROVE  /\ Cardinality(S) \in Nat
         /\ Cardinality(T) \in Nat
         /\ Cardinality(Worker) \in Nat
         /\ Cardinality(S) =< Cardinality(Worker)
         /\ Cardinality(S) + Cardinality(T) =< Cardinality(Worker)
<1>1. IsFiniteSet(Worker) /\ IsFiniteSet(S) /\ IsFiniteSet(T)
  BY ConstantsAssumption, FS_Subset
<1>2. /\ Cardinality(S) \in Nat
      /\ Cardinality(T) \in Nat
      /\ Cardinality(Worker) \in Nat
  BY <1>1, FS_CardinalityType
<1>3. Cardinality(S \cup T) = Cardinality(S) + Cardinality(T) - Cardinality({})
  BY <1>1, FS_Union
<1>4. Cardinality({}) = 0
  BY FS_EmptySet
<1>5. S \cup T \in SUBSET Worker
  OBVIOUS
<1>6. Cardinality(S \cup T) =< Cardinality(Worker) /\ Cardinality(S) =< Cardinality(Worker)
  BY <1>1, <1>5, FS_Subset
<1> QED BY <1>2, <1>3, <1>4, <1>6

\* A step of one worker leaves the others alone, and its message too unless
\* it is a delivery.
LEMMA OneMoves ==
  ASSUME TypeOK, NEW w \in Worker,
         WorkerStep(w) \/ Fail(w) \/ Crash(w) \/ DropConnection(w)
  PROVE  /\ \A v \in Worker \ {w} : worker'[v] = worker[v]
         /\ worker[w].pc # "idle" => worker'[w].msg = worker[w].msg
<1>1. worker \in [Worker -> [pc : Pcs, msg : Delivery, connected : BOOLEAN]]
  BY DEF TypeOK
<1>2. \/ \E pc : worker' = [worker EXCEPT ![w].pc = pc]
      \/ worker' = [worker EXCEPT ![w].connected = FALSE]
      \/ worker' = [worker EXCEPT ![w].pc = "idle", ![w].connected = TRUE]
      \/ /\ worker[w].pc = "idle"
         /\ worker' = [worker EXCEPT ![w].pc = "check", ![w].msg = Head(queue)]
  BY DEF WorkerStep, Deliver, Check, SaveQuote, Publish, MarkCheck, MarkInsert, Ack,
         Nack, Restart, Fail, Crash, DropConnection, Settle, Goto
<1> QED BY <1>1, <1>2

\* How the counts of an event change when one worker moves.
LEMMA CountsMove ==
  ASSUME TypeInv, NEW w \in Worker, NEW e \in Event,
         WorkerStep(w) \/ Fail(w) \/ Crash(w) \/ DropConnection(w)
  PROVE  /\ OneCount(w, Publishing(e), Publishing(e)')
         /\ OneCount(w, Saving(e), Saving(e)')
         /\ OneCount(w, Saved(e), Saved(e)')
<1>1. \A v \in Worker \ {w} : worker'[v] = worker[v]
  BY OneMoves DEF TypeInv
<1>2. OneCount(w, Publishing(e), Publishing(e)')
  <2>1. /\ Publishing(e) \in SUBSET Worker
        /\ Publishing(e)' \in SUBSET Worker
        /\ \A v \in Worker \ {w} : v \in Publishing(e)' <=> v \in Publishing(e)
    BY <1>1 DEF Publishing, Ev
  <2> QED BY <2>1, OneWorker
<1>3. OneCount(w, Saving(e), Saving(e)')
  <2>1. /\ Saving(e) \in SUBSET Worker
        /\ Saving(e)' \in SUBSET Worker
        /\ \A v \in Worker \ {w} : v \in Saving(e)' <=> v \in Saving(e)
    BY <1>1 DEF Saving, Ev
  <2> QED BY <2>1, OneWorker
<1>4. OneCount(w, Saved(e), Saved(e)')
  <2>1. /\ Saved(e) \in SUBSET Worker
        /\ Saved(e)' \in SUBSET Worker
        /\ \A v \in Worker \ {w} : v \in Saved(e)' <=> v \in Saved(e)
    BY <1>1 DEF Saved, Ev
  <2> QED BY <2>1, OneWorker
<1> QED BY <1>2, <1>3, <1>4
-----------------------------------------------------------------------------
(* Quotes, announcements and marks.                                        *)

LEMMA Facts ==
  ASSUME TypeInv
  PROVE  /\ worker \in [Worker -> [pc : Pcs, msg : Delivery, connected : BOOLEAN]]
         /\ created \in [Event -> Nat]
         /\ announced \in [Event -> Nat]
         /\ processed \subseteq Event
         /\ crashes \in Nat
         /\ errors \in Nat
         /\ \A w \in Worker : worker[w].pc \in AfterSave \cup {"save"} =>
              Ev(w) \in Event
  BY ConstantsAssumption DEF TypeInv, TypeOK, HandlesOpened, Opened, Ev

\* Steps that touch neither the quotes nor the exchange nor the marks, and
\* bring their worker no closer to a mark.
LEMMA QuietAnnouncement ==
  ASSUME TypeInv, AnnouncementInv, NEW w \in Worker,
         WorkerStep(w) \/ Fail(w) \/ Crash(w) \/ DropConnection(w),
         UNCHANGED <<created, announced, processed>>,
         worker'[w].pc = "publish" => worker[w].pc = "publish",
         worker'[w].pc \in {"markCheck", "markInsert"} =>
           worker[w].pc \in {"markCheck", "markInsert"}
  PROVE  AnnouncementInv'
<1>1. /\ \A v \in Worker \ {w} : worker'[v] = worker[v]
      /\ worker[w].pc # "idle" => worker'[w].msg = worker[w].msg
  BY OneMoves DEF TypeInv
<1>2. MarksAnnounced'
  BY <1>1 DEF AnnouncementInv, MarksAnnounced, Ev
<1>3. QuotesCoverAnnouncements'
  <2> SUFFICES ASSUME NEW e \in Event
               PROVE  created[e] >= announced[e] + Cardinality(Publishing(e)')
    BY DEF QuotesCoverAnnouncements
  <2>1. OneCount(w, Publishing(e), Publishing(e)')
    BY CountsMove
  <2>2. w \in Publishing(e)' => w \in Publishing(e)
    BY <1>1 DEF Publishing, Ev
  <2>3. created[e] >= announced[e] + Cardinality(Publishing(e))
    BY DEF AnnouncementInv, QuotesCoverAnnouncements
  <2> QED BY <2>1, <2>2, <2>3, Facts DEF OneCount
<1>4. \A e \in processed' : announced'[e] > 0
  BY DEF AnnouncementInv
<1> QED BY <1>2, <1>3, <1>4 DEF AnnouncementInv

LEMMA StepAnnouncement == TypeInv /\ AnnouncementInv /\ [Next]_vars => AnnouncementInv'
<1> SUFFICES ASSUME TypeInv, AnnouncementInv, [Next]_vars PROVE AnnouncementInv'
  OBVIOUS
<1>a. /\ MarksAnnounced
      /\ QuotesCoverAnnouncements
      /\ \A e \in processed : announced[e] > 0
  BY DEF AnnouncementInv
<1>f. /\ worker \in [Worker -> [pc : Pcs, msg : Delivery, connected : BOOLEAN]]
      /\ created \in [Event -> Nat]
      /\ announced \in [Event -> Nat]
      /\ processed \subseteq Event
  BY Facts
<1>e. \A w \in Worker : worker[w].pc \in AfterSave \cup {"save"} => Ev(w) \in Event
  BY Facts
<1>1. ASSUME NEW w \in Worker, SaveQuote(w) PROVE AnnouncementInv'
  <2>e. Ev(w) \in Event
    BY <1>1, <1>e DEF SaveQuote
  <2>1. /\ \A v \in Worker \ {w} : worker'[v] = worker[v]
        /\ worker[w].pc = "save" /\ worker'[w].pc = "publish"
        /\ worker'[w].msg = worker[w].msg
        /\ UNCHANGED <<announced, processed>>
        /\ created' = [created EXCEPT ![Ev(w)] = @ + 1]
    BY <1>1, <1>f DEF SaveQuote, Goto
  <2>2. MarksAnnounced'
    BY <1>a, <2>1 DEF MarksAnnounced, Ev
  <2>3. ASSUME NEW e \in Event
        PROVE  created'[e] >= announced[e] + Cardinality(Publishing(e)')
    <3>1. OneCount(w, Publishing(e), Publishing(e)')
      BY <1>1, CountsMove DEF WorkerStep
    <3>2. w \notin Publishing(e) /\ (w \in Publishing(e)' <=> e = Ev(w))
      BY <2>1 DEF Publishing, Ev
    <3>3. created'[e] = IF e = Ev(w) THEN created[e] + 1 ELSE created[e]
      BY <2>1, <1>f
    <3>4. created[e] >= announced[e] + Cardinality(Publishing(e))
      BY <1>a DEF QuotesCoverAnnouncements
    <3> QED BY <3>1, <3>2, <3>3, <3>4, <1>f DEF OneCount
  <2> QED BY <1>a, <2>1, <2>2, <2>3 DEF AnnouncementInv, QuotesCoverAnnouncements
<1>2. ASSUME NEW w \in Worker, Publish(w) PROVE AnnouncementInv'
  <2>e. Ev(w) \in Event
    BY <1>2, <1>e DEF Publish, AfterSave
  <2>1. /\ \A v \in Worker \ {w} : worker'[v] = worker[v]
        /\ worker[w].pc = "publish" /\ worker'[w].pc = "markCheck"
        /\ worker'[w].msg = worker[w].msg
        /\ UNCHANGED <<created, processed>>
        /\ announced' = [announced EXCEPT ![Ev(w)] = @ + 1]
    BY <1>2, <1>f DEF Publish, Goto, tables
  <2>2. \A e \in Event : announced'[e] = IF e = Ev(w) THEN announced[e] + 1 ELSE announced[e]
    BY <2>1, <1>f
  <2>3. MarksAnnounced'
    <3> SUFFICES ASSUME NEW v \in Worker, worker'[v].pc \in {"markCheck", "markInsert"}
                 PROVE  announced'[Ev(v)'] > 0
      BY DEF MarksAnnounced
    <3>1. CASE v = w
      <4>1. Ev(v)' = Ev(w) BY <2>1, <3>1 DEF Ev
      <4> QED BY <4>1, <2>e, <2>2, <1>f
    <3>2. CASE v # w
      <4>1. /\ Ev(v)' = Ev(v)
            /\ worker[v].pc \in {"markCheck", "markInsert"}
        BY <2>1, <3>2 DEF Ev
      <4>2. Ev(v) \in Event BY <4>1, <1>e DEF AfterSave
      <4>3. announced[Ev(v)] > 0 BY <1>a, <4>1 DEF MarksAnnounced
      <4> QED BY <4>1, <4>2, <4>3, <2>2, <1>f
    <3> QED BY <3>1, <3>2
  <2>4. ASSUME NEW e \in Event
        PROVE  created[e] >= announced'[e] + Cardinality(Publishing(e)')
    <3>1. OneCount(w, Publishing(e), Publishing(e)')
      BY <1>2, CountsMove DEF WorkerStep
    <3>2. w \notin Publishing(e)' /\ (w \in Publishing(e) <=> e = Ev(w))
      BY <2>1 DEF Publishing
    <3>3. created[e] >= announced[e] + Cardinality(Publishing(e))
      BY <1>a DEF QuotesCoverAnnouncements
    <3> QED BY <3>1, <3>2, <3>3, <2>2, <1>f DEF OneCount
  <2>5. \A e \in processed' : announced'[e] > 0
    BY <1>a, <1>f, <2>1, <2>2
  <2> QED BY <2>1, <2>3, <2>4, <2>5 DEF AnnouncementInv, QuotesCoverAnnouncements
<1>3. ASSUME NEW w \in Worker, MarkInsert(w) PROVE AnnouncementInv'
  <2>1. /\ \A v \in Worker \ {w} : worker'[v] = worker[v]
        /\ worker[w].pc = "markInsert" /\ worker'[w].pc \in {"ack", "nack"}
        /\ UNCHANGED <<created, announced>>
        /\ processed' = processed \cup {Ev(w)}
    BY <1>3, <1>f DEF MarkInsert, Goto
  <2>2. MarksAnnounced'
    BY <1>a, <2>1 DEF MarksAnnounced, Ev
  <2>3. ASSUME NEW e \in Event
        PROVE  created[e] >= announced[e] + Cardinality(Publishing(e)')
    <3>1. OneCount(w, Publishing(e), Publishing(e)')
      BY <1>3, CountsMove DEF WorkerStep
    <3>2. w \notin Publishing(e)' /\ w \notin Publishing(e)
      BY <2>1 DEF Publishing
    <3>3. created[e] >= announced[e] + Cardinality(Publishing(e))
      BY <1>a DEF QuotesCoverAnnouncements
    <3> QED BY <3>1, <3>2, <3>3 DEF OneCount
  <2>4. announced[Ev(w)] > 0
    BY <1>a, <2>1 DEF MarksAnnounced
  <2> QED BY <1>a, <2>1, <2>2, <2>3, <2>4 DEF AnnouncementInv, QuotesCoverAnnouncements
<1>4. ASSUME NEW w \in Worker, Deliver(w) PROVE AnnouncementInv'
  <2>1. worker'[w].pc = "check" /\ UNCHANGED <<created, announced, processed>>
    BY <1>4, <1>f DEF Deliver, tables
  <2> QED BY <1>4, <2>1, QuietAnnouncement DEF WorkerStep
<1>5. ASSUME NEW w \in Worker, Check(w) PROVE AnnouncementInv'
  <2>1. worker'[w].pc \in {"ack", "nack", "save"} /\ UNCHANGED <<created, announced, processed>>
    BY <1>5, <1>f DEF Check, Goto, NextPc, tables
  <2> QED BY <1>5, <2>1, QuietAnnouncement DEF WorkerStep
<1>6. ASSUME NEW w \in Worker, MarkCheck(w) PROVE AnnouncementInv'
  <2>1. /\ worker[w].pc = "markCheck" /\ worker'[w].pc \in {"ack", "markInsert"}
        /\ UNCHANGED <<created, announced, processed>>
    BY <1>6, <1>f DEF MarkCheck, Goto, tables
  <2> QED BY <1>6, <2>1, QuietAnnouncement DEF WorkerStep
<1>7. ASSUME NEW w \in Worker, Ack(w) \/ Nack(w) PROVE AnnouncementInv'
  <2>1. worker'[w].pc \in {"idle", "down"} /\ UNCHANGED <<created, announced, processed>>
    BY <1>7, <1>f DEF Ack, Nack, Settle, Goto, tables
  <2> QED BY <1>7, <2>1, QuietAnnouncement DEF WorkerStep
<1>8. ASSUME NEW w \in Worker, Fail(w) \/ Crash(w) PROVE AnnouncementInv'
  <2>1. worker'[w].pc \in {"nack", "down"} /\ UNCHANGED <<created, announced, processed>>
    BY <1>8, <1>f DEF Fail, Crash, Goto, tables
  <2> QED BY <1>8, <2>1, QuietAnnouncement
<1>9. ASSUME NEW w \in Worker, DropConnection(w) PROVE AnnouncementInv'
  <2>1. worker'[w].pc = worker[w].pc /\ UNCHANGED <<created, announced, processed>>
    BY <1>9, <1>f DEF DropConnection, tables
  <2> QED BY <1>9, <2>1, QuietAnnouncement
<1>10. ASSUME NEW w \in Worker, Restart(w) PROVE AnnouncementInv'
  <2>1. worker'[w].pc = "idle" /\ UNCHANGED <<created, announced, processed>>
    BY <1>10, <1>f DEF Restart, tables
  <2> QED BY <1>10, <2>1, QuietAnnouncement DEF WorkerStep
<1>11. CASE UNCHANGED <<worker, created, announced, processed>>
  <2>1. \A e : Publishing(e)' = Publishing(e) BY <1>11 DEF Publishing, Ev
  <2> QED
    BY <1>11, <1>a, <2>1 DEF AnnouncementInv, MarksAnnounced, QuotesCoverAnnouncements, Ev
<1> QED
  BY <1>1, <1>2, <1>3, <1>4, <1>5, <1>6, <1>7, <1>8, <1>9, <1>10, <1>11
  DEF Next, WorkerStep, Produce, vars, tables
-----------------------------------------------------------------------------
(* Acknowledgements and refusals.                                          *)

\* Steps that settle no message: they may only bring their worker to an
\* acknowledgement or a refusal if the event is marked.
LEMMA QuietSettle ==
  ASSUME TypeInv, SettleInv, NEW w \in Worker,
         WorkerStep(w) \/ Fail(w) \/ Crash(w) \/ DropConnection(w),
         settled' = settled, processed \subseteq processed',
         errors' = 0 => errors = 0,
         worker'[w].pc = "ack" /\ worker'[w].msg \in Opened => Ev(w)' \in processed',
         worker'[w].pc = "nack" /\ worker'[w].msg \in Opened /\ errors' = 0 =>
           Ev(w)' \in processed'
  PROVE  SettleInv'
<1>1. \A v \in Worker \ {w} : worker'[v] = worker[v]
  BY OneMoves DEF TypeInv
<1>2. AckFollowsMark' /\ AckedIsProcessed'
  BY <1>1 DEF SettleInv, AckFollowsMark, AckedIsProcessed, Ev, Opened
<1>3. NackFollowsMark' /\ RefusedIsProcessed'
  BY <1>1 DEF SettleInv, NackFollowsMark, RefusedIsProcessed, Ev, Opened
<1> QED BY <1>2, <1>3 DEF SettleInv

LEMMA StepSettle == TypeInv /\ SettleInv /\ [Next]_vars => SettleInv'
<1> SUFFICES ASSUME TypeInv, SettleInv, [Next]_vars PROVE SettleInv'
  OBVIOUS
<1>a. /\ AckFollowsMark
      /\ AckedIsProcessed
      /\ NackFollowsMark
      /\ RefusedIsProcessed
  BY DEF SettleInv
<1>f. /\ worker \in [Worker -> [pc : Pcs, msg : Delivery, connected : BOOLEAN]]
      /\ errors \in Nat
      /\ settled \in [Msg -> {"no", "acked", "dropped"}]
  BY DEF TypeInv, TypeOK
<1>1. ASSUME NEW w \in Worker,
             Deliver(w) \/ SaveQuote(w) \/ Publish(w) \/ Restart(w)
      PROVE  SettleInv'
  <2>1. /\ worker'[w].pc \in {"check", "publish", "markCheck", "idle"}
        /\ UNCHANGED <<settled, processed, errors>>
    BY <1>1, <1>f DEF Deliver, SaveQuote, Publish, Restart, Goto, tables, faults
  <2> QED BY <1>1, <1>a, <2>1, QuietSettle DEF WorkerStep
<1>2. ASSUME NEW w \in Worker, Check(w) PROVE SettleInv'
  <2>1. /\ worker'[w].pc = NextPc(worker[w].msg) /\ worker'[w].msg = worker[w].msg
        /\ UNCHANGED <<settled, processed, errors>>
    BY <1>2, <1>f DEF Check, Goto, tables, faults
  <2>2. ASSUME worker[w].msg \in Opened
        PROVE  /\ NextPc(worker[w].msg) # "nack"
               /\ NextPc(worker[w].msg) = "ack" => Ev(w) \in processed
    BY <2>2, ConstantsAssumption DEF NextPc, Opened, Ev
  <2>3. Ev(w)' = Ev(w) BY <2>1 DEF Ev
  <2> QED BY <1>2, <1>a, <2>1, <2>2, <2>3, QuietSettle DEF WorkerStep
<1>3. ASSUME NEW w \in Worker, MarkCheck(w) \/ MarkInsert(w) PROVE SettleInv'
  <2>1. /\ worker'[w].msg = worker[w].msg
        /\ worker'[w].pc \in {"ack", "nack"} => Ev(w) \in processed'
        /\ UNCHANGED <<settled, errors>>
        /\ processed \subseteq processed'
    BY <1>3, <1>f DEF MarkCheck, MarkInsert, Goto, tables, faults
  <2>2. Ev(w)' = Ev(w) BY <2>1 DEF Ev
  <2> QED BY <1>3, <1>a, <2>1, <2>2, QuietSettle DEF WorkerStep
<1>4. ASSUME NEW w \in Worker, Fail(w) PROVE SettleInv'
  <2>1. /\ worker'[w].pc = "nack"
        /\ UNCHANGED <<settled, processed>>
        /\ errors' = errors + 1
    BY <1>4, <1>f DEF Fail, Goto, tables
  <2>2. errors' # 0
    BY <2>1, <1>f
  <2> QED BY <1>4, <2>1, <2>2, QuietSettle
<1>5. ASSUME NEW w \in Worker, Crash(w) PROVE SettleInv'
  <2>1. worker'[w].pc = "down" /\ UNCHANGED <<settled, processed, errors>>
    BY <1>5, <1>f DEF Crash, Goto, tables
  <2> QED BY <1>5, <1>a, <2>1, QuietSettle
<1>6. ASSUME NEW w \in Worker, DropConnection(w) PROVE SettleInv'
  <2>1. /\ worker'[w].pc = worker[w].pc /\ worker'[w].msg = worker[w].msg
        /\ UNCHANGED <<settled, processed, errors>>
    BY <1>6, <1>f DEF DropConnection, tables
  <2>2. Ev(w)' = Ev(w) BY <2>1 DEF Ev
  <2> QED
    BY <1>6, <1>a, <2>1, <2>2, QuietSettle DEF AckFollowsMark, NackFollowsMark
<1>7. ASSUME NEW w \in Worker, Ack(w) \/ Nack(w) PROVE SettleInv'
  <2>1. /\ \A v \in Worker \ {w} : worker'[v] = worker[v]
        /\ worker'[w].pc \in {"idle", "down"}
        /\ UNCHANGED <<processed, errors>>
    BY <1>7, <1>f DEF Ack, Nack, Settle, Goto, tables, faults
  <2>2. AckFollowsMark' /\ NackFollowsMark'
    BY <1>a, <2>1 DEF AckFollowsMark, NackFollowsMark, Ev, Opened
  <2>3. ASSUME NEW m \in Opened, settled'[m] # settled[m]
        PROVE  /\ worker[w].msg = m
               /\ settled'[m] = "acked" => worker[w].pc = "ack"
               /\ settled'[m] = "dropped" => worker[w].pc = "nack"
    BY <1>7, <1>f, <2>3 DEF Ack, Nack, Settle, Opened
  <2>4. AckedIsProcessed'
    BY <1>a, <2>1, <2>3 DEF AckedIsProcessed, AckFollowsMark, Ev, Opened
  <2>5. RefusedIsProcessed'
    BY <1>a, <2>1, <2>3 DEF RefusedIsProcessed, NackFollowsMark, Ev, Opened
  <2> QED BY <1>a, <2>1, <2>2, <2>4, <2>5 DEF SettleInv
<1>8. CASE UNCHANGED <<worker, processed, settled, errors>>
  BY <1>8, <1>a
  DEF SettleInv, AckFollowsMark, AckedIsProcessed, NackFollowsMark, RefusedIsProcessed,
      Ev, Opened
<1> QED
  BY <1>1, <1>2, <1>3, <1>4, <1>5, <1>6, <1>7, <1>8
  DEF Next, WorkerStep, Produce, vars, tables, faults
-----------------------------------------------------------------------------
(* How many quotes an event can get.                                       *)

BudgetOf(e) ==
  IF e \in processed
  THEN created[e] + Cardinality(Saving(e)) =< Cardinality(Worker) + crashes + errors
  ELSE created[e] =< Cardinality(Saved(e)) + crashes + errors

\* Steps that neither save a quote of e nor mark it.
LEMMA QuietBudget ==
  ASSUME TypeInv, NEW e \in Event, BudgetOf(e), NEW w \in Worker,
         WorkerStep(w) \/ Fail(w) \/ Crash(w) \/ DropConnection(w),
         created'[e] = created[e], e \in processed' <=> e \in processed,
         crashes' \in Nat, errors' \in Nat,
         crashes' + errors' >= crashes + errors,
         e \in processed /\ w \in Saving(e)' => w \in Saving(e),
         e \notin processed /\ w \in Saved(e) /\ w \notin Saved(e)' =>
           crashes' + errors' >= crashes + errors + 1
  PROVE  BudgetOf(e)'
<1>1. OneCount(w, Saving(e), Saving(e)') /\ OneCount(w, Saved(e), Saved(e)')
  BY CountsMove
<1>2. Cardinality(Worker) \in Nat
  BY ConstantsAssumption, FS_CardinalityType
<1>3. created[e] \in Nat /\ crashes \in Nat /\ errors \in Nat
  BY Facts
<1>4. CASE e \in processed
  <2>1. Cardinality(Saving(e)') =< Cardinality(Saving(e))
    BY <1>1, <1>4 DEF OneCount
  <2>2. created[e] + Cardinality(Saving(e)) =< Cardinality(Worker) + crashes + errors
    BY <1>4 DEF BudgetOf
  <2>3. Cardinality(Saving(e)) \in Nat /\ Cardinality(Saving(e)') \in Nat
    BY <1>1 DEF OneCount
  <2>4. created[e] + Cardinality(Saving(e)') =< Cardinality(Worker) + crashes' + errors'
    <3>1. \A c, s, t, n, x, y, x1, y1 \in Nat :
            t =< s /\ c + s =< n + x + y /\ x1 + y1 >= x + y => c + t =< n + x1 + y1
      OBVIOUS
    <3> QED BY <1>2, <1>3, <2>1, <2>2, <2>3, <3>1
  <2> QED BY <1>4, <2>4 DEF BudgetOf
<1>5. CASE e \notin processed
  <2>1. Cardinality(Saved(e)') + crashes' + errors' >= Cardinality(Saved(e)) + crashes + errors
    BY <1>1, <1>3, <1>5 DEF OneCount
  <2> QED BY <1>1, <1>3, <1>5, <2>1 DEF BudgetOf, OneCount
<1> QED BY <1>4, <1>5

LEMMA StepBudget == TypeInv /\ QuoteBudget /\ [Next]_vars => QuoteBudget'
<1> SUFFICES ASSUME TypeInv, QuoteBudget, [Next]_vars, NEW e \in Event
             PROVE  BudgetOf(e)'
  BY DEF QuoteBudget, BudgetOf
<1>b. BudgetOf(e)
  BY DEF QuoteBudget, BudgetOf
<1>f. /\ worker \in [Worker -> [pc : Pcs, msg : Delivery, connected : BOOLEAN]]
      /\ created \in [Event -> Nat]
      /\ crashes \in Nat
      /\ errors \in Nat
  BY Facts
<1>w. Cardinality(Worker) \in Nat
  BY ConstantsAssumption, FS_CardinalityType
<1>1. ASSUME NEW w \in Worker, SaveQuote(w) PROVE BudgetOf(e)'
  <2>1. /\ worker[w].pc = "save" /\ worker'[w].pc = "publish"
        /\ worker'[w].msg = worker[w].msg
        /\ UNCHANGED <<processed, crashes, errors>>
        /\ created' = [created EXCEPT ![Ev(w)] = @ + 1]
    BY <1>1, <1>f DEF SaveQuote, Goto, faults
  <2>2. OneCount(w, Saving(e), Saving(e)') /\ OneCount(w, Saved(e), Saved(e)')
    BY <1>1, CountsMove DEF WorkerStep
  <2>3. /\ w \in Saving(e) <=> e = Ev(w)
        /\ w \notin Saving(e)'
        /\ w \notin Saved(e)
        /\ w \in Saved(e)' <=> e = Ev(w)
    BY <2>1 DEF Saving, Saved, Ev, AfterSave
  <2>4. created'[e] = IF e = Ev(w) THEN created[e] + 1 ELSE created[e]
    BY <2>1, <1>f
  <2> QED BY <1>b, <1>f, <1>w, <2>1, <2>2, <2>3, <2>4 DEF BudgetOf, OneCount
<1>2. ASSUME NEW w \in Worker, MarkInsert(w) PROVE BudgetOf(e)'
  <2>1. /\ worker[w].pc = "markInsert" /\ worker'[w].pc \in {"ack", "nack"}
        /\ UNCHANGED <<created, crashes, errors>>
        /\ processed' = processed \cup {Ev(w)}
    BY <1>2, <1>f DEF MarkInsert, Goto, faults
  <2>2. w \notin Saving(e) /\ w \notin Saving(e)'
    BY <2>1 DEF Saving
  <2>3. CASE e \in processed \/ e # Ev(w)
    <3>1. e \in processed' <=> e \in processed
      BY <2>1, <2>3
    <3>2. e \notin processed => w \notin Saved(e)
      BY <2>3 DEF Saved
    <3> QED
      BY <1>2, <1>b, <1>f, <2>1, <2>2, <3>1, <3>2, QuietBudget DEF WorkerStep
  <2>4. CASE e \notin processed /\ e = Ev(w)
    <3>1. Saved(e) \in SUBSET Worker /\ Saving(e) \in SUBSET Worker
          /\ Saved(e) \cap Saving(e) = {}
      BY DEF Saved, Saving, AfterSave
    <3>2. /\ Cardinality(Saved(e)) \in Nat
          /\ Cardinality(Saving(e)) \in Nat
          /\ Cardinality(Saved(e)) + Cardinality(Saving(e)) =< Cardinality(Worker)
      BY <3>1, TwoSets
    <3>3. Cardinality(Saving(e)') = Cardinality(Saving(e))
      BY <1>2, <2>2, CountsMove DEF WorkerStep, OneCount
    <3>4. created[e] =< Cardinality(Saved(e)) + crashes + errors
      BY <1>b, <2>4 DEF BudgetOf
    <3>5. e \in processed' /\ created'[e] = created[e]
      BY <2>1, <2>4
    <3>6. created[e] + Cardinality(Saving(e)') =< Cardinality(Worker) + crashes + errors
      BY <1>f, <1>w, <3>2, <3>3, <3>4
    <3> QED BY <2>1, <3>5, <3>6 DEF BudgetOf
  <2> QED BY <2>3, <2>4
<1>3. ASSUME NEW w \in Worker, Check(w) PROVE BudgetOf(e)'
  <2>1. /\ worker[w].pc = "check" /\ worker'[w].pc = NextPc(worker[w].msg)
        /\ worker'[w].msg = worker[w].msg
        /\ UNCHANGED <<created, processed, crashes, errors>>
    BY <1>3, <1>f DEF Check, Goto, tables, faults
  <2>2. w \notin Saved(e)
    BY <2>1 DEF Saved, AfterSave
  <2>3. w \in Saving(e)' => e \notin processed
    BY <2>1 DEF Saving, NextPc, Ev
  <2> QED BY <1>3, <1>b, <1>f, <2>1, <2>2, <2>3, QuietBudget DEF WorkerStep
<1>4. ASSUME NEW w \in Worker, Deliver(w) \/ Ack(w) \/ Nack(w) \/ Restart(w)
      PROVE  BudgetOf(e)'
  <2>1. /\ worker[w].pc \in {"idle", "ack", "nack", "down"}
        /\ worker'[w].pc \in {"check", "idle", "down"}
        /\ UNCHANGED <<created, processed, crashes, errors>>
    BY <1>4, <1>f DEF Deliver, Ack, Nack, Restart, Settle, Goto, tables, faults
  <2>2. w \notin Saved(e) /\ w \notin Saving(e)'
    BY <2>1 DEF Saved, Saving, AfterSave
  <2> QED BY <1>4, <1>b, <1>f, <2>1, <2>2, QuietBudget DEF WorkerStep
<1>5. ASSUME NEW w \in Worker, Publish(w) \/ MarkCheck(w) PROVE BudgetOf(e)'
  <2>1. /\ worker[w].pc \in {"publish", "markCheck"}
        /\ \/ worker'[w].pc \in {"markCheck", "markInsert"}
           \/ worker'[w].pc = "ack" /\ Ev(w) \in processed
        /\ worker'[w].msg = worker[w].msg
        /\ UNCHANGED <<created, processed, crashes, errors>>
    BY <1>5, <1>f DEF Publish, MarkCheck, Goto, tables, faults
  <2>2. w \notin Saving(e)'
    BY <2>1 DEF Saving
  <2>3. w \in Saved(e) /\ w \notin Saved(e)' => e \in processed
    BY <2>1 DEF Saved, AfterSave, Ev
  <2> QED BY <1>5, <1>b, <1>f, <2>1, <2>2, <2>3, QuietBudget DEF WorkerStep
<1>6. ASSUME NEW w \in Worker, Fail(w) \/ Crash(w) PROVE BudgetOf(e)'
  <2>1. /\ worker'[w].pc \in {"nack", "down"}
        /\ UNCHANGED <<created, processed>>
        /\ \/ crashes' = crashes + 1 /\ errors' = errors
           \/ crashes' = crashes /\ errors' = errors + 1
    BY <1>6, <1>f DEF Fail, Crash, Goto, tables
  <2>2. w \notin Saving(e)'
    BY <2>1 DEF Saving
  <2>3. /\ crashes' \in Nat /\ errors' \in Nat
        /\ crashes' + errors' >= crashes + errors
        /\ crashes' + errors' >= crashes + errors + 1
    BY <2>1, <1>f
  <2> QED BY <1>6, <1>b, <2>1, <2>2, <2>3, QuietBudget
<1>7. ASSUME NEW w \in Worker, DropConnection(w) PROVE BudgetOf(e)'
  <2>1. /\ worker'[w].pc = worker[w].pc /\ worker'[w].msg = worker[w].msg
        /\ UNCHANGED <<created, processed, errors>>
        /\ crashes' = crashes + 1
    BY <1>7, <1>f DEF DropConnection, tables
  <2>2. /\ w \in Saving(e)' <=> w \in Saving(e)
        /\ w \in Saved(e)' <=> w \in Saved(e)
    BY <2>1 DEF Saving, Saved, Ev
  <2>3. crashes' \in Nat /\ errors' \in Nat /\ crashes' + errors' >= crashes + errors
    BY <2>1, <1>f
  <2> QED BY <1>7, <1>b, <2>1, <2>2, <2>3, QuietBudget
<1>8. CASE UNCHANGED <<worker, created, processed, crashes, errors>>
  <2>1. Saving(e)' = Saving(e) /\ Saved(e)' = Saved(e)
    BY <1>8 DEF Saving, Saved, Ev
  <2> QED BY <1>8, <1>b, <2>1 DEF BudgetOf
<1> QED
  BY <1>1, <1>2, <1>3, <1>4, <1>5, <1>6, <1>7, <1>8
  DEF Next, WorkerStep, Produce, vars, tables, faults
-----------------------------------------------------------------------------
(* The invariant and what follows from it.                                 *)

IntakeInv == TypeInv /\ AnnouncementInv /\ SettleInv /\ QuoteBudget

LEMMA InitInv == Init => IntakeInv
<1> SUFFICES ASSUME Init PROVE IntakeInv
  OBVIOUS
<1>1. TypeInv BY InitTypes
<1>2. /\ \A w \in Worker : worker[w].pc = "idle"
      /\ processed = {} /\ crashes = 0 /\ errors = 0
      /\ \A e \in Event : created[e] = 0 /\ announced[e] = 0
      /\ \A m \in Msg : settled[m] = "no"
  BY DEF Init
<1>3. \A e \in Event : Publishing(e) = {} /\ Saved(e) = {}
  BY <1>2 DEF Publishing, Saved, AfterSave
<1>4. Cardinality({}) = 0
  BY FS_EmptySet
<1>5. AnnouncementInv
  BY <1>2, <1>3, <1>4 DEF AnnouncementInv, MarksAnnounced, QuotesCoverAnnouncements
<1>6. SettleInv
  BY <1>2
  DEF SettleInv, AckFollowsMark, AckedIsProcessed, NackFollowsMark, RefusedIsProcessed,
      Opened
<1>7. QuoteBudget
  BY <1>2, <1>3, <1>4 DEF QuoteBudget
<1> QED BY <1>1, <1>5, <1>6, <1>7 DEF IntakeInv

\* What the worker's steps keep, together: types, what precedes a mark, what
\* precedes a settlement, and who accounts for each quote.
THEOREM IntakeInvariance == Spec => []IntakeInv
<1>1. Init => IntakeInv BY InitInv
<1>2. IntakeInv /\ [Next]_vars => IntakeInv'
  BY StepTypes, StepAnnouncement, StepSettle, StepBudget DEF IntakeInv
<1> QED BY <1>1, <1>2, PTL DEF Spec

\* An event is only marked once a quote of it is stored and announced, and no
\* announcement lacks a quote (handle saves, publishes, then marks).
THEOREM MarksFollowEffects == Spec => []ProcessedIsAnnounced
<1>1. IntakeInv => ProcessedIsAnnounced
  <2> SUFFICES ASSUME IntakeInv, NEW e \in processed
               PROVE  created[e] >= announced[e] /\ announced[e] > 0
    BY DEF ProcessedIsAnnounced
  <2>1. TypeInv /\ AnnouncementInv BY DEF IntakeInv
  <2>2. e \in Event /\ created[e] \in Nat /\ announced[e] \in Nat
    BY <2>1, Facts
  <2>3. Publishing(e) \in SUBSET Worker
    BY DEF Publishing
  <2>4. Cardinality(Publishing(e)) \in Nat
    BY <2>3, FS_Subset, FS_CardinalityType, ConstantsAssumption
  <2> QED BY <2>1, <2>2, <2>4 DEF AnnouncementInv, QuotesCoverAnnouncements
<1> QED BY <1>1, IntakeInvariance, PTL

\* An OS_OPENED is acknowledged only after its event is marked.
THEOREM AcksFollowMarks == Spec => []AckedIsProcessed
<1>1. IntakeInv => AckedIsProcessed BY DEF IntakeInv, SettleInv
<1> QED BY <1>1, IntakeInvariance, PTL

\* As long as neither the database nor the broker has raised, even a refused
\* OS_OPENED has been processed: only the loser of the insert into
\* processed_events refuses.
THEOREM RefusalsFollowMarks == Spec => []RefusedIsProcessed
<1>1. IntakeInv => RefusedIsProcessed BY DEF IntakeInv, SettleInv
<1> QED BY <1>1, IntakeInvariance, PTL

\* However often a message is repeated or redelivered, an event gets at most
\* one quote for each worker and each fault.
THEOREM QuotesAreBounded == Spec => []QuotesBounded
<1>1. IntakeInv => QuotesBounded
  <2> SUFFICES ASSUME IntakeInv, NEW e \in Event
               PROVE  created[e] =< Cardinality(Worker) + crashes + errors
    BY DEF QuotesBounded
  <2>1. created[e] \in Nat /\ crashes \in Nat /\ errors \in Nat
    BY Facts DEF IntakeInv
  <2>2. Saved(e) \in SUBSET Worker /\ Saving(e) \in SUBSET Worker
        /\ Saved(e) \cap Saving(e) = {}
    BY DEF Saved, Saving, AfterSave
  <2>3. /\ Cardinality(Saving(e)) \in Nat
        /\ Cardinality(Saved(e)) \in Nat
        /\ Cardinality(Worker) \in Nat
        /\ Cardinality(Saved(e)) =< Cardinality(Worker)
    BY <2>2, TwoSets
  <2>4. CASE e \in processed
    <3>1. created[e] + Cardinality(Saving(e)) =< Cardinality(Worker) + crashes + errors
      BY <2>4 DEF IntakeInv, QuoteBudget
    <3> QED BY <2>1, <2>3, <3>1
  <2>5. CASE e \notin processed
    <3>1. created[e] =< Cardinality(Saved(e)) + crashes + errors
      BY <2>5 DEF IntakeInv, QuoteBudget
    <3> QED BY <2>1, <2>3, <3>1
  <2> QED BY <2>4, <2>5
<1> QED BY <1>1, IntakeInvariance, PTL
-----------------------------------------------------------------------------
(* Where a message is.                                                     *)

\* An idle worker has its connection: the one whose connection was lost finds
\* out before it is idle again, and exits.
IdleIsConnected == \A w \in Worker : worker[w].pc = "idle" => worker[w].connected

\* The places of a message.
Positions(s, x) == {i \in DOMAIN s : s[i] = x}
Holders(m) == {w \in Worker : Holds(w) /\ worker[w].msg = m}
Places(m) ==
  Cardinality(Positions(queue, m)) + Cardinality(Holders(m))
    + (IF settled[m] = "no" THEN 0 ELSE 1)

\* A message that is published has one place, any other none.
PlaceInv ==
  /\ IdleIsConnected
  /\ \A m \in Msg : Places(m) = IF m \in sent THEN 1 ELSE 0
-----------------------------------------------------------------------------
\* How often an element is in a sequence that grows at its end ...
LEMMA AppendPositions ==
  ASSUME NEW S, NEW s \in Seq(S), NEW e \in S, NEW x
  PROVE  /\ Cardinality(Positions(s, x)) \in Nat
         /\ Cardinality(Positions(Append(s, e), x)) =
              Cardinality(Positions(s, x)) + (IF e = x THEN 1 ELSE 0)
<1>1. Positions(s, x) \subseteq 1..Len(s)
  BY DEF Positions
<1>2. IsFiniteSet(Positions(s, x)) /\ Cardinality(Positions(s, x)) \in Nat
  <2>1. IsFiniteSet(1..Len(s)) BY FS_Interval
  <2> QED BY <1>1, <2>1, FS_Subset, FS_CardinalityType
<1>3. Len(s) + 1 \notin Positions(s, x)
  BY DEF Positions
<1>4. /\ DOMAIN Append(s, e) = 1..(Len(s) + 1)
      /\ \A i \in 1..Len(s) : Append(s, e)[i] = s[i]
      /\ Append(s, e)[Len(s) + 1] = e
      /\ DOMAIN s = 1..Len(s)
  OBVIOUS
<1>5. CASE e = x
  <2>1. Positions(Append(s, e), x) = Positions(s, x) \cup {Len(s) + 1}
    BY <1>4, <1>5 DEF Positions
  <2> QED BY <1>2, <1>3, <1>5, <2>1, FS_AddElement
<1>6. CASE e # x
  <2>1. Positions(Append(s, e), x) = Positions(s, x)
    BY <1>4, <1>6 DEF Positions
  <2> QED BY <1>2, <1>6, <2>1
<1> QED BY <1>5, <1>6

\* ... and in one that is taken from at its head.
LEMMA TailPositions ==
  ASSUME NEW S, NEW s \in Seq(S), s # <<>>, NEW x
  PROVE  /\ Cardinality(Positions(Tail(s), x)) \in Nat
         /\ Cardinality(Positions(s, x)) =
              Cardinality(Positions(Tail(s), x)) + (IF Head(s) = x THEN 1 ELSE 0)
<1> DEFINE T == Positions(Tail(s), x)
           R == Positions(s, x) \ {1}
           f == [i \in T |-> i + 1]
<1>1. /\ DOMAIN s = 1..Len(s)
      /\ Len(s) \in Nat \ {0}
      /\ DOMAIN Tail(s) = 1..(Len(s) - 1)
      /\ \A i \in 1..(Len(s) - 1) : Tail(s)[i] = s[i + 1]
      /\ Head(s) = s[1]
  OBVIOUS
<1>2. T \subseteq 1..(Len(s) - 1) /\ R \subseteq 1..Len(s)
  BY <1>1 DEF Positions
<1>3. IsFiniteSet(T) /\ IsFiniteSet(R)
  <2>1. IsFiniteSet(1..(Len(s) - 1)) /\ IsFiniteSet(1..Len(s))
    BY <1>1, FS_Interval
  <2> QED BY <1>2, <2>1, FS_Subset
<1>4. Cardinality(T) = Cardinality(R)
  <2>1. f \in [T -> R]
    BY <1>1, <1>2 DEF Positions
  <2>2. \A i, j \in T : f[i] = f[j] => i = j
    BY <1>2
  <2>3. \A j \in R : \E i \in T : f[i] = j
    <3> SUFFICES ASSUME NEW j \in R PROVE j - 1 \in T /\ f[j - 1] = j
      OBVIOUS
    <3>1. j \in 2..Len(s) /\ s[j] = x
      BY <1>1, <1>2 DEF Positions
    <3>2. j - 1 \in 1..(Len(s) - 1) /\ Tail(s)[j - 1] = s[j]
      BY <1>1, <3>1
    <3>3. j - 1 \in T
      BY <1>1, <3>1, <3>2 DEF Positions
    <3> QED BY <3>1, <3>3
  <2>4. f \in Bijection(T, R)
    BY <2>1, <2>2, <2>3 DEF Bijection, Injection, Surjection, IsInjective
  <2>5. ExistsBijection(T, R)
    BY <2>4 DEF ExistsBijection
  <2> QED BY <1>3, <2>5, FS_Bijection
<1>5. Cardinality(T) \in Nat
  BY <1>3, FS_CardinalityType
<1>6. Cardinality(Positions(s, x)) = Cardinality(R) + (IF Head(s) = x THEN 1 ELSE 0)
  <2>1. CASE Head(s) = x
    <3>1. Positions(s, x) = R \cup {1} /\ 1 \notin R
      BY <1>1, <2>1 DEF Positions
    <3> QED BY <1>3, <2>1, <3>1, FS_AddElement
  <2>2. CASE Head(s) # x
    <3>1. Positions(s, x) = R
      BY <1>1, <2>2 DEF Positions
    <3>2. Cardinality(Positions(s, x)) = Cardinality(R)
      BY <3>1
    <3>3. Cardinality(R) \in Nat
      BY <1>4, <1>5
    <3> HIDE DEF R
    <3> QED BY <2>2, <3>2, <3>3
  <2> QED BY <2>1, <2>2
<1> QED BY <1>4, <1>5, <1>6

\* ... or to which an element is returned at its head.
LEMMA PushPositions ==
  ASSUME NEW S, NEW s \in Seq(S), NEW e \in S, NEW x
  PROVE  /\ Cardinality(Positions(s, x)) \in Nat
         /\ Cardinality(Positions(<<e>> \o s, x)) =
              Cardinality(Positions(s, x)) + (IF e = x THEN 1 ELSE 0)
<1> DEFINE p == <<e>> \o s
<1>1. p \in Seq(S) /\ Len(p) = Len(s) + 1 /\ p[1] = e
  OBVIOUS
<1>2. p # <<>> /\ Head(p) = e
  BY <1>1
<1>3. Tail(p) = s
  OBVIOUS
<1> HIDE DEF p
<1>4. Cardinality(Positions(p, x)) =
        Cardinality(Positions(s, x)) + (IF e = x THEN 1 ELSE 0)
      /\ Cardinality(Positions(s, x)) \in Nat
  BY <1>1, <1>2, <1>3, TailPositions
<1> QED BY <1>4 DEF p
-----------------------------------------------------------------------------
LEMMA InitPlaces == Init => PlaceInv
<1> SUFFICES ASSUME Init PROVE PlaceInv
  OBVIOUS
<1>1. /\ \A w \in Worker : worker[w].pc = "idle" /\ worker[w].connected
      /\ queue = <<>> /\ sent = {}
      /\ \A m \in Msg : settled[m] = "no"
  BY DEF Init
<1>2. \A m \in Msg : Positions(queue, m) = {} /\ Holders(m) = {}
  BY <1>1 DEF Positions, Holders, Holds
<1>3. Cardinality({}) = 0
  BY FS_EmptySet
<1>4. ASSUME NEW m \in Msg PROVE Places(m) = 0
  <2>1. Cardinality(Positions(queue, m)) = 0 /\ Cardinality(Holders(m)) = 0
    BY <1>2, <1>3
  <2> QED BY <1>1, <2>1 DEF Places
<1> QED BY <1>1, <1>4 DEF PlaceInv, IdleIsConnected

\* What a step of one worker does to the holders of a message.
LEMMA HoldersMove ==
  ASSUME TypeInv, NEW w \in Worker, NEW m \in Msg,
         WorkerStep(w) \/ Fail(w) \/ Crash(w) \/ DropConnection(w)
  PROVE  OneCount(w, Holders(m), Holders(m)')
<1>1. \A v \in Worker \ {w} : worker'[v] = worker[v]
  BY OneMoves DEF TypeInv
<1>2. /\ Holders(m) \in SUBSET Worker
      /\ Holders(m)' \in SUBSET Worker
      /\ \A v \in Worker \ {w} : v \in Holders(m)' <=> v \in Holders(m)
  BY <1>1 DEF Holders, Holds
<1> QED BY <1>2, OneWorker

\* The steps that leave the queue, the settlements and the holders as they are.
LEMMA QuietPlaces ==
  ASSUME PlaceInv, TypeInv, NEW w \in Worker,
         WorkerStep(w) \/ Fail(w) \/ Crash(w) \/ DropConnection(w),
         UNCHANGED <<sent, settled>>,
         \A m \in Msg :
           Cardinality(Positions(queue, m)') = Cardinality(Positions(queue, m)),
         worker'[w].pc = "idle" => worker'[w].connected,
         \A m \in Msg : w \in Holders(m)' <=> w \in Holders(m)
  PROVE  PlaceInv'
<1>1. \A v \in Worker \ {w} : worker'[v] = worker[v]
  BY OneMoves DEF TypeInv
<1>2. IdleIsConnected'
  BY <1>1 DEF PlaceInv, IdleIsConnected
<1>3. ASSUME NEW m \in Msg PROVE Places(m)' = Places(m)
  <2>1. Cardinality(Holders(m)') = Cardinality(Holders(m))
    BY HoldersMove DEF OneCount
  <2>2. settled'[m] = settled[m]
    OBVIOUS
  <2> QED BY <2>1, <2>2 DEF Places
<1> QED BY <1>2, <1>3 DEF PlaceInv

LEMMA StepPlaces == TypeInv /\ PlaceInv /\ [Next]_vars => PlaceInv'
<1> SUFFICES ASSUME TypeInv, PlaceInv, [Next]_vars PROVE PlaceInv'
  OBVIOUS
<1>a. /\ IdleIsConnected
      /\ \A m \in Msg : Places(m) = IF m \in sent THEN 1 ELSE 0
  BY DEF PlaceInv
<1>f. /\ queue \in Seq(Delivery)
      /\ settled \in [Msg -> {"no", "acked", "dropped"}]
      /\ worker \in [Worker -> [pc : Pcs, msg : Delivery, connected : BOOLEAN]]
      /\ sent \subseteq Msg
  BY DEF TypeInv, TypeOK
<1>o. \A m \in Msg : m # OwnEvent /\ m \in Delivery
  BY ConstantsAssumption DEF Delivery
<1>d. OwnEvent \in Delivery
  BY DEF Delivery
<1>q. ASSUME NEW m \in Msg PROVE Cardinality(Positions(queue, m)) \in Nat
  BY <1>f, <1>d, AppendPositions
<1>1. ASSUME NEW n \in Msg, Produce(n) PROVE PlaceInv'
  <2>1. /\ n \notin sent /\ sent' = sent \cup {n}
        /\ queue' = Append(queue, n)
        /\ UNCHANGED <<worker, settled>>
    BY <1>1 DEF Produce
  <2>2. ASSUME NEW m \in Msg PROVE Places(m)' = IF m \in sent' THEN 1 ELSE 0
    <3>1. Cardinality(Positions(queue, m)') =
            Cardinality(Positions(queue, m)) + (IF n = m THEN 1 ELSE 0)
      BY <1>f, <1>o, <2>1, AppendPositions
    <3>2. Holders(m)' = Holders(m)
      BY <2>1 DEF Holders, Holds
    <3>3. Places(m) = IF m \in sent THEN 1 ELSE 0
      BY <1>a
    <3>4. Cardinality(Holders(m)) \in Nat
      <4>1. Holders(m) \in SUBSET Worker
        BY DEF Holders
      <4> QED BY <4>1, FS_Subset, FS_CardinalityType, ConstantsAssumption
    <3> QED BY <1>q, <2>1, <3>1, <3>2, <3>3, <3>4 DEF Places
  <2> QED BY <1>a, <2>1, <2>2 DEF PlaceInv, IdleIsConnected
<1>2. ASSUME NEW w \in Worker, Deliver(w) PROVE PlaceInv'
  <2>1. /\ worker[w].pc = "idle" /\ queue # <<>> /\ queue' = Tail(queue)
        /\ worker' = [worker EXCEPT ![w].pc = "check", ![w].msg = Head(queue)]
        /\ UNCHANGED <<sent, settled>>
    BY <1>2 DEF Deliver
  <2>2. worker[w].connected
    BY <1>a, <2>1 DEF IdleIsConnected
  <2>3. /\ worker'[w].pc = "check" /\ worker'[w].msg = Head(queue)
        /\ worker'[w].connected = worker[w].connected
        /\ \A v \in Worker \ {w} : worker'[v] = worker[v]
    BY <1>f, <2>1
  <2>4. ASSUME NEW m \in Msg PROVE Places(m)' = Places(m)
    <3>1. /\ Cardinality(Positions(queue, m)) =
               Cardinality(Positions(queue, m)') + (IF Head(queue) = m THEN 1 ELSE 0)
          /\ Cardinality(Positions(queue, m)') \in Nat
      BY <1>f, <2>1, TailPositions
    <3>2. OneCount(w, Holders(m), Holders(m)')
      BY <1>2, HoldersMove DEF WorkerStep
    <3>3. w \notin Holders(m) /\ (w \in Holders(m)' <=> Head(queue) = m)
      BY <2>1, <2>2, <2>3 DEF Holders, Holds
    <3> QED BY <2>1, <3>1, <3>2, <3>3 DEF Places, OneCount
  <2>5. IdleIsConnected'
    BY <1>a, <2>3 DEF IdleIsConnected
  <2> QED BY <1>a, <2>1, <2>4, <2>5 DEF PlaceInv
<1>3. ASSUME NEW w \in Worker,
             \/ Check(w) \/ SaveQuote(w) \/ MarkCheck(w) \/ MarkInsert(w)
             \/ Fail(w)
      PROVE  PlaceInv'
  <2>1. /\ worker[w].pc \notin {"down", "idle"} /\ worker'[w].pc \notin {"down", "idle"}
        /\ worker'[w].msg = worker[w].msg
        /\ worker'[w].connected = worker[w].connected
        /\ UNCHANGED <<sent, queue, settled>>
    BY <1>3, <1>f
    DEF Check, SaveQuote, MarkCheck, MarkInsert, Fail, Goto, NextPc, Handling
  <2>2. \A m \in Msg : w \in Holders(m)' <=> w \in Holders(m)
    BY <2>1 DEF Holders, Holds
  <2> QED BY <1>3, <2>1, <2>2, QuietPlaces DEF WorkerStep
<1>4. ASSUME NEW w \in Worker, Publish(w) PROVE PlaceInv'
  <2>1. /\ worker[w].pc = "publish" /\ worker'[w].pc = "markCheck"
        /\ worker'[w].msg = worker[w].msg
        /\ worker'[w].connected = worker[w].connected
        /\ queue' = Append(queue, OwnEvent)
        /\ UNCHANGED <<sent, settled>>
    BY <1>4, <1>f DEF Publish, Goto
  <2>2. \A m \in Msg : w \in Holders(m)' <=> w \in Holders(m)
    BY <2>1 DEF Holders, Holds
  <2>3. ASSUME NEW m \in Msg
        PROVE  Cardinality(Positions(queue, m)') = Cardinality(Positions(queue, m))
    BY <1>f, <1>d, <1>o, <1>q, <2>1, AppendPositions
  <2> QED BY <1>4, <2>1, <2>2, <2>3, QuietPlaces DEF WorkerStep
<1>5. ASSUME NEW w \in Worker, NEW outcome \in {"acked", "dropped"}, Settle(w, outcome),
             Ack(w) \/ Nack(w)
      PROVE  PlaceInv'
  <2>1. /\ worker[w].pc \in {"ack", "nack"}
        /\ UNCHANGED <<sent, queue>>
    BY <1>5 DEF Ack, Nack
  <2>2. CASE ~worker[w].connected
    <3>1. worker'[w].pc = "down" /\ UNCHANGED settled
      BY <1>5, <1>f, <2>2 DEF Settle, Goto
    <3>2. \A m \in Msg : w \notin Holders(m)' /\ w \notin Holders(m)
      BY <2>2, <3>1 DEF Holders, Holds
    <3> QED BY <1>5, <2>1, <3>1, <3>2, QuietPlaces DEF WorkerStep
  <2>3. CASE worker[w].connected
    <3>1. /\ worker'[w].pc = "idle" /\ worker'[w].connected
          /\ \A v \in Worker \ {w} : worker'[v] = worker[v]
      BY <1>5, <1>f, <2>3 DEF Settle, Goto
    <3>2. ASSUME NEW m \in Msg
          PROVE  settled'[m] = IF worker[w].msg = m THEN outcome ELSE settled[m]
      BY <1>5, <1>f, <1>o, <2>3 DEF Settle
    <3>3. ASSUME NEW m \in Msg PROVE Places(m)' = Places(m)
      <4>1. OneCount(w, Holders(m), Holders(m)')
        BY <1>5, HoldersMove DEF WorkerStep
      <4>2. w \notin Holders(m)' /\ (w \in Holders(m) <=> worker[w].msg = m)
        BY <2>1, <2>3, <3>1 DEF Holders, Holds
      <4>3. Places(m) \in {0, 1}
        BY <1>a
      <4>4. w \in Holders(m) => settled[m] = "no"
        BY <1>q, <4>1, <4>2, <4>3 DEF OneCount, Places
      <4>5. outcome # "no"
        OBVIOUS
      <4>6. CASE worker[w].msg = m
        BY <1>q, <2>1, <3>2, <4>1, <4>2, <4>4, <4>5, <4>6 DEF Places, OneCount
      <4>7. CASE worker[w].msg # m
        BY <1>q, <2>1, <3>2, <4>1, <4>2, <4>7 DEF Places, OneCount
      <4> QED BY <4>6, <4>7
    <3>4. IdleIsConnected'
      BY <1>a, <3>1 DEF IdleIsConnected
    <3> QED BY <1>a, <2>1, <3>3, <3>4 DEF PlaceInv
  <2> QED BY <2>2, <2>3
<1>6. ASSUME NEW w \in Worker, Crash(w) \/ DropConnection(w) PROVE PlaceInv'
  <2>1. /\ UNCHANGED <<sent, settled>> /\ queue' = Requeued(w)
        /\ \A v \in Worker \ {w} : worker'[v] = worker[v]
        /\ \/ worker'[w].pc = "down"
           \/ worker'[w].connected = FALSE /\ worker'[w].pc # "idle"
    BY <1>6, <1>f DEF Crash, DropConnection, Goto, Holds
  <2>2. ASSUME NEW m \in Msg PROVE Places(m)' = Places(m)
    <3>1. OneCount(w, Holders(m), Holders(m)')
      BY <1>6, HoldersMove
    <3>2. w \notin Holders(m)' /\ (w \in Holders(m) <=> Holds(w) /\ worker[w].msg = m)
      BY <2>1 DEF Holders, Holds
    <3>3. worker[w].msg \in Delivery
      BY <1>f
    <3>4. Cardinality(Positions(queue, m)') =
            Cardinality(Positions(queue, m)) + (IF w \in Holders(m) THEN 1 ELSE 0)
      <4>1. CASE Holds(w)
        <5>1. queue' = <<worker[w].msg>> \o queue
          BY <2>1, <4>1 DEF Requeued
        <5> QED BY <1>f, <3>2, <3>3, <4>1, <5>1, PushPositions
      <4>2. CASE ~Holds(w)
        <5>1. queue' = queue
          BY <2>1, <4>2 DEF Requeued
        <5> QED BY <1>q, <3>2, <4>2, <5>1
      <4> QED BY <4>1, <4>2
    <3> QED BY <1>q, <2>1, <3>1, <3>2, <3>4 DEF Places, OneCount
  <2>3. IdleIsConnected'
    BY <1>a, <2>1 DEF IdleIsConnected
  <2> QED BY <1>a, <2>1, <2>2, <2>3 DEF PlaceInv
<1>7. ASSUME NEW w \in Worker, Restart(w) PROVE PlaceInv'
  <2>1. /\ worker[w].pc = "down" /\ worker'[w].pc = "idle" /\ worker'[w].connected
        /\ UNCHANGED <<sent, queue, settled>>
    BY <1>7, <1>f DEF Restart
  <2>2. \A m \in Msg : w \in Holders(m)' <=> w \in Holders(m)
    BY <2>1 DEF Holders, Holds
  <2> QED BY <1>7, <2>1, <2>2, QuietPlaces DEF WorkerStep
<1>8. CASE UNCHANGED vars
  <2>1. UNCHANGED <<sent, queue, settled, worker>>
    BY <1>8 DEF vars
  <2>2. ASSUME NEW m \in Msg PROVE Places(m)' = Places(m)
    BY <2>1 DEF Places, Positions, Holders, Holds
  <2> QED BY <1>a, <2>1, <2>2 DEF PlaceInv, IdleIsConnected
<1> QED
  BY <1>1, <1>2, <1>3, <1>4, <1>5, <1>6, <1>7, <1>8
  DEF Next, WorkerStep, Ack, Nack

LEMMA PlacesInvariance == Spec => [](TypeInv /\ PlaceInv)
<1>1. Init => TypeInv /\ PlaceInv BY InitTypes, InitPlaces
<1>2. TypeInv /\ PlaceInv /\ [Next]_vars => (TypeInv /\ PlaceInv)'
  BY StepTypes, StepPlaces
<1> QED BY <1>1, <1>2, PTL DEF Spec

\* The broker never loses nor duplicates a message among its queue, the
\* workers it is delivered to and those it was told about, whatever crashes,
\* lost connections and late acknowledgements (_handle_delivery).
THEOREM MessagesHaveOnePlace == Spec => []OnePlace
<1>1. TypeInv /\ PlaceInv => OnePlace
  <2> SUFFICES ASSUME TypeInv, PlaceInv, NEW m \in sent PROVE Places(m) = 1
    BY DEF OnePlace, Places, Positions, Holders
  <2>1. m \in Msg
    BY DEF TypeInv, TypeOK
  <2> QED BY <2>1 DEF PlaceInv
<1> QED BY <1>1, PlacesInvariance, PTL
=============================================================================
