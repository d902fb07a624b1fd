---------------------------- MODULE RolloutProofs ----------------------------
(***************************************************************************)
(* The safety of Rollout: the types, what the version row and a serving    *)
(* process say of the tables, the databases a deploy never touches, what   *)
(* prepare_env.py makes of an env file, how many runs of the Job races can *)
(* end, and what a deploy is given up for, for all env files, URLs and     *)
(* numbers of runs, kills and outages.                                     *)
(*                                                                         *)
(* The argument: tables are never dropped, so what a process found or      *)
(* waited for stays found.  PodOk says of each container that the tables   *)
(* of the call it is at are committed, created in its open transaction, or *)
(* still on its list; a transaction commits with nothing left on the list. *)
(***************************************************************************)
EXTENDS Rollout, FiniteSetTheorems, TLAPS

Listed(s) == {s[i] : i \in 1..Len(s)}

\* The tables of the create_all, or of the migration, that p is at.
Aim(p) == IF p = "job" THEN Migrated ELSE Calls(p)[call[p]]

Listing(p) == pc[p] = "create" \/ (p = "job" /\ pc[p] = "check")

PodOk(p) ==
  /\ Base(p) \in Databases
  /\ pc[p] \notin InDatabase \/ (p # "job" /\ pc[p] = "check") => made[p] = {}
  /\ p # "job" => made[p] \subseteq AllTables /\ Listed(todo[p]) \subseteq AllTables
  /\ p # "job" /\ pc[p] \in InDatabase =>
       call[p] \in {1, 2} /\ (call[p] = 2 => Calls(p)[1] \subseteq tables[Base(p)])
  /\ Listing(p) => todo[p] # <<>>
  /\ Listing(p) /\ p = "job" =>
       /\ Listed(Tail(todo[p])) \subseteq AllTables
       /\ Head(todo[p]) = "alembic_version" => made[p] = {}
  /\ pc[p] = "commit" => todo[p] = <<>>
  /\ Listing(p) \/ pc[p] = "commit" =>
       Aim(p) \subseteq tables[Base(p)] \cup made[p] \cup Listed(todo[p])
  /\ pc[p] \in {"connect", "serving"} =>
       p # "job" /\ (conf[p].real => Needed(p) \subseteq tables[Base(p)])
  /\ p = "job" /\ pc[p] = "complete" => Migrated \subseteq tables[Base(p)]

Early == {"prepare", "render", "apply", "startJob"}
ClusterBase == <<cluster.host, cluster.db>>

\* What the pipeline has done so far, and under which environment.
StageOk ==
  /\ env \in Envs
  /\ ClusterBase \in Databases
  /\ stage = "apply" => Renders(File)
  /\ stage \in {"prepare", "render", "apply"} => cluster = OldEffect
  /\ stage \in Early => pc["job"] = "none"
  /\ stage \in Early \cup {"wait"} => pc["newApi"] = "none" /\ pc["newWorker"] = "none"
  /\ pc["job"] # "none" => conf["job"] = cluster
  /\ pc["newApi"] # "none" =>
       conf["newApi"] = cluster /\ Migrated \subseteq tables[ClusterBase]

\* The Job is not run again after its last failure.
FailsOk ==
  /\ pc["job"] = "none" => fails = 0
  /\ pc["job"] \notin Halted => fails < BackoffLimit

ExpectedDb == Get(env.EXPECTED_DATABASE_NAME, OwnDatabase)

\* On the manual path nothing unprepared is applied.
PathOk ==
  /\ prepared => Accepts(env)
  /\ path = "manual" /\ stage \in {"render", "apply"} => prepared
  /\ path = "manual" /\ env.EXPECTED_DATABASE_NAME # "" =>
       cluster = OldEffect \/ cluster.db = ExpectedDb

Typed == call \in [Pods -> Nat] /\ todo \in [Pods -> Seq(Migrated)] /\ made \in [Pods -> SUBSET Migrated]

IInv ==
  /\ TypeOK /\ Typed
  /\ \A p \in Pods : PodOk(p)
  /\ StageOk /\ FailsOk /\ PathOk
  /\ VersionMeansTables
  /\ ForeignDatabaseUntouched

-----------------------------------------------------------------------------
(* Sequences and orders of tables.                                         *)

LEMMA HeadAndTail ==
  ASSUME NEW S, NEW s \in Seq(S), s # <<>>
  PROVE  /\ Head(s) \in S /\ Tail(s) \in Seq(S)
         /\ Head(s) \in Listed(s)
         /\ Listed(Tail(s)) \subseteq Listed(s)
         /\ Listed(s) \subseteq {Head(s)} \cup Listed(Tail(s))
         /\ Len(s) = 1 <=> Tail(s) = <<>>
<1>1. Len(s) \in Nat \ {0} /\ Head(s) = s[1] /\ Head(s) \in S
  OBVIOUS
<1>2. Tail(s) \in Seq(S) /\ Len(Tail(s)) = Len(s) - 1
  OBVIOUS
<1>3. \A i \in 1..Len(Tail(s)) : Tail(s)[i] = s[i + 1]
  OBVIOUS
<1>4. Head(s) \in Listed(s)
  BY <1>1 DEF Listed
<1>5. Listed(Tail(s)) \subseteq Listed(s)
  BY <1>1, <1>2, <1>3 DEF Listed
<1>6. Listed(s) \subseteq {Head(s)} \cup Listed(Tail(s))
  <2> SUFFICES ASSUME NEW i \in 1..Len(s), i # 1
               PROVE  s[i] \in Listed(Tail(s))
    BY <1>1 DEF Listed
  <2>1. i - 1 \in 1..Len(Tail(s)) /\ Tail(s)[i - 1] = s[i]
    BY <1>1, <1>2, <1>3
  <2> QED
    BY <2>1 DEF Listed
<1>7. Len(s) = 1 <=> Tail(s) = <<>>
  <2>1. \A t \in Seq(S) : Len(t) = 0 <=> t = <<>>
    OBVIOUS
  <2>2. Len(Tail(s)) = 0 <=> Tail(s) = <<>>
    BY <1>2, <2>1
  <2> QED
    BY <1>1, <1>2, <2>2
<1> QED
  BY <1>1, <1>2, <1>4, <1>5, <1>6, <1>7

LEMMA NothingListed == Listed(<<>>) = {}
  BY DEF Listed

\* An order of some tables lists exactly these.
LEMMA Orders ==
  ASSUME NEW S, IsFiniteSet(S), NEW order \in SetToSeqs(S)
  PROVE  order \in Seq(S) /\ Listed(order) = S
<1> DEFINE n == Cardinality(S)
<1>1. n \in Nat
  BY FS_CardinalityType
<1>2. order \in [1..n -> S] /\ \A i, j \in 1..n : i # j => order[i] # order[j]
  BY DEF SetToSeqs
<1>3. order \in Injection(1..n, S)
  BY <1>2 DEF Injection, IsInjective
<1>4. IsFiniteSet(1..n) /\ Cardinality(1..n) = n
  BY <1>1, FS_Interval
<1>5. order \in Surjection(1..n, S)
  BY <1>3, <1>4, FS_Injection
<1>6. order \in Seq(S) /\ Len(order) = n
  BY <1>1, <1>2
<1> QED
  BY <1>2, <1>5, <1>6 DEF Surjection, Listed

-----------------------------------------------------------------------------
(* What a step of one container leaves alone.                              *)

Unstarted == UNCHANGED <<pipeline, conf>>

\* The other containers only see more tables.
LEMMA TablesGrow ==
  ASSUME NEW p \in Pods, PodOk(p), Unstarted,
         pc'[p] = pc[p], call'[p] = call[p], todo'[p] = todo[p], made'[p] = made[p],
         tables[Base(p)] \subseteq tables'[Base(p)]
  PROVE  PodOk(p)'
<1>1. Base(p)' = Base(p) /\ Aim(p)' = Aim(p) /\ Listing(p)' = Listing(p)
  BY DEF Base, Aim, Listing, Unstarted
<1>2. conf' = conf
  BY DEF Unstarted
<1> QED
  BY <1>1, <1>2 DEF PodOk

\* A container halts or starts again with nothing in hand.
LEMMA NothingInHand ==
  ASSUME NEW p \in Pods, Base(p)' \in Databases,
         pc'[p] \in {"none", "boot", "crashed", "failed", "gone"}, made'[p] = {},
         p # "job" => Listed(todo'[p]) \subseteq AllTables
  PROVE  PodOk(p)'
BY DEF PodOk, Listing, InDatabase

LEMMA CallsAreOfTables ==
  ASSUME NEW p \in Pods, p # "job"
  PROVE  /\ Len(Calls(p)) = 2
         /\ Calls(p)[1] \subseteq AllTables /\ Calls(p)[2] \subseteq AllTables
         /\ Needed(p) \subseteq Calls(p)[1] \cup Calls(p)[2]
<1>1. CASE p \in Apis
  BY <1>1 DEF Calls, Needed, AllTables
<1>2. CASE p \notin Apis
  BY <1>2 DEF Calls, Needed, AllTables
<1> QED
  BY <1>1, <1>2

\* Only the pipeline changes what StageOk and PathOk are about.
LEMMA StageKept ==
  ASSUME StageOk, Unstarted,
         \A p \in Pods : pc[p] = "none" <=> pc'[p] = "none",
         \A b \in Databases : tables[b] \subseteq tables'[b]
  PROVE  StageOk'
<1>1. UNCHANGED <<path, env, stage, prepared, cluster, conf>>
  BY DEF Unstarted, pipeline
<1>2. File' = File /\ ClusterBase' = ClusterBase
  BY <1>1 DEF File, ClusterBase
<1>3. {"job", "newApi", "newWorker"} \subseteq Pods
  BY DEF Pods, Apis, Workers
<1> QED
  BY <1>1, <1>2, <1>3 DEF StageOk

LEMMA PathKept == ASSUME PathOk, UNCHANGED pipeline PROVE PathOk'
BY DEF PathOk, pipeline, ExpectedDb

\* The databases that the pipeline's environments do not name keep what they have.
LEMMA ForeignKept ==
  ASSUME ForeignDatabaseUntouched, PathOk, TypeOK, UNCHANGED pipeline, NEW p \in Pods,
         \A b \in Databases \ {Base(p)} : tables'[b] = tables[b]
  PROVE  ForeignDatabaseUntouched'
<1>1. UNCHANGED <<path, env, cluster>>
  BY DEF pipeline
<1> SUFFICES ASSUME path = "manual", env.EXPECTED_DATABASE_NAME # "",
                    NEW b \in Databases, b # <<OldEffect.host, OldEffect.db>>, b[2] # ExpectedDb
             PROVE  tables'[b] = {}
  BY <1>1 DEF ForeignDatabaseUntouched, OnlyExpectedDatabases, ExpectedDb
<1>2. tables[b] = {}
  BY DEF ForeignDatabaseUntouched, OnlyExpectedDatabases, ExpectedDb
<1>3. b # Base(p)
  <2>1. Base(p)[2] = conf[p].db /\ Base(p)[1] = conf[p].host
    BY DEF Base
  <2>2. CASE conf[p] = OldEffect
    BY <2>2 DEF Base
  <2>3. CASE conf[p] = cluster /\ cluster # OldEffect
    BY <2>1, <2>3 DEF PathOk
  <2> QED
    BY <2>2, <2>3 DEF TypeOK
<1> QED
  BY <1>2, <1>3

Pcs == InDatabase \cup Halted \cup {"boot", "connect", "serving"}

LEMMA Names ==
  /\ "job" \in Pods /\ "newApi" \in Pods /\ "newWorker" \in Pods
  /\ Pcs = {"check", "create", "commit", "none", "crashed", "complete", "failed", "gone",
            "boot", "connect", "serving"}
  /\ Halted \cap InDatabase = {} /\ "none" \in Halted /\ "crashed" \in Halted
BY DEF Pods, Apis, Workers, Pcs, InDatabase, Halted

\* A container takes a step, and may commit the tables in new.
LEMMA ContainerStep ==
  ASSUME IInv, NEW p \in Pods, Unstarted, pc[p] \notin Halted,
         NEW w \in Pcs \ {"none"}, pc' = [pc EXCEPT ![p] = w],
         NEW c \in Nat, call' = [call EXCEPT ![p] = c],
         NEW s \in Seq(Migrated), todo' = [todo EXCEPT ![p] = s],
         NEW m \in SUBSET Migrated, made' = [made EXCEPT ![p] = m],
         NEW new \in SUBSET Migrated, tables' = [tables EXCEPT ![Base(p)] = @ \cup new],
         "alembic_version" \in new => AllTables \subseteq tables[Base(p)] \cup new,
         fails' = fails, ready' \in [Pods -> BOOLEAN], down' \in BOOLEAN,
         PodOk(p)'
  PROVE  IInv'
<1>1. UNCHANGED <<path, env, stage, prepared, cluster, conf>>
  BY DEF Unstarted, pipeline
<1>2. TypeOK /\ Typed /\ Base(p) \in Databases
  BY DEF IInv, PodOk
<1>3. /\ tables' \in [Databases -> SUBSET Migrated]
      /\ \A b \in Databases : tables[b] \subseteq tables'[b]
      /\ \A b \in Databases \ {Base(p)} : tables'[b] = tables[b]
      /\ tables'[Base(p)] = tables[Base(p)] \cup new
  BY <1>2 DEF TypeOK
<1>4. /\ pc' \in [Pods -> Pcs] /\ pc'[p] = w
      /\ \A q \in Pods \ {p} : pc'[q] = pc[q]
  BY <1>2 DEF TypeOK, Pcs
<1>5. /\ call' \in [Pods -> Nat] /\ todo' \in [Pods -> Seq(Migrated)]
      /\ made' \in [Pods -> SUBSET Migrated]
      /\ \A q \in Pods \ {p} : call'[q] = call[q] /\ todo'[q] = todo[q] /\ made'[q] = made[q]
  BY <1>2 DEF Typed
<1>6. Typed'
  BY <1>5 DEF Typed
<1>7. TypeOK'
  <2>1. OldEffect' = OldEffect
    BY DEF OldEffect
  <2>2. \A q \in Pods : todo'[q] \in Seq(Migrated) /\ made'[q] \subseteq Migrated
    BY <1>5
  <2> QED
    BY <1>1, <1>2, <1>3, <1>4, <2>1, <2>2 DEF TypeOK, Pcs
<1>8. \A q \in Pods : PodOk(q)'
  <2> SUFFICES ASSUME NEW q \in Pods, q # p PROVE PodOk(q)'
    OBVIOUS
  <2>1. PodOk(q) /\ Base(q) \in Databases
    BY DEF IInv, PodOk
  <2> QED
    BY <1>3, <1>4, <1>5, <2>1, TablesGrow
<1>9. \A q \in Pods : pc[q] = "none" <=> pc'[q] = "none"
  BY <1>4, Names
<1>10. StageOk'
  BY <1>3, <1>9, StageKept DEF IInv
<1>11. FailsOk'
  BY <1>4, Names DEF IInv, FailsOk
<1>12. PathOk'
  BY PathKept DEF IInv, Unstarted
<1>13. VersionMeansTables'
  <2> SUFFICES ASSUME NEW b \in Databases, "alembic_version" \in tables'[b]
               PROVE  AllTables \subseteq tables'[b]
    BY DEF VersionMeansTables
  <2>1. CASE b = Base(p) /\ "alembic_version" \in new
    BY <1>3, <2>1
  <2>2. CASE "alembic_version" \in tables[b]
    BY <1>3, <2>2 DEF IInv, VersionMeansTables
  <2> QED
    BY <1>3, <2>1, <2>2
<1>14. ForeignDatabaseUntouched'
  BY <1>3, ForeignKept DEF IInv, Unstarted
<1> QED
  BY <1>6, <1>7, <1>8, <1>10, <1>11, <1>12, <1>13, <1>14 DEF IInv

\* Containers stop, and their transactions are rolled back.
LEMMA CrashStep ==
  ASSUME RolloutAssumption, IInv, NEW ps \in SUBSET Pods, \A p \in ps : pc[p] \notin Halted,
         Crash(ps), UNCHANGED <<pipeline, conf, call, tables>>, down' \in BOOLEAN
  PROVE  IInv'
<1>1. UNCHANGED <<path, env, stage, prepared, cluster, conf>> /\ Unstarted
  BY DEF Unstarted, pipeline
<1>2. TypeOK /\ Typed
  BY DEF IInv
<1>3. /\ pc' \in [Pods -> Pcs]
      /\ \A p \in ps : pc'[p] = "crashed"
      /\ \A q \in Pods \ ps : pc'[q] = pc[q]
  BY <1>2, Names DEF TypeOK, Crash, Pcs
<1>4. /\ todo' \in [Pods -> Seq(Migrated)] /\ made' \in [Pods -> SUBSET Migrated]
      /\ \A p \in ps : todo'[p] = <<>> /\ made'[p] = {}
      /\ \A q \in Pods \ ps : todo'[q] = todo[q] /\ made'[q] = made[q]
  <2>1. <<>> \in Seq(Migrated)
    OBVIOUS
  <2> QED
    BY <1>2, <2>1 DEF Typed, Crash
<1>5. Typed'
  BY <1>2, <1>4 DEF Typed
<1>6. fails' \in 0..BackoffLimit /\ FailsOk'
  <2>1. fails \in 0..BackoffLimit /\ BackoffLimit \in Nat /\ FailsOk
    BY <1>2 DEF TypeOK, IInv, RolloutAssumption
  <2>2. CASE "job" \in ps
    <3>1. fails < BackoffLimit /\ fails' = fails + 1 /\ pc'["job"] = "crashed"
      BY <1>3, <2>1, <2>2 DEF Crash, FailsOk
    <3> QED
      BY <2>1, <3>1, Names DEF FailsOk
  <2>3. CASE "job" \notin ps
    BY <1>3, <2>1, <2>3, Names DEF Crash, FailsOk
  <2> QED
    BY <2>2, <2>3
<1>7. TypeOK'
  <2>1. OldEffect' = OldEffect
    BY DEF OldEffect
  <2>2. \A q \in Pods : todo'[q] \in Seq(Migrated) /\ made'[q] \subseteq Migrated
    BY <1>4
  <2>3. ready' \in [Pods -> BOOLEAN]
    BY <1>2 DEF TypeOK, Crash
  <2> QED
    BY <1>1, <1>2, <1>3, <1>6, <2>1, <2>2, <2>3 DEF TypeOK, Pcs
<1>8. \A q \in Pods : PodOk(q)'
  <2> SUFFICES ASSUME NEW q \in Pods PROVE PodOk(q)'
    OBVIOUS
  <2>1. PodOk(q) /\ Base(q)' = Base(q) /\ Base(q) \in Databases
    BY DEF IInv, PodOk, Base
  <2>2. CASE q \in ps
    BY <1>3, <1>4, <2>1, <2>2, NothingInHand, NothingListed
  <2>3. CASE q \notin ps
    BY <1>1, <1>3, <1>4, <2>1, <2>3, TablesGrow
  <2> QED
    BY <2>2, <2>3
<1>9. \A q \in Pods : pc[q] = "none" <=> pc'[q] = "none"
  BY <1>3, Names
<1>10. StageOk' /\ PathOk' /\ VersionMeansTables'
  BY <1>1, <1>9, StageKept, PathKept DEF IInv, VersionMeansTables
<1>11. ForeignDatabaseUntouched'
  BY <1>1 DEF IInv, ForeignDatabaseUntouched, OnlyExpectedDatabases
<1> QED
  BY <1>5, <1>6, <1>7, <1>8, <1>10, <1>11 DEF IInv

-----------------------------------------------------------------------------
(* The steps of a container.                                               *)

LEMMA Kept ==
  ASSUME IInv, NEW p \in Pods
  PROVE  /\ pc[p] \in Pcs /\ pc = [pc EXCEPT ![p] = pc[p]]
         /\ call[p] \in Nat /\ call = [call EXCEPT ![p] = call[p]]
         /\ todo[p] \in Seq(Migrated) /\ todo = [todo EXCEPT ![p] = todo[p]]
         /\ made[p] \in SUBSET Migrated /\ made = [made EXCEPT ![p] = made[p]]
         /\ Base(p) \in Databases /\ tables[Base(p)] \subseteq Migrated
         /\ tables = [tables EXCEPT ![Base(p)] = @ \cup {}]
         /\ ready \in [Pods -> BOOLEAN] /\ down \in BOOLEAN
         /\ PodOk(p)
<1>1. TypeOK /\ Typed /\ PodOk(p)
  BY DEF IInv
<1>2. Base(p) \in Databases /\ tables[Base(p)] \subseteq Migrated
  BY <1>1 DEF PodOk, TypeOK
<1>3. tables = [tables EXCEPT ![Base(p)] = @ \cup {}]
  BY <1>1, <1>2 DEF TypeOK
<1>4. pc[p] \in Pcs /\ pc = [pc EXCEPT ![p] = pc[p]]
  BY <1>1 DEF TypeOK, Pcs
<1>5. /\ call[p] \in Nat /\ call = [call EXCEPT ![p] = call[p]]
      /\ todo[p] \in Seq(Migrated) /\ todo = [todo EXCEPT ![p] = todo[p]]
      /\ made[p] \in SUBSET Migrated /\ made = [made EXCEPT ![p] = made[p]]
  BY <1>1 DEF Typed
<1> QED
  BY <1>1, <1>2, <1>3, <1>4, <1>5 DEF TypeOK

LEMMA Domains ==
  ASSUME IInv, NEW p \in Pods
  PROVE  /\ pc \in [Pods -> Pcs] /\ call \in [Pods -> Nat]
         /\ todo \in [Pods -> Seq(Migrated)] /\ made \in [Pods -> SUBSET Migrated]
         /\ tables \in [Databases -> SUBSET Migrated] /\ Base(p) \in Databases
         /\ Unstarted => conf' = conf /\ Base(p)' = Base(p)
<1>1. TypeOK /\ Typed /\ Base(p) \in Databases
  BY DEF IInv, PodOk
<1>2. Unstarted => conf' = conf /\ Base(p)' = Base(p)
  BY DEF Unstarted, Base
<1> QED
  BY <1>1, <1>2 DEF Typed, TypeOK, Pcs

LEMMA MigrationListsAll ==
  /\ Migration \in Seq(Migrated) /\ Migration # <<>> /\ Listed(Migration) = Migrated
  /\ Listed(Tail(Migration)) \subseteq AllTables
<1>1. Migration \in Seq(Migrated) /\ Len(Migration) = 4
  BY DEF Migration, Migrated, AllTables, BillingTables
<1>2. /\ Migration[1] = "alembic_version" /\ Migration[2] = "quotes"
      /\ Migration[3] = "payments" /\ Migration[4] = "processed_events"
  BY DEF Migration
<1>3. 1..4 = {1, 2, 3, 4}
  OBVIOUS
<1>4. Listed(Migration) = {Migration[1], Migration[2], Migration[3], Migration[4]}
  BY <1>1, <1>3 DEF Listed
<1>5. Listed(Migration) = Migrated
  BY <1>2, <1>4 DEF Migrated, AllTables, BillingTables
<1>6. Listed(Tail(Migration)) \subseteq AllTables
  <2>1. Tail(Migration) = <<"quotes", "payments", "processed_events">>
    BY DEF Migration
  <2>2. 1..3 = {1, 2, 3}
    OBVIOUS
  <2>3. LET s == <<"quotes", "payments", "processed_events">>
        IN  Len(s) = 3 /\ s[1] = "quotes" /\ s[2] = "payments" /\ s[3] = "processed_events"
    OBVIOUS
  <2>4. Listed(Tail(Migration)) = {"quotes", "payments", "processed_events"}
    BY <2>1, <2>2, <2>3 DEF Listed
  <2> QED
    BY <2>4 DEF AllTables, BillingTables
<1> QED
  BY <1>1, <1>2, <1>5, <1>6

LEMMA BootStep == ASSUME IInv, NEW p \in Pods, Boot(p) PROVE IInv'
<1> DEFINE w == IF p = "job" \/ conf[p].real THEN "check" ELSE Served(p)
           s == IF p = "job" THEN Migration ELSE <<>>
<1>1. Unstarted /\ pc[p] = "boot" /\ pc' = [pc EXCEPT ![p] = w]
  BY DEF Boot, Rest, faults, Unstarted
<1>2. /\ call' = [call EXCEPT ![p] = 1] /\ todo' = [todo EXCEPT ![p] = s]
      /\ made' = [made EXCEPT ![p] = made[p]]
      /\ tables' = [tables EXCEPT ![Base(p)] = @ \cup {}]
      /\ fails' = fails /\ ready' \in [Pods -> BOOLEAN] /\ down' \in BOOLEAN
  BY Kept DEF Boot, Rest, faults
<1>3. w \in {"check", "connect", "serving"} /\ w \in Pcs \ {"none"} /\ pc[p] \notin Halted
  BY <1>1, Names DEF Served, Halted
<1>4. s \in Seq(Migrated)
  BY MigrationListsAll
<1>5. made[p] = {} /\ made[p] \in SUBSET Migrated
  BY <1>1, Kept DEF PodOk, InDatabase
<1>6. PodOk(p)'
  <2>1. /\ pc'[p] = w /\ call'[p] = 1 /\ todo'[p] = s /\ made'[p] = {}
        /\ tables'[Base(p)] = tables[Base(p)] /\ conf' = conf /\ Base(p)' = Base(p)
    <3> HIDE DEF w, s
    <3> QED
      BY <1>1, <1>2, <1>5, Domains
  <2>2. CASE p = "job"
    BY <2>1, <2>2, MigrationListsAll, Kept DEF PodOk, Listing, Aim, InDatabase
  <2>3. CASE p # "job"
    BY <1>3, <2>1, <2>3, NothingListed, Kept DEF PodOk, Listing, InDatabase, Served
  <2> QED
    BY <2>2, <2>3
<1> HIDE DEF w, s
<1> QED
  BY <1>1, <1>2, <1>3, <1>4, <1>5, <1>6, ContainerStep

\* After a create_all whose tables are all there.
LEMMA CallDone ==
  ASSUME IInv, NEW p \in Pods, p # "job", pc[p] \in {"check", "commit"},
         NextCall(p), Unstarted, UNCHANGED <<todo, fails, ready, down>>,
         NEW new \in SUBSET AllTables,
         tables' = [tables EXCEPT ![Base(p)] = @ \cup new],
         Calls(p)[call[p]] \subseteq tables[Base(p)] \cup new,
         made' = [made EXCEPT ![p] = {}]
  PROVE  IInv'
<1> DEFINE w == IF call[p] < Len(Calls(p)) THEN "check" ELSE Served(p)
           c == call[p] + 1
<1>1. pc' = [pc EXCEPT ![p] = w] /\ call' = [call EXCEPT ![p] = c]
  BY DEF NextCall
<1>2. todo' = [todo EXCEPT ![p] = todo[p]]
  BY Kept
<1>3. pc[p] \in InDatabase /\ call[p] \in {1, 2} /\ PodOk(p)
  BY Kept DEF PodOk, InDatabase
<1>4. w \in {"check", "connect", "serving"} /\ w \in Pcs \ {"none"} /\ pc[p] \notin Halted
  BY <1>3, Names DEF Served
<1>5. /\ pc'[p] = w /\ call'[p] = c /\ todo'[p] = todo[p] /\ made'[p] = {}
      /\ tables'[Base(p)] = tables[Base(p)] \cup new /\ conf' = conf /\ Base(p)' = Base(p)
  <2> HIDE DEF w, c
  <2> QED
    BY <1>1, <1>2, Domains
<1>6. PodOk(p)'
  <2>1. CASE call[p] = 1
    <3>1. w = "check" /\ c = 2
      <4>1. Len(Calls(p)) = 2
        BY CallsAreOfTables
      <4> QED
        BY <2>1, <4>1
    <3>2. Calls(p)[1] \subseteq tables'[Base(p)]
      BY <1>5, <2>1
    <3>3. /\ Base(p) \in Databases /\ made[p] \subseteq AllTables
          /\ Listed(todo[p]) \subseteq AllTables
      BY <1>3 DEF PodOk
    <3> HIDE DEF w, c
    <3> QED
      BY <1>5, <3>1, <3>2, <3>3 DEF PodOk, Listing, InDatabase
  <2>2. CASE call[p] = 2
    <3>1. w \in {"connect", "serving"}
      <4>1. Len(Calls(p)) = 2
        BY CallsAreOfTables
      <4>2. w = Served(p)
        BY <2>2, <4>1
      <4> QED
        BY <4>2 DEF Served
    <3>2. Needed(p) \subseteq tables'[Base(p)]
      BY <1>3, <1>5, <2>2, CallsAreOfTables DEF PodOk
    <3> QED
      BY <1>3, <1>5, <3>1, <3>2 DEF PodOk, Listing, InDatabase
  <2> QED
    BY <1>3, <2>1, <2>2
<1>7. c \in Nat /\ todo[p] \in Seq(Migrated) /\ new \in SUBSET Migrated /\ "alembic_version" \notin new
  BY <1>3, Kept DEF Migrated, AllTables, BillingTables
<1>8. ready' \in [Pods -> BOOLEAN] /\ down' \in BOOLEAN
  BY Kept
<1> HIDE DEF w, c
<1>9. {} \in SUBSET Migrated
  OBVIOUS
<1> QED
  BY <1>1, <1>2, <1>4, <1>6, <1>7, <1>8, <1>9, ContainerStep

LEMMA LookForTablesStep == ASSUME IInv, NEW p \in Pods, LookForTables(p) PROVE IInv'
<1> DEFINE missing == Calls(p)[call[p]] \ tables[Base(p)]
<1>1. /\ Unstarted /\ pc[p] = "check" /\ p # "job"
      /\ UNCHANGED <<made, ready, fails, tables, down>>
  BY DEF LookForTables, Rest, faults, Unstarted
<1>2. /\ made[p] = {} /\ made' = [made EXCEPT ![p] = {}] /\ PodOk(p)
      /\ tables' = [tables EXCEPT ![Base(p)] = @ \cup {}]
  <2>1. made[p] = {} /\ PodOk(p)
    BY <1>1, Kept DEF PodOk
  <2> QED
    BY <1>1, <2>1, Kept
<1>3. call[p] \in {1, 2}
  BY <1>1, <1>2 DEF PodOk, InDatabase
<1>4. CASE missing = {}
  <2>1. NextCall(p) /\ UNCHANGED todo
    BY <1>4 DEF LookForTables
  <2>2. Calls(p)[call[p]] \subseteq tables[Base(p)] \cup {}
    BY <1>4
  <2>3. {} \in SUBSET AllTables
    OBVIOUS
  <2> QED
    BY <1>1, <1>2, <2>1, <2>2, <2>3, CallDone
<1>5. CASE missing # {}
  <2>1. PICK order \in SetToSeqs(missing) : todo' = [todo EXCEPT ![p] = order]
    BY <1>5 DEF LookForTables, DeclaredOrders
  <2>2. /\ pc' = [pc EXCEPT ![p] = "create"] /\ call' = [call EXCEPT ![p] = call[p]]
        /\ call[p] \in Nat
    BY <1>5, Kept DEF LookForTables
  <2>3. missing \subseteq AllTables
    BY <1>1, <1>3, CallsAreOfTables
  <2>4. IsFiniteSet(missing)
    <3>1. IsFiniteSet(AllTables)
      <4>1. IsFiniteSet({"quotes"}) /\ IsFiniteSet({"processed_events"})
        BY FS_Singleton
      <4>2. IsFiniteSet({"quotes"} \cup {"payments"})
        BY <4>1, FS_AddElement
      <4>3. IsFiniteSet(({"quotes"} \cup {"payments"}) \cup {"processed_events"})
        BY <4>2, FS_AddElement
      <4>4. ({"quotes"} \cup {"payments"}) \cup {"processed_events"} = AllTables
        BY DEF AllTables, BillingTables
      <4> QED
        BY <4>3, <4>4
    <3> QED
      BY <2>3, <3>1, FS_Subset
  <2>5. order \in Seq(missing) /\ Listed(order) = missing
    BY <2>4, Orders
  <2>6. order \in Seq(Migrated) /\ order # <<>>
    <3>1. order # <<>>
      BY <1>5, <2>5, NothingListed
    <3>2. missing \subseteq Migrated
      BY <2>3 DEF Migrated
    <3> HIDE DEF missing
    <3> QED
      BY <2>5, <3>1, <3>2
  <2>7. PodOk(p)'
    <3>1. /\ pc'[p] = "create" /\ call'[p] = call[p] /\ todo'[p] = order /\ made'[p] = {}
          /\ tables'[Base(p)] = tables[Base(p)] /\ conf' = conf /\ Base(p)' = Base(p)
      BY <1>1, <1>2, <2>1, <2>2, Domains
    <3> QED
      BY <1>1, <1>2, <2>3, <2>5, <2>6, <3>1 DEF PodOk, Listing, Aim, InDatabase
  <2>8. "create" \in Pcs \ {"none"} /\ pc[p] \notin Halted
    BY <1>1, Names DEF Halted
  <2>9. ready' \in [Pods -> BOOLEAN] /\ down' \in BOOLEAN /\ {} \in SUBSET Migrated
    BY <1>1, Kept
  <2> HIDE DEF missing
  <2> QED
    BY <1>1, <1>2, <2>1, <2>2, <2>6, <2>7, <2>8, <2>9, ContainerStep
<1> QED
  BY <1>4, <1>5

LEMMA MigrationStepKeeps == ASSUME IInv, MigrationStep PROVE IInv'
<1> DEFINE p == "job"
           w == IF ~Found(p) THEN "create"
                ELSE IF Head(todo[p]) = "alembic_version" THEN "complete"
                ELSE IF Len(todo[p]) = 1 THEN "commit" ELSE "check"
           s == IF Found(p) THEN Tail(todo[p]) ELSE todo[p]
<1>0. p \in Pods
  BY Names
<1>1. /\ Unstarted /\ pc[p] = "check"
      /\ UNCHANGED <<call, made, ready, fails, tables, down>>
  BY DEF MigrationStep, Rest, faults, Unstarted
<1>2. pc' = [pc EXCEPT ![p] = w] /\ todo' = [todo EXCEPT ![p] = s]
  BY <1>0, <1>1, Kept DEF MigrationStep
<1>3. /\ todo[p] \in Seq(Migrated) /\ todo[p] # <<>> /\ PodOk(p)
      /\ Migrated \subseteq tables[Base(p)] \cup made[p] \cup Listed(todo[p])
  BY <1>0, <1>1, Kept DEF PodOk, Listing, Aim
<1>4. /\ Tail(todo[p]) \in Seq(Migrated)
      /\ Listed(todo[p]) \subseteq {Head(todo[p])} \cup Listed(Tail(todo[p]))
      /\ Tail(todo[p]) # <<>> =>
           /\ Head(Tail(todo[p])) \in Listed(Tail(todo[p]))
           /\ Listed(Tail(Tail(todo[p]))) \subseteq Listed(Tail(todo[p]))
      /\ Len(todo[p]) = 1 <=> Tail(todo[p]) = <<>>
  BY <1>3, HeadAndTail
<1>5. Migrated \subseteq tables[Base(p)] \cup made[p] \cup Listed(s)
  BY <1>3, <1>4 DEF Found
<1>6. w \in Pcs \ {"none"} /\ s \in Seq(Migrated) /\ pc[p] \notin Halted
  BY <1>1, <1>3, <1>4, Names DEF Halted
<1>7. PodOk(p)'
  <2>1. /\ pc'[p] = w /\ todo'[p] = s /\ made'[p] = made[p]
        /\ tables'[Base(p)] = tables[Base(p)] /\ conf' = conf /\ Base(p)' = Base(p)
    <3> HIDE DEF w, s
    <3> QED
      BY <1>0, <1>1, <1>2, Domains
  <2>2. CASE w = "complete"
    <3>1. Found(p) /\ Head(todo[p]) = "alembic_version"
      BY <2>2
    <3>2. AllTables \subseteq tables[Base(p)] /\ "alembic_version" \in tables[Base(p)]
      BY <1>0, <3>1, Kept DEF Found, IInv, VersionMeansTables
    <3>3. Migrated \subseteq tables[Base(p)]
      BY <3>2 DEF Migrated
    <3>4. made[p] = {}
      BY <1>1, <1>3, <3>1 DEF PodOk, Listing
    <3> QED
      BY <1>3, <2>1, <2>2, <3>3, <3>4 DEF PodOk, Listing, InDatabase
  <2>3. CASE w = "commit"
    <3>1. s = <<>>
      BY <1>4, <2>3
    <3> QED
      BY <1>3, <1>5, <2>1, <2>3, <3>1 DEF PodOk, Listing, Aim, InDatabase
  <2>4. CASE w \in {"create", "check"}
    <3>1. s # <<>>
      BY <1>3, <1>4, <2>4
    <3>2. /\ Listed(Tail(s)) \subseteq AllTables
          /\ Head(s) = "alembic_version" => made[p] = {}
      <4>1. /\ Listed(Tail(todo[p])) \subseteq AllTables
            /\ Head(todo[p]) = "alembic_version" => made[p] = {}
        BY <1>1, <1>3 DEF PodOk, Listing
      <4>2. CASE ~Found(p)
        BY <4>1, <4>2
      <4>3. CASE Found(p)
        <5>1. Head(s) \in AllTables /\ Listed(Tail(s)) \subseteq AllTables
          BY <1>4, <3>1, <4>1, <4>3
        <5> QED
          BY <5>1 DEF AllTables, BillingTables
      <4> QED
        BY <4>2, <4>3
    <3> HIDE DEF s, w
    <3> QED
      BY <1>3, <1>5, <2>1, <2>4, <3>1, <3>2 DEF PodOk, Listing, Aim, InDatabase
  <2> QED
    BY <2>2, <2>3, <2>4
<1>8. /\ call' = [call EXCEPT ![p] = call[p]] /\ call[p] \in Nat
      /\ made' = [made EXCEPT ![p] = made[p]] /\ made[p] \in SUBSET Migrated
      /\ tables' = [tables EXCEPT ![Base(p)] = @ \cup {}] /\ {} \in SUBSET Migrated
      /\ fails' = fails /\ ready' \in [Pods -> BOOLEAN] /\ down' \in BOOLEAN
  BY <1>0, <1>1, Kept
<1> HIDE DEF p, w, s
<1> QED
  BY <1>0, <1>1, <1>2, <1>6, <1>7, <1>8, ContainerStep

LEMMA CreateStep == ASSUME IInv, NEW p \in Pods, Create(p) PROVE IInv'
<1> DEFINE w == IF Len(todo[p]) = 1 THEN "commit" ELSE IF p = "job" THEN "check" ELSE "create"
           s == Tail(todo[p])
           m == made[p] \cup {Head(todo[p])}
<1>1. /\ Unstarted /\ pc[p] = "create"
      /\ UNCHANGED <<call, ready, fails, tables, down>>
  BY DEF Create, Rest, faults, Unstarted
<1>2. /\ pc' = [pc EXCEPT ![p] = w] /\ todo' = [todo EXCEPT ![p] = s]
      /\ made' = [made EXCEPT ![p] = m]
  BY <1>1, Domains DEF Create
<1>3. /\ todo[p] \in Seq(Migrated) /\ todo[p] # <<>> /\ made[p] \in SUBSET Migrated /\ PodOk(p)
      /\ Aim(p) \subseteq tables[Base(p)] \cup made[p] \cup Listed(todo[p])
  BY <1>1, Kept DEF PodOk, Listing
<1>4. /\ s # <<>> => Head(s) \in Listed(s) /\ Listed(Tail(s)) \subseteq Listed(s)
      /\ s \in Seq(Migrated) /\ Head(todo[p]) \in Migrated
      /\ Head(todo[p]) \in Listed(todo[p]) /\ Listed(s) \subseteq Listed(todo[p])
      /\ Listed(todo[p]) \subseteq {Head(todo[p])} \cup Listed(s)
      /\ Len(todo[p]) = 1 <=> s = <<>>
  BY <1>3, HeadAndTail
<1>5. Aim(p) \subseteq tables[Base(p)] \cup m \cup Listed(s)
  BY <1>3, <1>4
<1>6. w \in Pcs \ {"none"} /\ m \in SUBSET Migrated /\ pc[p] \notin Halted
  BY <1>1, <1>3, <1>4, Names DEF Halted
<1>7. PodOk(p)'
  <2>1. /\ pc'[p] = w /\ call'[p] = call[p] /\ todo'[p] = s /\ made'[p] = m
        /\ tables'[Base(p)] = tables[Base(p)] /\ conf' = conf /\ Base(p)' = Base(p)
    <3> HIDE DEF w, s, m
    <3> QED
      BY <1>1, <1>2, Domains
  <2>2. \/ w = "commit" /\ s = <<>>
        \/ w = "check" /\ p = "job" /\ s # <<>>
        \/ w = "create" /\ p # "job" /\ s # <<>>
    <3>1. Len(todo[p]) = 1 <=> s = <<>>
      BY <1>4
    <3>2. CASE Len(todo[p]) = 1
      <4>1. w = "commit"
        BY <3>2
      <4> QED
        BY <3>1, <3>2, <4>1
    <3>3. CASE Len(todo[p]) # 1
      <4>1. w = IF p = "job" THEN "check" ELSE "create"
        BY <3>3
      <4> HIDE DEF s, w
      <4> QED
        BY <3>1, <3>3, <4>1
    <3> QED
      BY <3>2, <3>3
  <2>3. p # "job" => m \subseteq AllTables /\ Listed(s) \subseteq AllTables
    BY <1>3, <1>4 DEF PodOk
  <2>4. Aim(p)' = Aim(p)
    BY <2>1 DEF Aim
  <2>5. p = "job" /\ s # <<>> =>
          Listed(Tail(s)) \subseteq AllTables /\ Head(s) # "alembic_version"
    <3>1. p = "job" => Listed(Tail(todo[p])) \subseteq AllTables
      BY <1>1, <1>3 DEF PodOk, Listing
    <3>2. "alembic_version" \notin AllTables
      BY DEF AllTables, BillingTables
    <3> QED
      BY <1>4, <3>1, <3>2
  <2> HIDE DEF w, s, m
  <2> QED
    BY <1>1, <1>3, <1>5, <2>1, <2>2, <2>3, <2>4, <2>5 DEF PodOk, Listing, InDatabase
<1>8. /\ call' = [call EXCEPT ![p] = call[p]] /\ call[p] \in Nat
      /\ tables' = [tables EXCEPT ![Base(p)] = @ \cup {}] /\ {} \in SUBSET Migrated
      /\ fails' = fails /\ ready' \in [Pods -> BOOLEAN] /\ down' \in BOOLEAN
  BY <1>1, Kept
<1> HIDE DEF w, s, m
<1> QED
  BY <1>1, <1>2, <1>4, <1>6, <1>7, <1>8, ContainerStep

\* A process whose list is empty commits all it was to create.
LEMMA CommitStep == ASSUME IInv, NEW p \in Pods, Commit(p) PROVE IInv'
<1>1. /\ Unstarted /\ pc[p] = "commit"
      /\ tables' = [tables EXCEPT ![Base(p)] = @ \cup made[p]]
      /\ made' = [made EXCEPT ![p] = {}]
      /\ UNCHANGED <<todo, ready, fails, down>>
  BY DEF Commit, Rest, faults, Unstarted
<1>2. Aim(p) \subseteq tables[Base(p)] \cup made[p]
  BY <1>1, Kept, NothingListed DEF PodOk
<1>3. CASE p = "job"
  <2>1. pc' = [pc EXCEPT ![p] = "complete"] /\ call' = [call EXCEPT ![p] = call[p]]
    BY <1>3, Kept DEF Commit
  <2>2. Migrated \subseteq tables[Base(p)] \cup made[p] /\ AllTables \subseteq Migrated
    BY <1>2, <1>3 DEF Aim, Migrated
  <2>3. todo' = [todo EXCEPT ![p] = todo[p]] /\ todo[p] \in Seq(Migrated)
    BY <1>1, Kept
  <2>4. PodOk(p)'
    <3>1. /\ pc'[p] = "complete" /\ made'[p] = {}
          /\ tables'[Base(p)] = tables[Base(p)] \cup made[p] /\ conf' = conf /\ Base(p)' = Base(p)
      BY <1>1, <2>1, Domains
    <3> QED
      BY <1>3, <2>2, <3>1, Kept DEF PodOk, Listing, InDatabase
  <2>5. /\ call[p] \in Nat /\ made[p] \in SUBSET Migrated /\ {} \in SUBSET Migrated
        /\ ready' \in [Pods -> BOOLEAN] /\ down' \in BOOLEAN
        /\ "complete" \in Pcs \ {"none"} /\ pc[p] \notin Halted
    BY <1>1, Kept, Names DEF Halted
  <2>6. AllTables \subseteq tables[Base(p)] \cup made[p]
    BY <2>2
  <2> QED
    BY <1>1, <2>1, <2>3, <2>4, <2>5, <2>6, ContainerStep
<1>4. CASE p # "job"
  <2>1. NextCall(p)
    BY <1>4 DEF Commit
  <2>2. made[p] \in SUBSET AllTables
    BY <1>4, Kept DEF PodOk
  <2>3. Calls(p)[call[p]] \subseteq tables[Base(p)] \cup made[p]
    BY <1>2, <1>4 DEF Aim
  <2> QED
    BY <1>1, <1>4, <2>1, <2>2, <2>3, CallDone
<1> QED
  BY <1>3, <1>4

LEMMA ConnectStep == ASSUME IInv, NEW p \in Pods, Connect(p) PROVE IInv'
<1>1. /\ Unstarted /\ pc[p] = "connect" /\ pc' = [pc EXCEPT ![p] = "serving"]
      /\ UNCHANGED <<call, todo, made, ready, fails, tables, down>>
  BY DEF Connect, Rest, faults, Unstarted
<1>2. PodOk(p)'
  <2>1. /\ pc'[p] = "serving" /\ made' = made /\ todo' = todo /\ tables' = tables
        /\ conf' = conf /\ Base(p)' = Base(p)
    BY <1>1, Domains
  <2> QED
    BY <1>1, <2>1, Kept DEF PodOk, Listing, InDatabase
<1>3. "serving" \in Pcs \ {"none"} /\ pc[p] \notin Halted /\ {} \in SUBSET Migrated
  BY <1>1, Names DEF Halted
<1>4. /\ call' = [call EXCEPT ![p] = call[p]] /\ call[p] \in Nat
      /\ todo' = [todo EXCEPT ![p] = todo[p]] /\ todo[p] \in Seq(Migrated)
      /\ made' = [made EXCEPT ![p] = made[p]] /\ made[p] \in SUBSET Migrated
      /\ tables' = [tables EXCEPT ![Base(p)] = @ \cup {}]
      /\ fails' = fails /\ ready' \in [Pods -> BOOLEAN] /\ down' \in BOOLEAN
  BY <1>1, Kept
<1> QED
  BY <1>1, <1>2, <1>3, <1>4, ContainerStep

LEMMA ProbeStep == ASSUME IInv, NEW p \in Pods, Probe(p) PROVE IInv'
<1>1. /\ Unstarted /\ pc[p] = "serving"
      /\ UNCHANGED <<pc, call, todo, made, fails, tables, down>>
  BY DEF Probe, Rest, faults, Unstarted
<1>2. ready' \in [Pods -> BOOLEAN]
  <2>1. PICK v \in BOOLEAN : ready' = [ready EXCEPT ![p] = v]
    BY DEF Probe
  <2> QED
    BY <2>1, Kept
<1>3. PodOk(p)'
  BY <1>1, Kept, Domains DEF PodOk, Listing, Aim
<1>4. /\ pc' = [pc EXCEPT ![p] = "serving"] /\ "serving" \in Pcs \ {"none"}
      /\ pc[p] \notin Halted /\ {} \in SUBSET Migrated
  BY <1>1, Kept, Names DEF Halted
<1>5. /\ call' = [call EXCEPT ![p] = call[p]] /\ call[p] \in Nat
      /\ todo' = [todo EXCEPT ![p] = todo[p]] /\ todo[p] \in Seq(Migrated)
      /\ made' = [made EXCEPT ![p] = made[p]] /\ made[p] \in SUBSET Migrated
      /\ tables' = [tables EXCEPT ![Base(p)] = @ \cup {}]
      /\ fails' = fails /\ down' \in BOOLEAN
  BY <1>1, Kept
<1> QED
  BY <1>1, <1>2, <1>3, <1>4, <1>5, ContainerStep

\* The steps that only end in a crash.
LEMMA FailsStep ==
  ASSUME RolloutAssumption, IInv, NEW p \in Pods, pc[p] \notin Halted,
         Crash({p}), UNCHANGED <<pipeline, conf, call, tables, down>>
  PROVE  IInv'
<1>1. {p} \in SUBSET Pods /\ \A q \in {p} : pc[q] \notin Halted
  OBVIOUS
<1>2. down' \in BOOLEAN
  BY Kept
<1> QED
  BY <1>1, <1>2, CrashStep

LEMMA StepKeeps == ASSUME RolloutAssumption, IInv, NEW p \in Pods, Step(p) PROVE IInv'
<1>1. CASE Boot(p)
  BY <1>1, BootStep
<1>2. CASE RefusesToStart(p)
  BY <1>2, FailsStep DEF RefusesToStart, Halted, Fails, Rest, faults
<1>3. CASE LookForTables(p)
  BY <1>3, LookForTablesStep
<1>4. CASE p = "job" /\ MigrationStep
  BY <1>4, MigrationStepKeeps
<1>5. CASE Create(p)
  BY <1>5, CreateStep
<1>6. CASE LosesTheRace(p)
  BY <1>6, FailsStep DEF LosesTheRace, Halted
<1>7. CASE Commit(p)
  BY <1>7, CommitStep
<1>8. CASE CannotReachDatabase(p)
  BY <1>8, FailsStep DEF CannotReachDatabase, Halted, InDatabase, Fails, Rest, faults
<1>9. CASE Connect(p)
  BY <1>9, ConnectStep
<1>10. CASE CannotReachBroker(p)
  BY <1>10, FailsStep DEF CannotReachBroker, Halted, Fails, Rest, faults
<1> QED
  BY <1>1, <1>2, <1>3, <1>4, <1>5, <1>6, <1>7, <1>8, <1>9, <1>10 DEF Step

LEMMA LivenessFailsStep ==
  ASSUME RolloutAssumption, IInv, NEW p \in Pods, LivenessFails(p) PROVE IInv'
BY FailsStep DEF LivenessFails, Halted, Fails, Rest, faults

LEMMA KillStep == ASSUME RolloutAssumption, IInv, NEW p \in Pods, Kill(p) PROVE IInv'
<1>1. {p} \in SUBSET Pods /\ \A q \in {p} : pc[q] \notin Halted
  BY DEF Kill
<1>2. Crash({p}) /\ UNCHANGED <<pipeline, conf, call, tables>> /\ down' \in BOOLEAN
  BY Kept DEF Kill
<1> QED
  BY <1>1, <1>2, CrashStep

LEMMA GoDownStep == ASSUME RolloutAssumption, IInv, GoDown PROVE IInv'
<1> DEFINE ps == {p \in Pods : pc[p] \in InDatabase}
<1>1. ps \in SUBSET Pods /\ \A q \in ps : pc[q] \notin Halted
  BY Names
<1>2. Crash(ps) /\ UNCHANGED <<pipeline, conf, call, tables>> /\ down' \in BOOLEAN
  BY DEF GoDown
<1> HIDE DEF ps
<1> QED
  BY <1>1, <1>2, CrashStep

-----------------------------------------------------------------------------
(* The pipeline, and what it and the kubelet start.                        *)

Stages == {"prepare", "render", "apply", "startJob", "wait", "rollout", "done", "aborted"}

\* A step that touches neither containers nor tables nor the environment.
LEMMA OnlyTheStage ==
  ASSUME IInv, UNCHANGED <<path, env, cluster, containers, tables, down>>,
         stage' \in Stages, prepared' \in BOOLEAN, StageOk', PathOk'
  PROVE  IInv'
<1>1. UNCHANGED <<pc, conf, call, todo, made, ready, fails>>
  BY DEF containers
<1>2. \A p \in Pods : PodOk(p)'
  BY <1>1 DEF IInv, PodOk, Base, Listing, Aim
<1>3. TypeOK' /\ Typed'
  BY <1>1 DEF IInv, TypeOK, Typed, OldEffect, Stages
<1>4. FailsOk' /\ VersionMeansTables' /\ ForeignDatabaseUntouched'
  BY <1>1 DEF IInv, FailsOk, VersionMeansTables, ForeignDatabaseUntouched, OnlyExpectedDatabases, OldEffect
<1> QED
  BY <1>2, <1>3, <1>4 DEF IInv

LEMMA PrepareStep == ASSUME IInv, Prepare PROVE IInv'
<1>1. UNCHANGED <<pc, conf, path, env, cluster, containers, tables, down>>
  BY DEF Prepare, containers, faults
<1>2. prepared' = Accepts(env) /\ stage = "prepare"
      /\ stage' = IF Accepts(env) THEN "render" ELSE "aborted"
  BY DEF Prepare
<1>3. Accepts(env) \in BOOLEAN
  BY DEF Accepts
<1>4. StageOk'
  BY <1>1, <1>2 DEF IInv, StageOk, Early, ClusterBase, OldEffect
<1>5. PathOk'
  BY <1>1, <1>2 DEF IInv, PathOk, ExpectedDb, OldEffect
<1> QED
  BY <1>1, <1>2, <1>3, <1>4, <1>5, OnlyTheStage DEF Stages

LEMMA RenderStep == ASSUME IInv, Render PROVE IInv'
<1>1. UNCHANGED <<pc, conf, path, env, prepared, cluster, containers, tables, down>>
  BY DEF Render, containers, faults
<1>2. stage = "render" /\ stage' = IF Renders(File) THEN "apply" ELSE "aborted"
  BY DEF Render
<1>3. File' = File
  BY <1>1 DEF File
<1>4. StageOk'
  BY <1>1, <1>2, <1>3 DEF IInv, StageOk, Early, ClusterBase, OldEffect
<1>5. PathOk'
  BY <1>1, <1>2 DEF IInv, PathOk, ExpectedDb, OldEffect
<1>6. prepared' \in BOOLEAN
  BY <1>1 DEF IInv, TypeOK
<1> QED
  BY <1>1, <1>2, <1>4, <1>5, <1>6, OnlyTheStage DEF Stages

LEMMA EndStep == ASSUME IInv, WaitTimesOut \/ RolloutTimesOut \/ Finish PROVE IInv'
<1>1. UNCHANGED <<pc, conf, path, env, prepared, cluster, containers, tables, down>>
  BY DEF WaitTimesOut, RolloutTimesOut, Finish, containers, faults
<1>2. stage \in {"wait", "rollout"} /\ stage' \in {"aborted", "done"}
  BY DEF WaitTimesOut, RolloutTimesOut, Finish
<1>3. StageOk'
  BY <1>1, <1>2 DEF IInv, StageOk, Early, ClusterBase, OldEffect
<1>4. PathOk'
  BY <1>1, <1>2 DEF IInv, PathOk, ExpectedDb, OldEffect
<1>5. prepared' \in BOOLEAN
  BY <1>1 DEF IInv, TypeOK
<1> QED
  BY <1>1, <1>2, <1>3, <1>4, <1>5, OnlyTheStage DEF Stages

\* The URL of an env file is the one its pods get.
LEMMA AppliedUrl ==
  ASSUME StageOk, stage = "apply", RolloutAssumption
  PROVE  LET c == Effect(PodEnv(File))
             url == env.DATABASE_URL
         IN  /\ url \in DOMAIN Urls /\ c.host = Urls[url].host /\ c.db = Urls[url].db
             /\ <<c.host, c.db>> \in Databases
<1> DEFINE url == env.DATABASE_URL
<1>1. File.DATABASE_URL = url
  BY DEF File, Normalised, Rewritten, Keys
<1>2. Given(url) /\ url \in DOMAIN Urls
  BY <1>1 DEF StageOk, Renders, RequiredSecrets, RolloutAssumption
<1>3. PodEnv(File).DATABASE_URL = url
  BY <1>1, <1>2 DEF PodEnv, Keys, FirstGiven
<1>4. Effect(PodEnv(File)).host = Urls[url].host /\ Effect(PodEnv(File)).db = Urls[url].db
  BY <1>3 DEF Effect
<1> QED
  BY <1>2, <1>4 DEF Databases

LEMMA ApplyStep == ASSUME RolloutAssumption, MissingAssumption, IInv, Apply PROVE IInv'
<1> DEFINE url == env.DATABASE_URL
<1>1. /\ stage = "apply" /\ stage' = "startJob" /\ cluster' = Effect(PodEnv(File))
      /\ UNCHANGED <<path, env, prepared, pc, conf, call, todo, made, ready, fails, tables, down>>
  BY DEF Apply, containers, faults
<1>2. TypeOK /\ Typed /\ StageOk /\ PathOk
  BY DEF IInv
<1>3. cluster = OldEffect /\ \A p \in Pods : conf[p] = OldEffect
  BY <1>1, <1>2 DEF StageOk, TypeOK
<1>4. /\ url \in DOMAIN Urls /\ cluster'.host = Urls[url].host /\ cluster'.db = Urls[url].db
      /\ <<cluster'.host, cluster'.db>> \in Databases
  BY <1>1, <1>2, AppliedUrl
<1>5. \A p \in Pods : PodOk(p)'
  BY <1>1 DEF IInv, PodOk, Base, Listing, Aim
<1>6. TypeOK' /\ Typed'
  <2>1. OldEffect' = OldEffect
    BY DEF OldEffect
  <2> QED
    BY <1>1, <1>2, <1>3, <2>1 DEF TypeOK, Typed
<1>7. StageOk'
  BY <1>1, <1>2, <1>4, Names DEF StageOk, Early, ClusterBase
<1>8. PathOk'
  <2> SUFFICES ASSUME path = "manual", env.EXPECTED_DATABASE_NAME # ""
               PROVE  cluster'.db = ExpectedDb
    BY <1>1, <1>2 DEF PathOk, ExpectedDb
  <2>1. ExpectedUrl(env)
    BY <1>1, <1>2 DEF PathOk, Accepts
  <2>2. Given(ExpectedDb)
    BY DEF ExpectedDb, Get, Given, MissingAssumption, OwnDatabase
  <2> QED
    BY <1>4, <2>1, <2>2 DEF ExpectedUrl, ValidUrl, ExpectedDb
<1>9. FailsOk' /\ VersionMeansTables' /\ ForeignDatabaseUntouched'
  BY <1>1 DEF IInv, FailsOk, VersionMeansTables, ForeignDatabaseUntouched, OnlyExpectedDatabases, OldEffect
<1> QED
  BY <1>5, <1>6, <1>7, <1>8, <1>9 DEF IInv

\* Containers start with the environment of the cluster.
LEMMA Started ==
  ASSUME IInv, NEW ps \in SUBSET Pods, \A p \in ps : pc[p] \in {"none", "crashed"},
         Start(ps), UNCHANGED <<path, env, prepared, cluster, call, todo, made, ready, tables, down>>,
         stage' \in Stages, fails' \in 0..BackoffLimit
  PROVE  /\ \A q \in Pods \ ps : pc'[q] = pc[q] /\ conf'[q] = conf[q]
         /\ \A q \in ps : pc'[q] = "boot" /\ conf'[q] = cluster
         /\ \A q \in Pods : PodOk(q)'
         /\ TypeOK' /\ Typed' /\ VersionMeansTables' /\ ForeignDatabaseUntouched'
<1>1. TypeOK /\ Typed /\ StageOk
  BY DEF IInv
<1>2. \A q \in Pods \ ps : pc'[q] = pc[q] /\ conf'[q] = conf[q]
  BY DEF Start
<1>3. \A q \in ps : pc'[q] = "boot" /\ conf'[q] = cluster
  BY DEF Start
<1>4. pc' \in [Pods -> Pcs]
  BY <1>1, Names DEF Start, TypeOK, Pcs
<1>5. \A q \in Pods : PodOk(q)'
  <2> SUFFICES ASSUME NEW q \in Pods PROVE PodOk(q)'
    OBVIOUS
  <2>1. PodOk(q)
    BY DEF IInv
  <2>2. CASE q \in ps
    <3>1. Base(q)' \in Databases
      BY <1>1, <1>3, <2>2 DEF Base, StageOk, ClusterBase
    <3>2. made'[q] = {}
      BY <2>1, <2>2 DEF PodOk, InDatabase
    <3> QED
      BY <1>3, <2>1, <2>2, <3>1, <3>2, NothingInHand DEF PodOk
  <2>3. CASE q \notin ps
    <3>1. pc'[q] = pc[q] /\ conf'[q] = conf[q]
      BY <1>2, <2>3
    <3>2. Base(q)' = Base(q) /\ Aim(q)' = Aim(q) /\ Listing(q)' = Listing(q)
      BY <3>1 DEF Base, Aim, Listing
    <3> QED
      BY <2>1, <3>1, <3>2 DEF PodOk
  <2> QED
    BY <2>2, <2>3
<1>6. TypeOK' /\ Typed'
  <2>1. OldEffect' = OldEffect
    BY DEF OldEffect
  <2>2. \A q \in Pods : conf'[q] \in {OldEffect, cluster}
    BY <1>1, <1>2, <1>3 DEF TypeOK
  <2> QED
    BY <1>1, <1>4, <2>1, <2>2 DEF TypeOK, Typed, Pcs, Stages
<1>7. VersionMeansTables' /\ ForeignDatabaseUntouched'
  BY DEF IInv, VersionMeansTables, ForeignDatabaseUntouched, OnlyExpectedDatabases, OldEffect
<1> QED
  BY <1>2, <1>3, <1>5, <1>6, <1>7

LEMMA StartJobStep == ASSUME RolloutAssumption, IInv, StartJob PROVE IInv'
<1>1. /\ stage = "startJob" /\ stage' = "wait" /\ Start({"job"})
      /\ UNCHANGED <<path, env, prepared, cluster, call, todo, made, ready, fails, tables, down>>
  BY DEF StartJob, faults
<1>2. pc["job"] = "none" /\ pc["newApi"] = "none" /\ pc["newWorker"] = "none" /\ StageOk
  BY <1>1 DEF IInv, StageOk, Early
<1>3. fails = 0 /\ fails' = 0 /\ 0 < BackoffLimit /\ 0 \in 0..BackoffLimit
  BY <1>1, <1>2 DEF IInv, FailsOk, RolloutAssumption
<1>4. {"job"} \in SUBSET Pods /\ \A p \in {"job"} : pc[p] \in {"none", "crashed"}
  BY <1>2, Names
<1>5. /\ \A q \in Pods \ {"job"} : pc'[q] = pc[q] /\ conf'[q] = conf[q]
      /\ pc'["job"] = "boot" /\ conf'["job"] = cluster
      /\ \A q \in Pods : PodOk(q)'
      /\ TypeOK' /\ Typed' /\ VersionMeansTables' /\ ForeignDatabaseUntouched'
  BY <1>1, <1>3, <1>4, Started DEF Stages
<1>6. StageOk'
  BY <1>1, <1>2, <1>5, Names DEF StageOk, Early, ClusterBase
<1>7. FailsOk' /\ PathOk'
  BY <1>1, <1>3, <1>5 DEF IInv, FailsOk, PathOk, ExpectedDb, OldEffect
<1> QED
  BY <1>5, <1>6, <1>7 DEF IInv

\* The Job is complete where it was started, which is where the pods start.
LEMMA JobCompletesStep == ASSUME RolloutAssumption, IInv, JobCompletes PROVE IInv'
<1> DEFINE ps == {"newApi"} \cup IF path = "ci" THEN {"newWorker"} ELSE {}
<1>1. /\ stage = "wait" /\ stage' = "rollout" /\ pc["job"] = "complete" /\ Start(ps)
      /\ UNCHANGED <<path, env, prepared, cluster, call, todo, made, ready, fails, tables, down>>
  BY DEF JobCompletes, faults
<1>2. pc["newApi"] = "none" /\ pc["newWorker"] = "none" /\ conf["job"] = cluster /\ StageOk
  BY <1>1 DEF IInv, StageOk
<1>3. Migrated \subseteq tables[ClusterBase]
  BY <1>1, <1>2, Names DEF IInv, PodOk, Base, ClusterBase
<1>4. ps \in SUBSET Pods /\ "job" \notin ps /\ "newApi" \in ps
      /\ \A p \in ps : pc[p] \in {"none", "crashed"}
  BY <1>2, Names
<1>5. fails' \in 0..BackoffLimit
  BY <1>1 DEF IInv, TypeOK
<1>6. /\ \A q \in Pods \ ps : pc'[q] = pc[q] /\ conf'[q] = conf[q]
      /\ \A q \in ps : pc'[q] = "boot" /\ conf'[q] = cluster
      /\ \A q \in Pods : PodOk(q)'
      /\ TypeOK' /\ Typed' /\ VersionMeansTables' /\ ForeignDatabaseUntouched'
  <2> HIDE DEF ps
  <2> QED
    BY <1>1, <1>4, <1>5, Started DEF Stages
<1>7. /\ pc'["job"] = pc["job"] /\ conf'["job"] = conf["job"]
      /\ pc'["newApi"] = "boot" /\ conf'["newApi"] = cluster
  BY <1>4, <1>6, Names
<1>8. StageOk'
  BY <1>1, <1>2, <1>3, <1>7 DEF StageOk, Early, ClusterBase
<1>9. FailsOk' /\ PathOk'
  BY <1>1, <1>7 DEF IInv, FailsOk, PathOk, ExpectedDb, OldEffect
<1> QED
  BY <1>6, <1>8, <1>9 DEF IInv

LEMMA RestartStep == ASSUME RolloutAssumption, IInv, NEW p \in Pods, Restart(p) PROVE IInv'
<1>1. /\ pc[p] = "crashed"
      /\ UNCHANGED <<path, env, stage, prepared, cluster, call, todo, made, ready, fails, tables, down>>
  BY DEF Restart, Rest, pipeline, faults
<1>2. StageOk /\ TypeOK /\ fails \in 0..BackoffLimit /\ BackoffLimit \in Nat
  BY DEF IInv, TypeOK, RolloutAssumption
<1>3. CASE p = "job" /\ fails >= BackoffLimit
  <2>1. pc' = [pc EXCEPT ![p] = "failed"] /\ UNCHANGED conf /\ Unstarted
    BY <1>1, <1>3 DEF Restart, Unstarted, pipeline
  <2>2. pc' \in [Pods -> Pcs] /\ pc'[p] = "failed" /\ \A q \in Pods \ {p} : pc'[q] = pc[q]
    BY <1>2, <2>1, Names DEF TypeOK, Pcs
  <2>3. \A q \in Pods : PodOk(q)'
    <3> SUFFICES ASSUME NEW q \in Pods PROVE PodOk(q)'
      OBVIOUS
    <3>1. PodOk(q) /\ Base(q)' = Base(q)
      BY <2>1 DEF IInv, Base
    <3>2. CASE q = p
      <4>1. made'[q] = {} /\ Base(q)' \in Databases
        BY <1>1, <3>1, <3>2 DEF PodOk, InDatabase
      <4> QED
        BY <1>3, <2>2, <3>2, <4>1, NothingInHand
    <3>3. CASE q # p
      BY <1>1, <2>1, <2>2, <3>1, <3>3, TablesGrow
    <3> QED
      BY <3>2, <3>3
  <2>4. TypeOK' /\ Typed'
    BY <1>1, <2>1, <2>2 DEF IInv, TypeOK, Typed, Pcs, OldEffect
  <2>5. \A q \in Pods : pc[q] = "none" <=> pc'[q] = "none"
    BY <1>1, <2>2
  <2>6. StageOk' /\ PathOk'
    BY <1>1, <2>1, <2>5, StageKept, PathKept DEF IInv, Unstarted
  <2>7. FailsOk'
    BY <1>3, <2>2, Names DEF FailsOk, Halted
  <2>8. VersionMeansTables' /\ ForeignDatabaseUntouched'
    BY <1>1 DEF IInv, VersionMeansTables, ForeignDatabaseUntouched, OnlyExpectedDatabases, OldEffect
  <2> QED
    BY <2>3, <2>4, <2>6, <2>7, <2>8 DEF IInv
<1>4. CASE ~(p = "job" /\ fails >= BackoffLimit)
  <2>1. Start({p}) /\ {p} \in SUBSET Pods /\ \A q \in {p} : pc[q] \in {"none", "crashed"}
    BY <1>1, <1>4 DEF Restart
  <2>2. stage' \in Stages /\ fails' \in 0..BackoffLimit
    BY <1>1, <1>2 DEF TypeOK, Stages
  <2>3. /\ \A q \in Pods \ {p} : pc'[q] = pc[q] /\ conf'[q] = conf[q]
        /\ pc'[p] = "boot" /\ conf'[p] = cluster
        /\ \A q \in Pods : PodOk(q)'
        /\ TypeOK' /\ Typed' /\ VersionMeansTables' /\ ForeignDatabaseUntouched'
    BY <1>1, <2>1, <2>2, Started
  <2>4. StageOk'
    <3>1. File' = File /\ OldEffect' = OldEffect /\ ClusterBase' = ClusterBase
      BY <1>1 DEF File, OldEffect, ClusterBase
    <3>2. \A q \in Pods : pc[q] = "none" <=> pc'[q] = "none"
      BY <1>1, <2>3
    <3>3. \A q \in Pods : conf[q] = cluster => conf'[q] = cluster
      BY <2>3
    <3> QED
      BY <1>1, <1>2, <3>1, <3>2, <3>3, Names DEF StageOk
  <2>5. FailsOk'
    <3>1. CASE p = "job"
      BY <1>1, <1>2, <1>4, <2>3, <3>1 DEF FailsOk
    <3>2. CASE p # "job"
      BY <1>1, <2>3, <3>2, Names DEF IInv, FailsOk
    <3> QED
      BY <3>1, <3>2
  <2>6. PathOk'
    BY <1>1, PathKept DEF IInv, pipeline
  <2> QED
    BY <2>3, <2>4, <2>5, <2>6 DEF IInv
<1> QED
  BY <1>3, <1>4

LEMMA ReplaceStep ==
  ASSUME IInv, NEW old \in {"oldApi", "oldWorker"}, NEW new, Replace(old, new) PROVE IInv'
<1>1. /\ pc[old] \notin {"none", "gone"}
      /\ pc' = [pc EXCEPT ![old] = "gone"] /\ todo' = [todo EXCEPT ![old] = <<>>]
      /\ made' = [made EXCEPT ![old] = {}] /\ ready' = [ready EXCEPT ![old] = FALSE]
      /\ UNCHANGED <<path, env, stage, prepared, cluster, conf, call, fails, tables, down>>
  BY DEF Replace, Rest, pipeline, faults
<1>2. /\ TypeOK /\ Typed /\ old \in Pods \ {"job", "newApi", "newWorker"} /\ Unstarted
      /\ pc \in [Pods -> Pcs] /\ "gone" \in Pcs
  BY Names DEF Replace, Rest, Unstarted, IInv, TypeOK, Pcs, Pods, Apis, Workers
<1>3. /\ pc' \in [Pods -> Pcs] /\ pc'[old] = "gone"
      /\ \A q \in Pods \ {old} : pc'[q] = pc[q]
  BY <1>1, <1>2
<1>4. /\ todo' \in [Pods -> Seq(Migrated)] /\ todo'[old] = <<>>
      /\ made' \in [Pods -> SUBSET Migrated] /\ made'[old] = {}
      /\ ready' \in [Pods -> BOOLEAN]
      /\ \A q \in Pods \ {old} : todo'[q] = todo[q] /\ made'[q] = made[q]
  <2>1. <<>> \in Seq(Migrated)
    OBVIOUS
  <2> QED
    BY <1>1, <1>2, <2>1 DEF TypeOK, Typed
<1>5. \A q \in Pods : PodOk(q)'
  <2> SUFFICES ASSUME NEW q \in Pods PROVE PodOk(q)'
    OBVIOUS
  <2>1. PodOk(q) /\ Base(q)' = Base(q) /\ Base(q) \in Databases
    BY <1>1 DEF IInv, PodOk, Base
  <2>2. CASE q = old
    BY <1>3, <1>4, <2>1, <2>2, NothingInHand, NothingListed
  <2>3. CASE q # old
    BY <1>1, <1>2, <1>3, <1>4, <2>1, <2>3, TablesGrow
  <2> QED
    BY <2>2, <2>3
<1>6. TypeOK' /\ Typed'
  <2>1. OldEffect' = OldEffect /\ \A q \in Pods : todo'[q] \in Seq(Migrated) /\ made'[q] \subseteq Migrated
    BY <1>4 DEF OldEffect
  <2> QED
    BY <1>1, <1>2, <1>3, <1>4, <2>1 DEF TypeOK, Typed, Pcs
<1>7. \A q \in Pods : pc[q] = "none" <=> pc'[q] = "none"
  BY <1>1, <1>3
<1>8. StageOk' /\ PathOk'
  BY <1>1, <1>2, <1>7, StageKept, PathKept DEF IInv, Unstarted
<1>9. FailsOk' /\ VersionMeansTables' /\ ForeignDatabaseUntouched'
  <2>1. pc'["job"] = pc["job"]
    BY <1>2, <1>3, Names
  <2> QED
    BY <1>1, <2>1 DEF IInv, FailsOk, VersionMeansTables, ForeignDatabaseUntouched,
                      OnlyExpectedDatabases, OldEffect
<1> QED
  BY <1>5, <1>6, <1>8, <1>9 DEF IInv

LEMMA RecoverStep == ASSUME IInv, Recover PROVE IInv'
<1>1. UNCHANGED <<path, env, stage, prepared, cluster, pc, conf, call, todo, made, ready, fails, tables>>
      /\ down' = FALSE
  BY DEF Recover, pipeline, containers
<1>2. \A p \in Pods : PodOk(p)'
  BY <1>1 DEF IInv, PodOk, Base, Listing, Aim
<1>3. TypeOK' /\ Typed'
  BY <1>1 DEF IInv, TypeOK, Typed, OldEffect
<1>4. StageOk' /\ FailsOk' /\ PathOk'
  BY <1>1 DEF IInv, StageOk, File, ClusterBase, OldEffect, FailsOk, PathOk, ExpectedDb
<1>5. VersionMeansTables' /\ ForeignDatabaseUntouched'
  BY <1>1 DEF IInv, VersionMeansTables, ForeignDatabaseUntouched, OnlyExpectedDatabases, OldEffect
<1> QED
  BY <1>2, <1>3, <1>4, <1>5 DEF IInv

LEMMA Stutter == ASSUME IInv, UNCHANGED vars PROVE IInv'
<1>1. UNCHANGED <<path, env, stage, prepared, cluster, pc, conf, call, todo, made, ready, fails, tables, down>>
  BY DEF vars, pipeline, containers, faults
<1>2. \A p \in Pods : PodOk(p)'
  BY <1>1 DEF IInv, PodOk, Base, Listing, Aim
<1>3. TypeOK' /\ Typed'
  BY <1>1 DEF IInv, TypeOK, Typed, OldEffect
<1>4. StageOk' /\ FailsOk' /\ PathOk'
  BY <1>1 DEF IInv, StageOk, File, ClusterBase, OldEffect, FailsOk, PathOk, ExpectedDb
<1>5. VersionMeansTables' /\ ForeignDatabaseUntouched'
  BY <1>1 DEF IInv, VersionMeansTables, ForeignDatabaseUntouched, OnlyExpectedDatabases, OldEffect
<1> QED
  BY <1>2, <1>3, <1>4, <1>5 DEF IInv

-----------------------------------------------------------------------------
(* The theorems.                                                           *)

LEMMA InitEstablishes == ASSUME RolloutAssumption, Init PROVE IInv
<1>1. PICK found \in {{}, BillingTables, AllTables, Migrated} :
        LET running == IF found = {} THEN {}
                       ELSE IF found = BillingTables THEN {"oldApi"}
                       ELSE {"oldApi", "oldWorker"}
        IN  /\ pc = [p \in Pods |-> IF p \in running THEN "serving" ELSE "none"]
            /\ ready = [p \in Pods |-> p \in running \cap Apis]
            /\ tables = [b \in Databases |->
                           IF b = <<OldEffect.host, OldEffect.db>> THEN found ELSE {}]
  BY DEF Init
<1> DEFINE running == IF found = {} THEN {}
                      ELSE IF found = BillingTables THEN {"oldApi"}
                      ELSE {"oldApi", "oldWorker"}
           old == <<OldEffect.host, OldEffect.db>>
<1>2. /\ path \in {"ci", "manual"} /\ env \in Envs /\ prepared = FALSE
      /\ stage = IF path = "manual" THEN "prepare" ELSE "render"
      /\ cluster = OldEffect /\ conf = [p \in Pods |-> OldEffect]
      /\ call = [p \in Pods |-> 1] /\ todo = [p \in Pods |-> <<>>] /\ made = [p \in Pods |-> {}]
      /\ fails = 0 /\ down = FALSE
  BY DEF Init
<1>3. OldEffect.host = Urls[OldEnv.DATABASE_URL].host /\ OldEffect.db = Urls[OldEnv.DATABASE_URL].db
  <2>1. PodEnv(OldEnv).DATABASE_URL = OldEnv.DATABASE_URL
    BY DEF PodEnv, Keys, FirstGiven, RolloutAssumption
  <2> QED
    BY <2>1 DEF OldEffect, Effect
<1>4. old \in Databases
  BY <1>3 DEF Databases, RolloutAssumption
<1>5. found \subseteq Migrated /\ ("alembic_version" \in found => AllTables \subseteq found)
  BY DEF Migrated, AllTables, BillingTables
<1>6. /\ "oldApi" \in running => BillingTables \subseteq found
      /\ "oldWorker" \in running => AllTables \subseteq found
      /\ running \subseteq {"oldApi", "oldWorker"}
  BY DEF Migrated, AllTables
<1>7. tables = [b \in Databases |-> IF b = old THEN found ELSE {}]
  BY <1>1
<1>8. pc = [p \in Pods |-> IF p \in running THEN "serving" ELSE "none"]
  BY <1>1
<1>9. ready \in [Pods -> BOOLEAN]
  BY <1>1
<1> HIDE DEF running, old
<1>10. pc \in [Pods -> Pcs]
  BY <1>8, Names
<1>11. \A p \in Pods : PodOk(p)
  <2> SUFFICES ASSUME NEW p \in Pods PROVE PodOk(p)
    OBVIOUS
  <2>1. Base(p) = old /\ tables[Base(p)] = found /\ conf[p] = OldEffect
    BY <1>2, <1>4, <1>7 DEF Base, old
  <2>2. CASE p \in running
    <3>1. p # "job" /\ Needed(p) \subseteq found
      BY <1>6, <2>2 DEF Needed, Apis
    <3> QED
      BY <1>2, <1>4, <1>8, <2>1, <2>2, <3>1, NothingListed DEF PodOk, Listing, InDatabase
  <2>3. CASE p \notin running
    BY <1>2, <1>4, <1>8, <2>1, <2>3, NothingListed DEF PodOk, Listing, InDatabase
  <2> QED
    BY <2>2, <2>3
<1>12. TypeOK /\ Typed
  <2>1. <<>> \in Seq(Migrated) /\ {} \subseteq Migrated /\ 1 \in Nat
    OBVIOUS
  <2>2. fails \in 0..BackoffLimit
    BY <1>2 DEF RolloutAssumption
  <2>3. tables \in [Databases -> SUBSET Migrated]
    BY <1>5, <1>7
  <2> QED
    BY <1>2, <1>9, <1>10, <2>1, <2>2, <2>3 DEF TypeOK, Typed, Pcs
<1>13. pc["job"] = "none" /\ pc["newApi"] = "none" /\ pc["newWorker"] = "none"
  BY <1>6, <1>8, Names
<1>14. StageOk
  BY <1>2, <1>4, <1>13 DEF StageOk, ClusterBase, old
<1>15. FailsOk /\ PathOk
  BY <1>2, <1>13 DEF FailsOk, PathOk, Halted
<1>16. VersionMeansTables /\ ForeignDatabaseUntouched
  BY <1>5, <1>7 DEF VersionMeansTables, ForeignDatabaseUntouched, OnlyExpectedDatabases, old
<1> QED
  BY <1>11, <1>12, <1>14, <1>15, <1>16 DEF IInv

LEMMA NextKeeps == ASSUME RolloutAssumption, MissingAssumption, IInv, [Next]_vars PROVE IInv'
<1>1. CASE Pipeline
  BY <1>1, PrepareStep, RenderStep, ApplyStep, StartJobStep, JobCompletesStep, EndStep
     DEF Pipeline
<1>2. ASSUME NEW p \in Pods, Step(p) \/ Probe(p) \/ LivenessFails(p) \/ Restart(p) \/ Kill(p)
      PROVE  IInv'
  BY <1>2, StepKeeps, ProbeStep, LivenessFailsStep, RestartStep, KillStep
<1>3. CASE ReplaceOld \/ GoDown \/ Recover
  BY <1>3, ReplaceStep, GoDownStep, RecoverStep DEF ReplaceOld
<1>4. CASE UNCHANGED vars
  BY <1>4, Stutter
<1> QED
  BY <1>1, <1>2, <1>3, <1>4 DEF Next

\* The inductive invariant: what each container has committed, created and
\* left to do, and under which environment the pipeline started it.
THEOREM Invariance == Spec => []IInv
<1>1. Init => IInv
  BY InitEstablishes, RolloutAssumption
<1>2. IInv /\ [Next]_vars => IInv'
  BY NextKeeps, RolloutAssumption, MissingAssumption
<1> QED
  BY <1>1, <1>2, PTL DEF Spec

\* The variables keep their types; in particular the Job is not run more
\* often than its backoffLimit allows.
THEOREM TypeCorrect == Spec => []TypeOK
<1>1. IInv => TypeOK
  BY DEF IInv
<1> QED
  BY <1>1, Invariance, PTL

\* A process that serves has every table its repositories use, however the
\* create_all calls and the migration raced.
THEOREM ServingMeansSchema == Spec => []ServesItsSchema
<1>1. IInv => ServesItsSchema
  BY DEF IInv, PodOk, ServesItsSchema
<1> QED
  BY <1>1, Invariance, PTL

\* The version row of 001_initial_schema comes with all its tables.
THEOREM VersionIsComplete == Spec => []VersionMeansTables
<1>1. IInv => VersionMeansTables
  BY DEF IInv
<1> QED
  BY <1>1, Invariance, PTL

\* On the manual path only the running release's and the expected database
\* are ever touched, whatever the env file says.
THEOREM ForeignStaysUntouched == Spec => []ForeignDatabaseUntouched
<1>1. IInv => ForeignDatabaseUntouched
  BY DEF IInv
<1> QED
  BY <1>1, Invariance, PTL

\* The pods of the new release only ever start on a database the migration
\* has finished with (kubectl wait before the Deployments).
THEOREM MigratedFirst == Spec => []MigratedBeforeRelease
<1>1. IInv => MigratedBeforeRelease
  <2> SUFFICES ASSUME IInv, pc["newApi"] # "none"
               PROVE  tables[Base("newApi")] = Migrated
    BY DEF MigratedBeforeRelease
  <2>1. Base("newApi") = ClusterBase /\ Migrated \subseteq tables[ClusterBase]
    BY DEF IInv, StageOk, Base, ClusterBase
  <2>2. ClusterBase \in Databases /\ tables[ClusterBase] \subseteq Migrated
    BY DEF IInv, StageOk, TypeOK
  <2> QED
    BY <2>1, <2>2
<1> QED
  BY <1>1, Invariance, PTL
-----------------------------------------------------------------------------
(* The env file.  prepare_env.py checks what it is about to write, so what  *)
(* it writes passes its own checks and is what they would write again.      *)

LEMMA Spellings ==
  /\ Spelled("Production") = "production" /\ Spelled("TRUE") = "true"
  /\ Spelled("info") = "INFO" /\ Spelled("verbose") = "VERBOSE" /\ Spelled("noop") = "NOOP"
  /\ Spelled("05") = "5" /\ Spelled("*") = "[*]" /\ Spelled("hosts") = "[hosts]"
  /\ Spelled("") = "" /\ Spelled("SMTP") = "SMTP" /\ Spelled("false") = "false" /\ Spelled("587") = "587"
  /\ \A v \in {"production", "true", "INFO", "VERBOSE", "NOOP", "5", "[*]", "[hosts]"} :
       Spelled(v) = v
BY Zenon DEF Spelled

LEMMA OwnSpelling ==
  ASSUME NEW v,
         v \notin {"Production", "TRUE", "info", "verbose", "noop", "05", "*", "hosts"}
  PROVE  Spelled(v) = v
BY Zenon DEF Spelled

\* The spelling of a value is spelled as it is, and is no less given.
LEMMA SpelledOnce ==
  ASSUME MissingAssumption, NEW v
  PROVE  /\ Spelled(Spelled(v)) = Spelled(v)
         /\ Given(v) => Given(Spelled(v))
         /\ \A w \in {"0", "-1", "many", "blank", "broken"} : Spelled(v) = w => v = w
<1>1. CASE v \in {"Production", "TRUE", "info", "verbose", "noop", "05", "*", "hosts"}
  <2>1. Spelled(v) \in {"production", "true", "INFO", "VERBOSE", "NOOP", "5", "[*]", "[hosts]"}
    BY <1>1, Spellings
  <2>2. Spelled(Spelled(v)) = Spelled(v)
    BY <2>1, Spellings
  <2>3. Given(Spelled(v))
    BY <2>1 DEF Given, MissingAssumption
  <2>4. \A w \in {"0", "-1", "many", "blank", "broken"} : Spelled(v) # w
    BY <2>1
  <2> QED BY <2>2, <2>3, <2>4
<1>2. CASE v \notin {"Production", "TRUE", "info", "verbose", "noop", "05", "*", "hosts"}
  BY <1>2, OwnSpelling
<1> QED BY <1>1, <1>2

\* n is what Normalised makes of each key of e.
Rewrites(e, n) ==
  /\ \A k \in Keys \ Rewritten : n[k] = e[k]
  /\ \A k \in Rewritten : e[k] = Missing => n[k] = Missing
  /\ \A k \in Rewritten \ DOMAIN DefaultOf : e[k] # Missing => n[k] = Spelled(e[k])
  /\ \A k \in DOMAIN DefaultOf :
       /\ Given(e[k]) => n[k] = Spelled(e[k])
       /\ e[k] = "" /\ e[k] # Missing => n[k] = Spelled(DefaultOf[k])

LEMMA NormalisedKeys == ASSUME NEW e PROVE Rewrites(e, Normalised(e))
<1>1. Rewritten \subseteq Keys /\ DOMAIN DefaultOf \subseteq Rewritten
  BY DEF Rewritten, Keys, DefaultOf
<1> DEFINE n == Normalised(e)
<1>2. n = [k \in Keys |->
             IF k \notin Rewritten \/ e[k] = Missing THEN e[k]
             ELSE Spelled(IF e[k] = "" /\ k \in DOMAIN DefaultOf THEN DefaultOf[k] ELSE e[k])]
  BY DEF Normalised
<1> HIDE DEF n
<1>3. \A k \in Keys \ Rewritten : n[k] = e[k]
  BY <1>2
<1>4. \A k \in Rewritten : e[k] = Missing => n[k] = Missing
  BY <1>1, <1>2
<1>5. \A k \in Rewritten \ DOMAIN DefaultOf : e[k] # Missing => n[k] = Spelled(e[k])
  BY <1>1, <1>2
<1>6. \A k \in DOMAIN DefaultOf : Given(e[k]) => n[k] = Spelled(e[k])
  BY <1>1, <1>2 DEF Given
<1>7. \A k \in DOMAIN DefaultOf : e[k] = "" /\ e[k] # Missing => n[k] = Spelled(DefaultOf[k])
  BY <1>1, <1>2
<1>8. Rewrites(e, n)
  BY <1>3, <1>4, <1>5, <1>6, <1>7 DEF Rewrites
<1> QED BY <1>8 DEF n

LEMMA Defaults ==
  ASSUME MissingAssumption
  PROVE  /\ DOMAIN DefaultOf = {"EMAIL_PROVIDER", "SMTP_USE_TLS", "SMTP_PORT"}
         /\ Spelled(DefaultOf.EMAIL_PROVIDER) = "SMTP"
         /\ Spelled(DefaultOf.SMTP_USE_TLS) = "false"
         /\ Spelled(DefaultOf.SMTP_PORT) = "587"
BY Spellings DEF DefaultOf

LEMMA NormalisedOnce ==
  ASSUME MissingAssumption, NEW e PROVE Normalised(Normalised(e)) = Normalised(e)
<1> DEFINE n == Normalised(e)
           m == Normalised(n)
<1>1. n = [k \in Keys |-> n[k]] /\ m = [k \in Keys |-> m[k]]
  BY DEF Normalised
<1>2. Rewrites(e, n) /\ Rewrites(n, m)
  BY NormalisedKeys
<1> HIDE DEF n, m
<1>3. ASSUME NEW k \in Keys PROVE m[k] = n[k]
  <2>1. CASE k \notin Rewritten
    BY <1>2, <2>1 DEF Rewrites
  <2>2. CASE k \in Rewritten /\ n[k] = Missing
    BY <1>2, <2>2 DEF Rewrites
  <2>3. CASE k \in Rewritten \ DOMAIN DefaultOf /\ n[k] # Missing
    <3>1. n[k] = Spelled(e[k])
      BY <1>2, <2>3 DEF Rewrites
    <3>2. m[k] = Spelled(n[k])
      BY <1>2, <2>3 DEF Rewrites
    <3> QED BY <3>1, <3>2, SpelledOnce
  <2>4. CASE k \in DOMAIN DefaultOf /\ n[k] # Missing
    <3>1. DOMAIN DefaultOf \subseteq Rewritten
      BY Defaults DEF Rewritten
    <3>2. /\ Given(e[k]) => n[k] = Spelled(e[k])
          /\ e[k] = Missing => n[k] = Missing
          /\ e[k] = "" => n[k] = Spelled(DefaultOf[k])
          /\ Given(n[k]) => m[k] = Spelled(n[k])
      BY <1>2, <2>4, <3>1 DEF Rewrites, Given, MissingAssumption
    <3>3. Given(n[k]) /\ \E v : n[k] = Spelled(v)
      <4>1. Spelled(DefaultOf[k]) # ""
        BY <2>4, Defaults
      <4> QED BY <2>4, <3>2, <4>1, SpelledOnce DEF Given
    <3> QED BY <3>2, <3>3, SpelledOnce
  <2> QED BY <2>1, <2>2, <2>3, <2>4
<1>4. m = n
  BY <1>1, <1>3
<1> QED BY <1>4 DEF m, n

\* A file that passes the checks of prepare_env.py does so once it is written.
LEMMA WrittenIsAccepted ==
  ASSUME MissingAssumption, NEW e, Accepts(e) PROVE Accepts(Normalised(e))
<1> DEFINE n == Normalised(e)
<1>1. /\ \A k \in Keys \ Rewritten : n[k] = e[k]
      /\ \A k \in Rewritten : e[k] = Missing => n[k] = Missing
      /\ \A k \in Rewritten \ DOMAIN DefaultOf : e[k] # Missing => n[k] = Spelled(e[k])
      /\ \A k \in DOMAIN DefaultOf :
           /\ Given(e[k]) => n[k] = Spelled(e[k])
           /\ e[k] = "" /\ e[k] # Missing => n[k] = Spelled(DefaultOf[k])
  BY NormalisedKeys DEF Rewrites
<1> HIDE DEF n
<1>2. /\ n.DATABASE_URL = e.DATABASE_URL /\ n.APP_BASE_URL = e.APP_BASE_URL /\ n.APP_NAME = e.APP_NAME
      /\ n.EXPECTED_DATABASE_NAME = e.EXPECTED_DATABASE_NAME
      /\ n.EXPECTED_DATABASE_USERNAME = e.EXPECTED_DATABASE_USERNAME
      /\ n.APPROVAL_TOKEN_SECRET = e.APPROVAL_TOKEN_SECRET
      /\ n.APPROVAL_TOKEN_SECRET_FILE = e.APPROVAL_TOKEN_SECRET_FILE
      /\ n.JWT_SECRET = e.JWT_SECRET /\ n.JWT_SECRET_FILE = e.JWT_SECRET_FILE
      /\ n.CUSTOMER_JWT_SECRET = e.CUSTOMER_JWT_SECRET
      /\ n.CUSTOMER_JWT_SECRET_FILE = e.CUSTOMER_JWT_SECRET_FILE
  BY <1>1 DEF Keys, Rewritten
<1>3. /\ Given(e.ENVIRONMENT) /\ Given(e.LOG_LEVEL) /\ Given(e.LOG_JSON) /\ Given(e.TRUSTED_HOSTS)
      /\ Given(e.APP_NAME) /\ Given(e.APP_BASE_URL) /\ Given(e.DATABASE_URL)
  BY DEF Accepts, RequiredText
<1>4. /\ n.ENVIRONMENT = Spelled(e.ENVIRONMENT) /\ n.LOG_LEVEL = Spelled(e.LOG_LEVEL)
      /\ n.LOG_JSON = Spelled(e.LOG_JSON) /\ n.TRUSTED_HOSTS = Spelled(e.TRUSTED_HOSTS)
  BY <1>1, <1>3, Defaults DEF Rewritten, Given
<1>5. \A k \in RequiredText : Given(n[k])
  BY <1>2, <1>3, <1>4, SpelledOnce DEF RequiredText
<1>6. /\ Spelled(n.ENVIRONMENT) \in Environments /\ Spelled(n.LOG_JSON) \in Booleans
      /\ n.TRUSTED_HOSTS \notin {"blank", "broken"}
  BY <1>4, SpelledOnce DEF Accepts
<1>7. ASSUME NEW k \in {"EMAIL_PROVIDER", "SMTP_USE_TLS", "SMTP_PORT"}
      PROVE  /\ Given(e[k]) => n[k] = Spelled(e[k]) /\ Given(n[k])
             /\ e[k] = Missing => n[k] = Missing
             /\ e[k] = "" => n[k] = Spelled(DefaultOf[k])
  <2>1. k \in Rewritten /\ k \in DOMAIN DefaultOf
    BY Defaults DEF Rewritten
  <2> QED BY <1>1, <2>1, SpelledOnce DEF MissingAssumption
<1>8. Spelled(FirstGiven(n.EMAIL_PROVIDER, "SMTP")) \in {"SMTP", "NOOP"}
  <2>1. Spelled(FirstGiven(e.EMAIL_PROVIDER, "SMTP")) \in {"SMTP", "NOOP"} /\ Spelled("SMTP") = "SMTP"
    BY Spellings DEF Accepts
  <2>2. CASE Given(e.EMAIL_PROVIDER)
    BY <1>7, <2>1, <2>2, SpelledOnce DEF FirstGiven
  <2>3. CASE ~Given(e.EMAIL_PROVIDER)
    BY <1>7, <2>1, <2>3, Defaults DEF FirstGiven, Given
  <2> QED BY <2>2, <2>3
<1>9. Spelled(FirstGiven(n.SMTP_USE_TLS, "false")) \in Booleans
  <2>1. /\ Spelled(FirstGiven(e.SMTP_USE_TLS, "false")) \in Booleans
        /\ Spelled("false") = "false" /\ "false" \in Booleans
    BY Spellings DEF Accepts, Booleans
  <2>2. CASE Given(e.SMTP_USE_TLS)
    BY <1>7, <2>1, <2>2, SpelledOnce DEF FirstGiven
  <2>3. CASE ~Given(e.SMTP_USE_TLS)
    BY <1>7, <2>1, <2>3, Defaults DEF FirstGiven, Given
  <2> QED BY <2>2, <2>3
<1>10. \A k \in {"SMTP_PORT", "HEALTHCHECK_TIMEOUT_SECONDS"} :
         FirstGiven(n[k], "5") \notin {"0", "-1", "many"}
  <2>1. FirstGiven(n.SMTP_PORT, "5") \notin {"0", "-1", "many"}
    <3>1. FirstGiven(e.SMTP_PORT, "5") \notin {"0", "-1", "many"}
      BY DEF Accepts
    <3>2. CASE Given(e.SMTP_PORT)
      BY <1>7, <3>1, <3>2, SpelledOnce DEF FirstGiven
    <3>3. CASE ~Given(e.SMTP_PORT)
      BY <1>7, <3>3, Defaults DEF FirstGiven, Given
    <3> QED BY <3>2, <3>3
  <2>2. FirstGiven(n.HEALTHCHECK_TIMEOUT_SECONDS, "5") \notin {"0", "-1", "many"}
    <3>1. FirstGiven(e.HEALTHCHECK_TIMEOUT_SECONDS, "5") \notin {"0", "-1", "many"}
      BY DEF Accepts
    <3>2. \/ n.HEALTHCHECK_TIMEOUT_SECONDS = e.HEALTHCHECK_TIMEOUT_SECONDS
          \/ n.HEALTHCHECK_TIMEOUT_SECONDS = Spelled(e.HEALTHCHECK_TIMEOUT_SECONDS)
      BY <1>1, Defaults DEF Rewritten
    <3>3. Given(e.HEALTHCHECK_TIMEOUT_SECONDS) => Given(Spelled(e.HEALTHCHECK_TIMEOUT_SECONDS))
      BY SpelledOnce
    <3>4. e.HEALTHCHECK_TIMEOUT_SECONDS = Missing => n.HEALTHCHECK_TIMEOUT_SECONDS = Missing
      BY <1>1 DEF Rewritten
    <3>5. CASE ~Given(e.HEALTHCHECK_TIMEOUT_SECONDS)
      <4>1. n.HEALTHCHECK_TIMEOUT_SECONDS = e.HEALTHCHECK_TIMEOUT_SECONDS
        BY <3>2, <3>4, <3>5, Spellings DEF Given
      <4> QED BY <3>1, <4>1
    <3> QED BY <3>1, <3>2, <3>3, <3>4, SpelledOnce DEF FirstGiven
  <2> QED BY <2>1, <2>2
<1>11. ExpectedUrl(n)
  BY <1>2 DEF Accepts, ExpectedUrl
<1>12. Accepts(n)
  BY <1>2, <1>5, <1>6, <1>8, <1>9, <1>10, <1>11 DEF Accepts
<1> QED BY <1>12 DEF n

\* What prepare_env.py has written it would accept, and write again: it can be
\* run any number of times on one file.
THEOREM PreparingSettles == Spec => []PrepareSettles
<1>1. IInv => PrepareSettles
  BY MissingAssumption, NormalisedOnce, WrittenIsAccepted DEF PrepareSettles, File, IInv, PathOk
<1> QED BY <1>1, Invariance, PTL

\* The checks of prepare_env.py are those of the entrypoint, of Settings and of
\* configure_logging, but for the keys Unchecked names.
THEOREM PreparedFilesStart == Spec => []PreparedStarts
<1>1. ASSUME IInv, prepared, ~Unchecked PROVE ApiStarts(PodEnv(File))
  <2> DEFINE n == Normalised(env)
             pod == PodEnv(n)
  <2>1. File = n /\ Accepts(env) /\ Accepts(n)
    BY <1>1, MissingAssumption, WrittenIsAccepted DEF File, IInv, PathOk
  <2>2. \A k \in Keys \ Rewritten : n[k] = env[k]
    BY NormalisedKeys DEF Rewrites
  <2>3. \A k \in Keys \ {"EMAIL_PROVIDER"} : pod[k] = FirstGiven(n[k], Missing)
    BY DEF PodEnv
  <2> HIDE DEF n, pod
  <2>4. \A k \in Keys \ Rewritten : pod[k] = FirstGiven(env[k], Missing)
    BY <2>2, <2>3 DEF Rewritten
  <2>5. /\ pod.DATABASE_URL = env.DATABASE_URL
        /\ pod.EXPECTED_DATABASE_NAME = env.EXPECTED_DATABASE_NAME
        /\ pod.EXPECTED_DATABASE_USERNAME = env.EXPECTED_DATABASE_USERNAME
    <3>1. Given(env.DATABASE_URL)
      BY <2>1 DEF Accepts, RequiredText
    <3>2. "" \notin {env.EXPECTED_DATABASE_NAME, env.EXPECTED_DATABASE_USERNAME}
      BY <1>1 DEF Unchecked
    <3> QED BY <2>4, <3>1, <3>2 DEF Keys, Rewritten, FirstGiven, Given
  <2>6. ExpectedUrl(pod)
    BY <2>1, <2>5 DEF Accepts, ExpectedUrl
  <2>7. /\ pod.ENVIRONMENT \in Environments \cup {Missing}
        /\ pod.LOG_JSON \in Booleans \cup {"TRUE", Missing}
        /\ KnownLevel(pod.LOG_LEVEL)
        /\ pod.HEALTHCHECK_TIMEOUT_SECONDS # "many"
        /\ pod.TRUSTED_HOSTS # "broken"
    <3>1. Given(env.ENVIRONMENT) /\ Given(env.LOG_JSON) /\ Given(env.LOG_LEVEL)
      BY <2>1 DEF Accepts, RequiredText
    <3>2. /\ n.ENVIRONMENT = Spelled(env.ENVIRONMENT) /\ n.LOG_JSON = Spelled(env.LOG_JSON)
          /\ n.LOG_LEVEL = Spelled(env.LOG_LEVEL)
      <4>1. {"ENVIRONMENT", "LOG_JSON", "LOG_LEVEL"} \subseteq Rewritten \ DOMAIN DefaultOf
        BY MissingAssumption, Defaults DEF Rewritten
      <4>2. env.ENVIRONMENT # Missing /\ env.LOG_JSON # Missing /\ env.LOG_LEVEL # Missing
        BY <3>1 DEF Given
      <4>3. \A k \in Rewritten \ DOMAIN DefaultOf : env[k] # Missing => n[k] = Spelled(env[k])
        BY NormalisedKeys DEF n, Rewrites
      <4> QED BY <4>1, <4>2, <4>3
    <3>3. n.ENVIRONMENT \in Environments /\ n.LOG_JSON \in Booleans
      BY <2>1, <3>2 DEF Accepts
    <3>4. /\ FirstGiven(n.HEALTHCHECK_TIMEOUT_SECONDS, "5") # "many"
          /\ n.TRUSTED_HOSTS # "broken"
      BY <2>1 DEF Accepts
    <3>5. /\ pod.ENVIRONMENT = FirstGiven(n.ENVIRONMENT, Missing)
          /\ pod.LOG_JSON = FirstGiven(n.LOG_JSON, Missing)
          /\ pod.LOG_LEVEL = FirstGiven(n.LOG_LEVEL, Missing)
          /\ pod.HEALTHCHECK_TIMEOUT_SECONDS = FirstGiven(n.HEALTHCHECK_TIMEOUT_SECONDS, Missing)
          /\ pod.TRUSTED_HOSTS = FirstGiven(n.TRUSTED_HOSTS, Missing)
      BY <2>3 DEF Keys
    <3>6. KnownLevel(pod.LOG_LEVEL)
      <4>1. KnownLevel(n.LOG_LEVEL) /\ Given(n.LOG_LEVEL)
        BY <1>1, <3>1, <3>2, SpelledOnce, MissingAssumption DEF Unchecked
      <4> QED BY <3>5, <4>1 DEF FirstGiven
    <3>7. /\ pod.ENVIRONMENT \in Environments \cup {Missing}
          /\ pod.LOG_JSON \in Booleans \cup {"TRUE", Missing}
      BY <3>3, <3>5 DEF FirstGiven
    <3> QED BY <3>4, <3>5, <3>6, <3>7, MissingAssumption DEF FirstGiven, MissingAssumption
  <2>8. /\ pod.APP_RUNTIME_MODE = FirstGiven(env.APP_RUNTIME_MODE, Missing)
        /\ pod.PAYMENT_PROVIDER_MODE = FirstGiven(env.PAYMENT_PROVIDER_MODE, Missing)
        /\ pod.MERCADO_PAGO_ACCESS_TOKEN = FirstGiven(env.MERCADO_PAGO_ACCESS_TOKEN, Missing)
        /\ pod.MERCADO_PAGO_ACCESS_TOKEN_FILE = FirstGiven(env.MERCADO_PAGO_ACCESS_TOKEN_FILE, Missing)
    BY <2>4 DEF Keys, Rewritten
  <2>9. pod.APP_RUNTIME_MODE \in {"memory", "real", Missing}
    BY <1>1, <2>8 DEF Unchecked, FirstGiven, Given
  <2>10. /\ pod.PAYMENT_PROVIDER_MODE \in {"mock", "mercado_pago", Missing}
         /\ pod.PAYMENT_PROVIDER_MODE = "mercado_pago" => env.PAYMENT_PROVIDER_MODE = "mercado_pago"
    BY <1>1, <2>8, MissingAssumption DEF Unchecked, FirstGiven, Given, MissingAssumption
  <2>11. TokenIsReadable(pod)
    BY <1>1, <2>8 DEF Unchecked, TokenIsReadable, FirstGiven, Given
  <2>12. pod.PAYMENT_PROVIDER_MODE = "mercado_pago" => RealToken(pod)
    <3>1. PodEnv(env).MERCADO_PAGO_ACCESS_TOKEN = pod.MERCADO_PAGO_ACCESS_TOKEN
      BY <2>8 DEF PodEnv, Keys
    <3> QED BY <1>1, <2>10, <3>1 DEF Unchecked, RealToken
  <2>13. Real(pod) => HasSyncDriver(Urls[pod.DATABASE_URL])
    BY <1>1, <2>5, <2>8, MissingAssumption DEF Unchecked, Real, FirstGiven, MissingAssumption
  <2>14. pod.OTEL_ENABLED \in Booleans \cup {"TRUE", Missing}
    <3>1. pod.OTEL_ENABLED = FirstGiven(env.OTEL_ENABLED, Missing)
      BY <2>4 DEF Keys, Rewritten
    <3> QED BY <1>1, <3>1 DEF Unchecked, FirstGiven, Given, Booleans
  <2>15. ApiStarts(pod)
    BY <2>6, <2>7, <2>9, <2>10, <2>11, <2>12, <2>13, <2>14 DEF ApiStarts, SettingsAccept
  <2> QED BY <2>1, <2>15 DEF pod
<1>2. IInv => PreparedStarts
  BY <1>1 DEF PreparedStarts
<1> QED BY <1>2, Invariance, PTL

-----------------------------------------------------------------------------
(* The races.  A commit that makes the table there that the Job is about to *)
(* create is the first of a group: quotes and payments come together, and   *)
(* processed_events comes later, if it did not come with the migration.  So *)
(* the groups that are there bound the races that are lost, the one that is *)
(* only to be lost (Doomed) included.                                       *)

One(b) == IF b THEN 1 ELSE 0

JobBase == Base("job")

\* The table that the Job is about to create is there.
Doomed == pc["job"] = "create" /\ Head(todo["job"]) \in tables[JobBase]

GroupsOf(ts) == One("quotes" \in ts) + One("processed_events" \in ts)

TablesInOrder == \A b \in Databases : tables[b] \in {{}, BillingTables, AllTables, Migrated}

\* A create_all only has tables of its call in hand.
InHand(p) == p # "job" /\ pc[p] \in {"create", "commit"} =>
               made[p] \cup Listed(todo[p]) \subseteq Calls(p)[call[p]]

FaultsCounted ==
  /\ outages \in Nat /\ (down => outages > 0)
  /\ lost \in [race : Nat, kill : Nat]

RacesCounted ==
  /\ pc["job"] = "none" => lost.race = 0
  /\ lost.race + One(Doomed) =< GroupsOf(tables[JobBase])

JobCanRun == pc["job"] # "none" => conf["job"].job /\ JobBase[1] # "placeholder"

\* Nothing but races and kills ends a run while the database answers.
FailsCounted ==
  /\ outages = 0 /\ JobCanRun => fails =< lost.race + lost.kill
  /\ pc["job"] = "failed" => fails >= BackoffLimit

RaceInv ==
  /\ TablesInOrder
  /\ \A p \in Pods : InHand(p)
  /\ FaultsCounted
  /\ RacesCounted
  /\ FailsCounted

-----------------------------------------------------------------------------
(* What a container's step leaves alone.                                    *)

Moves(p) == Step(p) \/ Probe(p) \/ LivenessFails(p) \/ Restart(p) \/ Kill(p)

LEMMA OnlyItself ==
  ASSUME IInv, NEW p \in Pods, Moves(p)
  PROVE  /\ \A q \in Pods \ {p} :
              /\ pc'[q] = pc[q] /\ call'[q] = call[q] /\ conf'[q] = conf[q]
              /\ todo'[q] = todo[q] /\ made'[q] = made[q]
         /\ stage' = stage /\ cluster' = cluster
         /\ ~Commit(p) => tables' = tables
         /\ outages' = outages /\ down' = down
         /\ p # "job" => fails' = fails /\ lost' = lost
<1>1. /\ pc \in [Pods -> Pcs] /\ call \in [Pods -> Nat]
      /\ todo \in [Pods -> Seq(Migrated)] /\ made \in [Pods -> SUBSET Migrated]
  BY Domains
<1>2. CASE /\ Crash({p}) /\ UNCHANGED <<pipeline, conf, call, tables, down, outages>>
           /\ p # "job" => lost' = lost
  BY <1>1, <1>2 DEF Crash, pipeline
<1>3. CASE RefusesToStart(p) \/ CannotReachDatabase(p) \/ CannotReachBroker(p) \/ LivenessFails(p)
  BY <1>2, <1>3 DEF RefusesToStart, CannotReachDatabase, CannotReachBroker, LivenessFails, Fails,
                    Rest, faults
<1>4. CASE LosesTheRace(p) \/ Kill(p)
  BY <1>2, <1>4 DEF LosesTheRace, Kill
<1>5. CASE Boot(p) \/ Create(p) \/ Connect(p) \/ Probe(p)
  BY <1>1, <1>5 DEF Boot, Create, Connect, Probe, Rest, faults, pipeline
<1>6. CASE p = "job" /\ MigrationStep
  BY <1>1, <1>6 DEF MigrationStep, Rest, faults, pipeline
<1>7. CASE LookForTables(p)
  <2>1. /\ \A q \in Pods \ {p} : pc'[q] = pc[q] /\ call'[q] = call[q] /\ todo'[q] = todo[q]
        /\ UNCHANGED <<conf, made, tables, fails, Rest>>
    BY <1>1, <1>7 DEF LookForTables, NextCall
  <2> QED BY <2>1 DEF Rest, faults, pipeline
<1>8. CASE Commit(p)
  <2>1. /\ \A q \in Pods \ {p} : pc'[q] = pc[q] /\ call'[q] = call[q] /\ made'[q] = made[q]
        /\ UNCHANGED <<conf, todo, fails, Rest>>
    BY <1>1, <1>8 DEF Commit, NextCall
  <2> QED BY <1>8, <2>1 DEF Rest, faults, pipeline
<1>9. CASE Restart(p)
  <2>1. \A q \in Pods \ {p} : pc'[q] = pc[q] /\ conf'[q] = conf[q]
    BY <1>1, <1>9 DEF Restart, Start
  <2> QED BY <1>9, <2>1 DEF Restart, Rest, faults, pipeline
<1> QED
  BY <1>3, <1>4, <1>5, <1>6, <1>7, <1>8, <1>9 DEF Step, Moves

LEMMA TableNames ==
  /\ "quotes" \in BillingTables /\ "processed_events" \notin BillingTables
  /\ AllTables = BillingTables \cup {"processed_events"}
  /\ BillingTables \subseteq Migrated /\ AllTables \subseteq Migrated
  /\ "alembic_version" \in Migrated \ AllTables
  /\ Migrated = AllTables \cup {"alembic_version"}
BY DEF BillingTables, AllTables, Migrated

LEMMA AllTablesAreFinite == IsFiniteSet(AllTables)
<1>1. IsFiniteSet({"quotes"})
  BY FS_EmptySet, FS_Singleton
<1>2. IsFiniteSet(({"quotes"} \cup {"payments"}) \cup {"processed_events"})
  BY <1>1, FS_AddElement
<1>3. AllTables = ({"quotes"} \cup {"payments"}) \cup {"processed_events"}
  BY DEF AllTables, BillingTables
<1> QED BY <1>2, <1>3

\* A container commits what its call or the migration asked for.
LEMMA CommitsInOrder == ASSUME IInv, RaceInv, NEW p \in Pods, Commit(p) PROVE TablesInOrder'
<1>1. /\ Base(p) \in Databases /\ tables \in [Databases -> SUBSET Migrated]
      /\ made[p] \subseteq Migrated /\ pc[p] = "commit" /\ PodOk(p) /\ InHand(p)
  BY Domains, Kept DEF RaceInv, Commit
<1>2. /\ \A b \in Databases \ {Base(p)} : tables'[b] = tables[b]
      /\ tables'[Base(p)] = tables[Base(p)] \cup made[p]
  BY <1>1 DEF Commit
<1>3. tables[Base(p)] \in {{}, BillingTables, AllTables, Migrated}
  BY <1>1 DEF RaceInv, TablesInOrder
<1>4. Aim(p) \subseteq tables'[Base(p)]
  BY <1>1, <1>2, NothingListed DEF PodOk
<1>5. CASE p = "job"
  <2>1. tables'[Base(p)] = Migrated
    BY <1>1, <1>2, <1>4, <1>5 DEF Aim
  <2> QED BY <1>2, <2>1 DEF RaceInv, TablesInOrder
<1>6. CASE p # "job"
  <2>1. made[p] \subseteq Calls(p)[call[p]] /\ Calls(p)[call[p]] \subseteq tables'[Base(p)]
    BY <1>1, <1>4, <1>6 DEF InHand, Aim
  <2>2. tables'[Base(p)] = tables[Base(p)] \cup Calls(p)[call[p]]
    BY <1>2, <2>1
  <2>3. /\ call[p] \in {1, 2}
        /\ call[p] = 2 => BillingTables \subseteq tables[Base(p)]
    BY <1>1, <1>6 DEF PodOk, InDatabase, Calls
  <2>4. \/ Calls(p)[call[p]] = BillingTables
        \/ call[p] = 2 /\ Calls(p)[call[p]] = {"processed_events"}
    BY <2>3 DEF Calls
  <2>5. tables'[Base(p)] \in {{}, BillingTables, AllTables, Migrated}
    BY <1>3, <2>2, <2>3, <2>4, TableNames
  <2> QED BY <1>2, <2>5 DEF RaceInv, TablesInOrder
<1> QED BY <1>5, <1>6

\* create_all has its own tables in hand, whatever order it takes them in.
LEMMA HandsKept ==
  ASSUME IInv, RaceInv, NEW p \in Pods, Moves(p)
  PROVE  InHand(p)'
<1> SUFFICES ASSUME p # "job", pc'[p] \in {"create", "commit"}
             PROVE  made'[p] \cup Listed(todo'[p]) \subseteq Calls(p)[call'[p]]
  BY DEF InHand
<1>1. /\ pc \in [Pods -> Pcs] /\ call \in [Pods -> Nat] /\ todo \in [Pods -> Seq(Migrated)]
      /\ made \in [Pods -> SUBSET Migrated] /\ PodOk(p) /\ InHand(p)
  BY Domains, Kept DEF RaceInv
<1>2. CASE LookForTables(p)
  <2> DEFINE missing == Calls(p)[call[p]] \ tables[Base(p)]
  <2>1. pc[p] = "check" /\ made' = made /\ made[p] = {}
    BY <1>1, <1>2 DEF LookForTables, PodOk, InDatabase
  <2>2. missing # {}
    <3>1. Served(p) \notin {"create", "commit"}
      BY DEF Served
    <3> QED BY <1>1, <1>2, <3>1 DEF LookForTables, NextCall
  <2>3. call' = call /\ \E order \in SetToSeqs(missing) : todo' = [todo EXCEPT ![p] = order]
    BY <1>2, <2>2 DEF LookForTables, DeclaredOrders
  <2>4. PICK order \in SetToSeqs(missing) : todo' = [todo EXCEPT ![p] = order]
    BY <2>3
  <2>5. IsFiniteSet(missing)
    <3>1. call[p] \in {1, 2}
      BY <1>1, <2>1 DEF PodOk, InDatabase
    <3>2. missing \subseteq AllTables
      BY <3>1, CallsAreOfTables
    <3> QED BY <3>2, AllTablesAreFinite, FS_Subset
  <2>6. Listed(order) = missing
    <3> HIDE DEF missing
    <3> QED BY <2>5, Orders
  <2>7. todo'[p] = order
    BY <1>1, <2>4
  <2> QED BY <2>1, <2>3, <2>6, <2>7
<1>3. CASE Create(p)
  <2>1. /\ pc[p] = "create" /\ call' = call
        /\ made'[p] = made[p] \cup {Head(todo[p])} /\ todo'[p] = Tail(todo[p])
    BY <1>1, <1>3 DEF Create
  <2>2. Head(todo[p]) \in Listed(todo[p]) /\ Listed(Tail(todo[p])) \subseteq Listed(todo[p])
    BY <1>1, <2>1, HeadAndTail DEF PodOk, Listing
  <2>3. made[p] \cup Listed(todo[p]) \subseteq Calls(p)[call[p]]
    BY <1>1, <2>1 DEF InHand
  <2> QED BY <2>1, <2>2, <2>3
<1>4. ASSUME ~LookForTables(p), ~Create(p)
      PROVE  FALSE
  <2>1. CASE Probe(p)
    BY <1>1, <2>1 DEF Probe
  <2>2. CASE Kill(p) \/ LivenessFails(p)
    BY <1>1, <2>2 DEF Kill, LivenessFails, Fails, Crash
  <2>3. CASE Restart(p)
    BY <1>1, <2>3 DEF Restart, Start
  <2>4. Served(p) \notin {"create", "commit"}
    BY DEF Served
  <2>5. CASE Step(p)
    BY <1>1, <1>4, <2>4, <2>5
    DEF Step, Boot, RefusesToStart, LosesTheRace, Commit, NextCall, CannotReachDatabase,
        Connect, CannotReachBroker, Fails, Crash
  <2> QED BY <2>1, <2>2, <2>3, <2>5 DEF Moves
<1> QED BY <1>2, <1>3, <1>4

-----------------------------------------------------------------------------
(* The account of the races.                                                *)

\* The Job goes on under the environment it started with, which is the one
\* that was applied.
LEMMA JobStays ==
  ASSUME IInv, Moves("job")
  PROVE  /\ pc["job"] \notin {"none", "complete", "failed"} /\ pc'["job"] # "none"
         /\ conf'["job"] = conf["job"]
<1>1. pc \in [Pods -> Pcs] /\ "job" \in Pods /\ "job" \notin Apis
  BY Domains, Names DEF Apis
<1>2. ~Probe("job") /\ ~LivenessFails("job")
  BY <1>1 DEF Probe, LivenessFails
<1>3. CASE Step("job")
  <2>1. pc["job"] \in {"boot", "check", "create", "commit", "connect"}
    BY <1>3
    DEF Step, Boot, RefusesToStart, LookForTables, MigrationStep, Create, LosesTheRace,
        Commit, CannotReachDatabase, InDatabase, Connect, CannotReachBroker
  <2>2. pc'["job"] # "none" /\ conf' = conf
    BY <1>1, <1>3, <2>1
    DEF Step, Boot, RefusesToStart, LookForTables, MigrationStep, Create, LosesTheRace,
        Commit, CannotReachDatabase, Connect, CannotReachBroker, Fails, Crash, Served
  <2> QED BY <2>1, <2>2
<1>4. CASE Restart("job")
  <2>1. conf["job"] = cluster /\ pc["job"] = "crashed"
    BY <1>4 DEF Restart, IInv, StageOk
  <2> QED BY <1>1, <1>4, <2>1 DEF Restart, Start
<1>5. CASE Kill("job")
  BY <1>1, <1>5 DEF Kill, Crash, Halted
<1> QED BY <1>2, <1>3, <1>4, <1>5 DEF Moves

\* Once a run has begun, only a lost race, a kill or an unreachable database
\* ends it.
LEMMA RunsEnd ==
  ASSUME IInv, Moves("job"), outages = 0, JobCanRun, FaultsCounted
  PROVE  \/ fails' = fails /\ lost' = lost
         \/ fails' = fails + 1 /\ Doomed /\ lost' = [lost EXCEPT !.race = @ + 1]
         \/ fails' = fails + 1 /\ lost' = [lost EXCEPT !.kill = @ + 1]
<1>1. /\ "job" \in Pods /\ "job" \notin Apis \cup Workers /\ PodOk("job")
      /\ conf["job"].job /\ Reaches("job")
  BY JobStays, Kept, Names DEF JobCanRun, JobBase, FaultsCounted, Reaches, Apis, Workers
<1>2. /\ ~RefusesToStart("job") /\ ~CannotReachDatabase("job") /\ ~CannotReachBroker("job")
      /\ ~Probe("job") /\ ~LivenessFails("job")
  BY <1>1 DEF RefusesToStart, Starts, CannotReachDatabase, CannotReachBroker, PodOk, Probe,
              LivenessFails
<1>3. CASE LosesTheRace("job")
  BY <1>3 DEF LosesTheRace, Found, Doomed, JobBase, Crash
<1>4. CASE Kill("job")
  BY <1>4 DEF Kill, Crash
<1>5. CASE \/ Boot("job") \/ LookForTables("job") \/ MigrationStep \/ Create("job")
           \/ Commit("job") \/ Connect("job") \/ Restart("job")
  BY <1>5 DEF Boot, LookForTables, MigrationStep, Create, Commit, Connect, Restart, Rest, faults
<1> QED BY <1>2, <1>3, <1>4, <1>5 DEF Moves, Step

\* The Job counts a race that it loses, and begins to create a table only if
\* it is not there.
LEMMA JobCounts ==
  ASSUME IInv, Moves("job")
  PROVE  /\ ~Doomed'
         /\ \/ Doomed /\ lost' = [lost EXCEPT !.race = @ + 1]
            \/ lost' = lost \/ lost' = [lost EXCEPT !.kill = @ + 1]
<1>1. /\ pc \in [Pods -> Pcs] /\ "job" \in Pods /\ "job" \notin Apis
      /\ JobBase' = JobBase
  BY Domains, Names, JobStays DEF Apis, JobBase, Base
<1>2. CASE LosesTheRace("job")
  <2>1. Doomed /\ pc'["job"] = "crashed"
    BY <1>1, <1>2 DEF LosesTheRace, Found, Doomed, JobBase, Crash
  <2> QED BY <1>2, <2>1 DEF LosesTheRace, Doomed
<1>3. CASE Kill("job")
  BY <1>1, <1>3 DEF Kill, Crash, Doomed
<1>4. CASE MigrationStep
  <2>1. lost' = lost /\ tables' = tables
    BY <1>4 DEF MigrationStep, Rest, faults
  <2>2. CASE Found("job")
    <3>1. pc'["job"] # "create"
      BY <1>1, <1>4, <2>2 DEF MigrationStep
    <3> QED BY <2>1, <3>1 DEF Doomed
  <2>3. CASE ~Found("job")
    <3>1. todo' = todo
      BY <1>4, <2>3 DEF MigrationStep
    <3> QED BY <1>1, <2>1, <2>3, <3>1 DEF Doomed, Found, JobBase
  <2> QED BY <2>2, <2>3
<1>5. CASE \/ Boot("job") \/ RefusesToStart("job") \/ Create("job") \/ Commit("job")
           \/ CannotReachDatabase("job") \/ Connect("job") \/ CannotReachBroker("job")
           \/ Restart("job")
  <2>1. pc'["job"] # "create"
    BY <1>1, <1>5
    DEF Boot, RefusesToStart, Create, Commit, CannotReachDatabase, Connect, CannotReachBroker,
        Restart, Start, Fails, Crash, Served
  <2>2. lost' = lost
    BY <1>5
    DEF Boot, RefusesToStart, Create, Commit, CannotReachDatabase, Connect, CannotReachBroker,
        Restart, Fails, Rest, faults
  <2> QED BY <2>1, <2>2 DEF Doomed
<1> QED
  BY <1>1, <1>2, <1>3, <1>4, <1>5 DEF Moves, Step, LookForTables, Probe, LivenessFails

\* More tables are there: no fewer groups, and a new one if the Job comes too
\* late for a table through them.
LEMMA GroupsGrow ==
  ASSUME NEW ts \in {{}, BillingTables, AllTables, Migrated},
         NEW us \in {{}, BillingTables, AllTables, Migrated}, ts \subseteq us
  PROVE  /\ GroupsOf(ts) \in 0..2 /\ GroupsOf(us) \in 0..2 /\ GroupsOf(ts) =< GroupsOf(us)
         /\ \A t \in AllTables : t \in us \ ts => GroupsOf(ts) < GroupsOf(us)
<1>1. /\ GroupsOf({}) = 0 /\ GroupsOf(BillingTables) = 1
      /\ GroupsOf(AllTables) = 2 /\ GroupsOf(Migrated) = 2
  BY DEF GroupsOf, One, BillingTables, AllTables, Migrated
<1>2. "quotes" \in BillingTables /\ "processed_events" \in AllTables \ BillingTables
  BY TableNames
<1> QED BY <1>1, <1>2, TableNames

\* Another container makes the Job come too late for a table only by the first
\* commit of a group.
LEMMA OthersCount ==
  ASSUME IInv, RaceInv, NEW p \in Pods, p # "job", Moves(p), TablesInOrder'
  PROVE  RacesCounted'
<1>1. /\ "job" \in Pods /\ pc'["job"] = pc["job"] /\ todo'["job"] = todo["job"]
      /\ conf'["job"] = conf["job"] /\ lost' = lost
      /\ ~Commit(p) => tables' = tables
  BY Names, OnlyItself
<1>2. JobBase' = JobBase /\ JobBase \in Databases
  BY <1>1, Kept DEF JobBase, Base
<1>3. lost.race \in Nat /\ lost.race + One(Doomed) =< GroupsOf(tables[JobBase])
  BY DEF RaceInv, FaultsCounted, RacesCounted
<1>4. CASE tables'[JobBase] = tables[JobBase]
  <2>1. Doomed' = Doomed /\ GroupsOf(tables[JobBase])' = GroupsOf(tables[JobBase])
    BY <1>1, <1>2, <1>4 DEF Doomed, GroupsOf
  <2> QED BY <1>1, <2>1 DEF RaceInv, RacesCounted, One
<1>5. CASE tables'[JobBase] # tables[JobBase]
  <2>1. /\ Commit(p) /\ made[p] \subseteq AllTables
        /\ tables'[JobBase] = tables[JobBase] \cup made[p]
    BY <1>1, <1>2, <1>5, Domains, Kept DEF Commit, PodOk
  <2>2. /\ tables[JobBase] \in {{}, BillingTables, AllTables, Migrated}
        /\ tables'[JobBase] \in {{}, BillingTables, AllTables, Migrated}
    BY <1>2 DEF RaceInv, TablesInOrder
  <2> DEFINE g == GroupsOf(tables[JobBase])
             h == GroupsOf(tables'[JobBase])
  <2>3. /\ g \in 0..2 /\ h \in 0..2 /\ g =< h
        /\ \A t \in AllTables : t \in tables'[JobBase] \ tables[JobBase] => g < h
    BY <2>1, <2>2, GroupsGrow
  <2>4. GroupsOf(tables[JobBase])' = h
    BY <1>2 DEF GroupsOf
  <2>5. lost.race + One(Doomed') =< h
    <3>1. CASE Doomed' => Doomed
      BY <1>3, <2>3, <3>1 DEF One
    <3>2. CASE Doomed' /\ ~Doomed
      <4>1. Head(todo["job"]) \in tables'[JobBase] \ tables[JobBase]
        BY <1>1, <1>2, <3>2 DEF Doomed
      <4>2. g < h
        BY <2>1, <2>3, <4>1
      <4> HIDE DEF g, h
      <4>3. lost.race =< g
        BY <1>3, <2>3, <3>2 DEF One, g
      <4> QED BY <1>3, <2>3, <3>2, <4>2, <4>3 DEF One
    <3> QED BY <3>1, <3>2
  <2>6. One(Doomed)' = One(Doomed')
    BY DEF One
  <2> HIDE DEF h
  <2> QED BY <1>1, <2>4, <2>5, <2>6 DEF RaceInv, RacesCounted
<1> QED BY <1>4, <1>5

\* A step of the Job's own.
LEMMA JobsOwnCount ==
  ASSUME IInv, RaceInv, Moves("job"), TablesInOrder'
  PROVE  RacesCounted'
<1>1. /\ "job" \in Pods /\ pc'["job"] # "none" /\ JobBase' = JobBase
      /\ JobBase \in Databases /\ tables \in [Databases -> SUBSET Migrated]
  BY Names, JobStays, Domains DEF JobBase, Base
<1>2. tables[JobBase] \subseteq tables'[JobBase]
  <2>1. CASE Commit("job")
    BY <1>1, <2>1 DEF Commit, JobBase
  <2>2. CASE ~Commit("job")
    BY <1>1, <2>2, OnlyItself
  <2> QED BY <2>1, <2>2
<1>3. /\ tables[JobBase] \in {{}, BillingTables, AllTables, Migrated}
      /\ tables'[JobBase] \in {{}, BillingTables, AllTables, Migrated}
  BY <1>1 DEF RaceInv, TablesInOrder
<1> DEFINE g == GroupsOf(tables[JobBase])
           h == GroupsOf(tables'[JobBase])
<1>4. g \in 0..2 /\ h \in 0..2 /\ g =< h
  BY <1>2, <1>3, GroupsGrow
<1>5. GroupsOf(tables[JobBase])' = h
  BY <1>1 DEF GroupsOf
<1>6. lost \in [race : Nat, kill : Nat] /\ lost.race + One(Doomed) =< g
  BY DEF RaceInv, FaultsCounted, RacesCounted
<1> HIDE DEF g, h
<1>7. ~Doomed' /\ lost'.race \in Nat /\ lost'.race =< lost.race + One(Doomed)
  BY <1>6, JobCounts DEF One
<1>8. One(Doomed)' = 0
  BY <1>7 DEF One
<1>9. lost.race + One(Doomed) \in Nat
  BY <1>6 DEF One
<1>10. lost'.race + 0 =< h
  BY <1>4, <1>6, <1>7, <1>9
<1> QED BY <1>1, <1>5, <1>8, <1>10 DEF RacesCounted

LEMMA RaceKeptByContainers ==
  ASSUME IInv, RaceInv, NEW p \in Pods, Moves(p)
  PROVE  RaceInv'
<1>1. /\ \A q \in Pods \ {p} :
           /\ pc'[q] = pc[q] /\ call'[q] = call[q] /\ todo'[q] = todo[q] /\ made'[q] = made[q]
           /\ conf'[q] = conf[q]
      /\ ~Commit(p) => tables' = tables
      /\ outages' = outages /\ down' = down
      /\ p # "job" => fails' = fails /\ lost' = lost
  BY OnlyItself
<1>2. pc \in [Pods -> Pcs] /\ "job" \in Pods /\ "job" \notin Apis
  BY Domains, Names DEF Apis
<1>3. TablesInOrder'
  BY <1>1, CommitsInOrder DEF RaceInv, TablesInOrder
<1>4. \A q \in Pods : InHand(q)'
  <2> SUFFICES ASSUME NEW q \in Pods PROVE InHand(q)'
    OBVIOUS
  <2>1. CASE q = p
    BY <2>1, HandsKept
  <2>2. CASE q # p
    BY <1>1, <2>2 DEF RaceInv, InHand
  <2> QED BY <2>1, <2>2
<1>5. FaultsCounted'
  <2>1. lost \in [race : Nat, kill : Nat]
    BY DEF RaceInv, FaultsCounted
  <2>2. lost' \in [race : Nat, kill : Nat]
    BY <1>1, <2>1, JobCounts
  <2> QED BY <1>1, <2>2 DEF RaceInv, FaultsCounted
<1>6. RacesCounted'
  BY <1>3, OthersCount, JobsOwnCount
<1>7. FailsCounted'
  <2>1. fails \in Nat /\ lost \in [race : Nat, kill : Nat]
    BY RolloutAssumption DEF RaceInv, FaultsCounted, IInv, TypeOK, RolloutAssumption
  <2>2. JobCanRun' => JobCanRun
    BY <1>1, <1>2, JobStays DEF JobCanRun, JobBase, Base
  <2>3. ASSUME outages' = 0, JobCanRun' PROVE fails' =< lost'.race + lost'.kill
    <3>1. outages = 0 /\ JobCanRun /\ fails =< lost.race + lost.kill
      BY <1>1, <2>2, <2>3 DEF RaceInv, FailsCounted
    <3>2. CASE p = "job"
      BY <2>1, <3>1, <3>2, RunsEnd DEF RaceInv
    <3> QED BY <1>1, <3>1, <3>2
  <2>4. ASSUME pc'["job"] = "failed" PROVE fails' >= BackoffLimit
    <3>1. CASE p # "job"
      BY <1>1, <1>2, <2>4, <3>1 DEF RaceInv, FailsCounted
    <3>2. CASE p = "job" /\ Restart(p)
      BY <1>2, <2>4, <3>2 DEF Restart, Start
    <3>3. CASE p = "job" /\ Step(p)
      <4>1. pc["job"] # "failed"
        BY <3>3, JobStays DEF Moves
      <4> QED
        BY <1>2, <2>4, <3>3, <4>1
        DEF Step, Boot, RefusesToStart, LookForTables, MigrationStep, Create, LosesTheRace,
            Commit, CannotReachDatabase, Connect, CannotReachBroker, Fails, Crash, Served
    <3>4. CASE p = "job" /\ (Probe(p) \/ LivenessFails(p) \/ Kill(p))
      BY <1>2, <2>4, <3>4 DEF Probe, LivenessFails, Kill, Crash
    <3> QED BY <3>1, <3>2, <3>3, <3>4 DEF Moves
  <2> QED BY <2>3, <2>4 DEF FailsCounted
<1> QED BY <1>3, <1>4, <1>5, <1>6, <1>7 DEF RaceInv

-----------------------------------------------------------------------------
(* The pipeline and the rest leave the races alone.                         *)

\* The Job stays as it is, other containers start or go, and no table comes.
LEMMA RaceKeptAside ==
  ASSUME IInv, RaceInv, UNCHANGED <<call, tables, fails, lost, outages>>, down' => down,
         pc'["job"] = pc["job"], conf'["job"] = conf["job"], todo'["job"] = todo["job"],
         \A q \in Pods : \/ pc'[q] \in {"boot", "gone"}
                         \/ pc'[q] = pc[q] /\ todo'[q] = todo[q] /\ made'[q] = made[q]
  PROVE  RaceInv'
<1>1. JobBase' = JobBase
  BY DEF JobBase, Base
<1>2. Doomed' = Doomed /\ JobCanRun' = JobCanRun
      /\ GroupsOf(tables[JobBase])' = GroupsOf(tables[JobBase])
  BY <1>1 DEF Doomed, JobCanRun, GroupsOf
<1>3. \A q \in Pods : InHand(q)'
  BY DEF RaceInv, InHand
<1>4. RacesCounted'
  BY <1>2 DEF RaceInv, RacesCounted, One
<1>5. TablesInOrder' /\ FaultsCounted' /\ FailsCounted'
  BY <1>2 DEF RaceInv, TablesInOrder, FaultsCounted, FailsCounted
<1> QED BY <1>3, <1>4, <1>5 DEF RaceInv

LEMMA RaceKeptByStart == ASSUME IInv, RaceInv, StartJob PROVE RaceInv'
<1>1. /\ pc \in [Pods -> Pcs] /\ "job" \in Pods /\ pc["job"] = "none" /\ fails = 0
      /\ lost.race = 0 /\ lost \in [race : Nat, kill : Nat]
  BY Domains, Names DEF StartJob, IInv, StageOk, Early, FailsOk, RaceInv, RacesCounted, FaultsCounted
<1>2. /\ UNCHANGED <<call, todo, made, fails, tables, lost, outages, down>>
      /\ \A q \in Pods \ {"job"} : pc'[q] = pc[q]
      /\ pc'["job"] = "boot" /\ conf'["job"] = cluster
  BY <1>1 DEF StartJob, Start, faults
<1>3. \A q \in Pods : InHand(q)'
  BY <1>2 DEF RaceInv, InHand
<1>4. TablesInOrder' /\ FaultsCounted'
  BY <1>2 DEF RaceInv, TablesInOrder, FaultsCounted
<1>5. FailsCounted'
  BY <1>1, <1>2 DEF FailsCounted
<1>6. RacesCounted'
  <2>1. ~Doomed' /\ One(Doomed)' = 0
    BY <1>2 DEF Doomed, One
  <2>2. GroupsOf(tables[JobBase])' >= 0
    BY DEF GroupsOf, One
  <2> QED BY <1>1, <1>2, <2>1, <2>2 DEF RacesCounted
<1> QED BY <1>3, <1>4, <1>5, <1>6 DEF RaceInv

LEMMA RaceKeptByPipeline == ASSUME IInv, RaceInv, Pipeline PROVE RaceInv'
<1>1. pc \in [Pods -> Pcs] /\ "job" \in Pods
  BY Domains, Names
<1>2. CASE StartJob
  BY <1>2, RaceKeptByStart
<1>3. CASE JobCompletes
  <2>1. /\ pc["job"] = "complete" /\ pc'["job"] = pc["job"] /\ conf'["job"] = conf["job"]
        /\ \A q \in Pods : pc'[q] = "boot" \/ pc'[q] = pc[q]
        /\ UNCHANGED <<call, todo, made, fails, tables, lost, outages, down>>
    BY <1>1, <1>3 DEF JobCompletes, Start, faults
  <2> QED BY <2>1, RaceKeptAside
<1>4. CASE Prepare \/ Render \/ Apply \/ WaitTimesOut \/ Finish \/ RolloutTimesOut
  <2>1. UNCHANGED <<pc, conf, call, todo, made, fails, tables, lost, outages, down>>
    BY <1>4 DEF Prepare, Render, Apply, WaitTimesOut, Finish, RolloutTimesOut, containers, faults
  <2> QED BY <2>1, RaceKeptAside
<1> QED BY <1>2, <1>3, <1>4 DEF Pipeline

LEMMA RaceKeptByReplacement == ASSUME IInv, RaceInv, ReplaceOld PROVE RaceInv'
<1>1. PICK old \in {"oldApi", "oldWorker"} : \E new : Replace(old, new)
  BY DEF ReplaceOld
<1>2. /\ pc \in [Pods -> Pcs] /\ todo \in [Pods -> Seq(Migrated)]
      /\ made \in [Pods -> SUBSET Migrated] /\ "job" \in Pods \ {old} /\ old \in Pods
  BY <1>1, Domains, Names DEF Pods, Apis, Workers
<1>3. /\ pc' = [pc EXCEPT ![old] = "gone"] /\ todo' = [todo EXCEPT ![old] = <<>>]
      /\ made' = [made EXCEPT ![old] = {}]
      /\ UNCHANGED <<conf, call, fails, tables, lost, outages, down>>
  BY <1>1 DEF Replace, Rest, faults
<1>4. /\ pc'["job"] = pc["job"] /\ todo'["job"] = todo["job"]
      /\ \A q \in Pods : \/ pc'[q] \in {"boot", "gone"}
                         \/ pc'[q] = pc[q] /\ todo'[q] = todo[q] /\ made'[q] = made[q]
  BY <1>2, <1>3
<1> QED BY <1>3, <1>4, RaceKeptAside

LEMMA RaceKeptByOutage == ASSUME IInv, RaceInv, GoDown \/ Recover \/ UNCHANGED vars PROVE RaceInv'
<1>1. CASE GoDown
  <2>1. pc \in [Pods -> Pcs] /\ "job" \in Pods
    BY Domains, Names
  <2>2. /\ UNCHANGED <<conf, call, tables, lost>>
        /\ down' = TRUE /\ outages' = outages + 1
        /\ Crash({q \in Pods : pc[q] \in InDatabase})
    BY <1>1 DEF GoDown
  <2>3. ASSUME NEW q \in Pods
        PROVE  \/ pc[q] \in InDatabase /\ pc'[q] = "crashed"
               \/ pc'[q] = pc[q] /\ todo'[q] = todo[q] /\ made'[q] = made[q]
    BY <2>1, <2>2 DEF Crash
  <2>4. TablesInOrder' /\ FaultsCounted' /\ \A q \in Pods : InHand(q)'
    BY <2>2, <2>3 DEF RaceInv, TablesInOrder, FaultsCounted, InHand
  <2>5. JobBase' = JobBase /\ GroupsOf(tables[JobBase])' = GroupsOf(tables[JobBase])
    BY <2>2 DEF JobBase, Base, GroupsOf
  <2>6. Doomed' => Doomed
    BY <2>1, <2>2, <2>3, <2>5 DEF Doomed
  <2>7. RacesCounted'
    <3>1. /\ lost.race \in Nat /\ One(Doomed)' =< One(Doomed)
          /\ One(Doomed) \in Nat /\ One(Doomed)' \in Nat /\ GroupsOf(tables[JobBase]) \in Nat
      BY <2>6 DEF RaceInv, FaultsCounted, One, GroupsOf
    <3>2. lost.race + One(Doomed)' =< GroupsOf(tables[JobBase])
      BY <3>1 DEF RaceInv, RacesCounted
    <3>3. pc'["job"] = "none" => pc["job"] = "none"
      BY <2>1, <2>3
    <3> QED BY <2>2, <2>5, <3>2, <3>3 DEF RaceInv, RacesCounted
  <2>8. FailsCounted'
    <3>1. outages' # 0
      BY <2>2 DEF RaceInv, FaultsCounted
    <3>2. pc'["job"] = "failed" => pc["job"] = "failed" /\ fails' = fails
      BY <2>1, <2>2, <2>3 DEF Crash, InDatabase
    <3> QED BY <3>1, <3>2 DEF RaceInv, FailsCounted
  <2> QED BY <2>4, <2>7, <2>8 DEF RaceInv
<1>2. CASE Recover \/ UNCHANGED vars
  <2>1. /\ UNCHANGED <<pc, conf, call, todo, made, fails, tables, lost, outages>>
        /\ down' => down
    BY <1>2 DEF Recover, vars, containers, faults
  <2> QED BY <2>1, RaceKeptAside
<1> QED BY <1>1, <1>2

LEMMA RaceEstablished == ASSUME RolloutAssumption, Init PROVE RaceInv
<1>1. /\ fails = 0 /\ ~down /\ outages = 0 /\ lost = [race |-> 0, kill |-> 0]
      /\ \A p \in Pods : pc[p] \in {"none", "serving"}
      /\ pc["job"] = "none"
  BY Names DEF Init
<1>2. TablesInOrder
  BY DEF Init, TablesInOrder
<1>3. FaultsCounted /\ \A p \in Pods : InHand(p)
  BY <1>1 DEF FaultsCounted, InHand
<1>4. RacesCounted
  <2>1. One(Doomed) = 0 /\ GroupsOf(tables[JobBase]) >= 0
    BY <1>1 DEF Doomed, GroupsOf, One
  <2> QED BY <1>1, <2>1 DEF RacesCounted
<1>5. FailsCounted
  BY <1>1 DEF FailsCounted
<1> QED BY <1>2, <1>3, <1>4, <1>5 DEF RaceInv

LEMMA RaceKept == ASSUME IInv, RaceInv, [Next]_vars PROVE RaceInv'
BY RaceKeptByContainers, RaceKeptByPipeline, RaceKeptByReplacement, RaceKeptByOutage
DEF Next, Moves

\* There are two groups of tables.
LEMMA RacesAreFew == ASSUME IInv, RaceInv PROVE RacesDoNotFailTheJob
<1>1. lost.race \in Nat /\ lost.race + One(Doomed) =< GroupsOf(tables[JobBase])
  BY DEF RaceInv, FaultsCounted, RacesCounted
<1>2. One(Doomed) \in {0, 1} /\ GroupsOf(tables[JobBase]) \in 0..2
  BY DEF One, GroupsOf
<1>3. lost.race =< 2
  BY <1>1, <1>2
<1> QED BY <1>3 DEF RacesDoNotFailTheJob

\* However create_all and the migration interleave, and however often the old
\* pods restart next to the Job, races for tables end two of its runs at most.
THEOREM RacesCostTwoRuns == Spec => []RacesDoNotFailTheJob
<1>1. Init => RaceInv
  BY RaceEstablished, RolloutAssumption
<1>2. IInv /\ RaceInv /\ [Next]_vars => RaceInv'
  BY RaceKept
<1>3. IInv /\ RaceInv => RacesDoNotFailTheJob
  BY RacesAreFew
<1> QED BY <1>1, <1>2, <1>3, Invariance, PTL DEF Spec

-----------------------------------------------------------------------------
(* What a deploy is given up for.                                          *)

\* Once it has started the Job, a deploy of an environment that every process
\* takes is only given up for an outage, or when kills of the Job itself have
\* used up the runs that races leave it.  Kills of other containers, and what
\* they lose, never suffice.
AbortsHaveAReason ==
  stage = "aborted" /\ pc["job"] # "none" /\ Works(cluster) =>
    outages > 0 \/ lost.kill + 2 >= BackoffLimit

LEMMA ReasonsLast ==
  ASSUME IInv, RaceInv, [Next]_vars
  PROVE  /\ outages > 0 => outages' > 0
         /\ lost.kill + 2 >= BackoffLimit => lost'.kill + 2 >= BackoffLimit
<1>1. lost \in [race : Nat, kill : Nat] /\ outages \in Nat /\ BackoffLimit \in Nat
  BY RolloutAssumption DEF RaceInv, FaultsCounted, RolloutAssumption
<1>2. CASE GoDown
  BY <1>1, <1>2 DEF GoDown
<1>3. CASE Recover \/ ReplaceOld \/ UNCHANGED vars
  BY <1>3 DEF Recover, ReplaceOld, Replace, Rest, vars, faults
<1>4. CASE Pipeline
  BY <1>4 DEF Pipeline, Prepare, Render, Apply, StartJob, JobCompletes, WaitTimesOut,
              Finish, RolloutTimesOut, faults
<1>5. ASSUME NEW p \in Pods, Moves(p)
      PROVE  /\ outages' = outages
             /\ lost'.kill = lost.kill \/ lost'.kill = lost.kill + 1
  BY <1>1, <1>5, OnlyItself, JobCounts
<1> QED BY <1>1, <1>2, <1>3, <1>4, <1>5 DEF Next, Moves

\* A container that was started is never as if it had not been.
LEMMA StartedForGood ==
  ASSUME IInv, [Next]_vars, NEW q \in Pods, pc[q] # "none"
  PROVE  pc'[q] # "none"
<1>1. pc \in [Pods -> Pcs]
  BY Domains
<1>2. CASE Pipeline
  <2>1. CASE StartJob \/ JobCompletes
    BY <1>1, <2>1 DEF StartJob, JobCompletes, Start
  <2>2. CASE Prepare \/ Render \/ Apply \/ WaitTimesOut \/ Finish \/ RolloutTimesOut
    BY <2>2 DEF Prepare, Render, Apply, WaitTimesOut, Finish, RolloutTimesOut, containers
  <2> QED BY <1>2, <2>1, <2>2 DEF Pipeline
<1>3. CASE GoDown
  BY <1>1, <1>3 DEF GoDown, Crash
<1>4. CASE Recover \/ UNCHANGED vars
  BY <1>4 DEF Recover, vars, containers
<1>5. CASE ReplaceOld
  BY <1>1, <1>5 DEF ReplaceOld, Replace
<1>6. ASSUME NEW p \in Pods, Moves(p)
      PROVE  pc'[q] # "none"
  <2>1. CASE q # p
    BY <1>6, <2>1, OnlyItself
  <2>2. CASE q = p /\ Step(p)
    <3>1. Served(p) # "none"
      BY DEF Served
    <3> QED
      BY <1>1, <2>2, <3>1
      DEF Step, Boot, RefusesToStart, LookForTables, NextCall, MigrationStep, Create,
          LosesTheRace, Commit, CannotReachDatabase, Connect, CannotReachBroker, Fails, Crash
  <2>3. CASE q = p /\ (Probe(p) \/ LivenessFails(p) \/ Restart(p) \/ Kill(p))
    BY <1>1, <2>3 DEF Probe, LivenessFails, Fails, Restart, Start, Kill, Crash
  <2> QED BY <1>6, <2>1, <2>2, <2>3 DEF Moves
<1> QED BY <1>2, <1>3, <1>4, <1>5, <1>6 DEF Next, Moves

\* Only the pipeline moves the pipeline.
LEMMA StageStays ==
  ASSUME IInv, [Next]_vars, ~Pipeline
  PROVE  stage' = stage /\ cluster' = cluster
<1>1. ASSUME NEW p \in Pods, Moves(p)
      PROVE  stage' = stage /\ cluster' = cluster
  BY <1>1, OnlyItself
<1>2. CASE ReplaceOld \/ GoDown \/ Recover \/ UNCHANGED vars
  BY <1>2 DEF ReplaceOld, Replace, Rest, GoDown, Recover, vars, pipeline
<1> QED BY <1>1, <1>2 DEF Next, Moves

NewApiInRollout == stage = "rollout" => pc["newApi"] # "none"

LEMMA NewApiIsStarted ==
  ASSUME IInv, NewApiInRollout, [Next]_vars
  PROVE  NewApiInRollout'
<1> SUFFICES ASSUME stage' = "rollout" PROVE pc'["newApi"] # "none"
  BY DEF NewApiInRollout
<1>1. "newApi" \in Pods
  BY Names
<1>2. CASE stage = "rollout"
  BY <1>1, <1>2, StartedForGood DEF NewApiInRollout
<1>3. CASE JobCompletes
  BY <1>1, <1>3 DEF JobCompletes, Start
<1>4. ASSUME ~JobCompletes, stage # "rollout" PROVE FALSE
  <2>1. Pipeline
    BY <1>4, StageStays
  <2> QED
    BY <1>4, <2>1 DEF Pipeline, Prepare, Render, Apply, StartJob, WaitTimesOut, Finish,
                      RolloutTimesOut
<1> QED BY <1>2, <1>3, <1>4

\* Only the pipeline starts the Job.
LEMMA NotStarted ==
  ASSUME IInv, [Next]_vars, ~Pipeline, pc'["job"] # "none"
  PROVE  pc["job"] # "none"
<1>1. pc \in [Pods -> Pcs] /\ "job" \in Pods
  BY Domains, Names
<1>2. ASSUME NEW p \in Pods, Moves(p)
      PROVE  pc["job"] # "none"
  BY <1>1, <1>2, JobStays, OnlyItself
<1>3. CASE GoDown
  BY <1>1, <1>3 DEF GoDown, Crash, InDatabase
<1>4. CASE ReplaceOld \/ Recover \/ UNCHANGED vars
  BY <1>1, <1>4 DEF ReplaceOld, Replace, Recover, vars, containers
<1> QED BY <1>2, <1>3, <1>4 DEF Next, Moves

\* The pipeline alone decides, and only looks at the Job and the new API.
LEMMA AbortStep ==
  ASSUME IInv, RaceInv, NewApiInRollout, AbortsHaveAReason, [Next]_vars
  PROVE  AbortsHaveAReason'
<1> SUFFICES ASSUME stage' = "aborted", pc'["job"] # "none", Works(cluster)'
             PROVE  outages' > 0 \/ lost'.kill + 2 >= BackoffLimit
  BY DEF AbortsHaveAReason
<1>1. ASSUME outages > 0 \/ lost.kill + 2 >= BackoffLimit
      PROVE  outages' > 0 \/ lost'.kill + 2 >= BackoffLimit
  BY <1>1, ReasonsLast
<1>2. CASE stage = "aborted" /\ ~Pipeline
  <2>1. cluster' = cluster
    BY <1>2, StageStays
  <2>2. Works(cluster)
    BY <2>1 DEF Works
  <2>3. pc["job"] # "none"
    BY <1>2, NotStarted
  <2> QED BY <1>1, <1>2, <2>2, <2>3 DEF AbortsHaveAReason
<1>3. CASE Pipeline
  <2>1. ~Apply /\ ~StartJob /\ ~JobCompletes /\ ~Finish
    BY DEF Apply, StartJob, JobCompletes, Finish
  <2>2. ~Prepare /\ ~Render
    BY DEF Prepare, Render, containers, IInv, StageOk, Early
  <2>3. WaitTimesOut \/ RolloutTimesOut
    BY <1>3, <2>1, <2>2 DEF Pipeline
  <2>4. /\ UNCHANGED <<cluster, pc, conf, lost, outages>>
        /\ down => outages > 0
    BY <2>3 DEF WaitTimesOut, RolloutTimesOut, containers, faults, RaceInv, FaultsCounted
  <2>5. Works(cluster) /\ pc["job"] # "none"
    BY <2>4 DEF Works
  <2>6. CASE WaitTimesOut /\ ~down
    <3>1. pc["job"] = "failed" /\ conf["job"] = cluster
      BY <2>5, <2>6 DEF WaitTimesOut, IInv, StageOk
    <3>2. conf["job"].job /\ Base("job")[1] # "placeholder"
      BY <2>5, <3>1 DEF Works, Base
    <3>3. outages = 0 => fails =< lost.race + lost.kill /\ fails >= BackoffLimit
      BY <3>1, <3>2 DEF RaceInv, FailsCounted, JobCanRun, JobBase
    <3>4. /\ lost.race =< 2 /\ lost.race \in Nat /\ lost.kill \in Nat /\ outages \in Nat
          /\ fails \in Nat /\ BackoffLimit \in Nat
      BY RacesAreFew, RolloutAssumption
      DEF RacesDoNotFailTheJob, RaceInv, FaultsCounted, IInv, TypeOK, RolloutAssumption
    <3> QED BY <1>1, <3>3, <3>4
  <2>7. CASE RolloutTimesOut /\ ~down
    <3>1. ~conf["newApi"].api \/ ~conf["newApi"].probe \/ ~conf["newApi"].hosts
      BY <2>7 DEF RolloutTimesOut
    <3>2. pc["newApi"] # "none"
      BY <2>7 DEF RolloutTimesOut, NewApiInRollout
    <3>3. conf["newApi"] = cluster
      BY <3>2 DEF IInv, StageOk
    <3> QED BY <2>5, <3>1, <3>3 DEF Works
  <2> QED BY <1>1, <2>3, <2>4, <2>6, <2>7
<1>4. CASE stage # "aborted" /\ ~Pipeline
  <2>1. stage' = stage
    BY <1>4, StageStays
  <2> QED BY <1>4, <2>1
<1> QED BY <1>2, <1>3, <1>4

\* However often the pods beside it are killed and whatever races they have
\* with it, a deploy of a good environment goes on: the safety half of
\* GoodEnvRollsOut.  (The waits of ci-cd.yml end in an abort only when the Job
\* has failed or the new API cannot get ready.)
THEOREM GoodDeploysGoOn == Spec => []AbortsHaveAReason
<1>1. Init => RaceInv /\ NewApiInRollout /\ AbortsHaveAReason
  <2>1. Init => RaceInv
    BY RaceEstablished, RolloutAssumption
  <2>2. Init => stage \notin {"rollout", "aborted"}
    BY DEF Init
  <2> QED BY <2>1, <2>2 DEF NewApiInRollout, AbortsHaveAReason
<1>2. IInv /\ RaceInv /\ NewApiInRollout /\ AbortsHaveAReason /\ [Next]_vars
        => RaceInv' /\ NewApiInRollout' /\ AbortsHaveAReason'
  BY RaceKept, NewApiIsStarted, AbortStep
<1> QED BY <1>1, <1>2, Invariance, PTL DEF Spec
=============================================================================
