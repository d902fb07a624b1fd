------------------------------ MODULE Rollout ------------------------------
(***************************************************************************)
(* A deploy, from the env file to the rollout: the pipeline (of            *)
(* ci-cd.yml, or the runbook's commands, which prepare the file first and  *)
(* leave the worker alone), the migration Job, the pods of the release it  *)
(* replaces and those it starts, and the tables they all create.           *)
(*                                                                         *)
(* A container reads the ConfigMap and the Secret when it starts: the old  *)
(* pods serve on under the old environment until something restarts them,  *)
(* and come back under the one that was applied.  Every process creates    *)
(* what it misses: the repositories in their constructors (create_all,     *)
(* which looks for all its tables first), alembic table by table, each in  *)
(* one transaction.  A CREATE TABLE waits for a transaction that creates   *)
(* the same table, and fails if the table is there in the end.             *)
(***************************************************************************)
EXTENDS DeployConfig, Sequences, SequencesExt

CONSTANTS
  Envs,          \* the env files that may be deployed
  OldEnv,        \* the one the running release was deployed with
  BackoffLimit,  \* runs of the Job that may fail before it does
  FaultyEnvs,    \* bound: those with faults among them
  MaxFaults      \* bound: containers killed and times the database goes down

\* Urls has the parts of every URL a file gives.  The running release has one,
\* and its probes succeed: that is how it came to be the running release.
ASSUME RolloutAssumption ==
  /\ BackoffLimit \in Nat \ {0}
  /\ Given(OldEnv.DATABASE_URL)
  /\ HostIsTrusted(PodEnv(OldEnv)) /\ ProbeSucceeds(PodEnv(OldEnv))
  /\ \A e \in Envs \cup {OldEnv} : Given(e.DATABASE_URL) => e.DATABASE_URL \in DOMAIN Urls

VARIABLES
  path,       \* "ci" or "manual"
  env,        \* the env file
  stage,      \* where the pipeline is
  prepared,   \* prepare_env.py has rewritten the file
  cluster,    \* what the applied environment makes of a process
  pc,         \* where each container is
  conf,       \* what the environment it started with makes of it
  call,       \* the create_all it is at
  todo,       \* the tables it has left to look for or create
  made,       \* those its open transaction created
  ready,      \* the answer of its last readiness probe
  fails,      \* failed runs of the Job
  tables,     \* the committed tables of each database
  down,       \* the database server is unreachable
  kills, outages,
  lost        \* the runs of the Job that a race or a kill has ended

pipeline == <<path, env, stage, prepared, cluster>>
containers == <<pc, conf, call, todo, made, ready, fails>>
faults == <<down, kills, outages, lost>>
vars == <<pipeline, containers, tables, faults>>

Apis == {"oldApi", "newApi"}
Workers == {"oldWorker", "newWorker"}
Pods == Apis \cup Workers \cup {"job"}

BillingTables == {"quotes", "payments"}
AllTables == BillingTables \cup {"processed_events"}
Migrated == AllTables \cup {"alembic_version"}
Migration == <<"alembic_version", "quotes", "payments", "processed_events">>

\* (Mutant: the worker asks for the billing tables twice.)
CallsForBilling(p) == <<BillingTables, BillingTables>>

\* The create_all calls a process makes before it serves.
Calls(p) ==
  IF p \in Apis THEN <<BillingTables, BillingTables>>
  ELSE <<BillingTables, {"processed_events"}>>

Databases == {<<Urls[u].host, Urls[u].db>> : u \in DOMAIN Urls}

File == IF prepared THEN Normalised(env) ELSE env

\* What becomes of the processes that start with an environment.
Effect(e) ==
  [api |-> ApiStarts(e), worker |-> WorkerStarts(e), job |-> JobStarts(e),
   real |-> Real(e), probe |-> ProbeSucceeds(e), hosts |-> HostIsTrusted(e),
   broker |-> BrokerIsReachable(e),
   host |-> Urls[e.DATABASE_URL].host, db |-> Urls[e.DATABASE_URL].db]

OldEffect == Effect(PodEnv(OldEnv))

Base(p) == <<conf[p].host, conf[p].db>>

InDatabase == {"check", "create", "commit"}
Halted == {"none", "crashed", "complete", "failed", "gone"}

\* A first deploy finds an empty database and no release; a later one a
\* database that create_all or an earlier Job filled.
Init ==
  /\ path \in {"ci", "manual"}
  /\ env \in Envs
  /\ stage = IF path = "manual" THEN "prepare" ELSE "render"
  /\ prepared = FALSE
  /\ \E found \in {{}, BillingTables, AllTables, Migrated} :
       LET running == IF found = {} THEN {}
                      ELSE IF found = BillingTables THEN {"oldApi"}
                      ELSE {"oldApi", "oldWorker"}
       IN  /\ pc = [p \in Pods |-> IF p \in running THEN "serving" ELSE "none"]
           /\ ready = [p \in Pods |-> p \in running \cap Apis]
           /\ tables = [b \in Databases |->
                          IF b = <<OldEffect.host, OldEffect.db>> THEN found ELSE {}]
  /\ cluster = OldEffect
  /\ conf = [p \in Pods |-> OldEffect]
  /\ call = [p \in Pods |-> 1]
  /\ todo = [p \in Pods |-> <<>>]
  /\ made = [p \in Pods |-> {}]
  /\ fails = 0
  /\ down = FALSE /\ kills = 0 /\ outages = 0
  /\ lost = [race |-> 0, kill |-> 0]

(***************************************************************************)
(* The pipeline.                                                           *)
(***************************************************************************)

\* prepare_env.py writes the file when every check has passed, or not at all.
Prepare ==
  /\ stage = "prepare"
  /\ prepared' = Accepts(env)
  /\ stage' = IF Accepts(env) THEN "render" ELSE "aborted"
  /\ UNCHANGED <<path, env, cluster, containers, tables, faults>>

Render ==
  /\ stage = "render"
  /\ stage' = IF Renders(File) THEN "apply" ELSE "aborted"
  /\ UNCHANGED <<path, env, prepared, cluster, containers, tables, faults>>

\* kubectl apply of the ConfigMap and the Secret: before the migration.
Apply ==
  /\ stage = "apply"
  /\ cluster' = Effect(PodEnv(File))
  /\ stage' = "startJob"
  /\ UNCHANGED <<path, env, prepared, containers, tables, faults>>

\* kubectl delete job, kubectl apply: the container starts.
Start(ps) ==
  /\ pc' = [p \in Pods |-> IF p \in ps THEN "boot" ELSE pc[p]]
  /\ conf' = [p \in Pods |-> IF p \in ps THEN cluster ELSE conf[p]]

StartJob ==
  /\ stage = "startJob"
  /\ stage' = "wait"
  /\ Start({"job"})
  /\ UNCHANGED <<path, env, prepared, cluster, call, todo, made, ready, fails, tables, faults>>

\* kubectl wait --for=condition=complete, then the Deployments.
JobCompletes ==
  /\ stage = "wait"
  /\ pc["job"] = "complete"
  /\ stage' = "rollout"
  /\ Start({"newApi"} \cup IF path = "ci" THEN {"newWorker"} ELSE {})
  /\ UNCHANGED <<path, env, prepared, cluster, call, todo, made, ready, fails, tables, faults>>

\* 300 seconds: enough for the retries of the Job while the database answers.
WaitTimesOut ==
  /\ stage = "wait"
  /\ pc["job"] = "failed" \/ down
  /\ stage' = "aborted"
  /\ UNCHANGED <<path, env, prepared, cluster, containers, tables, faults>>

\* A pod counts when its readiness probe succeeds, and without one, which is
\* the worker's case, while its container runs.
Available(p) == IF p \in Apis THEN ready[p] ELSE pc[p] \notin {"none", "crashed"}

\* kubectl rollout status: the new pods are available and the old ones gone.
\* The runbook's commands leave the worker alone.
Finish ==
  /\ stage = "rollout"
  /\ Available("newApi") /\ pc["oldApi"] \in {"none", "gone"}
  /\ path = "ci" => Available("newWorker") /\ pc["oldWorker"] \in {"none", "gone"}
  /\ stage' = "done"
  /\ UNCHANGED <<path, env, prepared, cluster, containers, tables, faults>>

\* 300 seconds again: not over while a new pod that can get ready is starting.
RolloutTimesOut ==
  /\ stage = "rollout"
  /\ ~ready["newApi"]
  /\ LET new == conf["newApi"] IN down \/ ~new.api \/ ~new.probe \/ ~new.hosts
  /\ stage' = "aborted"
  /\ UNCHANGED <<path, env, prepared, cluster, containers, tables, faults>>

Pipeline ==
  \/ Prepare \/ Render \/ Apply \/ StartJob \/ JobCompletes \/ WaitTimesOut
  \/ Finish \/ RolloutTimesOut

(***************************************************************************)
(* The containers.                                                         *)
(***************************************************************************)
Rest == <<pipeline, faults>>

Reaches(p) == ~down /\ Base(p)[1] # "placeholder"

\* The open transactions of the pods in ps are rolled back.
Crash(ps) ==
  /\ pc' = [p \in Pods |-> IF p \in ps THEN "crashed" ELSE pc[p]]
  /\ todo' = [p \in Pods |-> IF p \in ps THEN <<>> ELSE todo[p]]
  /\ made' = [p \in Pods |-> IF p \in ps THEN {} ELSE made[p]]
  /\ ready' = [p \in Pods |-> ready[p] /\ p \notin ps]
  /\ fails' = IF "job" \in ps THEN fails + 1 ELSE fails

Fails(p) == Crash({p}) /\ UNCHANGED <<conf, call, tables, Rest>>

\* After the last create_all: the API serves, the worker opens its connection.
Served(p) == IF p \in Apis THEN "serving" ELSE "connect"

\* What a process does before it touches the database.
Starts(p) ==
  IF p \in Apis THEN conf[p].api
  ELSE IF p \in Workers THEN conf[p].worker ELSE conf[p].job

Boot(p) ==
  /\ pc[p] = "boot"
  /\ Starts(p)
  /\ pc' = [pc EXCEPT ![p] = IF p = "job" \/ conf[p].real THEN "check" ELSE Served(p)]
  /\ call' = [call EXCEPT ![p] = 1]
  /\ todo' = [todo EXCEPT ![p] = IF p = "job" THEN Migration ELSE <<>>]
  /\ UNCHANGED <<conf, made, ready, fails, tables, Rest>>

RefusesToStart(p) ==
  /\ pc[p] = "boot"
  /\ ~Starts(p)
  /\ Fails(p)

NextCall(p) ==
  /\ pc' = [pc EXCEPT ![p] = IF call[p] < Len(Calls(p)) THEN "check" ELSE Served(p)]
  /\ call' = [call EXCEPT ![p] = @ + 1]

\* create_all looks for every table before it creates the first one, and
\* creates them in the order of their declaration.
DeclaredOrders(ts) == SetToSeqs(ts) \ {<<"payments", "quotes">>}

LookForTables(p) ==
  /\ pc[p] = "check" /\ p # "job"
  /\ Reaches(p)
  /\ LET missing == Calls(p)[call[p]] \ tables[Base(p)] IN
       IF missing = {} THEN NextCall(p) /\ UNCHANGED todo
       ELSE /\ \E order \in DeclaredOrders(missing) : todo' = [todo EXCEPT ![p] = order]
            /\ pc' = [pc EXCEPT ![p] = "create"]
            /\ UNCHANGED call
  /\ UNCHANGED <<conf, made, ready, fails, tables, Rest>>

Found(p) == Head(todo[p]) \in tables[Base(p)]

\* (Mutant: the migration does not ask has_table.)
CreatesEveryTable ==
  /\ pc["job"] = "check"
  /\ Reaches("job")
  /\ IF Head(todo["job"]) = "alembic_version" /\ Found("job")
     THEN pc' = [pc EXCEPT !["job"] = "complete"]
     ELSE pc' = [pc EXCEPT !["job"] = "create"]
  /\ UNCHANGED <<conf, call, todo, made, ready, fails, tables, Rest>>

\* alembic: at the head there is nothing to do; else the version table, then
\* each table of the migration that the database does not have.
MigrationStep ==
  /\ pc["job"] = "check"
  /\ Reaches("job")
  /\ IF ~Found("job") THEN pc' = [pc EXCEPT !["job"] = "create"] /\ UNCHANGED todo
     ELSE /\ todo' = [todo EXCEPT !["job"] = Tail(@)]
          /\ pc' = [pc EXCEPT !["job"] =
                      IF Head(todo["job"]) = "alembic_version" THEN "complete"
                      ELSE IF Len(todo["job"]) = 1 THEN "commit" ELSE @]
  /\ UNCHANGED <<conf, call, made, ready, fails, tables, Rest>>

WaitsFor(p, q) ==
  /\ p # q /\ pc[p] = "create"
  /\ Base(p) = Base(q)
  /\ Head(todo[p]) \in made[q]

\* (Mutant: alembic without transactional DDL.)
CreatesAtOnce(p) ==
  /\ pc[p] = "create"
  /\ Reaches(p) /\ ~Found(p)
  /\ \A q \in Pods : ~WaitsFor(p, q)
  /\ tables' = [tables EXCEPT ![Base(p)] = @ \cup {Head(todo[p])}]
  /\ todo' = [todo EXCEPT ![p] = Tail(@)]
  /\ pc' = [pc EXCEPT ![p] = IF Len(todo[p]) = 1 THEN "commit"
                             ELSE IF p = "job" THEN "check" ELSE @]
  /\ UNCHANGED <<conf, call, made, ready, fails, Rest>>

Create(p) ==
  /\ pc[p] = "create"
  /\ Reaches(p) /\ ~Found(p)
  /\ \A q \in Pods : ~WaitsFor(p, q)
  /\ made' = [made EXCEPT ![p] = @ \cup {Head(todo[p])}]
  /\ todo' = [todo EXCEPT ![p] = Tail(@)]
  /\ pc' = [pc EXCEPT ![p] = IF Len(todo[p]) = 1 THEN "commit"
                             ELSE IF p = "job" THEN "check" ELSE @]
  /\ UNCHANGED <<conf, call, ready, fails, tables, Rest>>

\* Another process has committed the table since this one looked.
LosesTheRace(p) ==
  /\ pc[p] = "create"
  /\ Reaches(p) /\ Found(p)
  /\ Crash({p})
  /\ lost' = IF p = "job" THEN [lost EXCEPT !.race = @ + 1] ELSE lost
  /\ UNCHANGED <<conf, call, tables, pipeline, down, kills, outages>>

Commit(p) ==
  /\ pc[p] = "commit"
  /\ Reaches(p)
  /\ tables' = [tables EXCEPT ![Base(p)] = @ \cup made[p]]
  /\ made' = [made EXCEPT ![p] = {}]
  /\ IF p = "job" THEN pc' = [pc EXCEPT ![p] = "complete"] /\ UNCHANGED call
     ELSE NextCall(p)
  /\ UNCHANGED <<conf, todo, ready, fails, Rest>>

CannotReachDatabase(p) ==
  /\ pc[p] \in InDatabase
  /\ ~Reaches(p)
  /\ Fails(p)

Connect(p) ==
  /\ pc[p] = "connect"
  /\ conf[p].broker
  /\ pc' = [pc EXCEPT ![p] = "serving"]
  /\ UNCHANGED <<conf, call, todo, made, ready, fails, tables, Rest>>

CannotReachBroker(p) ==
  /\ pc[p] = "connect"
  /\ ~conf[p].broker
  /\ Fails(p)

\* GET /health/ready, by the address of the pod.
Probe(p) ==
  /\ p \in Apis /\ pc[p] = "serving"
  /\ ready' = [ready EXCEPT ![p] =
                  conf[p].hosts /\ conf[p].probe /\ (conf[p].real => ~down)]
  /\ UNCHANGED <<pc, conf, call, todo, made, fails, tables, Rest>>

\* GET /health/live, by the address too: only a host that is not trusted makes
\* it fail, and the kubelet then kills the container.
LivenessFails(p) ==
  /\ p \in Apis /\ pc[p] = "serving"
  /\ ~conf[p].hosts
  /\ Fails(p)

\* The kubelet starts a container again, at once or after a back-off, with the
\* environment of the moment; the Job gives up instead when its runs are used
\* up.
Restart(p) ==
  /\ pc[p] = "crashed"
  /\ IF p = "job" /\ fails >= BackoffLimit
     THEN pc' = [pc EXCEPT ![p] = "failed"] /\ UNCHANGED conf
     ELSE Start({p})
  /\ UNCHANGED <<call, todo, made, ready, fails, tables, Rest>>

\* A Deployment takes an old pod away once the one in its place is available,
\* whatever the pipeline is at.
Replace(old, new) ==
  /\ pc[old] \notin {"none", "gone"}
  /\ Available(new)
  /\ pc' = [pc EXCEPT ![old] = "gone"]
  /\ todo' = [todo EXCEPT ![old] = <<>>]
  /\ made' = [made EXCEPT ![old] = {}]
  /\ ready' = [ready EXCEPT ![old] = FALSE]
  /\ UNCHANGED <<conf, call, fails, tables, Rest>>

ReplaceOld == Replace("oldApi", "newApi") \/ Replace("oldWorker", "newWorker")

Step(p) ==
  \/ Boot(p) \/ RefusesToStart(p) \/ LookForTables(p) \/ (p = "job" /\ MigrationStep)
  \/ Create(p) \/ LosesTheRace(p) \/ Commit(p) \/ CannotReachDatabase(p)
  \/ Connect(p) \/ CannotReachBroker(p)

Kill(p) ==
  /\ pc[p] \notin Halted
  /\ kills + outages < MaxFaults /\ env \in FaultyEnvs
  /\ kills' = kills + 1
  /\ lost' = IF p = "job" THEN [lost EXCEPT !.kill = @ + 1] ELSE lost
  /\ Crash({p})
  /\ UNCHANGED <<pipeline, conf, call, tables, down, outages>>

\* Every connection with an open transaction breaks.
GoDown ==
  /\ ~down
  /\ kills + outages < MaxFaults /\ env \in FaultyEnvs
  /\ down' = TRUE
  /\ outages' = outages + 1
  /\ Crash({p \in Pods : pc[p] \in InDatabase})
  /\ UNCHANGED <<pipeline, conf, call, tables, kills, lost>>

Recover ==
  /\ down
  /\ down' = FALSE
  /\ UNCHANGED <<pipeline, containers, tables, kills, outages, lost>>

Next ==
  \/ Pipeline
  \/ \E p \in Pods : Step(p) \/ Probe(p) \/ LivenessFails(p) \/ Restart(p) \/ Kill(p)
  \/ ReplaceOld \/ GoDown \/ Recover

\* The pipeline's commands return, the Deployments replace their pods, the
\* kubelet restarts and probes what it runs, a process in its constructor goes
\* on, and the database comes back.
Fairness ==
  /\ WF_vars(Pipeline)
  /\ WF_vars(ReplaceOld)
  /\ WF_vars(Recover)
  /\ \A p \in Pods : WF_vars(Step(p) \/ Restart(p) \/ Probe(p) \/ LivenessFails(p))

Spec == Init /\ [][Next]_vars /\ Fairness

TypeOK ==
  /\ stage \in {"prepare", "render", "apply", "startJob", "wait", "rollout", "done", "aborted"}
  /\ prepared \in BOOLEAN
  /\ pc \in [Pods -> InDatabase \cup Halted \cup {"boot", "connect", "serving"}]
  /\ \A p \in Pods : conf[p] \in {OldEffect, cluster}
  /\ \A p \in Pods : todo[p] \in Seq(Migrated) /\ made[p] \subseteq Migrated
  /\ ready \in [Pods -> BOOLEAN]
  /\ fails \in 0..BackoffLimit
  /\ tables \in [Databases -> SUBSET Migrated]
  /\ down \in BOOLEAN

(***************************************************************************)
(* The database.                                                           *)
(***************************************************************************)

\* A process that answers requests or consumes messages has every table its
\* repositories use, committed, however its create_all calls interleaved with
\* the other pods' and the Job's (the constructors' create_all).
Needed(p) == IF p \in Apis THEN BillingTables ELSE AllTables

ServesItsSchema ==
  \A p \in Pods : pc[p] = "serving" /\ conf[p].real => Needed(p) \subseteq tables[Base(p)]

\* The version row is only there with the whole schema: a run that loses a
\* race leaves nothing that makes the next run skip a table (001_initial_schema).
VersionMeansTables ==
  \A b \in Databases : "alembic_version" \in tables[b] => AllTables \subseteq tables[b]

\* The pods of the new release never start on a database the migration has
\* not finished with (kubectl wait before the Deployments).
MigratedBeforeRelease ==
  pc["newApi"] # "none" => tables[Base("newApi")] = Migrated

\* However often old pods restart next to the Job, races for tables end at
\* most two of its runs: the one in which create_all commits quotes and
\* payments, which it does together, and the one in which processed_events
\* comes.  A third run finds every table (backoffLimit: 3).
RacesDoNotFailTheJob == lost.race =< 2

\* No database but the running release's and the expected one gets a table
\* (which the pipeline does not keep: it never runs prepare_env.py).
OnlyExpectedDatabases ==
  env.EXPECTED_DATABASE_NAME # "" =>
    \A b \in Databases \ {<<OldEffect.host, OldEffect.db>>} :
      b[2] # Get(env.EXPECTED_DATABASE_NAME, OwnDatabase) => tables[b] = {}

\* The URL check of prepare_env.py keeps the migration, which checks nothing,
\* and the worker off any database but the expected one, where it is run.
ForeignDatabaseUntouched == path = "manual" => OnlyExpectedDatabases

(***************************************************************************)
(* The env file.                                                           *)
(***************************************************************************)

\* prepare_env.py accepts the file it has written, and leaves it alone.
PrepareSettles ==
  prepared /\ stage = "render" => Accepts(File) /\ Normalised(File) = File

\* A file that prepare_env.py accepted and the render script rendered starts
\* the API, but for the keys it does not look at or lets be empty.
Unchecked ==
  \/ env.APP_RUNTIME_MODE \notin {Missing, "", "memory", "real"}
  \/ env.PAYMENT_PROVIDER_MODE \notin {Missing, "", "mock", "mercado_pago"}
  \/ env.PAYMENT_PROVIDER_MODE = "mercado_pago" /\ ~RealToken(PodEnv(env))
  \/ ~TokenIsReadable(env)
  \/ ~KnownLevel(Spelled(env.LOG_LEVEL))
  \/ env.OTEL_ENABLED \notin {Missing, "", "true", "false", "TRUE"}
  \/ env.APP_RUNTIME_MODE = "real" /\ ~HasSyncDriver(Urls[env.DATABASE_URL])
  \/ "" \in {env.EXPECTED_DATABASE_NAME, env.EXPECTED_DATABASE_USERNAME}

PreparedStarts ==
  prepared /\ stage = "apply" /\ ~Unchecked => ApiStarts(PodEnv(File))

(***************************************************************************)
(* Progress.                                                               *)
(***************************************************************************)
Works(e) ==
  e.api /\ e.worker /\ e.job /\ e.probe /\ e.hosts /\ e.broker /\ e.host # "placeholder"

\* A deploy of an environment that every process takes ends with the new
\* release in the place of the old, whatever pods are killed on the way and
\* whatever races for tables they lose to whom: unless the Job itself is
\* killed or the database goes down, which may outlast the pipeline.
GoodEnvRollsOut ==
  stage = "startJob" /\ Works(cluster)
    ~> stage = "done" \/ outages > 0 \/ lost.kill > 0

\* The runbook has the API use a URL with ?ssl=require: a pod of the release
\* that serves under it gets ready while the database is up.
RunbookUrlGetsReady ==
  Urls[env.DATABASE_URL].ssl = "ssl" /\ pc["newApi"] = "serving"
    ~> ready["newApi"] \/ down \/ pc["newApi"] # "serving"
=============================================================================
