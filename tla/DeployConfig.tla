---------------------------- MODULE DeployConfig ----------------------------
(***************************************************************************)
(* What becomes of an env file on its way to a process: prepare_env.py     *)
(* refuses or normalises it, render_k8s_manifests.py splits it into a      *)
(* ConfigMap and a Secret, and the entrypoint, Settings, alembic/env.py    *)
(* and the builders of runtime.py start on it or refuse it.                *)
(*                                                                         *)
(* A file gives each key a value, "" or Missing.  Where the text matters   *)
(* it has a name: Urls gives the parts of a DATABASE_URL, and a list is    *)
(* "*" (it has that item), "hosts" (it has not), "[*]" and "[hosts]" (the  *)
(* same in the canonical form), "blank" (no items) or "broken" (JSON that  *)
(* does not parse).  APP_NAME stands for the required texts that nothing   *)
(* else reads, SMTP_PORT and SMTP_USE_TLS for the optional integers and    *)
(* booleans, HEALTHCHECK_TIMEOUT_SECONDS for the integers without a        *)
(* default, TRUSTED_HOSTS for both lists, OTEL_ENABLED for the typed       *)
(* settings that prepare_env.py does not know.                             *)
(***************************************************************************)
EXTENDS Naturals

CONSTANTS
  Missing,
  Urls   \* [scheme, host, user, db, ssl, percent] of each database URL

Keys == {"APP_NAME", "ENVIRONMENT", "APP_RUNTIME_MODE", "LOG_LEVEL", "LOG_JSON",
         "EMAIL_PROVIDER", "SMTP_PORT", "SMTP_USE_TLS", "HEALTHCHECK_TIMEOUT_SECONDS",
         "DATABASE_URL", "EXPECTED_DATABASE_NAME", "EXPECTED_DATABASE_USERNAME",
         "APP_BASE_URL", "TRUSTED_HOSTS", "APPROVAL_TOKEN_SECRET",
         "APPROVAL_TOKEN_SECRET_FILE", "JWT_SECRET", "JWT_SECRET_FILE",
         "CUSTOMER_JWT_SECRET", "CUSTOMER_JWT_SECRET_FILE", "RABBITMQ_URL",
         "PAYMENT_PROVIDER_MODE", "MERCADO_PAGO_ACCESS_TOKEN",
         "MERCADO_PAGO_ACCESS_TOKEN_FILE", "OTEL_ENABLED"}

OwnDatabase == "billing_service_db"
OwnUser == "billing_service_user"

\* No text is Missing: none of those that are read below, at least.
ASSUME MissingAssumption ==
  Missing \notin {"", OwnDatabase, OwnUser, "production", "true", "INFO", "VERBOSE", "NOOP", "5",
                  "[*]", "[hosts]", "hosts", "many", "broken", "real", "mercado_pago"}

Given(v) == v \notin {Missing, ""}
Get(v, default) == IF v = Missing THEN default ELSE v
FirstGiven(v, default) == IF Given(v) THEN v ELSE default

Booleans == {"true", "false"}
Environments == {"development", "test", "staging", "production"}

(***************************************************************************)
(* prepare_env.py.                                                         *)
(***************************************************************************)

\* The keys it rewrites, and how it spells their values.
Rewritten == {"ENVIRONMENT", "LOG_LEVEL", "LOG_JSON", "EMAIL_PROVIDER", "SMTP_PORT",
              "SMTP_USE_TLS", "HEALTHCHECK_TIMEOUT_SECONDS", "TRUSTED_HOSTS"}

\* (Mutant: str() in the place of json.dumps.)
SpelledByStr(v) == IF v \in {"*", "hosts"} THEN "broken" ELSE v

Spelled(v) ==
  CASE v = "Production" -> "production"
    [] v = "TRUE" -> "true"
    [] v = "info" -> "INFO"
    [] v = "verbose" -> "VERBOSE"
    [] v = "noop" -> "NOOP"
    [] v = "05" -> "5"
    [] v = "*" -> "[*]"
    [] v = "hosts" -> "[hosts]"
    [] OTHER -> v

DefaultOf == [EMAIL_PROVIDER |-> "SMTP", SMTP_USE_TLS |-> "false", SMTP_PORT |-> "587"]

RequiredText == {"APP_NAME", "ENVIRONMENT", "LOG_LEVEL", "LOG_JSON", "DATABASE_URL",
                 "APP_BASE_URL", "TRUSTED_HOSTS"}

\* validate_runtime_database_url: an expectation that is empty is not checked.
ValidUrl(url, database, user) ==
  /\ url.host \notin {"", "placeholder"}
  /\ url.user # "" /\ url.db # ""
  /\ Given(database) => url.db = database
  /\ Given(user) => url.user = user

ExpectedUrl(e) ==
  ValidUrl(Urls[e.DATABASE_URL], Get(e.EXPECTED_DATABASE_NAME, OwnDatabase),
           Get(e.EXPECTED_DATABASE_USERNAME, OwnUser))

\* (Mutant: the URL is not compared with what the service expects.)
AcceptsAnyDatabase(e) ==
  /\ \A k \in RequiredText : Given(e[k])
  /\ Spelled(e.ENVIRONMENT) \in Environments
  /\ Urls[e.DATABASE_URL].scheme \in {"postgresql", "postgresql+asyncpg"}
  /\ Given(e.APPROVAL_TOKEN_SECRET) /\ Given(e.JWT_SECRET) /\ Given(e.CUSTOMER_JWT_SECRET)

Accepts(e) ==
  /\ \A k \in RequiredText : Given(e[k])
  /\ Spelled(e.ENVIRONMENT) \in Environments
  /\ Spelled(FirstGiven(e.EMAIL_PROVIDER, "SMTP")) \in {"SMTP", "NOOP"}
  /\ Spelled(e.LOG_JSON) \in Booleans
  /\ Spelled(FirstGiven(e.SMTP_USE_TLS, "false")) \in Booleans
  /\ \A k \in {"SMTP_PORT", "HEALTHCHECK_TIMEOUT_SECONDS"} :
       FirstGiven(e[k], "5") \notin {"0", "-1", "many"}
  /\ Urls[e.DATABASE_URL].scheme \in {"postgresql", "postgresql+asyncpg"}
  /\ ExpectedUrl(e)
  /\ e.APP_BASE_URL # "relative"
  /\ e.TRUSTED_HOSTS \notin {"blank", "broken"}
  /\ Given(e.APPROVAL_TOKEN_SECRET) \/ Given(e.APPROVAL_TOKEN_SECRET_FILE)
  /\ Given(e.JWT_SECRET) \/ Given(e.JWT_SECRET_FILE)
  /\ Given(e.CUSTOMER_JWT_SECRET) \/ Given(e.CUSTOMER_JWT_SECRET_FILE)

\* (Mutant: the checked value of ENVIRONMENT is not written back.)
KeepsEnvironment(e) ==
  [k \in Keys |->
     IF k \notin Rewritten \ {"ENVIRONMENT"} \/ e[k] = Missing THEN e[k]
     ELSE Spelled(IF e[k] = "" /\ k \in DOMAIN DefaultOf THEN DefaultOf[k] ELSE e[k])]

\* rewrite_env_file writes the lines the file had: a key it lacks is not added.
Normalised(e) ==
  [k \in Keys |->
     IF k \notin Rewritten \/ e[k] = Missing THEN e[k]
     ELSE Spelled(IF e[k] = "" /\ k \in DOMAIN DefaultOf THEN DefaultOf[k] ELSE e[k])]

(***************************************************************************)
(* render_k8s_manifests.py: the environment a container gets.  Empty       *)
(* values are left out of the ConfigMap and of the Secret.                 *)
(***************************************************************************)
RequiredSecrets == {"APPROVAL_TOKEN_SECRET", "DATABASE_URL", "JWT_SECRET", "CUSTOMER_JWT_SECRET"}

Renders(e) == \A k \in RequiredSecrets : Given(e[k])

PodEnv(e) ==
  [k \in Keys |->
     IF k = "EMAIL_PROVIDER" THEN FirstGiven(Get(e[k], "NOOP"), Missing)
     ELSE FirstGiven(e[k], Missing)]

(***************************************************************************)
(* Settings, on the environment of a container.                            *)
(***************************************************************************)
Real(pod) == pod.APP_RUNTIME_MODE = "real"

RealToken(pod) == pod.MERCADO_PAGO_ACCESS_TOKEN \notin {Missing, "local-demo-token"}

\* The path is one of the machine the file was written on: a pod mounts nothing.
TokenIsReadable(pod) ==
  Given(pod.MERCADO_PAGO_ACCESS_TOKEN) \/ ~Given(pod.MERCADO_PAGO_ACCESS_TOKEN_FILE)

SettingsAccept(pod) ==
  /\ pod.ENVIRONMENT \in Environments \cup {Missing}
  /\ pod.APP_RUNTIME_MODE \in {"memory", "real", Missing}
  /\ \A k \in {"LOG_JSON", "OTEL_ENABLED"} : pod[k] \in Booleans \cup {"TRUE", Missing}
  /\ pod.HEALTHCHECK_TIMEOUT_SECONDS # "many"
  /\ pod.TRUSTED_HOSTS # "broken"
  /\ pod.PAYMENT_PROVIDER_MODE \in {"mock", "mercado_pago", Missing}
  /\ TokenIsReadable(pod)
  /\ pod.PAYMENT_PROVIDER_MODE = "mercado_pago" => RealToken(pod)

(***************************************************************************)
(* What each process checks before it reaches the database or the broker.  *)
(***************************************************************************)

\* normalize_sync_database_url leaves postgresql:// to a driver that is not
\* installed and postgres:// to a dialect that does not exist.
HasSyncDriver(url) == url.scheme \in {"postgresql+asyncpg", "postgresql+psycopg"}

\* setLevel raises on a name that logging does not know, in any case: LOG_LEVEL
\* is upper-cased and nothing else before that.  The worker never gets there.
KnownLevel(v) == v \in {"INFO", "info", Missing}

\* The entrypoint checks the URL whatever the runtime mode.
ApiStarts(pod) ==
  /\ ExpectedUrl(pod)
  /\ SettingsAccept(pod)
  /\ KnownLevel(pod.LOG_LEVEL)
  /\ Real(pod) => HasSyncDriver(Urls[pod.DATABASE_URL])

\* The manifest replaces the entrypoint: nothing checks the worker's URL.
WorkerStarts(pod) ==
  /\ SettingsAccept(pod)
  /\ Real(pod) => HasSyncDriver(Urls[pod.DATABASE_URL])

\* Alembic reads DATABASE_URL alone, and set_main_option takes a percent sign
\* for an interpolation.
JobStarts(pod) ==
  /\ HasSyncDriver(Urls[pod.DATABASE_URL])
  /\ ~Urls[pod.DATABASE_URL].percent

\* DatabaseReadinessProbe.check with the database up.  Its URL keeps ?ssl=...,
\* which psycopg refuses.
ProbeSucceeds(pod) ==
  Real(pod) =>
    /\ Urls[pod.DATABASE_URL].ssl # "ssl"
    /\ Urls[pod.DATABASE_URL].db = Get(pod.EXPECTED_DATABASE_NAME, OwnDatabase)
    /\ Urls[pod.DATABASE_URL].user = Get(pod.EXPECTED_DATABASE_USERNAME, OwnUser)

\* TrustedHostMiddleware answers 400 to any other host, the health routes
\* included, and the kubelet calls a pod by its address.
HostIsTrusted(pod) == pod.TRUSTED_HOSTS \notin {"hosts", "[hosts]"}

\* BlockingConnection: the default URL names the pod itself.
BrokerIsReachable(pod) == Given(pod.RABBITMQ_URL)
=============================================================================
