------------------------------ MODULE MCRollout ------------------------------
(***************************************************************************)
(* Env files near the runbook's: the base file, that file with one key     *)
(* changed, and with two keys changed that are read together.              *)
(***************************************************************************)
EXTENDS Rollout, TLC

MCUrls ==
  LET url == [scheme |-> "postgresql+asyncpg", host |-> "db-1", user |-> OwnUser,
              db |-> OwnDatabase, ssl |-> "none", percent |-> FALSE]
  IN  "own" :> url
   @@ "moved" :> [url EXCEPT !.host = "db-2"]
   @@ "ssl" :> [url EXCEPT !.ssl = "ssl"]
   @@ "sslmode" :> [url EXCEPT !.ssl = "sslmode"]
   @@ "percent" :> [url EXCEPT !.percent = TRUE]
   @@ "sync" :> [url EXCEPT !.scheme = "postgresql"]
   @@ "psycopg" :> [url EXCEPT !.scheme = "postgresql+psycopg"]
   @@ "placeholder" :> [url EXCEPT !.host = "placeholder"]
   @@ "foreign" :> [url EXCEPT !.db = "os_service_db"]
   @@ "stranger" :> [url EXCEPT !.user = "os_service_user"]

BaseEnv ==
  [k \in Keys |->
     CASE k = "APP_NAME" -> "billing"
       [] k = "ENVIRONMENT" -> "production"
       [] k = "APP_RUNTIME_MODE" -> "real"
       [] k = "LOG_LEVEL" -> "INFO"
       [] k = "LOG_JSON" -> "true"
       [] k = "EMAIL_PROVIDER" -> "NOOP"
       [] k = "SMTP_PORT" -> "587"
       [] k = "SMTP_USE_TLS" -> "false"
       [] k = "HEALTHCHECK_TIMEOUT_SECONDS" -> "5"
       [] k = "DATABASE_URL" -> "own"
       [] k = "EXPECTED_DATABASE_NAME" -> OwnDatabase
       [] k = "EXPECTED_DATABASE_USERNAME" -> OwnUser
       [] k = "APP_BASE_URL" -> "absolute"
       [] k = "TRUSTED_HOSTS" -> "[*]"
       [] k = "APPROVAL_TOKEN_SECRET" -> "s1"
       [] k = "JWT_SECRET" -> "s2"
       [] k = "CUSTOMER_JWT_SECRET" -> "s3"
       [] k = "RABBITMQ_URL" -> "amqp"
       [] k = "PAYMENT_PROVIDER_MODE" -> "mercado_pago"
       [] k = "MERCADO_PAGO_ACCESS_TOKEN" -> "token"
       [] OTHER -> ""]

ValuesOf(k) ==
  {"", Missing} \cup
  CASE k = "ENVIRONMENT" -> {"Production", "prod"}
    [] k = "APP_RUNTIME_MODE" -> {"memory", "production"}
    [] k = "LOG_LEVEL" -> {"info", "verbose"}
    [] k \in {"LOG_JSON", "SMTP_USE_TLS", "OTEL_ENABLED"} -> {"TRUE", "maybe"}
    [] k = "EMAIL_PROVIDER" -> {"noop", "ses"}
    [] k \in {"SMTP_PORT", "HEALTHCHECK_TIMEOUT_SECONDS"} -> {"05", "0", "-1", "many"}
    [] k = "DATABASE_URL" -> DOMAIN MCUrls
    [] k = "EXPECTED_DATABASE_NAME" -> {"os_service_db"}
    [] k = "EXPECTED_DATABASE_USERNAME" -> {"os_service_user"}
    [] k = "APP_BASE_URL" -> {"relative"}
    [] k = "TRUSTED_HOSTS" -> {"*", "hosts", "blank", "broken"}
    [] k \in {"APPROVAL_TOKEN_SECRET_FILE", "JWT_SECRET_FILE", "CUSTOMER_JWT_SECRET_FILE",
              "MERCADO_PAGO_ACCESS_TOKEN_FILE"} -> {"/run/secrets/it"}
    [] k = "PAYMENT_PROVIDER_MODE" -> {"mock", "paypal"}
    [] k = "MERCADO_PAGO_ACCESS_TOKEN" -> {"local-demo-token"}
    [] OTHER -> {}

Together ==
  {<<"DATABASE_URL", "EXPECTED_DATABASE_NAME">>,
   <<"DATABASE_URL", "EXPECTED_DATABASE_USERNAME">>,
   <<"DATABASE_URL", "APP_RUNTIME_MODE">>,
   <<"PAYMENT_PROVIDER_MODE", "MERCADO_PAGO_ACCESS_TOKEN">>,
   <<"MERCADO_PAGO_ACCESS_TOKEN", "MERCADO_PAGO_ACCESS_TOKEN_FILE">>,
   <<"APPROVAL_TOKEN_SECRET", "APPROVAL_TOKEN_SECRET_FILE">>,
   <<"JWT_SECRET", "JWT_SECRET_FILE">>}

Changed(e, k) == {[e EXCEPT ![k] = v] : v \in ValuesOf(k)}

MCEnvs ==
  {BaseEnv}
  \cup UNION {Changed(BaseEnv, k) : k \in Keys}
  \cup UNION {UNION {Changed(e, pair[2]) : e \in Changed(BaseEnv, pair[1])} : pair \in Together}

MCFaultyEnvs == {BaseEnv, [BaseEnv EXCEPT !.DATABASE_URL = "moved"]}

\* The runbook's URL.
MCSslEnvs == {[BaseEnv EXCEPT !.DATABASE_URL = "ssl"]}
=============================================================================
