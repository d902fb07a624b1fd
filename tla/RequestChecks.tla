--------------------------- MODULE RequestChecks ---------------------------
(***************************************************************************)
(* The checks a request passes before it changes a payment: the token in   *)
(* get_current_principal and require_admin_principal, and what the payment *)
(* provider answered in MercadoPagoSdkClient and the checkout adapter,     *)
(* with the HTTP status each refusal becomes.  One request runs at a time; *)
(* BillingApi has their interleavings.                                     *)
(*                                                                         *)
(* A token is what decoding it depends on: the secret that signed it, its  *)
(* issuer, whether it is still valid, and which of its claims are there.   *)
(* A provider payment is how it compares with the billing payment.         *)
(***************************************************************************)
EXTENDS BillingDomain, FiniteSets

CONSTANTS
  Settings,  \* [secret, customerSecret, issuer, customerIssuer]; "" is unset
  Tokens,    \* the Authorization headers clients send
  Results,   \* what a call of the SDK can give
  Nothing    \* the token and the result of a request that has none

VARIABLES
  settings,  \* of the process
  pc,        \* "idle", "judged" or "handled"
  token,     \* of the request
  result,    \* the SDK's last result
  request,   \* "none", "approve" or "sync"
  payment,   \* the stored payment's status
  before,    \* what it was when the request came
  code       \* the HTTP status of the answer, 0 while there is none

vars == <<settings, pc, token, result, request, payment, before, code>>
-----------------------------------------------------------------------------
(* presentation/dependencies/auth.py.                                      *)

Decodes(tok, secret, issuer) ==
  tok.signedWith = secret /\ tok.iss = issuer /\ tok.current

IsCustomer(tok) ==
  /\ settings.customerSecret # ""
  /\ Decodes(tok, settings.customerSecret, settings.customerIssuer)
  /\ tok.role = "customer"
  /\ tok.sub /\ tok.customerId

\* (Mutant: the role is not looked at.)
AnyRoleIsAdmin(tok) ==
  /\ Decodes(tok, settings.secret, settings.issuer)
  /\ tok.userId \/ tok.sub

IsAdmin(tok) ==
  /\ Decodes(tok, settings.secret, settings.issuer)
  /\ tok.role = "admin"
  /\ tok.userId \/ tok.sub

\* A token that is a customer's is not tried as an admin's.
Verdict(tok) ==
  IF tok.scheme # "bearer" THEN 401
  ELSE IF IsCustomer(tok) THEN 403
  ELSE IF IsAdmin(tok) THEN 0
  ELSE 403
-----------------------------------------------------------------------------
(* MercadoPagoSdkClient._execute: a result is an exception, with a status  *)
(* of its own or without, or what the SDK returned.                        *)

NoCode == 0

ExecuteCode(res) ==
  IF res.kind = "raises" THEN (IF res.status = NoCode THEN 502 ELSE res.status)
  ELSE IF res.kind # "returns" THEN 502
  ELSE IF res.status >= 400 THEN res.status
  ELSE IF res.body.shape = "dict" THEN 0
  ELSE 502

(* MercadoPagoCheckoutAdapter.                                             *)

\* create_checkout_preference: the ValueErrors are the route's 400, and any
\* PaymentGatewayError its 502.
ApproveCode(res) ==
  IF ExecuteCode(res) # 0 THEN 502
  ELSE IF ~res.body.id \/ ~res.body.url THEN 400
  ELSE 200

\* get_payment_status: results are the provider payments it searched for,
\* hits those that carry the payment's external reference.  An amount is the
\* billing one ("same"), "other", "missing", or "odd", which is no number:
\* Decimal raises what no route catches.
Uncaught == 500

Hits(list) == {i \in DOMAIN list : list[i].reference}
TheHit(list) == list[CHOOSE i \in Hits(list) : TRUE]

\* (Mutant: of several hits one is taken.)
TakesNewest(res) ==
  LET hits == Hits(res.body.results)
      hit == TheHit(res.body.results)
  IN  IF ExecuteCode(res) # 0 THEN ExecuteCode(res)
      ELSE IF ~res.body.isList THEN 502
      ELSE IF hits = {} THEN 404
      ELSE IF hit.amount = "odd" THEN Uncaught
      ELSE IF hit.amount # "same" \/ ~hit.currency THEN 409
      ELSE IF ~hit.id \/ hit.status = "" THEN 502
      ELSE 0

SearchCode(res) ==
  LET hits == Hits(res.body.results)
      hit == TheHit(res.body.results)
  IN  IF ExecuteCode(res) # 0 THEN ExecuteCode(res)
      ELSE IF ~res.body.isList THEN 502
      ELSE IF hits = {} THEN 404
      ELSE IF Cardinality(hits) > 1 THEN 409
      ELSE IF hit.amount = "odd" THEN Uncaught
      ELSE IF hit.amount # "same" \/ ~hit.currency THEN 409
      ELSE IF ~hit.id \/ hit.status = "" THEN 502
      ELSE 0
-----------------------------------------------------------------------------
\* A request comes, with or without a token.
Authenticate(req, tok) ==
  /\ pc = "idle"
  /\ pc' = "judged"
  /\ request' = req
  /\ token' = tok
  /\ code' = Verdict(tok)
  /\ before' = payment
  /\ UNCHANGED <<settings, result, payment>>

\* (Mutant: the payment is saved before the provider is asked.)
SavesFirst(res) ==
  /\ pc = "judged" /\ code = 0 /\ request = "approve"
  /\ pc' = "handled"
  /\ result' = res
  /\ code' = IF payment = Absent THEN ApproveCode(res) ELSE 400
  /\ payment' = IF payment = Absent THEN "PENDING" ELSE payment
  /\ token' = Nothing
  /\ UNCHANGED <<settings, request, before>>

\* The routes, once the token is admitted.  approve creates the payment with
\* the provider's preference; a quote that has one is approved already.
Approve(res) ==
  /\ pc = "judged" /\ code = 0 /\ request = "approve"
  /\ pc' = "handled"
  /\ IF payment = Absent
     THEN /\ result' = res
          /\ code' = ApproveCode(res)
          /\ payment' = IF ApproveCode(res) = 200 THEN "PENDING" ELSE payment
     ELSE /\ code' = 400
          /\ UNCHANGED <<result, payment>>
  /\ token' = Nothing
  /\ UNCHANGED <<settings, request, before>>

\* sync applies the provider's status.  A stored payment has its reference,
\* so the adapter's 422 is out of reach.
Apply(status) ==
  LET action == ApplyAction(status, payment)
  IN  IF action = "refused" THEN code' = 400 /\ UNCHANGED payment
      ELSE code' = 200 /\ payment' = StatusAfter(action, payment)

Sync(res) ==
  /\ pc = "judged" /\ code = 0 /\ request = "sync"
  /\ pc' = "handled"
  /\ \/ /\ payment = Absent
        /\ code' = 404
        /\ UNCHANGED <<payment, result>>
     \/ /\ payment # Absent
        /\ result' = res
        /\ IF SearchCode(res) = 0 THEN Apply(TheHit(res.body.results).status)
           ELSE code' = SearchCode(res) /\ UNCHANGED payment
  /\ token' = Nothing
  /\ UNCHANGED <<settings, request, before>>

\* The answer goes out.
Answer ==
  /\ pc = "handled" \/ (pc = "judged" /\ code # 0)
  /\ pc' = "idle" /\ request' = "none" /\ code' = 0
  /\ token' = Nothing /\ result' = Nothing
  /\ before' = payment
  /\ UNCHANGED <<settings, payment>>

Init ==
  /\ settings \in Settings
  /\ pc = "idle" /\ request = "none" /\ code = 0
  /\ token = Nothing /\ result = Nothing
  /\ payment = Absent /\ before = Absent

Next ==
  \/ \E req \in {"approve", "sync"}, tok \in Tokens : Authenticate(req, tok)
  \/ \E res \in Results : Approve(res) \/ Sync(res)
  \/ Answer

Spec == Init /\ [][Next]_vars
-----------------------------------------------------------------------------
\* The types of the variables that are not inputs.
TypeOK ==
  /\ pc \in {"idle", "judged", "handled"}
  /\ request \in {"none", "approve", "sync"}
  /\ {payment, before} \subseteq PaymentStatus \cup {Absent}
  /\ code \in {0} \cup 200..599

\* Who is admitted does not depend on the settings for customers, not even
\* when the two secrets are one, although a token is tried as a customer's
\* first: exactly the valid admin tokens are, and a missing one is told
\* from a bad one.
AdminsAlone ==
  pc = "judged" =>
    LET ours == /\ token.signedWith = settings.secret
                /\ token.iss = settings.issuer
                /\ token.current
                /\ token.role = "admin"
                /\ token.sub \/ token.userId
    IN  /\ code = 0 <=> token.scheme = "bearer" /\ ours
        /\ code = 401 <=> token.scheme # "bearer"

\* A sync moves a payment only when one provider payment alone carries its
\* reference, with its amount and currency, in a response that is not an
\* error; and to the status that one has.
SyncFollowsTheHit ==
  pc = "handled" /\ request = "sync" /\ payment # before =>
    /\ result.kind = "returns" /\ result.status < 400
    /\ \E i \in DOMAIN result.body.results :
         LET hit == result.body.results[i]
         IN  /\ \A j \in DOMAIN result.body.results \ {i} : ~result.body.results[j].reference
             /\ hit.reference /\ hit.amount = "same" /\ hit.currency /\ hit.id
             /\ payment = (IF hit.status \in PaidStatuses THEN "CONFIRMED" ELSE "FAILED")

\* Only an answer of 200 has changed the payment.
RefusalsChangeNothing == pc = "handled" /\ code # 200 => payment = before

\* A payment is opened only with the preference and the URL that the
\* customer needs, from a response that is not an error.
OpensWithCheckout ==
  pc = "handled" /\ request = "approve" /\ code = 200 =>
    /\ result.kind = "returns" /\ result.status < 400
    /\ result.body.id /\ result.body.url
=============================================================================
