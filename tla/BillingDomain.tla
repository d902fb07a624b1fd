--------------------------- MODULE BillingDomain ---------------------------
(***************************************************************************)
(* The rules of src/src/domain/payment.py and the decision table of        *)
(* ApplyPaymentStatusUseCase (src/src/application/use_cases.py), as        *)
(* operators on statuses.  Absent is the lack of a row: what the           *)
(* repositories' get turns into a KeyError.  Ids, amounts and wording are  *)
(* left to the modules that use these rules.                               *)
(***************************************************************************)
EXTENDS Naturals, Sequences

Absent == "ABSENT"

\* CANCELLED belongs to the enum, but no use case calls Quote.cancel.
QuoteStatus == {"CREATED", "APPROVED", "CANCELLED"}
PaymentStatus == {"WAITING_PREFERENCE", "PENDING", "CONFIRMED", "FAILED"}

\* A payment whose outcome has been announced, or is about to be.
Settled == {"CONFIRMED", "FAILED"}

-----------------------------------------------------------------------------
(* The guards of the transitions: each raises ValueError when it is false. *)

\* (Mutant: the guard does not look at the status.)
AnyQuoteApproves(quoteStatus) == quoteStatus # Absent

CanApprove(quoteStatus) == quoteStatus = "CREATED"
CanConfirm(paymentStatus) == paymentStatus = "PENDING"

\* (Mutant: a confirmed payment may fail.)
AnyPaymentFails(paymentStatus) == paymentStatus # Absent

CanFail(paymentStatus) == paymentStatus \notin {Absent, "CONFIRMED"}

-----------------------------------------------------------------------------
(* What a provider status does to a payment.                               *)

PaidStatuses == {"approved", "accredited"}
LostStatuses == {"rejected", "cancelled", "refunded", "charged_back",
                 "expired", "failure"}
OpenStatuses == {"pending", "in_process"}

\* (Mutant: a second report confirms again.)
PaidTwice(paymentStatus) ==
  [CONFIRMED |-> "confirmed", FAILED |-> "ignored", PENDING |-> "confirmed",
   WAITING_PREFERENCE |-> "refused"][paymentStatus]

\* The provider says the money arrived: confirm() unless already settled.  On
\* a payment that still waits for its preference confirm() raises.
PaidAction(paymentStatus) ==
  [CONFIRMED |-> "duplicate", FAILED |-> "ignored", PENDING |-> "confirmed",
   WAITING_PREFERENCE |-> "refused"][paymentStatus]

\* (Mutant: a confirmed payment can be lost.)
RefundFails(paymentStatus) ==
  [CONFIRMED |-> "failed", FAILED |-> "duplicate", PENDING |-> "failed",
   WAITING_PREFERENCE |-> "failed"][paymentStatus]

\* The provider says it will not arrive, or went back: fail() unless settled.
LostAction(paymentStatus) ==
  [CONFIRMED |-> "ignored", FAILED |-> "duplicate", PENDING |-> "failed",
   WAITING_PREFERENCE |-> "failed"][paymentStatus]

\* "refused" is the ValueError of a status of none of the three classes.
ApplyAction(providerStatus, paymentStatus) ==
  CASE providerStatus \in PaidStatuses -> PaidAction(paymentStatus)
    [] providerStatus \in LostStatuses -> LostAction(paymentStatus)
    [] providerStatus \in OpenStatuses -> "ignored"
    [] OTHER -> "refused"

\* (Mutant: the action's name becomes the status.)
StatusIsAction(action, seen) ==
  IF action \in {"approved", "confirmed", "failed"} THEN action ELSE seen

\* The status of the object in memory after an action that found it in
\* status seen: create_preference, confirm and fail assign it; an ignored or
\* duplicate report does not touch it.
StatusAfter(action, seen) ==
  [approved |-> "PENDING", confirmed |-> "CONFIRMED", failed |-> "FAILED",
   ignored |-> seen, duplicate |-> seen][action]

-----------------------------------------------------------------------------
(* The events of the transitions.  An event names the quote or payment it  *)
(* is about.                                                               *)

QuoteEventTypes == {"QUOTE_CREATED", "QUOTE_APPROVED"}
PaymentEventTypes == {"PAYMENT_PREFERENCE_CREATED", "PAYMENT_CONFIRMED",
                      "PAYMENT_FAILED"}

\* The event a payment announces on reaching a settled status.
SettledEvent(status) ==
  IF status = "CONFIRMED" THEN "PAYMENT_CONFIRMED" ELSE "PAYMENT_FAILED"
=============================================================================
