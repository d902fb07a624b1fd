--------------------------- MODULE PaymentLedger ---------------------------
(***************************************************************************)
(* What the billing service promises about payments to the services that   *)
(* listen to its events: a payment is opened once, settles at most once,   *)
(* and what is told about it is how it settled.                            *)
(***************************************************************************)
EXTENDS BillingDomain

CONSTANT Payment

VARIABLES
  status,  \* the status of each payment, Absent before it is opened
  told     \* the settled statuses that have been announced

Init ==
  /\ status = [p \in Payment |-> Absent]
  /\ told = [p \in Payment |-> {}]

Open(p) ==
  /\ status[p] = Absent
  /\ status' = [status EXCEPT ![p] = "PENDING"]
  /\ UNCHANGED told

Settle(p) ==
  /\ status[p] = "PENDING"
  /\ \E outcome \in Settled : status' = [status EXCEPT ![p] = outcome]
  /\ UNCHANGED told

Tell(p) ==
  /\ status[p] \in Settled
  /\ told' = [told EXCEPT ![p] = @ \cup {status[p]}]
  /\ UNCHANGED status

Next == \E p \in Payment : Open(p) \/ Settle(p) \/ Tell(p)

Spec == Init /\ [][Next]_<<status, told>>

\* No payment is ever announced with two outcomes, or with one it does not
\* have.
OneOutcome == \A p \in Payment : told[p] \subseteq {status[p]}
=============================================================================
