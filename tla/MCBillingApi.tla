---------------------------- MODULE MCBillingApi ----------------------------
(***************************************************************************)
(* Instances of BillingApi for TLC.  Two quotes of one service order with  *)
(* the same total, which the code permits (a redelivered OS_OPENED, a      *)
(* second POST /quotes), and as many billing and provider payments as the  *)
(* run names.                                                              *)
(***************************************************************************)
EXTENDS BillingApi, TLC

CONSTANTS q1, q2, p1, p2, pay1, pay2, t1, t2

OneOrder == [q \in Quote |-> "order"]
OneAmount == [q \in Quote |-> 100]
TwoAmounts == [q \in Quote |-> IF q = q1 THEN 100 ELSE 200]

\* Two payments of the one quote, for approvals that race.
BothOfFirst == [p \in Payment |-> q1]
\* A payment for each quote.
OneOfEach == [p \in Payment |-> IF p = p1 THEN q1 ELSE q2]

PaidThroughFirst == [pp \in ProviderPayment |-> p1]
PaidThroughEach == [pp \in ProviderPayment |-> IF pp = pay1 THEN p1 ELSE p2]

Threads == Permutations({t1, t2})
=============================================================================
