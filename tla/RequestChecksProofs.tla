------------------------- MODULE RequestChecksProofs -------------------------
(***************************************************************************)
(* The invariants of RequestChecks, for all settings, tokens and SDK       *)
(* results.  A request's steps only read the token and the result that are *)
(* recorded with it, so the invariant ties each answer to them.            *)
(***************************************************************************)
EXTENDS RequestChecks, FiniteSetTheorems, TLAPS

\* What a result holds as far as types go: a status is an HTTP status or
\* missing, and the provider payments are a sequence.
Shaped(res) ==
  /\ res.status \in {0} \cup 200..599
  /\ \E n \in Nat : DOMAIN res.body.results = 1..n

\* The assumption on the constants: they are shaped like SDK results.
ResultsShaped == \A res \in Results : Shaped(res)

-----------------------------------------------------------------------------
(* Lemmas about the verdicts.                                              *)

\* A token is admitted if and only if it is a valid admin's.
LEMMA VerdictAdmits ==
  ASSUME NEW tok
  PROVE  /\ Verdict(tok) = 0 <=> tok.scheme = "bearer" /\ IsAdmin(tok)
         /\ Verdict(tok) = 401 <=> tok.scheme # "bearer"
         /\ Verdict(tok) \in {0, 401, 403}
<1>1. IsAdmin(tok) => ~IsCustomer(tok)
  BY DEF IsAdmin, IsCustomer
<1> QED
  BY <1>1 DEF Verdict

\* The status a failed call becomes is an HTTP status.
LEMMA ExecuteCodeType ==
  ASSUME NEW res, Shaped(res)
  PROVE  ExecuteCode(res) \in {0} \cup 200..599
BY DEF Shaped, ExecuteCode, NoCode

\* A call that is taken returned a body, without an error status.
LEMMA ExecuteTakes ==
  ASSUME NEW res, Shaped(res), ExecuteCode(res) = 0
  PROVE  res.kind = "returns" /\ res.status < 400
<1>1. res.status \in {0} \cup 200..599
  BY Zenon DEF Shaped
<1>2. 502 # 0
  OBVIOUS
<1>3. res.kind # "raises"
  BY <1>2, Zenon DEF ExecuteCode, NoCode
<1>4. res.kind = "returns" /\ (res.status >= 400 => res.status = 0)
  BY <1>2, <1>3, Zenon DEF ExecuteCode
<1> QED
  BY <1>1, <1>4

LEMMA ApproveCodeType ==
  ASSUME NEW res
  PROVE  ApproveCode(res) \in {200, 400, 502}
BY DEF ApproveCode

LEMMA ApproveTakes ==
  ASSUME NEW res, Shaped(res), ApproveCode(res) = 200
  PROVE  /\ res.kind = "returns" /\ res.status < 400
         /\ res.body.id /\ res.body.url
<1>1. ExecuteCode(res) = 0 /\ res.body.id /\ res.body.url
  BY DEF ApproveCode
<1> QED
  BY <1>1, ExecuteTakes

LEMMA SearchCodeType ==
  ASSUME NEW res, Shaped(res)
  PROVE  SearchCode(res) \in {0} \cup 200..599
BY ExecuteCodeType DEF SearchCode, Uncaught

\* An index that CHOOSE takes of at most one hit is every hit.
LEMMA SingleHit ==
  ASSUME NEW list, NEW n \in Nat, DOMAIN list = 1..n,
         Hits(list) # {}, ~(Cardinality(Hits(list)) > 1)
  PROVE  \E i \in DOMAIN list :
           /\ TheHit(list) = list[i]
           /\ list[i].reference
           /\ \A j \in DOMAIN list \ {i} : ~list[j].reference
<1> DEFINE H == Hits(list)
           i == CHOOSE x \in H : TRUE
<1>1. IsFiniteSet(1..n) /\ H \subseteq 1..n
  BY FS_Interval DEF Hits
<1>2. IsFiniteSet(H) /\ Cardinality(H) \in Nat
  BY <1>1, FS_Subset, FS_CardinalityType
<1>3. i \in H
  OBVIOUS
<1>4. \A j \in H : j = i
  <2>1. Cardinality(H) # 0
    BY <1>2, <1>3, FS_EmptySet
  <2>2. Cardinality(H) = 1
    BY <1>2, <2>1
  <2>3. PICK x : H = {x}
    BY <1>2, <2>2, FS_Singleton
  <2> QED
    BY <1>3, <2>3
<1>5. TheHit(list) = list[i]
  BY DEF TheHit
<1>6. i \in DOMAIN list /\ list[i].reference
  BY <1>3 DEF Hits
<1>7. \A j \in DOMAIN list \ {i} : ~list[j].reference
  BY <1>4 DEF Hits
<1> QED
  BY <1>5, <1>6, <1>7

LEMMA SearchTakes ==
  ASSUME NEW res, Shaped(res), SearchCode(res) = 0
  PROVE  /\ res.kind = "returns" /\ res.status < 400
         /\ \E i \in DOMAIN res.body.results :
              /\ TheHit(res.body.results) = res.body.results[i]
              /\ \A j \in DOMAIN res.body.results \ {i} : ~res.body.results[j].reference
              /\ res.body.results[i].reference
              /\ res.body.results[i].amount = "same"
              /\ res.body.results[i].currency
              /\ res.body.results[i].id
<1> DEFINE list == res.body.results
           hit == TheHit(list)
<1>1. /\ ExecuteCode(res) = 0
      /\ Hits(list) # {}
      /\ ~(Cardinality(Hits(list)) > 1)
      /\ hit.amount = "same" /\ hit.currency /\ hit.id
  <2>1. 502 # 0 /\ 404 # 0 /\ 409 # 0 /\ Uncaught # 0
    BY DEF Uncaught
  <2> QED
    BY <2>1, Zenon DEF SearchCode
<1>2. PICK n \in Nat : DOMAIN list = 1..n
  BY DEF Shaped
<1> HIDE DEF list
<1>3. PICK i \in DOMAIN list :
        /\ TheHit(list) = list[i]
        /\ list[i].reference
        /\ \A j \in DOMAIN list \ {i} : ~list[j].reference
  BY <1>1, <1>2, SingleHit
<1>4. res.kind = "returns" /\ res.status < 400
  BY <1>1, ExecuteTakes
<1>5. /\ TheHit(list) = list[i]
      /\ \A j \in DOMAIN list \ {i} : ~list[j].reference
      /\ list[i].reference
      /\ list[i].amount = "same" /\ list[i].currency /\ list[i].id
  BY <1>1, <1>3
<1> QED
  BY <1>4, <1>5 DEF list

\* No status is of two classes.
LEMMA Disjoint ==
  /\ \A s \in PaidStatuses : s \notin LostStatuses /\ s \notin OpenStatuses
  /\ \A s \in LostStatuses : s \notin OpenStatuses
BY DEF PaidStatuses, LostStatuses, OpenStatuses

\* What a provider status can do to a stored payment.
LEMMA ApplyMoves ==
  ASSUME NEW status, NEW seen \in PaymentStatus,
         ApplyAction(status, seen) # "refused"
  PROVE  LET after == StatusAfter(ApplyAction(status, seen), seen) IN
           /\ after \in PaymentStatus
           /\ after # seen =>
                after = (IF status \in PaidStatuses THEN "CONFIRMED" ELSE "FAILED")
<1>1. CASE status \in PaidStatuses
  <2>1. ApplyAction(status, seen) = PaidAction(seen)
    BY <1>1, Disjoint, Zenon DEF ApplyAction
  <2> QED
    BY <1>1, <2>1 DEF PaidAction, StatusAfter, PaymentStatus
<1>2. CASE status \notin PaidStatuses /\ status \in LostStatuses
  <2>1. ApplyAction(status, seen) = LostAction(seen)
    BY <1>2, Disjoint, Zenon DEF ApplyAction
  <2> QED
    BY <1>2, <2>1 DEF LostAction, StatusAfter, PaymentStatus
<1>3. CASE status \notin PaidStatuses /\ status \notin LostStatuses
  <2>1. ApplyAction(status, seen) = "ignored"
    BY <1>3, Zenon DEF ApplyAction
  <2> QED
    BY <2>1 DEF StatusAfter
<1> QED
  BY <1>1, <1>2, <1>3
-----------------------------------------------------------------------------
(* The invariant.                                                          *)

\* Judged, a request has changed nothing and its code is the token's verdict;
\* handled, its answer is what the recorded result gives.
Judged ==
  pc = "judged" => payment = before /\ code = Verdict(token)

Handled ==
  pc = "handled" =>
    /\ RefusalsChangeNothing
    /\ OpensWithCheckout
    /\ SyncFollowsTheHit

IInv == TypeOK /\ Judged /\ Handled

LEMMA InitInv == Init => IInv
BY DEF Init, IInv, TypeOK, Judged, Handled

LEMMA VerdictKept ==
  ASSUME NEW tok, settings' = settings
  PROVE  Verdict(tok)' = Verdict(tok)
BY DEF Verdict, IsCustomer, IsAdmin, Decodes

LEMMA AuthenticateInv ==
  ASSUME IInv, NEW req \in {"approve", "sync"}, NEW tok, Authenticate(req, tok)
  PROVE  IInv'
<1>1. TypeOK'
  BY VerdictAdmits DEF IInv, TypeOK, Authenticate
<1>2. Judged'
  <2>1. Verdict(tok)' = Verdict(tok)
    BY VerdictKept DEF Authenticate
  <2> QED
    BY <2>1 DEF Judged, Authenticate
<1>3. Handled'
  BY DEF Handled, Authenticate
<1> QED
  BY <1>1, <1>2, <1>3 DEF IInv

LEMMA ApproveInv ==
  ASSUME IInv, ResultsShaped, NEW res \in Results, Approve(res)
  PROVE  IInv'
<1>1. Shaped(res)
  BY DEF ResultsShaped
<1>2. payment = before /\ request' = "approve" /\ pc' = "handled" /\ before' = before
  BY DEF IInv, Judged, Approve
<1>3. TypeOK'
  BY ApproveCodeType DEF IInv, TypeOK, Approve, PaymentStatus
<1>4. Judged'
  BY <1>2 DEF Judged
<1>5. RefusalsChangeNothing'
  BY <1>2 DEF RefusalsChangeNothing, Approve
<1>6. OpensWithCheckout'
  <2>1. code' = 200 => result' = res /\ ApproveCode(res) = 200
    BY DEF Approve
  <2> QED
    BY <1>1, <2>1, ApproveTakes DEF OpensWithCheckout
<1>7. SyncFollowsTheHit'
  BY <1>2 DEF SyncFollowsTheHit
<1> QED
  BY <1>3, <1>4, <1>5, <1>6, <1>7 DEF IInv, Handled

LEMMA SyncInv ==
  ASSUME IInv, ResultsShaped, NEW res \in Results, Sync(res)
  PROVE  IInv'
<1> DEFINE list == res.body.results
           status == TheHit(list).status
<1>1. Shaped(res)
  BY DEF ResultsShaped
<1>2. payment = before /\ request' = "sync" /\ pc' = "handled" /\ before' = before
  BY DEF IInv, Judged, Sync
<1>3. Judged' /\ OpensWithCheckout'
  BY <1>2 DEF Judged, OpensWithCheckout
<1>4. CASE payment' = payment
  <2>1. code' \in {0} \cup 200..599
    BY <1>1, SearchCodeType DEF Sync, Apply
  <2>2. TypeOK'
    BY <1>2, <1>4, <2>1 DEF IInv, TypeOK
  <2>3. RefusalsChangeNothing' /\ SyncFollowsTheHit'
    BY <1>2, <1>4 DEF RefusalsChangeNothing, SyncFollowsTheHit
  <2> QED
    BY <1>3, <2>2, <2>3 DEF IInv, Handled
<1>5. CASE payment' # payment
  <2>1. /\ payment # Absent /\ result' = res /\ SearchCode(res) = 0
        /\ Apply(status)
    BY <1>5 DEF Sync
  <2>2. /\ ApplyAction(status, payment) # "refused"
        /\ code' = 200
        /\ payment' = StatusAfter(ApplyAction(status, payment), payment)
    BY <1>5, <2>1 DEF Apply
  <2>3. payment \in PaymentStatus
    BY <2>1 DEF IInv, TypeOK
  <2>4. /\ payment' \in PaymentStatus
        /\ payment' = (IF status \in PaidStatuses THEN "CONFIRMED" ELSE "FAILED")
    BY <1>5, <2>2, <2>3, ApplyMoves
  <2>5. TypeOK'
    BY <1>2, <2>2, <2>4 DEF IInv, TypeOK
  <2>6. RefusalsChangeNothing'
    BY <2>2 DEF RefusalsChangeNothing
  <2>7. SyncFollowsTheHit'
    <3>1. PICK i \in DOMAIN list :
            /\ TheHit(list) = list[i]
            /\ \A j \in DOMAIN list \ {i} : ~list[j].reference
            /\ list[i].reference /\ list[i].amount = "same"
            /\ list[i].currency /\ list[i].id
      BY <1>1, <2>1, SearchTakes
    <3>2. res.kind = "returns" /\ res.status < 400
      BY <1>1, <2>1, SearchTakes
    <3>3. payment' = (IF list[i].status \in PaidStatuses THEN "CONFIRMED" ELSE "FAILED")
      BY <2>4, <3>1
    <3>4. result' = res
      BY <2>1
    <3> QED
      BY <3>1, <3>2, <3>3, <3>4 DEF SyncFollowsTheHit
  <2> QED
    BY <1>3, <2>5, <2>6, <2>7 DEF IInv, Handled
<1> QED
  BY <1>4, <1>5

LEMMA AnswerInv ==
  ASSUME IInv, Answer
  PROVE  IInv'
<1>1. TypeOK'
  BY DEF IInv, TypeOK, Answer
<1>2. Judged' /\ Handled'
  BY DEF Judged, Handled, Answer
<1> QED
  BY <1>1, <1>2 DEF IInv

LEMMA StutterInv ==
  ASSUME IInv, UNCHANGED vars
  PROVE  IInv'
<1>1. TypeOK'
  BY DEF IInv, TypeOK, vars
<1>2. Judged'
  BY VerdictKept DEF IInv, Judged, vars
<1>3. Handled'
  BY DEF IInv, Handled, RefusalsChangeNothing, OpensWithCheckout, SyncFollowsTheHit, vars
<1> QED
  BY <1>1, <1>2, <1>3 DEF IInv

LEMMA NextInv ==
  ASSUME ResultsShaped, IInv, [Next]_vars
  PROVE  IInv'
<1>1. ASSUME NEW req \in {"approve", "sync"}, NEW tok \in Tokens, Authenticate(req, tok)
      PROVE  IInv'
  BY <1>1, AuthenticateInv
<1>2. ASSUME NEW res \in Results, Approve(res)
      PROVE  IInv'
  BY <1>2, ApproveInv
<1>3. ASSUME NEW res \in Results, Sync(res)
      PROVE  IInv'
  BY <1>3, SyncInv
<1>4. CASE Answer
  BY <1>4, AnswerInv
<1>5. CASE UNCHANGED vars
  BY <1>5, StutterInv
<1> QED
  BY <1>1, <1>2, <1>3, <1>4, <1>5 DEF Next

LEMMA Invariance == ResultsShaped => (Spec => []IInv)
<1> SUFFICES ASSUME ResultsShaped PROVE Spec => []IInv
  OBVIOUS
<1>1. IInv /\ [Next]_vars => IInv'
  BY NextInv
<1> QED
  BY <1>1, InitInv, PTL DEF Spec

-----------------------------------------------------------------------------
\* Statuses and codes keep their types (create_payment's and the adapter's
\* HTTP statuses are in 200..599).
THEOREM TypeCorrect == ResultsShaped => (Spec => []TypeOK)
<1>1. IInv => TypeOK
  BY DEF IInv
<1> QED
  BY <1>1, Invariance, PTL

\* require_admin_principal admits exactly the valid admin tokens.
THEOREM AdminsAreAlone == ResultsShaped => (Spec => []AdminsAlone)
<1>1. IInv => AdminsAlone
  BY VerdictAdmits DEF IInv, Judged, AdminsAlone, IsAdmin, Decodes
<1> QED
  BY <1>1, Invariance, PTL

\* get_payment_status: a sync moves a payment only to the status of the one
\* provider payment that matches it.
THEOREM SyncIsTheHit == ResultsShaped => (Spec => []SyncFollowsTheHit)
<1>1. IInv => SyncFollowsTheHit
  BY DEF IInv, Handled, SyncFollowsTheHit
<1> QED
  BY <1>1, Invariance, PTL

\* No refusal of the routes, whatever raised it, has changed the payment.
THEOREM RefusalsKeepPayments == ResultsShaped => (Spec => []RefusalsChangeNothing)
<1>1. IInv => RefusalsChangeNothing
  BY DEF IInv, Handled, RefusalsChangeNothing
<1> QED
  BY <1>1, Invariance, PTL

\* create_checkout_preference: no payment without its preference and URL.
THEOREM OpensWithItsCheckout == ResultsShaped => (Spec => []OpensWithCheckout)
<1>1. IInv => OpensWithCheckout
  BY DEF IInv, Handled, OpensWithCheckout
<1> QED
  BY <1>1, Invariance, PTL
=============================================================================
