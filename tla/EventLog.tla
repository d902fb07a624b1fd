------------------------------ MODULE EventLog ------------------------------
(***************************************************************************)
(* What GET /events and POST /events/drain promise about the events one    *)
(* replica has published: each is kept, in the order of publication, until *)
(* a drain takes it or the replica goes away, and is taken at most once.   *)
(***************************************************************************)
EXTENDS Sequences

CONSTANTS Event, Replica

VARIABLES
  kept,  \* the events each replica keeps, oldest first
  taken  \* those its drains have taken, in the order they were taken

Init ==
  /\ kept = [r \in Replica |-> <<>>]
  /\ taken = [r \in Replica |-> <<>>]

Members(list) == {list[i] : i \in DOMAIN list}
Known == UNION {Members(kept[r]) \cup Members(taken[r]) : r \in Replica}

Keep(r, e) ==
  /\ e \notin Known
  /\ kept' = [kept EXCEPT ![r] = Append(@, e)]
  /\ UNCHANGED taken

Take(r) ==
  /\ taken' = [taken EXCEPT ![r] = @ \o kept[r]]
  /\ kept' = [kept EXCEPT ![r] = <<>>]

Forget(r) ==
  /\ kept' = [kept EXCEPT ![r] = <<>>]
  /\ UNCHANGED taken

Next == \E r \in Replica : Take(r) \/ Forget(r) \/ \E e \in Event : Keep(r, e)

Spec == Init /\ [][Next]_<<kept, taken>>
=============================================================================
