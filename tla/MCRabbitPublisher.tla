------------------------- MODULE MCRabbitPublisher -------------------------
(***************************************************************************)
(* Two replicas, one of them with two threads.                             *)
(***************************************************************************)
EXTENDS RabbitPublisher

CONSTANTS r1, r2, t1, t2, t3

Threads == [c \in Caller |-> IF c = t3 THEN r2 ELSE r1]
=============================================================================
