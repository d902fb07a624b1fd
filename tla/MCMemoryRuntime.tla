-------------------------- MODULE MCMemoryRuntime --------------------------
(***************************************************************************)
(* Two threads and two quotes, one of which could get two payments.        *)
(***************************************************************************)
EXTENDS MemoryRuntime

CONSTANTS q1, q2, p1, p2

QuoteOfPayment == [p \in Payment |-> q1]
=============================================================================
