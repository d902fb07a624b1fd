--------------------------- MODULE MCQuoteIntake ---------------------------
(***************************************************************************)
(* Instances of QuoteIntake for TLC: an OS_OPENED that its publisher sends *)
(* several times, one without its order, and messages that the worker      *)
(* ignores and refuses.                                                    *)
(***************************************************************************)
EXTENDS QuoteIntake, TLC

CONSTANTS w1, w2, open1, open2, open3, hollow, other, invalid, e1, e2

\* open1, open2 and open3 are copies of one event, which hollow repeats.
Copies == [m \in Msg |-> IF m \in {other, invalid} THEN e2 ELSE e1]
Types == [m \in Msg |-> CASE m = other -> "Other"
                          [] m = invalid -> "Invalid"
                          [] m = hollow -> "Incomplete"
                          [] OTHER -> "OS_OPENED"]
=============================================================================
