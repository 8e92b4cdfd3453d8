--------------------------- MODULE ConnectionMonitor ---------------------------
(***************************************************************************)
(* What connectivity monitoring promises, with no controller in it: a      *)
(* registered cluster has a status and a count of consecutive failed       *)
(* checks, and every change is one whole check, or the end of the          *)
(* registration.  A check whose result is lost changes nothing.            *)
(***************************************************************************)
EXTENDS Integers

CONSTANTS Threshold, MaxFailures

VARIABLES
    conn,       \* "", "Healthy" or "Down"
    failures    \* consecutive failed checks, saturating at MaxFailures

vars == <<conn, failures>>

Init == conn = "" /\ failures = 0

CheckSucceeds ==
    /\ conn' = "Healthy"
    /\ failures' = 0

CheckFailsUp ==
    /\ failures + 1 < Threshold
    /\ failures' = failures + 1
    /\ conn' = conn

CheckFailsDown ==
    /\ failures + 1 >= Threshold
    /\ failures' \in {failures, failures + 1}
    /\ failures' = failures => failures = MaxFailures
    /\ conn' = "Down"

Deregister == conn' = "" /\ failures' = 0

Next == CheckSucceeds \/ CheckFailsUp \/ CheckFailsDown \/ Deregister

Spec == Init /\ [][Next]_vars
===============================================================================
