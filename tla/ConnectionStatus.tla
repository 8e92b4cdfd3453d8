--------------------------- MODULE ConnectionStatus ---------------------------
(***************************************************************************)
(* The connection status of a SveltosCluster: how the outcome of one       *)
(* connectivity check moves Status.ConnectionStatus and                    *)
(* Status.ConnectionFailures (updateConnectionStatus), and which event the *)
(* move records (recordConnectionTransition).  Pure operators on a record  *)
(* that has at least the fields failing, failures and conn; the controller *)
(* applies them to the SveltosCluster it has fetched.                      *)
(***************************************************************************)
EXTENDS Integers

CONSTANTS
    Threshold,    \* Spec.ConsecutiveFailureThreshold
    MaxFailures   \* bound: ConnectionFailures stops growing here

ASSUME ThresholdAssumption ==
    /\ Threshold \in Nat \ {0}
    /\ MaxFailures \in Nat
    /\ Threshold <= MaxFailures

(* Status.ConnectionStatus; the empty string is the status of a cluster on *)
(* which no check has been decisive yet.                                   *)
Unknown == ""
Healthy == "Healthy"
Down == "Down"
ConnectionStates == {Unknown, Healthy, Down}

(* The events of recordConnectionTransition; NoEvent when none was ever    *)
(* recorded.  ClusterUnreachable and AgentUnhealthy, its pull-mode name,   *)
(* are one event here.                                                     *)
NoEvent == "none"
Unreachable == "Unreachable"
Recovered == "Recovered"
ConnectionEvents == {NoEvent, Unreachable, Recovered}

(* ConnectionFailures++, saturating at the model's bound.                  *)
IncrementFailures(n) == IF n < MaxFailures THEN n + 1 ELSE n

(* Seeded fault: one failure too many is needed to be down.                *)
updateConnectionStatus_OffByOne(o) ==
    IF o.failing
    THEN [o EXCEPT !.failures = IncrementFailures(@),
                   !.conn = IF IncrementFailures(o.failures) > Threshold
                            THEN Down ELSE @]
    ELSE [o EXCEPT !.failures = 0, !.conn = Healthy]

(* Seeded fault: a successful check does not restart the count.            *)
updateConnectionStatus_NoReset(o) ==
    IF o.failing
    THEN [o EXCEPT !.failures = IncrementFailures(@),
                   !.conn = IF IncrementFailures(o.failures) >= Threshold
                            THEN Down ELSE @]
    ELSE [o EXCEPT !.conn = Healthy]

(* Seeded fault: a successful check takes one failure off the count.       *)
updateConnectionStatus_Leaky(o) ==
    IF o.failing
    THEN [o EXCEPT !.failures = IncrementFailures(@),
                   !.conn = IF IncrementFailures(o.failures) >= Threshold
                            THEN Down ELSE @]
    ELSE [o EXCEPT !.failures = @ - 1, !.conn = Healthy]

(* Seeded fault: a cluster that is down stays down.                        *)
updateConnectionStatus_Latched(o) ==
    IF o.failing
    THEN [o EXCEPT !.failures = IncrementFailures(@),
                   !.conn = IF IncrementFailures(o.failures) >= Threshold
                            THEN Down ELSE @]
    ELSE [o EXCEPT !.failures = 0, !.conn = IF @ = Down THEN Down ELSE Healthy]

(* updateConnectionStatus: o.failing is FailureMessage # nil.              *)
updateConnectionStatus(o) ==
    IF o.failing
    THEN [o EXCEPT !.failures = IncrementFailures(@),
                   !.conn = IF IncrementFailures(o.failures) >= Threshold
                            THEN Down ELSE @]
    ELSE [o EXCEPT !.failures = 0, !.conn = Healthy]

(* Seeded fault: only a cluster that was healthy raises an alert, so one   *)
(* that was never reached goes down silently.                              *)
recordConnectionTransition_OnlyFromHealthy(previous, current, last) ==
    IF previous = Healthy /\ current = Down THEN Unreachable
    ELSE IF previous = Down /\ current # Down THEN Recovered
    ELSE last

(* Seeded fault: the recovery is not announced.                            *)
recordConnectionTransition_NoRecovery(previous, current, last) ==
    IF previous # Down /\ current = Down THEN Unreachable ELSE last

(* recordConnectionTransition: the last event recorded after a check moved *)
(* the status from previous to current.                                    *)
recordConnectionTransition(previous, current, last) ==
    IF previous # Down /\ current = Down THEN Unreachable
    ELSE IF previous = Down /\ current # Down THEN Recovered
    ELSE last
===============================================================================
