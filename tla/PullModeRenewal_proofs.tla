------------------------- MODULE PullModeRenewal_proofs -------------------------
(***************************************************************************)
(* Proofs about PullModeRenewal, for every interval, duration, lifetime    *)
(* and bound.  DeliveryInv, which needs nothing: a renewal recorded, in    *)
(* the object or in the copy a reconcile carries, is in the group or with  *)
(* the agent, and a group that is, or seems, Provisioned carries what the  *)
(* agent has.  InTimeInv, while nothing disturbs renewals: the newest      *)
(* token outlives the moment at which it is replaced and the agent has it. *)
(***************************************************************************)
EXTENDS PullModeRenewal, RenewalTiming_proofs

(***************************************************************************)
(* Type correctness.                                                       *)
(***************************************************************************)

(* A reconcile that stages has a token of this moment, and one that        *)
(* commits has staged it.                                                  *)
Granted ==
    flight # NoFlight =>
        /\ flight.token # NoToken => flight.token.issued = now
        /\ flight.step \in {"stage", "commit"} => flight.token # NoToken
        /\ flight.step = "commit" => staged = flight.token

LEMMA InitType == Init => TypeOK /\ Granted
<1> SUFFICES ASSUME Init PROVE TypeOK /\ Granted
  OBVIOUS
<1>1. PICK i \in Intervals, l \in Lifetimes :
        obj = [interval |-> i, last |-> 0] /\ agent = [issued |-> 0, expiry |-> l]
  BY DEF Init
<1>2. i \in Nat /\ l \in Nat
  BY PullAssumption, TimingAssumption DEF PullAssumption, TimingAssumption
<1>3. obj \in Object /\ agent \in Token
  BY <1>1, <1>2 DEF Object, Token
<1> QED
  BY <1>3 DEF Init, TypeOK, Granted

(* The types of what the steps below are about.                            *)
LEMMA Types ==
    ASSUME TypeOK
    PROVE  /\ obj \in Object /\ obj.interval \in Nat /\ obj.last \in Nat
           /\ renewalThreshold(obj.interval) \in Nat
           /\ agent \in Token /\ agent.issued \in Nat /\ agent.expiry \in Nat
           /\ checked \in Nat /\ now \in Nat
           /\ group # NoToken =>
                /\ group \in Group /\ group.token \in Token /\ group.status \in Statuses
                /\ group.open \in Nat /\ group.token.issued \in Nat
                /\ group.token.expiry \in Nat
           /\ flight # NoFlight =>
                /\ flight \in Flight
                /\ flight.before \in Object /\ flight.after \in Object
                /\ flight.before.interval \in Nat /\ flight.after.interval \in Nat
                /\ flight.before.last \in Nat /\ flight.after.last \in Nat
                /\ renewalThreshold(flight.before.interval) \in Nat
                /\ renewalThreshold(flight.after.interval) \in Nat
                /\ {flight.due, flight.sent, flight.patched} \subseteq BOOLEAN
                /\ flight.token # NoToken =>
                      /\ flight.token \in Token
                      /\ flight.token.issued \in Nat /\ flight.token.expiry \in Nat
<1>1. obj \in Object /\ obj.interval \in Nat /\ obj.last \in Nat
  BY DEF TypeOK, Object
<1>2. agent \in Token /\ agent.issued \in Nat /\ agent.expiry \in Nat
  BY DEF TypeOK, Token
<1>3. ASSUME group # NoToken
      PROVE  /\ group \in Group /\ group.token \in Token /\ group.status \in Statuses
             /\ group.open \in Nat /\ group.token.issued \in Nat
             /\ group.token.expiry \in Nat
  BY <1>3 DEF TypeOK, Group, Token
<1>4. ASSUME flight # NoFlight
      PROVE  /\ flight \in Flight
             /\ flight.before \in Object /\ flight.after \in Object
             /\ {flight.due, flight.sent, flight.patched} \subseteq BOOLEAN
             /\ flight.token # NoToken => flight.token \in Token
  BY <1>4 DEF TypeOK, Flight
<1>5. \A o \in Object : o.interval \in Nat /\ o.last \in Nat
  BY DEF Object
<1>6. \A t \in Token : t.issued \in Nat /\ t.expiry \in Nat
  BY DEF Token
<1> QED
  BY <1>1, <1>2, <1>3, <1>4, <1>5, <1>6, ThresholdType DEF TypeOK

(* The steps that only move a reconcile on, field by field.                *)
LEMMA MovesOn ==
    ASSUME TypeOK, flight # NoFlight,
           NEW s \in {"request", "stage", "commit", "withdraw", "object", "status"}
    PROVE  LET f == [flight EXCEPT !.step = s]
           IN  /\ f \in Flight
               /\ f.step = s /\ f.before = flight.before /\ f.after = flight.after
               /\ f.token = flight.token /\ f.due = flight.due /\ f.sent = flight.sent
               /\ f.patched = flight.patched
BY Types DEF Flight

(* A granted token, field by field.                                        *)
LEMMA GrantedFields ==
    ASSUME TypeOK, flight # NoFlight, NEW l \in Lifetimes, NEW f,
           f = [flight EXCEPT
                !.step = "stage",
                !.token = [issued |-> now, expiry |-> now + l],
                !.after.interval = adjustTokenRequestRenewalOption(@, l)]
    PROVE  /\ f \in Flight
           /\ f.step = "stage" /\ f.before = flight.before
           /\ f.after.interval = adjustTokenRequestRenewalOption(flight.after.interval, l)
           /\ f.after.last = flight.after.last
           /\ f.token = [issued |-> now, expiry |-> now + l] /\ f.token \in Token
           /\ f.due = flight.due /\ f.sent = flight.sent
<1> DEFINE i == adjustTokenRequestRenewalOption(flight.after.interval, l)
<1>1. flight \in Flight /\ flight.after \in Object /\ flight.after.interval \in Nat /\ now \in Nat
  BY Types
<1>2. i \in Nat
  BY <1>1, IntervalTypes
<1>3. [issued |-> now, expiry |-> now + l] \in Token
  BY <1>1, TimingAssumption DEF TimingAssumption, Token
<1>4. f = [flight EXCEPT
             !.step = "stage",
             !.token = [issued |-> now, expiry |-> now + l],
             !.after = [flight.after EXCEPT !.interval = i]]
  BY <1>1 DEF Flight
<1> HIDE DEF i
<1>5. /\ [flight.after EXCEPT !.interval = i] \in Object
      /\ [flight.after EXCEPT !.interval = i].interval = i
      /\ [flight.after EXCEPT !.interval = i].last = flight.after.last
  BY <1>1, <1>2 DEF Object
<1>6. f.after = [flight.after EXCEPT !.interval = i]
  BY <1>1, <1>4 DEF Flight
<1>7. f \in Flight
  BY <1>1, <1>3, <1>4, <1>5 DEF Flight
<1>8. f.after.interval = i /\ f.after.last = flight.after.last
  BY <1>5, <1>6
<1>9. /\ f.step = "stage" /\ f.before = flight.before
      /\ f.token = [issued |-> now, expiry |-> now + l]
      /\ f.due = flight.due /\ f.sent = flight.sent
  BY <1>1, <1>4 DEF Flight
<1> QED
  BY <1>3, <1>7, <1>8, <1>9 DEF i

(* A committed renewal, field by field.                                    *)
LEMMA CommittedFields ==
    ASSUME TypeOK, flight # NoFlight, NEW f,
           f = [flight EXCEPT !.step = "withdraw", !.after.last = now, !.sent = TRUE]
    PROVE  /\ f \in Flight
           /\ f.step = "withdraw" /\ f.before = flight.before
           /\ f.after.interval = flight.after.interval /\ f.after.last = now
           /\ f.token = flight.token /\ f.due = flight.due /\ f.sent = TRUE
<1>1. flight \in Flight /\ flight.after \in Object /\ now \in Nat
  BY Types
<1>2. f = [flight EXCEPT !.step = "withdraw",
                         !.after = [flight.after EXCEPT !.last = now], !.sent = TRUE]
  BY <1>1 DEF Flight
<1>3. /\ [flight.after EXCEPT !.last = now] \in Object
      /\ [flight.after EXCEPT !.last = now].interval = flight.after.interval
      /\ [flight.after EXCEPT !.last = now].last = now
  BY <1>1 DEF Object
<1>4. f.after = [flight.after EXCEPT !.last = now]
  BY <1>1, <1>2 DEF Flight
<1>5. f \in Flight
  BY <1>1, <1>2, <1>3 DEF Flight
<1>6. f.after.interval = flight.after.interval /\ f.after.last = now
  BY <1>3, <1>4
<1>7. /\ f.step = "withdraw" /\ f.before = flight.before
      /\ f.token = flight.token /\ f.due = flight.due /\ f.sent = TRUE
  BY <1>1, <1>2 DEF Flight
<1> QED
  BY <1>5, <1>6, <1>7

(* The steps that change nothing but the step of the reconcile in flight,  *)
(* counters and the markers of the history.                                *)
Passes ==
    \/ RequestFails \/ StageFails \/ CommitFails \/ WithdrawFails \/ PatchObjectFails

(* What such a step does.                                                  *)
LEMMA PassesOn ==
    ASSUME TypeOK, Passes
    PROVE  /\ flight # NoFlight /\ flight' \in Flight
           /\ flight'.before = flight.before /\ flight'.after = flight.after
           /\ flight'.token = flight.token /\ flight'.due = flight.due
           /\ flight'.sent = flight.sent /\ flight'.patched = flight.patched
           /\ flight'.step \in {"withdraw", "object", "status"}
           /\ flight'.step = "status" <=> PatchObjectFails
           /\ UNCHANGED <<obj, staged, group, seen, agent, checked, now, crossed, edits>>
           /\ faults' \in Nat /\ disturbed' \in BOOLEAN /\ (disturbed => disturbed')
           /\ StageFails \/ CommitFails \/ PatchObjectFails => disturbed'
<1>0. /\ flight # NoFlight
      /\ UNCHANGED <<obj, staged, group, seen, agent, checked, now, crossed, edits>>
      /\ faults' \in Nat /\ disturbed' \in BOOLEAN /\ (disturbed => disturbed')
      /\ StageFails \/ CommitFails \/ PatchObjectFails => disturbed'
  <2>1. /\ flight # NoFlight
        /\ UNCHANGED <<obj, staged, group, seen, agent, checked, now, crossed, edits>>
        /\ disturbed' = TRUE \/ disturbed' = disturbed
    BY DEF Passes, RequestFails, StageFails, CommitFails, WithdrawFails, PatchObjectFails, At
  <2>2. faults' = faults + 1
    BY DEF Passes, RequestFails, StageFails, CommitFails, WithdrawFails, PatchObjectFails, Fault
  <2>3. StageFails \/ CommitFails \/ PatchObjectFails => disturbed'
    BY DEF StageFails, CommitFails, PatchObjectFails
  <2>4. faults' \in Nat
    BY <2>2 DEF TypeOK
  <2>5. disturbed' \in BOOLEAN /\ (disturbed => disturbed')
    <3>1. disturbed \in BOOLEAN
      BY DEF TypeOK
    <3>2. CASE disturbed' = TRUE
      BY <3>2
    <3>3. CASE disturbed' = disturbed
      BY <3>1, <3>3
    <3> QED
      BY <2>1, <3>2, <3>3
  <2> QED
    BY <2>1, <2>3, <2>4, <2>5
<1>1. CASE RequestFails \/ StageFails \/ CommitFails
  <2>1. flight' = [flight EXCEPT !.step = "withdraw"] /\ flight.step # "object"
    BY <1>1 DEF RequestFails, StageFails, CommitFails, At, Undelivered
  <2> QED
    BY <1>0, <2>1, MovesOn DEF PatchObjectFails, At
<1>2. CASE WithdrawFails
  <2>1. flight' = [flight EXCEPT !.step = "object"] /\ flight.step # "object"
    BY <1>2 DEF WithdrawFails, At
  <2> QED
    BY <1>0, <2>1, MovesOn DEF PatchObjectFails, At
<1>3. CASE PatchObjectFails
  <2>1. flight' = [flight EXCEPT !.step = "status"]
    BY <1>3 DEF PatchObjectFails
  <2> QED
    BY <1>0, <1>3, <2>1, MovesOn
<1> QED
  BY <1>1, <1>2, <1>3 DEF Passes

LEMMA StepType == TypeOK /\ Granted /\ [Next]_vars => TypeOK' /\ Granted'
<1> SUFFICES ASSUME TypeOK, Granted, [Next]_vars PROVE TypeOK' /\ Granted'
  OBVIOUS
<1> USE PullAssumption, TimingAssumption, MarkersAssumption
        DEF PullAssumption, TimingAssumption, MarkersAssumption
<1>1. CASE Begin
  <2> DEFINE due == shouldRenewTokenRequest(obj, now)
  <2>1. flight' = [step |-> IF due THEN "request" ELSE "withdraw", before |-> obj,
                   after |-> obj, token |-> NoToken,
                   due |-> due, sent |-> FALSE, patched |-> FALSE]
    BY <1>1 DEF Begin
  <2>2. due \in BOOLEAN /\ obj \in Object
    BY DEF shouldRenewTokenRequest, TypeOK
  <2> HIDE DEF due
  <2>3. flight' \in Flight
    BY <2>1, <2>2 DEF Flight
  <2>4. flight'.token = NoToken /\ flight'.step \in {"request", "withdraw"}
    BY <2>1
  <2> QED
    BY <1>1, <2>3, <2>4 DEF Begin, TypeOK, Granted
<1>2. CASE Passes
  BY <1>2, PassesOn DEF TypeOK, Granted
<1>3. CASE TokenGranted
  <2>1. PICK l \in Lifetimes :
          flight' = [flight EXCEPT
                !.step = "stage",
                !.token = [issued |-> now, expiry |-> now + l],
                !.after.interval = adjustTokenRequestRenewalOption(@, l)]
    BY <1>3 DEF TokenGranted
  <2>2. flight # NoFlight
    BY <1>3 DEF TokenGranted, At
  <2>3. /\ flight' \in Flight /\ flight'.step = "stage" /\ flight'.token \in Token
        /\ flight'.token = [issued |-> now, expiry |-> now + l]
    BY <2>1, <2>2, GrantedFields
  <2>4. flight'.token.issued = now
    BY <2>3
  <2> QED
    BY <1>3, <2>3, <2>4 DEF TokenGranted, TypeOK, Granted
<1>4. CASE Stage
  <2>1. flight # NoFlight /\ flight.step = "stage" /\ flight.token # NoToken
    BY <1>4 DEF Stage, At, Granted
  <2>2. flight' \in Flight /\ flight'.step = "commit" /\ flight'.token = flight.token
    BY <1>4, <2>1, MovesOn DEF Stage
  <2>3. flight.token \in Token
    BY <2>1, Types
  <2> QED
    BY <1>4, <2>1, <2>2, <2>3 DEF Stage, TypeOK, Granted
<1>5. CASE Commit
  <2>1. flight # NoFlight /\ flight.step = "commit"
    BY <1>5 DEF Commit, At
  <2>2. staged = flight.token /\ flight.token # NoToken /\ staged \in Token
    BY <2>1, Types DEF Granted
  <2>3. flight' \in Flight /\ flight'.step = "withdraw" /\ flight'.token = flight.token
    BY <1>5, <2>1, CommittedFields DEF Commit
  <2>4. PICK st \in {"none"} \cup (IF group = NoToken THEN {} ELSE {group.status}) :
          group' = [token |-> staged, status |-> st,
                    open |-> IF Pending THEN group.open ELSE now]
    BY <1>5 DEF Commit
  <2>5. st \in Statuses
    BY Types DEF Statuses
  <2>6. (IF Pending THEN group.open ELSE now) \in Nat
    BY Types DEF Pending
  <2>7. group' \in Group
    BY <2>2, <2>4, <2>5, <2>6 DEF Group
  <2>8. crossed' \in BOOLEAN
    BY <1>5 DEF Commit
  <2> QED
    BY <1>5, <2>1, <2>3, <2>7, <2>8 DEF Commit, TypeOK, Granted
<1>6. CASE Withdraw
  <2>1. flight # NoFlight
    BY <1>6 DEF Withdraw, At
  <2>2. flight' \in Flight /\ flight'.step = "object" /\ flight'.token = flight.token
    BY <1>6, <2>1, MovesOn DEF Withdraw
  <2> QED
    BY <1>6, <2>1, <2>2 DEF Withdraw, TypeOK, Granted
<1>7. CASE PatchObject
  <2>1. flight \in Flight /\ flight # NoFlight /\ flight.before \in Object /\ flight.after \in Object
    BY <1>7, Types DEF PatchObject, At
  <2>2. obj' \in Object
    BY <1>7, <2>1 DEF PatchObject, Merge, TypeOK, Object
  <2>3. flight' \in Flight /\ flight'.step = "status" /\ flight'.token = flight.token
    BY <1>7, <2>1 DEF PatchObject, Flight
  <2> QED
    BY <1>7, <2>1, <2>2, <2>3 DEF PatchObject, TypeOK, Granted
<1>8. CASE PatchStatus
  <2>1. flight \in Flight /\ flight.before \in Object /\ flight.after \in Object
    BY <1>8, Types DEF PatchStatus, At
  <2>2. obj' \in Object
    BY <1>8, <2>1 DEF PatchStatus, Merge, TypeOK, Object
  <2>3. checked' \in Nat
    BY <1>8 DEF PatchStatus, Checked, TypeOK
  <2> QED
    BY <1>8, <2>2, <2>3 DEF PatchStatus, TypeOK, Granted
<1>9. CASE PatchStatusFails \/ Restart
  <2>1. seen' \in Statuses \cup {NoToken}
    BY <1>9, Types DEF PatchStatusFails, Restart, TypeOK
  <2> QED
    BY <1>9, <2>1 DEF PatchStatusFails, Restart, Fault, TypeOK, Granted
<1>10. CASE Deliver
  <2>1. seen' \in Statuses \cup {NoToken}
    BY <1>10, Types DEF Deliver
  <2> QED
    BY <1>10, <2>1 DEF Deliver, TypeOK, Granted
<1>11. CASE AgentApplies
  <2>1. agent' \in Token
    BY <1>11, Types DEF AgentApplies, Pending
  <2> QED
    BY <1>11, <2>1 DEF AgentApplies, TypeOK, Granted
<1>12. CASE AgentFails \/ AgentReports
  <2>1. group' \in Group
    BY <1>12, Types DEF AgentFails, AgentReports, Pending, Group, Statuses
  <2> QED
    BY <1>12, <2>1 DEF AgentFails, AgentReports, Fault, TypeOK, Granted
<1>13. CASE EditInterval
  <2>1. obj' \in Object /\ disturbed' \in BOOLEAN /\ edits' \in Nat
    BY <1>13 DEF EditInterval, TypeOK, Object
  <2> QED
    BY <1>13, <2>1 DEF EditInterval, TypeOK, Granted
<1>14. CASE Tick
  BY <1>14 DEF Tick, TypeOK, Granted
<1>15. CASE UNCHANGED vars
  BY <1>15 DEF vars, TypeOK, Granted
<1> QED
  BY <1>1, <1>2, <1>3, <1>4, <1>5, <1>6, <1>7, <1>8, <1>9, <1>10, <1>11, <1>12, <1>13, <1>14,
     <1>15 DEF Next, Reconciles, Passes

(* Type correctness: a commit always has a staged token to carry.          *)
THEOREM PullTypeCorrect == Spec => []TypeOK
BY InitType, StepType, PTL DEF Spec

(***************************************************************************)
(* A recorded renewal is delivered.                                        *)
(***************************************************************************)

(* A token issued at t or later is with the agent or on its way.           *)
Delivered(t) == agent.issued >= t \/ (group # NoToken /\ group.token.issued >= t)

(* What is, or seems, Provisioned is what the agent has.                   *)
ReportsTrue ==
    group # NoToken /\ (seen = "Provisioned" \/ group.status = "Provisioned") =>
        group.token = agent

DeliveryInv ==
    /\ TypeOK /\ Granted
    /\ agent.issued <= now /\ obj.last <= now
    /\ group # NoToken => agent.issued <= group.token.issued /\ group.token.issued <= now
    /\ flight # NoFlight => flight.before.last <= now /\ flight.after.last <= now
    /\ crossed \/ ReportsTrue
    /\ crossed \/ Delivered(obj.last)
    /\ flight # NoFlight /\ flight.after.last # flight.before.last =>
          crossed \/ Delivered(flight.after.last)

(* A commit leaves a group.                                                *)
LEMMA CommitMakesGroup == TypeOK /\ Granted /\ Commit => group' \in Group /\ group' # NoToken
<1> SUFFICES ASSUME TypeOK, Granted, Commit PROVE group' \in Group
  BY MarkersAssumption DEF MarkersAssumption
<1>1. staged \in Token
  BY Types DEF Commit, At, Granted
<1>2. PICK st \in {"none"} \cup (IF group = NoToken THEN {} ELSE {group.status}) :
        group' = [token |-> staged, status |-> st,
                  open |-> IF Pending THEN group.open ELSE now]
  BY DEF Commit
<1>3. st \in Statuses /\ (IF Pending THEN group.open ELSE now) \in Nat
  BY Types DEF Statuses, Pending
<1> QED
  BY <1>1, <1>2, <1>3 DEF Group

LEMMA InitDelivery == Init => DeliveryInv
<1> SUFFICES ASSUME Init PROVE DeliveryInv
  OBVIOUS
<1>1. TypeOK /\ Granted
  BY InitType
<1>2. /\ obj.last = 0 /\ agent.issued = 0 /\ now = 0
      /\ group = NoToken /\ flight = NoFlight
  BY DEF Init
<1> QED
  BY <1>1, <1>2 DEF DeliveryInv, ReportsTrue, Delivered

LEMMA StepDelivery == DeliveryInv /\ [Next]_vars => DeliveryInv'
<1> SUFFICES ASSUME DeliveryInv, [Next]_vars PROVE DeliveryInv'
  OBVIOUS
<1> USE MarkersAssumption DEF MarkersAssumption
<1>0. TypeOK /\ TypeOK' /\ Granted /\ Granted'
  BY StepType DEF DeliveryInv
<1>1. CASE Begin
  <2>1. /\ flight'.before = obj /\ flight'.after = obj
        /\ UNCHANGED <<obj, group, seen, agent, now, crossed>>
    BY <1>1 DEF Begin
  <2> QED
    BY <1>0, <2>1 DEF DeliveryInv, ReportsTrue, Delivered
<1>2. CASE Passes
  BY <1>0, <1>2, PassesOn DEF DeliveryInv, ReportsTrue, Delivered
<1>3. CASE TokenGranted
  <2>1. PICK l \in Lifetimes :
          flight' = [flight EXCEPT
                !.step = "stage",
                !.token = [issued |-> now, expiry |-> now + l],
                !.after.interval = adjustTokenRequestRenewalOption(@, l)]
    BY <1>3 DEF TokenGranted
  <2>2. flight # NoFlight
    BY <1>3 DEF TokenGranted, At
  <2>3. flight'.before = flight.before /\ flight'.after.last = flight.after.last
    BY <1>0, <2>1, <2>2, GrantedFields
  <2>4. UNCHANGED <<obj, group, seen, agent, now, crossed>>
    BY <1>3 DEF TokenGranted
  <2> QED
    BY <1>0, <2>2, <2>3, <2>4 DEF DeliveryInv, ReportsTrue, Delivered
<1>4. CASE Stage
  <2>1. flight # NoFlight
    BY <1>4 DEF Stage, At
  <2>2. flight'.before = flight.before /\ flight'.after = flight.after
    BY <1>0, <1>4, <2>1, MovesOn DEF Stage
  <2>3. UNCHANGED <<obj, group, seen, agent, now, crossed>>
    BY <1>4 DEF Stage
  <2> QED
    BY <1>0, <2>1, <2>2, <2>3 DEF DeliveryInv, ReportsTrue, Delivered
<1>5. CASE Commit
  <2>1. flight # NoFlight /\ staged = flight.token /\ staged # NoToken /\ staged.issued = now
    BY <1>0, <1>5 DEF Commit, At, Granted
  <2>2. flight'.before = flight.before /\ flight'.after.last = now
    BY <1>0, <1>5, <2>1, CommittedFields DEF Commit
  <2>3. UNCHANGED <<obj, seen, agent, now>>
    BY <1>5 DEF Commit
  <2>4. PICK st \in {"none"} \cup (IF group = NoToken THEN {} ELSE {group.status}) :
          group' = [token |-> staged, status |-> st,
                    open |-> IF Pending THEN group.open ELSE now]
    BY <1>5 DEF Commit
  <2>5. group'.token.issued = now /\ group'.status = st
    BY <2>1, <2>4
  <2>6. group' # NoToken
    BY <1>0, <1>5, CommitMakesGroup
  <2>7. crossed' \/ ReportsTrue'
    <3>1. ASSUME ~crossed' PROVE seen # "Provisioned" /\ st # "Provisioned"
      BY <1>5, <2>4, <3>1 DEF Commit
    <3> QED
      BY <2>3, <2>5, <3>1 DEF ReportsTrue
  <2>8. Delivered(obj.last)' /\ Delivered(now)'
    BY <1>0, <2>3, <2>5, <2>6, Types DEF DeliveryInv, Delivered
  <2>9. agent'.issued <= group'.token.issued /\ group'.token.issued <= now'
    BY <1>0, <2>3, <2>5, Types DEF DeliveryInv
  <2>10. flight'.before.last <= now' /\ flight'.after.last <= now'
    BY <1>0, <2>1, <2>2, <2>3, Types DEF DeliveryInv
  <2> QED
    BY <1>0, <2>2, <2>3, <2>7, <2>8, <2>9, <2>10 DEF DeliveryInv, Delivered
<1>6. CASE Withdraw
  <2>1. flight # NoFlight
    BY <1>6 DEF Withdraw, At
  <2>2. flight'.before = flight.before /\ flight'.after = flight.after
    BY <1>0, <1>6, <2>1, MovesOn DEF Withdraw
  <2>3. UNCHANGED <<obj, seen, agent, now, crossed>>
    BY <1>6 DEF Withdraw
  <2>4. CASE group' = group
    BY <1>0, <2>1, <2>2, <2>3, <2>4 DEF DeliveryInv, ReportsTrue, Delivered
  <2>5. CASE group' # group
    <3>1. group # NoToken /\ group' = NoToken /\ seen = "Provisioned"
      BY <1>6, <2>5 DEF Withdraw, Withdrawn
    <3>2. crossed \/ group.token = agent
      BY <3>1 DEF DeliveryInv, ReportsTrue
    <3> QED
      BY <1>0, <2>1, <2>2, <2>3, <3>1, <3>2 DEF DeliveryInv, ReportsTrue, Delivered
  <2> QED
    BY <2>4, <2>5
<1>7. CASE PatchObject
  <2>1. flight \in Flight /\ flight # NoFlight
    BY <1>0, <1>7, Types DEF PatchObject, At
  <2>2. obj'.last = obj.last
    BY <1>0, <1>7, Types DEF PatchObject, Object
  <2>3. flight'.before = flight.before /\ flight'.after = flight.after
    BY <1>7, <2>1 DEF PatchObject, Flight
  <2>4. UNCHANGED <<group, seen, agent, now, crossed>>
    BY <1>7 DEF PatchObject
  <2> QED
    BY <1>0, <2>1, <2>2, <2>3, <2>4 DEF DeliveryInv, ReportsTrue, Delivered
<1>8. CASE PatchStatus
  <2>1. flight # NoFlight
    BY <1>8 DEF PatchStatus, At
  <2>2. obj'.last = Merge(obj.last, flight.before.last, flight.after.last)
    BY <1>0, <1>8, Types DEF PatchStatus, Object
  <2>3. flight' = NoFlight /\ UNCHANGED <<group, seen, agent, now, crossed>>
    BY <1>8 DEF PatchStatus
  <2> QED
    BY <1>0, <2>1, <2>2, <2>3 DEF DeliveryInv, ReportsTrue, Delivered, Merge
<1>9. CASE PatchStatusFails \/ Restart \/ Deliver
  <2>1. UNCHANGED <<obj, group, agent, now, crossed>> /\ flight' \in {flight, NoFlight}
    BY <1>9 DEF PatchStatusFails, Restart, Deliver
  <2>2. seen' = seen \/ seen' = (IF group = NoToken THEN NoToken ELSE group.status)
    BY <1>9 DEF PatchStatusFails, Restart, Deliver
  <2> QED
    BY <1>0, <2>1, <2>2 DEF DeliveryInv, ReportsTrue, Delivered
<1>10. CASE AgentApplies
  <2>1. agent' = group.token /\ group # NoToken /\ UNCHANGED <<obj, group, seen, flight, now, crossed>>
    BY <1>10 DEF AgentApplies, Pending
  <2>2. group.token.issued \in Nat
    BY <1>0, <2>1, Types
  <2>3. \A t \in Nat : Delivered(t) => Delivered(t)'
    BY <1>0, <2>1, <2>2, Types DEF DeliveryInv, Delivered
  <2>4. /\ crossed \/ Delivered(obj.last)'
        /\ flight # NoFlight /\ flight.after.last # flight.before.last =>
              crossed \/ Delivered(flight.after.last)'
    BY <1>0, <2>1, <2>3, Types DEF DeliveryInv, Delivered
  <2> QED
    BY <1>0, <2>1, <2>2, <2>4, Types DEF DeliveryInv, ReportsTrue, Delivered
<1>11. CASE AgentFails
  <2>1. group # NoToken /\ group.token # agent /\ UNCHANGED <<obj, seen, agent, flight, now, crossed>>
    BY <1>11 DEF AgentFails, Pending
  <2>2. group'.token = group.token /\ group'.status = "Failed" /\ group' \in Group
    BY <1>0, <1>11, <2>1, Types DEF AgentFails, Group, Statuses
  <2> QED
    BY <1>0, <2>1, <2>2 DEF DeliveryInv, ReportsTrue, Delivered
<1>12. CASE AgentReports
  <2>1. group # NoToken /\ group.token = agent /\ UNCHANGED <<obj, seen, agent, flight, now, crossed>>
    BY <1>12 DEF AgentReports
  <2>2. group'.token = group.token /\ group' \in Group
    BY <1>0, <1>12, <2>1, Types DEF AgentReports, Group, Statuses
  <2> QED
    BY <1>0, <2>1, <2>2 DEF DeliveryInv, ReportsTrue, Delivered
<1>13. CASE EditInterval
  <2>1. obj'.last = obj.last /\ UNCHANGED <<group, seen, agent, flight, now, crossed>>
    BY <1>0, <1>13, Types DEF EditInterval, Object
  <2> QED
    BY <1>0, <2>1 DEF DeliveryInv, ReportsTrue, Delivered
<1>14. CASE Tick
  <2>1. now' = now + 1 /\ flight = NoFlight /\ UNCHANGED <<obj, group, seen, agent, flight, crossed>>
    BY <1>14 DEF Tick
  <2> QED
    BY <1>0, <2>1, Types DEF DeliveryInv, ReportsTrue, Delivered
<1>15. CASE UNCHANGED vars
  BY <1>0, <1>15 DEF vars, DeliveryInv, ReportsTrue, Delivered
<1> QED
  BY <1>1, <1>2, <1>3, <1>4, <1>5, <1>6, <1>7, <1>8, <1>9, <1>10, <1>11, <1>12, <1>13, <1>14,
     <1>15 DEF Next, Reconciles, Passes

(* Every renewal the status records has reached the agent or is on its way *)
(* in the group, whichever call fails, wherever the manager restarts and   *)
(* however far the cache lags, unless a renewal crossed the report about   *)
(* an earlier one.                                                         *)
THEOREM RecordedAlwaysDelivered == Spec => []RecordedIsDelivered
<1>1. DeliveryInv => RecordedIsDelivered
  BY DEF DeliveryInv, Delivered, RecordedIsDelivered
<1> QED
  BY <1>1, InitDelivery, StepDelivery, PTL DEF Spec

(* A group is withdrawn only when the agent has the token it carries, with *)
(* the same exception.                                                     *)
THEOREM NeverWithdrawnEarly == Spec => WithdrawnOnlyIfApplied
<1> DEFINE A == group # NoToken /\ group' = NoToken /\ ~crossed => agent = group.token
<1>1. DeliveryInv /\ [Next]_vars => [A]_vars
  <2> SUFFICES ASSUME DeliveryInv, Next, group # NoToken, group' = NoToken, ~crossed
               PROVE  agent = group.token
    OBVIOUS
  <2>1. CASE Withdraw
    <3>1. seen = "Provisioned"
      BY <2>1 DEF Withdraw, Withdrawn
    <3> QED
      BY <3>1 DEF DeliveryInv, ReportsTrue
  <2>2. CASE Commit \/ AgentFails \/ AgentReports
    <3>1. TypeOK /\ Granted
      BY DEF DeliveryInv
    <3>2. CASE Commit
      BY <3>1, <3>2, CommitMakesGroup
    <3>3. CASE AgentFails \/ AgentReports
      <4>1. group' \in Group
        BY <3>1, <3>3, Types DEF AgentFails, AgentReports, Group, Statuses
      <4> QED
        BY <4>1, MarkersAssumption DEF MarkersAssumption
    <3> QED
      BY <2>2, <3>2, <3>3
  <2>3. CASE ~(Withdraw \/ Commit \/ AgentFails \/ AgentReports)
    <3>1. UNCHANGED group
      BY <2>3 DEF Next, Reconciles, Begin, RequestFails, TokenGranted, Stage, StageFails,
                  CommitFails, WithdrawFails, PatchObject, PatchObjectFails, PatchStatus,
                  PatchStatusFails, Restart, Deliver, AgentApplies, EditInterval, Tick
    <3> QED
      BY <3>1
  <2> QED
    BY <2>1, <2>2, <2>3
<1> QED
  BY <1>1, InitDelivery, StepDelivery, PTL DEF Spec, WithdrawnOnlyIfApplied

(***************************************************************************)
(* While nothing disturbs renewals the agent is not locked out.            *)
(***************************************************************************)

(* From the moment a renewal is due, a reconcile and then the agent see to *)
(* it.                                                                     *)
Margin == Slack + Lag

Adequate == AdequateFor(Margin) /\ \A i \in Intervals : AsksPast(i, Margin)

(* The newest token the agent has or can fetch.                            *)
Newest == IF group # NoToken THEN group.token ELSE agent

Outlives(t) == Newest.expiry > t + Margin

(* The renewal is not timed later with i than with j.                      *)
NoLater(i, j) == renewalThreshold(i) <= renewalThreshold(j)

(* A reconcile in flight: its snapshot has the time of the object, and an  *)
(* interval, replaced by the copy's once it is patched, that users have    *)
(* only made more urgent; it looked for a due renewal at this moment;      *)
(* without a committed token its copy is its snapshot, or has the interval *)
(* of a token that outlives the next renewal; with one, that is the newest.*)
FlightInTime ==
    flight # NoFlight =>
        /\ flight.before.last = obj.last
        /\ AsksPast(flight.before.interval, Margin) /\ AsksPast(flight.after.interval, Margin)
        /\ flight.step # "status" => NoLater(obj.interval, flight.before.interval)
        /\ flight.step = "status" => NoLater(obj.interval, flight.after.interval)
        /\ flight.due <=> now - obj.last > renewalThreshold(flight.before.interval)
        /\ flight.step \in {"request", "stage", "commit"} => flight.due /\ ~flight.sent
        /\ flight.step \in {"stage", "commit"} =>
              flight.token.expiry > now + renewalThreshold(flight.after.interval) + Margin
        /\ ~flight.sent => Outlives(obj.last + renewalThreshold(flight.before.interval))
        /\ ~flight.sent /\ flight.step \notin {"stage", "commit"} => flight.after = flight.before
        /\ flight.sent =>
              /\ flight.due /\ flight.after.last = now
              /\ Outlives(now + renewalThreshold(flight.after.interval))

(* The newest token outlives the last reconcile that got through and the   *)
(* moment of its own renewal; an agent that does not have it yet keeps its *)
(* access until it is late.                                                *)
InTime ==
    /\ now <= checked + Slack
    /\ AsksPast(obj.interval, Margin)
    /\ Outlives(checked)
    /\ Outlives(obj.last + renewalThreshold(obj.interval))
    /\ Pending => agent.expiry > group.open + Lag /\ now <= group.open + Lag
    /\ FlightInTime

InTimeInv ==
    /\ DeliveryInv
    /\ checked <= now
    /\ crossed \/ disturbed \/ InTime

LEMMA InTimeTypes ==
    ASSUME TypeOK
    PROVE  Newest.expiry \in Nat /\ Margin \in Nat /\ Margin = Slack + Lag
           /\ Slack \in Nat /\ Lag \in Nat
BY Types, PullAssumption DEF PullAssumption, Newest, Margin

LEMMA InitInTime == Adequate /\ Init => InTimeInv
<1> SUFFICES ASSUME Adequate, Init PROVE InTimeInv
  OBVIOUS
<1>1. DeliveryInv
  BY InitDelivery
<1>2. PICK i \in Intervals, l \in Lifetimes :
        /\ l > renewalThreshold(i) + Slack + Lag
        /\ obj = [interval |-> i, last |-> 0] /\ agent = [issued |-> 0, expiry |-> l]
  BY DEF Init
<1>3. /\ obj.interval = i /\ obj.last = 0 /\ agent.expiry = l
      /\ group = NoToken /\ flight = NoFlight /\ checked = 0 /\ now = 0
  BY <1>2 DEF Init
<1>4. Newest.expiry = l
  BY <1>3 DEF Newest
<1>5. i \in Nat /\ l \in Nat /\ renewalThreshold(i) \in Nat
  BY PullAssumption, TimingAssumption, ThresholdType DEF PullAssumption, TimingAssumption
<1>6. Outlives(checked) /\ Outlives(obj.last + renewalThreshold(obj.interval))
  BY <1>1, <1>2, <1>3, <1>4, <1>5, InTimeTypes DEF Outlives, DeliveryInv
<1>7. AsksPast(obj.interval, Margin)
  BY <1>3 DEF Adequate
<1>8. now <= checked + Slack /\ checked <= now
  BY <1>1, <1>3, InTimeTypes DEF DeliveryInv
<1> QED
  BY <1>1, <1>3, <1>6, <1>7, <1>8 DEF InTimeInv, InTime, FlightInTime, Pending

(* What was disturbed stays disturbed, and the last time a reconcile got   *)
(* through is past.                                                        *)
LEMMA Monotone ==
    ASSUME DeliveryInv, DeliveryInv', checked <= now, [Next]_vars
    PROVE  (crossed => crossed') /\ (disturbed => disturbed') /\ checked' <= now'
<1>0. TypeOK /\ checked \in Nat /\ now \in Nat
  BY Types DEF DeliveryInv
<1>1. CASE Passes
  BY <1>0, <1>1, PassesOn
<1>2. CASE Commit
  <2>1. UNCHANGED <<disturbed, checked, now>> /\ (crossed => crossed')
    BY <1>2 DEF Commit
  <2> QED
    BY <2>1
<1>3. CASE PatchStatus
  <2>1. UNCHANGED <<crossed, disturbed, now>> /\ checked' \in {now, checked}
    BY <1>3 DEF PatchStatus, Checked
  <2> QED
    BY <1>0, <2>1
<1>4. CASE EditInterval
  <2>1. UNCHANGED <<crossed, checked, now>> /\ (disturbed => disturbed')
    BY <1>4 DEF EditInterval
  <2> QED
    BY <2>1
<1>5. CASE Tick
  <2>1. UNCHANGED <<crossed, checked>> /\ now' = now + 1 /\ (disturbed => disturbed')
    BY <1>5 DEF Tick
  <2> QED
    BY <1>0, <2>1
<1>6. CASE \/ Begin \/ TokenGranted \/ Stage \/ Withdraw \/ PatchObject \/ PatchStatusFails
           \/ Restart \/ Deliver \/ AgentApplies \/ AgentFails \/ AgentReports \/ UNCHANGED vars
  <2>1. UNCHANGED <<crossed, disturbed, checked, now>>
    BY <1>6 DEF Begin, TokenGranted, Stage, Withdraw, PatchObject, PatchStatusFails, Restart,
                Deliver, AgentApplies, AgentFails, AgentReports, vars
  <2> QED
    BY <2>1
<1> QED
  BY <1>1, <1>2, <1>3, <1>4, <1>5, <1>6 DEF Next, Reconciles, Passes

LEMMA StepInTime == Adequate /\ InTimeInv /\ [Next]_vars => InTimeInv'
<1> SUFFICES ASSUME Adequate, InTimeInv, [Next]_vars PROVE InTimeInv'
  OBVIOUS
<1> USE MarkersAssumption DEF MarkersAssumption
<1>0. DeliveryInv /\ DeliveryInv' /\ checked <= now
  BY StepDelivery DEF InTimeInv
<1>a. TypeOK /\ TypeOK' /\ Granted
  BY <1>0 DEF DeliveryInv
<1>b. (crossed => crossed') /\ (disturbed => disturbed') /\ checked' <= now'
  BY <1>0, Monotone
<1> SUFFICES ASSUME ~crossed', ~disturbed' PROVE InTime'
  BY <1>0, <1>b DEF InTimeInv
<1>c. ~crossed /\ ~disturbed /\ InTime
  BY <1>b DEF InTimeInv
<1>1. CASE Begin
  <2> DEFINE due == shouldRenewTokenRequest(obj, now)
  <2>1. flight' = [step |-> IF due THEN "request" ELSE "withdraw", before |-> obj,
                   after |-> obj, token |-> NoToken,
                   due |-> due, sent |-> FALSE, patched |-> FALSE]
    BY <1>1 DEF Begin
  <2>2. due <=> now - obj.last > renewalThreshold(obj.interval)
    BY DEF shouldRenewTokenRequest
  <2> HIDE DEF due
  <2>3. /\ flight'.before = obj /\ flight'.after = obj /\ flight'.due = due /\ flight'.sent = FALSE
        /\ flight'.step = IF due THEN "request" ELSE "withdraw"
    BY <2>1
  <2>4. UNCHANGED <<obj, group, agent, checked, now>>
    BY <1>1 DEF Begin
  <2>5. FlightInTime'
    <3>1. NoLater(obj.interval, obj.interval)
      BY <1>a, Types DEF NoLater
    <3>2. /\ AsksPast(obj.interval, Margin)
          /\ Outlives(obj.last + renewalThreshold(obj.interval))
      BY <1>c DEF InTime
    <3>3. flight'.due <=> now - obj.last > renewalThreshold(obj.interval)
      BY <2>2, <2>3
    <3>4. flight'.step = "request" => flight'.due
      BY <2>3
    <3>5. flight'.step \in {"request", "withdraw"}
      BY <2>3
    <3> QED
      BY <2>3, <2>4, <3>1, <3>2, <3>3, <3>4, <3>5 DEF FlightInTime, NoLater, Outlives, Newest
  <2> QED
    BY <1>c, <2>4, <2>5 DEF InTime, Outlives, Newest, Pending
<1>2. CASE Passes
  <2>1. /\ flight # NoFlight
        /\ flight'.before = flight.before /\ flight'.after = flight.after
        /\ flight'.due = flight.due /\ flight'.sent = flight.sent
        /\ flight'.step \in {"withdraw", "object"}
        /\ UNCHANGED <<obj, group, agent, checked, now>>
        /\ RequestFails \/ WithdrawFails
    BY <1>2, <1>a, PassesOn DEF Passes
  <2>2. flight.step \in {"request", "withdraw"}
    BY <2>1 DEF RequestFails, WithdrawFails, At
  <2>3. FlightInTime'
    BY <1>c, <2>1, <2>2 DEF InTime, FlightInTime, NoLater, Outlives, Newest
  <2> QED
    BY <1>c, <2>1, <2>3 DEF InTime, Outlives, Newest, Pending
<1>3. CASE TokenGranted
  <2>1. PICK l \in Lifetimes :
          flight' = [flight EXCEPT
                !.step = "stage",
                !.token = [issued |-> now, expiry |-> now + l],
                !.after.interval = adjustTokenRequestRenewalOption(@, l)]
    BY <1>3 DEF TokenGranted
  <2>2. flight # NoFlight /\ flight.step = "request"
    BY <1>3 DEF TokenGranted, At
  <2> DEFINE i == adjustTokenRequestRenewalOption(flight.after.interval, l)
  <2>3. /\ flight'.before = flight.before /\ flight'.step = "stage"
        /\ flight'.after.interval = i /\ flight'.due = flight.due /\ flight'.sent = flight.sent
        /\ flight'.token = [issued |-> now, expiry |-> now + l]
    BY <1>a, <2>1, <2>2, GrantedFields
  <2>4. UNCHANGED <<obj, group, agent, checked, now>>
    BY <1>3 DEF TokenGranted
  <2>5. flight.after.interval \in Nat /\ now \in Nat /\ Margin \in Nat /\ l \in Nat
    BY <1>a, <2>2, Types, InTimeTypes, TimingAssumption DEF TimingAssumption
  <2>6. AsksPast(i, Margin) /\ l > renewalThreshold(i) + Margin
    BY <1>c, <2>2, <2>5, GrantLasts DEF InTime, FlightInTime, Adequate
  <2>7. renewalThreshold(i) \in Nat
    BY <2>5, IntervalTypes, ThresholdType
  <2> HIDE DEF i
  <2>8. flight'.token.expiry > now + renewalThreshold(i) + Margin
    BY <2>3, <2>5, <2>6, <2>7
  <2>9. FlightInTime'
    BY <1>c, <2>2, <2>3, <2>4, <2>6, <2>8
       DEF InTime, FlightInTime, NoLater, Outlives, Newest
  <2> QED
    BY <1>c, <2>4, <2>9 DEF InTime, Outlives, Newest, Pending
<1>4. CASE Stage
  <2>1. flight # NoFlight /\ flight.step = "stage"
    BY <1>4 DEF Stage, At
  <2>2. /\ flight'.before = flight.before /\ flight'.after = flight.after
        /\ flight'.due = flight.due /\ flight'.sent = flight.sent
        /\ flight'.step = "commit" /\ flight'.token = flight.token
    BY <1>a, <1>4, <2>1, MovesOn DEF Stage
  <2>3. UNCHANGED <<obj, group, agent, checked, now>>
    BY <1>4 DEF Stage
  <2>4. FlightInTime'
    BY <1>c, <2>1, <2>2, <2>3 DEF InTime, FlightInTime, NoLater, Outlives, Newest
  <2> QED
    BY <1>c, <2>3, <2>4 DEF InTime, Outlives, Newest, Pending
<1>5. CASE Commit
  <2>1. flight # NoFlight /\ flight.step = "commit" /\ staged = flight.token /\ staged # NoToken
    BY <1>a, <1>5 DEF Commit, At, Granted
  <2>2. /\ flight'.before = flight.before /\ flight'.after.interval = flight.after.interval
        /\ flight'.after.last = now /\ flight'.due = flight.due /\ flight'.sent = TRUE
        /\ flight'.step = "withdraw"
    BY <1>a, <1>5, <2>1, CommittedFields DEF Commit
  <2>3. UNCHANGED <<obj, agent, checked, now>>
    BY <1>5 DEF Commit
  <2>4. group'.token = staged /\ group'.open = IF Pending THEN group.open ELSE now
    BY <1>5 DEF Commit
  <2>5. Newest'.expiry = staged.expiry
    <3>1. group' # NoToken
      BY <1>a, <1>5, CommitMakesGroup
    <3> QED
      BY <2>4, <3>1 DEF Newest
  <2>6. /\ staged.expiry > now + renewalThreshold(flight.after.interval) + Margin
        /\ flight.due /\ flight.before.last = obj.last
        /\ now - obj.last > renewalThreshold(flight.before.interval)
        /\ NoLater(obj.interval, flight.before.interval)
    BY <1>c, <2>1 DEF InTime, FlightInTime
  <2>7. /\ now \in Nat /\ obj.last \in Nat /\ checked \in Nat /\ staged.expiry \in Nat
        /\ renewalThreshold(obj.interval) \in Nat
        /\ renewalThreshold(flight.before.interval) \in Nat
        /\ renewalThreshold(flight.after.interval) \in Nat
    BY <1>a, <2>1, Types
  <2>8. /\ Outlives(checked)'
        /\ Outlives(obj.last + renewalThreshold(obj.interval))'
        /\ Outlives(now + renewalThreshold(flight.after.interval))'
    BY <1>0, <1>a, <2>2, <2>3, <2>5, <2>6, <2>7, InTimeTypes DEF Outlives, NoLater
  <2>9. Pending' => agent'.expiry > group'.open + Lag /\ now' <= group'.open + Lag
    <3>1. CASE Pending
      BY <1>c, <2>3, <2>4, <3>1 DEF InTime
    <3>2. CASE ~Pending
      <4>1. Newest.expiry = agent.expiry
        BY <3>2 DEF Newest, Pending
      <4>2. agent.expiry > checked + Margin /\ now <= checked + Slack
        BY <1>c, <4>1 DEF InTime, Outlives
      <4>3. agent.expiry \in Nat
        BY <1>a, Types
      <4> QED
        BY <1>a, <2>3, <2>4, <2>7, <3>2, <4>2, <4>3, InTimeTypes
    <3> QED
      BY <3>1, <3>2
  <2>10. FlightInTime'
    BY <1>c, <2>1, <2>2, <2>3, <2>6, <2>8 DEF InTime, FlightInTime, NoLater, Outlives
  <2> QED
    BY <1>c, <2>3, <2>8, <2>9, <2>10 DEF InTime
<1>6. CASE Withdraw
  <2>1. flight # NoFlight /\ flight.step = "withdraw"
    BY <1>6 DEF Withdraw, At
  <2>2. /\ flight'.before = flight.before /\ flight'.after = flight.after
        /\ flight'.due = flight.due /\ flight'.sent = flight.sent /\ flight'.step = "object"
    BY <1>a, <1>6, <2>1, MovesOn DEF Withdraw
  <2>3. UNCHANGED <<obj, agent, checked, now>>
    BY <1>6 DEF Withdraw
  <2>4. Newest' = Newest /\ (Pending' => Pending /\ group' = group)
    <3>1. CASE group' = group
      BY <2>3, <3>1 DEF Newest, Pending
    <3>2. CASE group' # group
      <4>1. group # NoToken /\ group' = NoToken /\ seen = "Provisioned"
        BY <1>6, <3>2 DEF Withdraw, Withdrawn
      <4>2. group.token = agent
        BY <1>0, <1>c, <4>1 DEF DeliveryInv, ReportsTrue
      <4> QED
        BY <2>3, <4>1, <4>2 DEF Newest, Pending
    <3> QED
      BY <3>1, <3>2
  <2>5. FlightInTime'
    BY <1>c, <2>1, <2>2, <2>3, <2>4 DEF InTime, FlightInTime, NoLater, Outlives
  <2> QED
    BY <1>c, <2>3, <2>4, <2>5 DEF InTime, Outlives
<1>7. CASE PatchObject
  <2>1. flight # NoFlight /\ flight.step = "object" /\ flight \in Flight
    BY <1>7, <1>a, Types DEF PatchObject, At
  <2>2. /\ obj'.interval = Merge(obj.interval, flight.before.interval, flight.after.interval)
        /\ obj'.last = obj.last
    BY <1>7, <1>a, Types DEF PatchObject, Object
  <2>3. /\ flight'.before = flight.before /\ flight'.after = flight.after
        /\ flight'.due = flight.due /\ flight'.sent = flight.sent /\ flight'.step = "status"
    BY <1>7, <2>1 DEF PatchObject, Flight
  <2>4. UNCHANGED <<group, agent, checked, now>>
    BY <1>7 DEF PatchObject
  <2>5. /\ AsksPast(obj'.interval, Margin) /\ NoLater(obj'.interval, flight.after.interval)
        /\ Outlives(obj.last + renewalThreshold(obj'.interval))
    <3>1. CASE flight.after.interval = flight.before.interval
      <4>1. obj'.interval = obj.interval
        BY <2>2, <3>1 DEF Merge
      <4> QED
        BY <1>c, <2>1, <3>1, <4>1 DEF InTime, FlightInTime, NoLater
    <3>2. CASE flight.after.interval # flight.before.interval
      <4>1. obj'.interval = flight.after.interval
        BY <2>2, <3>2 DEF Merge
      <4>2. /\ AsksPast(flight.after.interval, Margin)
            /\ Outlives(now + renewalThreshold(flight.after.interval))
        BY <1>c, <2>1, <3>2 DEF InTime, FlightInTime
      <4>3. /\ now \in Nat /\ obj.last \in Nat /\ obj.last <= now
            /\ renewalThreshold(flight.after.interval) \in Nat
        BY <1>0, <1>a, <2>1, Types DEF DeliveryInv
      <4>4. Outlives(obj.last + renewalThreshold(flight.after.interval))
        BY <1>a, <4>2, <4>3, InTimeTypes DEF Outlives
      <4>5. NoLater(flight.after.interval, flight.after.interval)
        BY <4>3 DEF NoLater
      <4> QED
        BY <4>1, <4>2, <4>4, <4>5
    <3> QED
      BY <3>1, <3>2
  <2>6. FlightInTime'
    BY <1>c, <2>1, <2>2, <2>3, <2>4, <2>5 DEF InTime, FlightInTime, NoLater, Outlives, Newest
  <2> QED
    BY <1>c, <2>2, <2>4, <2>5, <2>6 DEF InTime, Outlives, Newest, Pending
<1>8. CASE PatchStatus
  <2>1. flight # NoFlight /\ flight.step = "status"
    BY <1>8 DEF PatchStatus, At
  <2>2. /\ obj'.last = Merge(obj.last, flight.before.last, flight.after.last)
        /\ obj'.interval = obj.interval
    BY <1>8, <1>a, Types DEF PatchStatus, Object
  <2>3. flight' = NoFlight /\ UNCHANGED <<group, agent, now>>
    BY <1>8 DEF PatchStatus
  <2>4. checked' = checked \/ (checked' = now /\ (flight.due => flight.sent))
    BY <1>8 DEF PatchStatus, Checked
  <2>5. /\ now \in Nat /\ obj.last \in Nat /\ checked \in Nat
        /\ renewalThreshold(obj.interval) \in Nat
        /\ renewalThreshold(flight.before.interval) \in Nat
        /\ renewalThreshold(flight.after.interval) \in Nat
    BY <1>a, <2>1, Types
  <2>6. NoLater(obj.interval, flight.after.interval)
    BY <1>c, <2>1 DEF InTime, FlightInTime
  <2>7. CASE flight.sent
    <3>1. flight.after.last = now /\ Outlives(now + renewalThreshold(flight.after.interval))
      BY <1>c, <2>1, <2>7 DEF InTime, FlightInTime
    <3>2. obj'.last = now
      BY <1>c, <2>1, <2>2, <3>1 DEF Merge, InTime, FlightInTime
    <3>3. Outlives(now) /\ Outlives(now + renewalThreshold(obj.interval))
      BY <1>a, <2>5, <2>6, <3>1, InTimeTypes DEF Outlives, NoLater
    <3>4. now' <= checked' + Slack /\ Outlives(checked')
      BY <1>a, <1>c, <2>3, <2>4, <2>5, <3>3, InTimeTypes DEF InTime
    <3> QED
      BY <1>c, <2>2, <2>3, <3>2, <3>3, <3>4
         DEF InTime, FlightInTime, Outlives, Newest, Pending
  <2>8. CASE ~flight.sent
    <3>1. /\ flight.after = flight.before /\ flight.before.last = obj.last
          /\ Outlives(obj.last + renewalThreshold(flight.before.interval))
          /\ flight.due <=> now - obj.last > renewalThreshold(flight.before.interval)
      BY <1>c, <2>1, <2>8 DEF InTime, FlightInTime
    <3>2. obj'.last = obj.last
      BY <2>2, <3>1 DEF Merge
    <3>3. ~flight.due => Outlives(now)
      BY <1>a, <2>5, <3>1, InTimeTypes DEF Outlives
    <3>4. now' <= checked' + Slack /\ Outlives(checked')
      BY <1>a, <1>c, <2>3, <2>4, <2>5, <2>8, <3>3, InTimeTypes DEF InTime
    <3> QED
      BY <1>c, <2>2, <2>3, <3>2, <3>4
         DEF InTime, FlightInTime, Outlives, Newest, Pending
  <2> QED
    BY <2>7, <2>8
<1>9. CASE PatchStatusFails \/ Restart \/ Deliver
  <2>1. UNCHANGED <<obj, group, agent, checked, now>> /\ flight' \in {flight, NoFlight}
    BY <1>9 DEF PatchStatusFails, Restart, Deliver
  <2>2. FlightInTime'
    BY <1>c, <2>1 DEF InTime, FlightInTime, NoLater, Outlives, Newest
  <2> QED
    BY <1>c, <2>1, <2>2 DEF InTime, Outlives, Newest, Pending
<1>10. CASE AgentApplies
  <2>1. group # NoToken /\ agent' = group.token /\ UNCHANGED <<obj, group, flight, checked, now>>
    BY <1>10 DEF AgentApplies, Pending
  <2>2. Newest' = Newest /\ ~Pending'
    BY <2>1 DEF Newest, Pending
  <2>3. FlightInTime'
    BY <1>c, <2>1, <2>2 DEF InTime, FlightInTime, NoLater, Outlives
  <2> QED
    BY <1>c, <2>1, <2>2, <2>3 DEF InTime, Outlives
<1>11. CASE AgentFails \/ AgentReports
  <2>1. group # NoToken /\ UNCHANGED <<obj, agent, flight, checked, now>>
    BY <1>11 DEF AgentFails, AgentReports, Pending
  <2>2. group'.token = group.token /\ group'.open = group.open /\ group' \in Group
    BY <1>a, <1>11, <2>1, Types DEF AgentFails, AgentReports, Group, Statuses
  <2>3. Newest' = Newest /\ (Pending' => Pending)
    BY <2>1, <2>2 DEF Newest, Pending
  <2>4. FlightInTime'
    BY <1>c, <2>1, <2>3 DEF InTime, FlightInTime, NoLater, Outlives
  <2> QED
    BY <1>c, <2>1, <2>2, <2>3, <2>4 DEF InTime, Outlives
<1>12. CASE EditInterval
  <2>1. PICK i \in Intervals :
          /\ obj' = [obj EXCEPT !.interval = i]
          /\ disturbed' = (disturbed \/ renewalThreshold(i) > renewalThreshold(obj.interval))
    BY <1>12 DEF EditInterval
  <2>2. obj'.interval = i /\ obj'.last = obj.last
    BY <1>a, <2>1, Types DEF Object
  <2>3. UNCHANGED <<group, agent, flight, checked, now>>
    BY <1>12 DEF EditInterval
  <2>4. i \in Nat /\ renewalThreshold(i) \in Nat /\ AsksPast(i, Margin)
    BY PullAssumption, ThresholdType DEF PullAssumption, Adequate
  <2>5. ~(renewalThreshold(i) > renewalThreshold(obj.interval))
    BY <2>1
  <2>6. NoLater(i, obj.interval)
    BY <1>a, <2>4, <2>5, Types DEF NoLater
  <2>7. Outlives(obj.last + renewalThreshold(i))
    BY <1>a, <1>c, <2>4, <2>6, Types, InTimeTypes DEF InTime, Outlives, NoLater
  <2>8. ASSUME flight # NoFlight
        PROVE  /\ flight.step # "status" => NoLater(i, flight.before.interval)
               /\ flight.step = "status" => NoLater(i, flight.after.interval)
    BY <1>a, <1>c, <2>4, <2>6, <2>8, Types DEF InTime, FlightInTime, NoLater
  <2>9. FlightInTime'
    BY <1>c, <2>2, <2>3, <2>8 DEF InTime, FlightInTime, NoLater, Outlives, Newest
  <2> QED
    BY <1>c, <2>2, <2>3, <2>4, <2>7, <2>9 DEF InTime, Outlives, Newest, Pending
<1>13. CASE Tick
  <2>1. /\ now' = now + 1 /\ flight = NoFlight /\ UNCHANGED <<obj, group, agent, flight, checked>>
        /\ ~(now >= checked + Slack) /\ ~(Pending /\ now >= group.open + Lag)
    BY <1>13 DEF Tick
  <2>2. now' <= checked' + Slack
    BY <1>a, <2>1, Types, InTimeTypes
  <2>3. Pending' => agent'.expiry > group'.open + Lag /\ now' <= group'.open + Lag
    BY <1>a, <1>c, <2>1, Types, InTimeTypes DEF InTime, Pending
  <2> QED
    BY <1>c, <2>1, <2>2, <2>3 DEF InTime, FlightInTime, Outlives, Newest
<1>14. CASE UNCHANGED vars
  <2>1. UNCHANGED <<obj, group, agent, flight, checked, now>>
    BY <1>14 DEF vars
  <2>2. FlightInTime'
    BY <1>c, <2>1 DEF InTime, FlightInTime, NoLater, Outlives, Newest
  <2> QED
    BY <1>c, <2>1, <2>2 DEF InTime, Outlives, Newest, Pending
<1> QED
  BY <1>1, <1>2, <1>3, <1>4, <1>5, <1>6, <1>7, <1>8, <1>9, <1>10, <1>11, <1>12, <1>13, <1>14
     DEF Next, Reconciles, Passes

(* The agent's credential is renewed before it expires, for every          *)
(* interval, every lifetime granted, and reconciles and an agent that      *)
(* together keep within ten minutes, across refused tokens, failed         *)
(* withdrawals, failed status patches and restarts, as long as bundles and *)
(* intervals can be written, users do not postpone the renewal and no      *)
(* renewal crosses the report about an earlier one.                        *)
THEOREM AgentNeverLockedOut == Adequate => (Spec => []AgentNotLockedOut)
<1> SUFFICES ASSUME Adequate PROVE Spec => []AgentNotLockedOut
  OBVIOUS
<1>1. Init => InTimeInv
  BY InitInTime
<1>2. InTimeInv /\ [Next]_vars => InTimeInv'
  BY StepInTime
<1>3. InTimeInv => AgentNotLockedOut
  <2> SUFFICES ASSUME InTimeInv, ~crossed, ~disturbed PROVE agent.expiry > now
    BY DEF AgentNotLockedOut, Reaches
  <2>1. TypeOK /\ InTime
    BY DEF InTimeInv, DeliveryInv
  <2>2. CASE Pending
    BY <2>1, <2>2, Types, InTimeTypes DEF InTime, Pending
  <2>3. CASE ~Pending
    <3>1. Newest.expiry = agent.expiry
      BY <2>3 DEF Newest, Pending
    <3> QED
      BY <2>1, <3>1, Types, InTimeTypes DEF InTime, Outlives
  <2> QED
    BY <2>2, <2>3
<1> QED
  BY <1>1, <1>2, <1>3, PTL DEF Spec
===============================================================================
