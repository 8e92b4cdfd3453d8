-------------------- MODULE SveltosClusterController_proofs --------------------
(***************************************************************************)
(* Proofs about SveltosClusterController, for every value of its constants.*)
(***************************************************************************)
EXTENDS SveltosClusterController, TLAPS

(***************************************************************************)
(* Types.                                                                  *)
(***************************************************************************)

(* A check keeps the object an object: the count stays within its bound    *)
(* and the status among its three values.                                  *)
LEMMA CheckType ==
    ASSUME NEW o \in Object
    PROVE  updateConnectionStatus(o) \in Object
<1>1. IncrementFailures(o.failures) \in 0..MaxFailures
  BY ThresholdAssumption DEF ThresholdAssumption, IncrementFailures, Object
<1>2. CASE o.failing
  BY <1>1, <1>2 DEF updateConnectionStatus, Object, ConnectionStates, Down
<1>3. CASE ~o.failing
  <2>1. 0 \in 0..MaxFailures /\ Healthy \in ConnectionStates
    BY ThresholdAssumption DEF ThresholdAssumption, ConnectionStates
  <2>2. updateConnectionStatus(o) = [o EXCEPT !.failures = 0, !.conn = Healthy]
    BY <1>3 DEF updateConnectionStatus
  <2> QED
    BY <2>1, <2>2 DEF Object
<1> QED
  BY <1>2, <1>3

(* So does the probe of either mode.                                       *)
LEMMA ProbeType ==
    ASSUME NEW o \in Object
    PROVE  Probe(o) \in Object
<1>1. PullProbe(o) \in Object
  BY DEF PullProbe, PullHeard, Object
<1>2. PushProbe(o) \in Object
  BY DEF PushProbe, Reached, ChecksFail, Object
<1> QED
  BY <1>1, <1>2 DEF Probe

(* Nothing exported is a value of the gauges.                              *)
LEMMA NoGaugesType == NoGauges \in GaugeSet
BY DEF NoGauges, GaugeSet, NoCount

(* Whatever has been exported keeps the gauges' types.                     *)
LEMMA GaugeType ==
    ASSUME NEW o \in Object, NEW checked \in Object, gauges \in GaugeSet,
           PullMode \in BOOLEAN
    PROVE  updateMetrics(o, checked) \in GaugeSet /\ GaugesSkipped(o) \in GaugeSet
<1>1. updateMetrics(o, checked) \in GaugeSet
  BY DEF updateMetrics, GaugeSet, Object, Reached, ChecksFail
<1>2. (gauges.behind \/ Counted(o)) \in BOOLEAN
  BY DEF GaugeSet, Counted, PullHeard
<1>3. GaugesSkipped(o) \in GaugeSet
  BY <1>2 DEF GaugesSkipped, GaugeSet
<1> QED
  BY <1>1, <1>3

(* The merge of a patch into a stored object is an object.                 *)
LEMMA MergeType ==
    ASSUME obj \in Object, before \in Object, after \in Object
    PROVE  MergedObject \in Object /\ MergedStatus \in Object
<1>1. MergedObject \in Object
  BY DEF MergedObject, Merge, Object
<1>2. MergedStatus \in Object
  <2>1. /\ Merge(obj.ready, before.ready, after.ready) \in BOOLEAN
        /\ Merge(obj.reported, before.reported, after.reported) \in BOOLEAN
        /\ Merge(obj.failing, before.failing, after.failing) \in BOOLEAN
    BY DEF Merge, Object
  <2>2. /\ Merge(obj.failures, before.failures, after.failures) \in 0..MaxFailures
        /\ Merge(obj.conn, before.conn, after.conn) \in ConnectionStates
    BY DEF Merge, Object
  <2> QED
    BY <2>1, <2>2 DEF MergedStatus, Object
<1> QED
  BY <1>1, <1>2

(* A newly registered cluster is an object.                                *)
LEMMA FreshType ==
    ASSUME NEW g \in Graces \cup {NoGrace}
    PROVE  Fresh(g) \in Object
BY ThresholdAssumption DEF ThresholdAssumption, Fresh, Object, ConnectionStates

(* The manager's variables at rest.                                        *)
LEMMA EndType ==
    ASSUME EndReconcile
    PROVE  /\ pc' = "idle" /\ before' = Absent /\ after' = Absent
           /\ failed' \in BOOLEAN /\ requeue' \in BOOLEAN
BY DEF EndReconcile

(* Each step keeps the types.                                              *)
LEMMA TypeStep == TypeOK /\ [Next]_vars => TypeOK'
<1> SUFFICES ASSUME TypeOK, [Next]_vars PROVE TypeOK'
  OBVIOUS
<1>a. pc # "idle" => before \in Object /\ after \in Object
  BY AbsentAssumption DEF TypeOK, AbsentAssumption
<1>b. PullMode \in BOOLEAN
  BY ControllerAssumption DEF ControllerAssumption
<1>1. CASE Fetch
  BY <1>1, AbsentAssumption DEF Fetch, TypeOK, manager, AbsentAssumption
<1>2. CASE ShardMatch
  BY <1>2 DEF ShardMatch, TypeOK
<1>3. CASE ShardMismatch
  BY <1>3, EndType DEF ShardMismatch, TypeOK
<1>4. CASE reconcileDeleteWaits
  <2>1. deleteRequeueAfter \in BOOLEAN
    BY <1>4, <1>a DEF reconcileDeleteWaits, deleteRequeueAfter, Object
  <2> QED
    BY <1>4, <2>1 DEF reconcileDeleteWaits, TypeOK
<1>5. CASE reconcileDeleteReleases
  <2>1. before \in Object /\ pc = "reconcile"
    BY <1>5, <1>a DEF reconcileDeleteReleases
  <2>2. after' \in Object
    BY <1>5, <2>1 DEF reconcileDeleteReleases, Object
  <2>3. gauges' \in GaugeSet
    BY <1>5 DEF reconcileDeleteReleases, deleteClusterMetrics, NoGauges, GaugeSet
  <2> QED
    BY <1>5, <2>1, <2>2, <2>3, AbsentAssumption
       DEF reconcileDeleteReleases, TypeOK, AbsentAssumption
<1>6. CASE reconcileNormal
  <2>1. before \in Object /\ pc = "reconcile"
    BY <1>6, <1>a DEF reconcileNormal
  <2> DEFINE probed == Probe(before)
  <2> DEFINE checked == IF Counted(before) THEN updateConnectionStatus(probed) ELSE probed
  <2>2. checked \in Object
    BY <2>1, ProbeType, CheckType
  <2> HIDE DEF checked
  <2>3. PICK p \in AutoPause \cup {before.paused} :
          /\ after' = [checked EXCEPT !.finalizer = finalizerOf(before), !.paused = p]
          /\ lastEvent' = recordConnectionTransition(before.conn, checked.conn, lastEvent)
          /\ gauges' = IF Exported(before) THEN updateMetrics(before, checked)
                       ELSE GaugesSkipped(before)
    BY <1>6 DEF reconcileNormal, checked
  <2>4. p \in BOOLEAN
    BY <2>1, ControllerAssumption DEF ControllerAssumption, Object
  <2>5. after' \in Object
    BY <2>2, <2>3, <2>4 DEF Object, finalizerOf
  <2>6. lastEvent' \in ConnectionEvents
    BY <2>3 DEF TypeOK, recordConnectionTransition, ConnectionEvents, Unreachable, Recovered
  <2>7. gauges' \in GaugeSet
    BY <2>1, <2>2, <2>3, <1>b, GaugeType DEF TypeOK
  <2> QED
    BY <1>6, <2>1, <2>5, <2>6, <2>7, AbsentAssumption
       DEF reconcileNormal, RequeueAfterMinute, TypeOK, AbsentAssumption
<1>7. CASE PatchObjectSkip
  BY <1>7 DEF PatchObjectSkip, TypeOK
<1>8. CASE PatchObject
  <2>1. obj \in Object
    BY <1>8 DEF PatchObject, ObjectRefused, TypeOK
  <2>2. MergedObject \in Object
    BY <1>8, <1>a, <2>1, MergeType DEF PatchObject
  <2> QED
    BY <1>8, <2>2 DEF PatchObject, TypeOK
<1>9. CASE PatchObjectRefused
  BY <1>9 DEF PatchObjectRefused, TypeOK
<1>10. CASE PatchStatusSkip
  BY <1>10, EndType DEF PatchStatusSkip, Return, TypeOK
<1>11. CASE PatchStatus
  <2>1. MergedStatus \in Object
    BY <1>11, <1>a, MergeType DEF PatchStatus, TypeOK
  <2> QED
    BY <1>11, <2>1, EndType DEF PatchStatus, Return, TypeOK
<1>12. CASE PatchStatusRefused
  BY <1>12, EndType DEF PatchStatusRefused, Return, TypeOK
<1>13. CASE Deliver
  BY <1>13 DEF Deliver, TypeOK, manager
<1>14. CASE TimerFires
  BY <1>14 DEF TimerFires, TypeOK, manager
<1>15. CASE Faults
  <2>1. CASE ShardUnknown
    BY <2>1, EndType DEF ShardUnknown, TypeOK
  <2>2. CASE PatchObjectFails
    BY <2>2 DEF PatchObjectFails, TypeOK
  <2>3. CASE PatchStatusFails
    BY <2>3, EndType DEF PatchStatusFails, Return, TypeOK
  <2>4. CASE Restart
    <3>1. gauges' \in GaugeSet
      BY <2>4, NoGaugesType DEF Restart
    <3>2. /\ pc' = "idle" /\ before' = Absent /\ after' = Absent
          /\ failed' \in BOOLEAN /\ requeue' \in BOOLEAN
      BY <2>4 DEF Restart, EndReconcile
    <3>3. faults' \in Nat
      BY <2>4 DEF Restart, TypeOK
    <3>4. UNCHANGED <<obj, managed, lastEvent, now, edits>>
      BY <2>4 DEF Restart
    <3>5. cache' = Absent /\ queued' = FALSE /\ timer' = FALSE
      BY <2>4 DEF Restart
    <3> QED
      BY <3>1, <3>2, <3>3, <3>4, <3>5 DEF TypeOK
  <2> QED
    BY <1>15, <2>1, <2>2, <2>3, <2>4 DEF Faults
<1>16. CASE Environment
  <2>1. CASE Register
    BY <2>1, FreshType DEF Register, UserStep, TypeOK, manager
  <2>2. CASE SetGrace
    <3>1. obj' \in Object \cup {Absent}
      BY <2>2 DEF SetGrace, TypeOK, Object
    <3> QED
      BY <2>2, <3>1 DEF SetGrace, UserStep, TypeOK, manager
  <2>3. CASE SetShard
    <3>1. obj' \in Object \cup {Absent}
      BY <2>3 DEF SetShard, TypeOK, Object
    <3> QED
      BY <2>3, <3>1 DEF SetShard, UserStep, TypeOK, manager
  <2>4. CASE Delete
    <3>1. obj' \in Object \cup {Absent}
      BY <2>4 DEF Delete, TypeOK, Object
    <3> QED
      BY <2>4, <3>1 DEF Delete, UserStep, TypeOK, manager
  <2>5. CASE AgentReports
    <3>1. obj' \in Object \cup {Absent}
      BY <2>5 DEF AgentReports, TypeOK, Object
    <3> QED
      BY <2>5, <3>1 DEF AgentReports, TypeOK, manager
  <2>6. CASE ManagedChanges
    BY <2>6 DEF ManagedChanges, TypeOK, manager
  <2>7. CASE Tick
    BY <2>7 DEF Tick, TypeOK, manager
  <2> QED
    BY <1>16, <2>1, <2>2, <2>3, <2>4, <2>5, <2>6, <2>7 DEF Environment
<1>17. CASE UNCHANGED vars
  BY <1>17 DEF vars, manager, TypeOK
<1> QED
  BY <1>1, <1>2, <1>3, <1>4, <1>5, <1>6, <1>7, <1>8, <1>9, <1>10, <1>11, <1>12,
     <1>13, <1>14, <1>15, <1>16, <1>17 DEF Next, Reconcile

(* The initial states have the types.                                      *)
LEMMA InitType == Init => TypeOK
<1> SUFFICES ASSUME Init PROVE TypeOK
  OBVIOUS
<1>1. obj \in Object
  BY FreshType DEF Init
<1>2. lastEvent \in ConnectionEvents
  BY DEF Init, ConnectionEvents
<1> QED
  BY <1>1, <1>2, NoGaugesType DEF Init, TypeOK

(* Type correctness, in every behaviour.                                   *)
THEOREM TypeCorrect == Spec => []TypeOK
<1> QED
  BY InitType, TypeStep, PTL DEF Spec

(***************************************************************************)
(* No outage is silent.  The patch that stores "down" is prepared by       *)
(* reconcileNormal, which records the event in the same step; what has to  *)
(* be carried from there to the patch is that the event still is the last  *)
(* one, and that a working copy not yet checked holds nothing new.         *)
(***************************************************************************)
Unchecked == pc \in {"shard", "reconcile"} => after = before

(* A status about to become down has been announced.                       *)
AnnouncedInFlight ==
    pc \in {"patch", "status"} /\ before.conn # Down /\ after.conn = Down
       => lastEvent = Unreachable

OutageInv == TypeOK /\ Unchecked /\ AnnouncedInFlight

(* The steps that end a reconcile leave nothing in flight.                 *)
LEMMA OutageAtRest ==
    ASSUME pc' = "idle"
    PROVE  Unchecked' /\ AnnouncedInFlight'
BY DEF Unchecked, AnnouncedInFlight

(* The steps that leave the reconcile and the events alone.                *)
LEMMA OutageElsewhere ==
    ASSUME OutageInv, UNCHANGED <<pc, before, after, lastEvent>>
    PROVE  Unchecked' /\ AnnouncedInFlight'
BY DEF OutageInv, Unchecked, AnnouncedInFlight

LEMMA OutageStep == OutageInv /\ [Next]_vars => OutageInv'
<1> SUFFICES ASSUME OutageInv, [Next]_vars PROVE OutageInv'
  OBVIOUS
<1>t. TypeOK'
  BY TypeStep DEF OutageInv
<1> SUFFICES Unchecked' /\ AnnouncedInFlight'
  BY <1>t DEF OutageInv
<1>1. CASE Fetch
  BY <1>1 DEF Fetch, OutageInv, TypeOK, Unchecked, AnnouncedInFlight, manager
<1>2. CASE ShardMatch
  BY <1>2 DEF ShardMatch, OutageInv, Unchecked, AnnouncedInFlight
<1>3. CASE ShardMismatch \/ PatchStatusSkip \/ PatchStatus \/ PatchStatusRefused
           \/ ShardUnknown \/ PatchStatusFails \/ Restart
  <2>1. pc' = "idle"
    BY <1>3 DEF ShardMismatch, PatchStatusSkip, PatchStatus, PatchStatusRefused,
                ShardUnknown, PatchStatusFails, Restart, Return, EndReconcile
  <2> QED
    BY <2>1, OutageAtRest
<1>4. CASE reconcileDeleteWaits
  BY <1>4 DEF reconcileDeleteWaits, OutageInv, Unchecked, AnnouncedInFlight
<1>5. CASE reconcileDeleteReleases
  <2>1. before \in Object
    BY <1>5, AbsentAssumption
       DEF reconcileDeleteReleases, OutageInv, TypeOK, AbsentAssumption
  <2>2. after'.conn = before.conn /\ before' = before /\ pc' = "patch"
    BY <1>5, <2>1 DEF reconcileDeleteReleases, Object
  <2> QED
    BY <2>2 DEF Unchecked, AnnouncedInFlight
<1>6. CASE reconcileNormal
  <2>1. before \in Object
    BY <1>6, AbsentAssumption DEF reconcileNormal, OutageInv, TypeOK, AbsentAssumption
  <2> DEFINE probed == Probe(before)
  <2> DEFINE checked == IF Counted(before) THEN updateConnectionStatus(probed) ELSE probed
  <2>2. checked \in Object
    BY <2>1, ProbeType, CheckType
  <2> HIDE DEF checked
  <2>3. PICK p \in AutoPause \cup {before.paused} :
          /\ after' = [checked EXCEPT !.finalizer = finalizerOf(before), !.paused = p]
          /\ lastEvent' = recordConnectionTransition(before.conn, checked.conn, lastEvent)
    BY <1>6 DEF reconcileNormal, checked
  <2>4. after'.conn = checked.conn
    BY <2>2, <2>3 DEF Object
  <2>5. before' = before /\ pc' = "patch"
    BY <1>6 DEF reconcileNormal
  <2> QED
    BY <2>3, <2>4, <2>5 DEF Unchecked, AnnouncedInFlight, recordConnectionTransition
<1>7. CASE PatchObjectSkip \/ PatchObject \/ PatchObjectRefused \/ PatchObjectFails
  BY <1>7 DEF PatchObjectSkip, PatchObject, PatchObjectRefused, PatchObjectFails,
              OutageInv, Unchecked, AnnouncedInFlight
<1>8. CASE Deliver \/ TimerFires \/ Environment \/ UNCHANGED vars
  <2>1. UNCHANGED <<pc, before, after, lastEvent>>
    BY <1>8 DEF Deliver, TimerFires, Environment, Register, SetGrace, SetShard, Delete,
                UserStep, AgentReports, ManagedChanges, Tick, vars, manager
  <2> QED
    BY <2>1, OutageElsewhere
<1> QED
  BY <1>1, <1>2, <1>3, <1>4, <1>5, <1>6, <1>7, <1>8 DEF Next, Reconcile, Faults

(* A patch of the status makes it down only when the reconcile did.        *)
LEMMA OutagePatch ==
    ASSUME OutageInv, [Next]_vars, ConnectionOf(obj) # Down, ConnectionOf(obj') = Down
    PROVE  lastEvent = Unreachable
<1>1. CASE PatchStatus
  <2>1. obj \in Object /\ before \in Object /\ after \in Object
    BY <1>1, AbsentAssumption DEF PatchStatus, OutageInv, TypeOK, AbsentAssumption
  <2>2. obj' = MergedStatus /\ pc = "status" /\ obj' \in Object
    BY <1>1, <2>1, MergeType DEF PatchStatus
  <2>3. obj'.conn = Merge(obj.conn, before.conn, after.conn)
    BY <2>1, <2>2 DEF MergedStatus, Object
  <2>4. obj.conn # Down /\ obj'.conn = Down
    BY <2>1, <2>2, AbsentAssumption DEF ConnectionOf, AbsentAssumption
  <2> QED
    BY <2>2, <2>3, <2>4 DEF Merge, OutageInv, AnnouncedInFlight
<1>2. CASE PatchObject
  <2>1. obj \in Object
    BY <1>2 DEF PatchObject, ObjectRefused, OutageInv, TypeOK
  <2>2. MergedObject.conn = obj.conn
    BY <2>1 DEF MergedObject, Object
  <2> QED
    BY <1>2, <2>1, <2>2, AbsentAssumption
       DEF PatchObject, ConnectionOf, AbsentAssumption, Unknown, Down
<1>3. CASE Register
  <2>1. PICK g \in Graces \cup {NoGrace} : obj' = Fresh(g)
    BY <1>3 DEF Register
  <2>2. Fresh(g).conn = Unknown
    BY DEF Fresh
  <2>3. ConnectionOf(obj') = Unknown
    BY <2>1, <2>2 DEF ConnectionOf
  <2> QED
    BY <2>3 DEF Unknown, Down
<1>4. CASE SetGrace \/ SetShard \/ Delete \/ AgentReports
  <2>1. obj \in Object
    BY <1>4 DEF SetGrace, SetShard, Delete, AgentReports, OutageInv, TypeOK
  <2>2. obj' = Absent \/ obj'.conn = obj.conn
    BY <1>4, <2>1 DEF SetGrace, SetShard, Delete, AgentReports, Object
  <2> QED
    BY <2>1, <2>2, AbsentAssumption DEF ConnectionOf, AbsentAssumption, Unknown, Down
<1>5. CASE UNCHANGED obj
  BY <1>5 DEF ConnectionOf
<1> QED
  BY <1>1, <1>2, <1>3, <1>4, <1>5
     DEF Next, Reconcile, Faults, Environment, Fetch, ShardMatch, ShardMismatch,
         ShardUnknown, reconcileDeleteWaits, reconcileDeleteReleases, reconcileNormal,
         PatchObjectSkip, PatchObjectRefused, PatchObjectFails, PatchStatusSkip,
         PatchStatusRefused, PatchStatusFails, Restart, Deliver, TimerFires,
         ManagedChanges, Tick, vars

(* No outage is silent, whatever the cache shows, whichever patch fails,   *)
(* whenever the manager restarts or the cluster is registered again.       *)
THEOREM NoSilentOutage == Spec => OutageAnnounced
<1>1. Init => OutageInv
  <2>1. Init => TypeOK
    BY InitType
  <2> QED
    BY <2>1 DEF Init, OutageInv, Unchecked, AnnouncedInFlight
<1>2. OutageInv /\ [Next]_vars
        => (ConnectionOf(obj) # Down /\ ConnectionOf(obj') = Down => lastEvent = Unreachable)
  BY OutagePatch
<1>3. OutageInv /\ [Next]_vars
        => [ConnectionOf(obj) # Down /\ ConnectionOf(obj') = Down
              => lastEvent = Unreachable]_vars
  BY <1>2
<1> QED
  BY <1>1, OutageStep, <1>3, PTL DEF Spec, OutageAnnounced

(***************************************************************************)
(* The reconcile's result and the steps that change the stored object.     *)
(***************************************************************************)

(* A reconcile that got past the fetch has its two copies.                 *)
LEMMA HasCopies ==
    ASSUME TypeOK, pc # "idle"
    PROVE  before \in Object /\ after \in Object
BY AbsentAssumption DEF TypeOK, AbsentAssumption

(* The connection status a reconcile of b leaves in a: a check that        *)
(* succeeded, one that failed, or none that counted.                       *)
CheckedOnce(b, a) ==
    \/ a.conn = Healthy /\ a.failures = 0
    \/ /\ a.failures = IncrementFailures(b.failures)
       /\ a.conn = IF a.failures >= Threshold THEN Down ELSE b.conn
    \/ a.conn = b.conn /\ a.failures = b.failures

(* A counted check is one step of the status and touches no agent report.  *)
LEMMA CheckResult ==
    ASSUME NEW o \in Object
    PROVE  LET c == updateConnectionStatus(o)
           IN  CheckedOnce(o, c) /\ c.reported = o.reported /\ c.ready = o.ready
<1>1. CASE o.failing
  BY <1>1 DEF updateConnectionStatus, CheckedOnce, Object
<1>2. CASE ~o.failing
  BY <1>2 DEF updateConnectionStatus, CheckedOnce, Object
<1> QED
  BY <1>1, <1>2

(* A probe leaves the status to the check and keeps a cluster ready.       *)
LEMMA ProbeResult ==
    ASSUME NEW o \in Object
    PROVE  /\ Probe(o).conn = o.conn /\ Probe(o).failures = o.failures
           /\ Probe(o).reported = o.reported
           /\ o.ready => Probe(o).ready
<1>1. CASE PullMode
  BY <1>1 DEF Probe, PullProbe, Object
<1>2. CASE ~PullMode
  BY <1>2 DEF Probe, PushProbe, Object
<1> QED
  BY <1>1, <1>2

(* What a normal reconcile leaves in its working copy.                     *)
LEMMA NormalResult ==
    ASSUME TypeOK, reconcileNormal
    PROVE  /\ before' = before /\ pc' = "patch" /\ UNCHANGED obj
           /\ ~before.deleting
           /\ after'.finalizer = (before.grace # NoGrace)
           /\ after'.reported = before.reported
           /\ before.ready => after'.ready
           /\ CheckedOnce(before, after')
           /\ lastEvent' = recordConnectionTransition(before.conn, after'.conn, lastEvent)
           /\ Exported(before) =>
                 /\ gauges'.failures = after'.failures
                 /\ gauges'.connectivity = Healthy <=> after'.conn = Healthy
           /\ ~Exported(before) => /\ gauges'.failures = gauges.failures
                                   /\ Counted(before) => gauges'.behind
<1>1. before \in Object
  BY HasCopies DEF reconcileNormal
<1> DEFINE probed == Probe(before)
<1> DEFINE checked == IF Counted(before) THEN updateConnectionStatus(probed) ELSE probed
<1>2. probed \in Object /\ checked \in Object
  BY <1>1, ProbeType, CheckType
<1>3. /\ CheckedOnce(before, checked)
      /\ checked.reported = before.reported
      /\ before.ready => checked.ready
  <2>1. CASE Counted(before)
    <3>1. /\ CheckedOnce(probed, checked)
          /\ checked.reported = probed.reported /\ checked.ready = probed.ready
      BY <1>2, <2>1, CheckResult
    <3> HIDE DEF checked, probed
    <3> QED
      BY <3>1, <1>1, ProbeResult DEF CheckedOnce, probed
  <2>2. CASE ~Counted(before)
    BY <1>1, <2>2, ProbeResult DEF CheckedOnce
  <2> QED
    BY <2>1, <2>2
<1> HIDE DEF checked
<1>4. PICK p \in AutoPause \cup {before.paused} :
        /\ after' = [checked EXCEPT !.finalizer = finalizerOf(before), !.paused = p]
        /\ lastEvent' = recordConnectionTransition(before.conn, checked.conn, lastEvent)
        /\ gauges' = IF Exported(before) THEN updateMetrics(before, checked)
                       ELSE GaugesSkipped(before)
  BY DEF reconcileNormal, checked
<1>5. /\ after'.finalizer = finalizerOf(before)
      /\ after'.conn = checked.conn /\ after'.failures = checked.failures
      /\ after'.reported = checked.reported /\ after'.ready = checked.ready
  BY <1>2, <1>4 DEF Object
<1>6. Exported(before) =>
        /\ gauges'.failures = after'.failures
        /\ gauges'.connectivity = Healthy <=> after'.conn = Healthy
  BY <1>4, <1>5 DEF updateMetrics, Healthy
<1>9. ~Exported(before) => /\ gauges'.failures = gauges.failures
                           /\ Counted(before) => gauges'.behind
  BY <1>4 DEF TypeOK, GaugeSet, GaugesSkipped
<1>7. before' = before /\ pc' = "patch" /\ UNCHANGED obj /\ ~before.deleting
  BY DEF reconcileNormal
<1>8. CheckedOnce(before, after')
  BY <1>3, <1>5 DEF CheckedOnce
<1> QED
  BY <1>3, <1>4, <1>5, <1>6, <1>7, <1>8, <1>9 DEF finalizerOf

(* What a release leaves in it.                                            *)
LEMMA ReleaseResult ==
    ASSUME TypeOK, reconcileDeleteReleases
    PROVE  /\ before' = before /\ pc' = "patch" /\ UNCHANGED <<obj, now>>
           /\ before.deleting /\ before.finalizer /\ GraceElapsed(before)
           /\ gauges' = NoGauges
           /\ after'.finalizer = FALSE
           /\ StatusOf(after') = StatusOf(before)
<1>1. before \in Object
  BY HasCopies DEF reconcileDeleteReleases
<1>2. after' = [before EXCEPT !.finalizer = FALSE]
  BY DEF reconcileDeleteReleases
<1>3. after'.finalizer = FALSE /\ StatusOf(after') = StatusOf(before)
  BY <1>1, <1>2 DEF Object, StatusOf
<1> QED
  BY <1>3 DEF reconcileDeleteReleases, deleteClusterMetrics

(* Only these steps change the stored object.                              *)
LEMMA ObjectSteps ==
    ASSUME [Next]_vars
    PROVE  \/ PatchStatus \/ PatchObject
           \/ Register \/ SetGrace \/ SetShard \/ Delete \/ AgentReports
           \/ UNCHANGED obj
BY DEF Next, Reconcile, Faults, Environment, Fetch, ShardMatch, ShardMismatch,
       ShardUnknown, reconcileDeleteWaits, reconcileDeleteReleases, reconcileNormal,
       PatchObjectSkip, PatchObjectRefused, PatchObjectFails, PatchStatusSkip,
       PatchStatusRefused, PatchStatusFails, Restart, Deliver, TimerFires,
       ManagedChanges, Tick, vars

(* What a step does to the reconcile in flight: it starts, ends, is         *)
(* computed, moves on with the same copies, or is left alone.              *)
LEMMA FlightSteps ==
    ASSUME [Next]_vars
    PROVE  \/ Fetch \/ reconcileNormal \/ reconcileDeleteReleases
           \/ pc' = "idle"
           \/ /\ UNCHANGED <<before, after, lastEvent, gauges, obj>> /\ pc = "reconcile"
              /\ before.deleting /\ pc' = "patch"
           \/ UNCHANGED <<before, after, lastEvent, gauges, obj>> /\ pc = "shard" /\ pc' = "reconcile"
           \/ UNCHANGED <<before, after, lastEvent, gauges>> /\ pc = "patch" /\ pc' = "status"
           \/ UNCHANGED <<pc, before, after, lastEvent, gauges>>
BY DEF Next, Reconcile, Faults, Environment, ShardMatch, ShardMismatch,
       ShardUnknown, reconcileDeleteWaits,
       PatchObject, PatchObjectSkip, PatchObjectRefused, PatchObjectFails,
       PatchStatus, PatchStatusSkip, PatchStatusRefused, PatchStatusFails, Return,
       EndReconcile, Restart, Deliver, TimerFires, Register, SetGrace, SetShard, Delete,
       UserStep, AgentReports, ManagedChanges, Tick, vars, manager

(* What the patches do to the stored fields.                               *)
LEMMA PatchedStatus ==
    ASSUME TypeOK, PatchStatus
    PROVE  /\ obj \in Object /\ obj' \in Object /\ pc = "status" /\ pc' = "idle"
           /\ obj'.ready = Merge(obj.ready, before.ready, after.ready)
           /\ obj'.reported = Merge(obj.reported, before.reported, after.reported)
           /\ obj'.failures = Merge(obj.failures, before.failures, after.failures)
           /\ obj'.conn = Merge(obj.conn, before.conn, after.conn)
           /\ obj'.grace = obj.grace /\ obj'.finalizer = obj.finalizer
           /\ obj'.deleting = obj.deleting /\ obj'.deletedAt = obj.deletedAt
<1>1. obj \in Object /\ before \in Object /\ after \in Object
  BY HasCopies DEF PatchStatus, TypeOK
<1>2. obj' = MergedStatus /\ pc = "status" /\ pc' = "idle" /\ obj' \in Object
  BY <1>1, MergeType DEF PatchStatus, Return, EndReconcile
<1> QED
  BY <1>1, <1>2 DEF MergedStatus, Object

(* The object patch leaves the status alone, and removes the object only   *)
(* if it is being deleted and ends up without the finalizer.               *)
LEMMA PatchedObject ==
    ASSUME TypeOK, PatchObject
    PROVE  /\ obj \in Object /\ pc = "patch" /\ pc' = "status"
           /\ UNCHANGED <<before, after, gauges, lastEvent, now, cache>>
           /\ obj' = Absent =>
                 obj.deleting /\ ~Merge(obj.finalizer, before.finalizer, after.finalizer)
           /\ obj' # Absent =>
                 /\ obj' \in Object
                 /\ StatusOf(obj') = StatusOf(obj)
                 /\ obj'.finalizer = Merge(obj.finalizer, before.finalizer, after.finalizer)
                 /\ obj.deleting => obj'.finalizer
                 /\ obj'.deleting = obj.deleting /\ obj'.deletedAt = obj.deletedAt
                 /\ obj'.grace = obj.grace
<1>1. obj \in Object /\ pc = "patch"
  BY DEF PatchObject, ObjectRefused, TypeOK
<1>2. MergedObject \in Object
  BY <1>1, HasCopies, MergeType
<1>3. /\ MergedObject.finalizer = Merge(obj.finalizer, before.finalizer, after.finalizer)
      /\ MergedObject.deleting = obj.deleting /\ MergedObject.deletedAt = obj.deletedAt
      /\ MergedObject.grace = obj.grace /\ StatusOf(MergedObject) = StatusOf(obj)
  BY <1>1 DEF MergedObject, Object, StatusOf
<1>4. /\ obj' = IF obj.deleting /\ ~MergedObject.finalizer THEN Absent ELSE MergedObject
      /\ pc' = "status" /\ UNCHANGED <<before, after, gauges, lastEvent, now, cache>>
  BY DEF PatchObject
<1>5. MergedObject # Absent
  BY <1>2, AbsentAssumption DEF AbsentAssumption
<1> HIDE DEF MergedObject
<1> QED
  BY <1>1, <1>2, <1>3, <1>4, <1>5

(* What users and the agent do to the stored object.                       *)
LEMMA EditedObject ==
    ASSUME TypeOK, SetGrace \/ SetShard \/ Delete \/ AgentReports
    PROVE  /\ obj \in Object
           /\ UNCHANGED <<cache, pc, before, after, failed, gauges, lastEvent, now, managed>>
           /\ obj' = Absent => ~obj.deleting
           /\ obj' # Absent =>
                 /\ obj' \in Object
                 /\ obj'.conn = obj.conn /\ obj'.failures = obj.failures
                 /\ (obj.ready => obj'.ready) /\ (obj.reported => obj'.reported)
                 /\ obj'.finalizer = obj.finalizer
                 /\ obj.deleting => obj'.deleting /\ obj'.deletedAt = obj.deletedAt
                 /\ obj'.deleting => obj.deleting \/ obj.finalizer
                 /\ obj'.grace = obj.grace \/ obj.grace = NoGrace \/ MayUnsetGrace
<1>0. obj \in Object
  BY DEF SetGrace, SetShard, Delete, AgentReports, TypeOK
<1>1. UNCHANGED <<cache, pc, before, after, failed, gauges, lastEvent, now, managed>>
  BY DEF SetGrace, SetShard, Delete, AgentReports, UserStep, manager
<1>2. obj' \in Object \cup {Absent}
  BY TypeStep DEF Next, Environment, TypeOK
<1>3. obj' = Absent => ~obj.deleting
  <2>1. CASE Delete
    BY <2>1 DEF Delete
  <2>2. CASE SetGrace \/ SetShard \/ AgentReports
    <3>1. obj' \in Object
      BY <1>0, <2>2 DEF SetGrace, SetShard, AgentReports, Object
    <3> QED
      BY <3>1, AbsentAssumption DEF AbsentAssumption
  <2> QED
    BY <2>1, <2>2
<1>4. ASSUME obj' # Absent
      PROVE  /\ obj'.conn = obj.conn /\ obj'.failures = obj.failures
             /\ (obj.ready => obj'.ready) /\ (obj.reported => obj'.reported)
             /\ obj'.finalizer = obj.finalizer
             /\ obj.deleting => obj'.deleting /\ obj'.deletedAt = obj.deletedAt
             /\ obj'.deleting => obj.deleting \/ obj.finalizer
             /\ obj'.grace = obj.grace \/ obj.grace = NoGrace \/ MayUnsetGrace
  <2>1. CASE SetGrace
    BY <1>0, <2>1 DEF SetGrace, Object
  <2>2. CASE SetShard
    BY <1>0, <2>2 DEF SetShard, Object
  <2>3. CASE Delete
    BY <1>0, <1>4, <2>3 DEF Delete, Object
  <2>4. CASE AgentReports
    BY <1>0, <2>4 DEF AgentReports, Object
  <2> QED
    BY <2>1, <2>2, <2>3, <2>4
<1> QED
  BY <1>0, <1>1, <1>2, <1>3, <1>4

(***************************************************************************)
(* What the agent reported is kept.  A reconcile never takes a report out  *)
(* of its own copy, so the diff it sends can only add one.                 *)
(***************************************************************************)
ReportsKeptInFlight ==
    pc # "idle" => after.reported = before.reported /\ (before.ready => after.ready)

ReportsInv == TypeOK /\ Unchecked /\ ReportsKeptInFlight

(* Each step keeps the reports of the working copy.                        *)
LEMMA ReportsStep == ReportsInv /\ [Next]_vars => ReportsInv'
<1> SUFFICES ASSUME ReportsInv, [Next]_vars PROVE ReportsInv'
  OBVIOUS
<1>t. TypeOK' /\ TypeOK
  BY TypeStep DEF ReportsInv
<1> SUFFICES Unchecked' /\ ReportsKeptInFlight'
  BY <1>t DEF ReportsInv
<1>1. CASE Fetch
  BY <1>1, <1>t DEF Fetch, ReportsInv, TypeOK, Unchecked, ReportsKeptInFlight, manager
<1>2. CASE pc' = "idle"
  BY <1>2 DEF Unchecked, ReportsKeptInFlight
<1>3. CASE reconcileDeleteReleases
  BY <1>3, <1>t, ReleaseResult DEF StatusOf, Unchecked, ReportsKeptInFlight
<1>4. CASE reconcileNormal
  BY <1>4, <1>t, NormalResult DEF Unchecked, ReportsKeptInFlight
<1>5. CASE /\ UNCHANGED <<before, after>>
           /\ pc # "idle" /\ (pc' \in {"shard", "reconcile"} => pc \in {"shard", "reconcile"})
  BY <1>5 DEF ReportsInv, Unchecked, ReportsKeptInFlight
<1>6. CASE UNCHANGED <<pc, before, after>>
  BY <1>6 DEF ReportsInv, Unchecked, ReportsKeptInFlight
<1> QED
  BY <1>1, <1>2, <1>3, <1>4, <1>5, <1>6, FlightSteps

(* A step never takes a report out of the stored object.                   *)
LEMMA ReportsKeptStep ==
    ASSUME ReportsInv, [Next]_vars, obj # Absent, obj' # Absent
    PROVE  (obj.reported => obj'.reported) /\ (obj.ready => obj'.ready)
<1>t. TypeOK
  BY DEF ReportsInv
<1>1. CASE PatchStatus
  <2>1. before \in Object /\ after \in Object /\ pc = "status"
    BY <1>1, <1>t, HasCopies DEF PatchStatus
  <2>2. after.reported = before.reported /\ (before.ready => after.ready)
    BY <2>1 DEF ReportsInv, ReportsKeptInFlight
  <2>3. Merge(obj.reported, before.reported, after.reported) = obj.reported
    BY <2>2 DEF Merge
  <2>4. obj.ready => Merge(obj.ready, before.ready, after.ready)
    <3>1. before.ready \in BOOLEAN /\ after.ready \in BOOLEAN
      BY <2>1 DEF Object
    <3> QED
      BY <2>2, <3>1 DEF Merge
  <2> QED
    BY <1>1, <1>t, <2>3, <2>4, PatchedStatus
<1>2. CASE PatchObject
  BY <1>2, <1>t, PatchedObject DEF StatusOf
<1>3. CASE SetGrace \/ SetShard \/ Delete \/ AgentReports
  BY <1>3, <1>t, EditedObject
<1>4. CASE Register \/ UNCHANGED obj
  BY <1>4 DEF Register
<1> QED
  BY <1>1, <1>2, <1>3, <1>4, ObjectSteps

LEMMA ReportsInit == Init => ReportsInv
BY InitType DEF Init, ReportsInv, Unchecked, ReportsKeptInFlight

(* What the agent reported into the status is never undone by a patch,     *)
(* however old the snapshot the reconcile worked from.                     *)
THEOREM ReportsAlwaysKept == Spec => AgentReportsKept
<1>1. ReportsInv /\ [Next]_vars
        => [obj # Absent /\ obj' # Absent
              => (obj.reported => obj'.reported) /\ (obj.ready => obj'.ready)]_vars
  BY ReportsKeptStep
<1> QED
  BY <1>1, ReportsInit, ReportsStep, PTL DEF Spec, AgentReportsKept

(***************************************************************************)
(* The grace period of a deletion.  The release is decided on a snapshot,  *)
(* and the object it lands on may be newer; what carries the decision over *)
(* is that a version of the object seen anywhere agrees with the stored    *)
(* one about a grace period it has and about a deletion it has entered,    *)
(* and that no version carries the finalizer without a grace period.  Both *)
(* rest on users leaving a grace period alone once it is set and on the    *)
(* cluster not being registered anew under its old name.                   *)
(***************************************************************************)
SetOnce == ~MayUnsetGrace /\ ~Recreate

(* Version o of the object agrees with a later one.                        *)
Agrees(o, later) ==
    o # Absent =>
        /\ o.finalizer => o.grace # NoGrace
        /\ later # Absent =>
              /\ o.grace # NoGrace => later.grace = o.grace
              /\ o.deleting => later.deleting /\ later.deletedAt = o.deletedAt

(* An object being deleted still has the finalizer.                        *)
HeldByFinalizer == obj # Absent /\ obj.deleting => obj.finalizer

(* A working copy has gained the finalizer only for a grace period, and    *)
(* lost it only once the grace period was over and the gauges were gone.   *)
FinalizerInFlight ==
    pc \in {"patch", "status"} =>
        /\ after.finalizer => before.grace # NoGrace
        /\ before.finalizer /\ ~after.finalizer =>
              /\ before.deleting /\ now >= before.deletedAt + before.grace
              /\ gauges = NoGauges

GraceInv ==
    /\ TypeOK /\ Unchecked
    /\ Agrees(obj, obj) /\ Agrees(cache, obj) /\ Agrees(before, obj)
    /\ HeldByFinalizer /\ FinalizerInFlight

(* A registered cluster keeps its grace period and its deletion.           *)
LEMMA StoredSteady ==
    ASSUME SetOnce, TypeOK, [Next]_vars, obj' # Absent
    PROVE  /\ obj # Absent
           /\ obj.grace # NoGrace => obj'.grace = obj.grace
           /\ obj.deleting => obj'.deleting /\ obj'.deletedAt = obj.deletedAt
<1>1. CASE PatchStatus
  BY <1>1, PatchedStatus, AbsentAssumption DEF AbsentAssumption
<1>2. CASE PatchObject
  BY <1>2, PatchedObject, AbsentAssumption DEF AbsentAssumption
<1>3. CASE SetGrace \/ SetShard \/ Delete \/ AgentReports
  BY <1>3, EditedObject, AbsentAssumption DEF AbsentAssumption, SetOnce
<1>4. CASE Register \/ UNCHANGED obj
  BY <1>4 DEF Register, SetOnce
<1> QED
  BY <1>1, <1>2, <1>3, <1>4, ObjectSteps

(* So a version that agrees keeps agreeing.                                *)
LEMMA AgreesStep ==
    ASSUME SetOnce, TypeOK, [Next]_vars, NEW o, Agrees(o, obj)
    PROVE  Agrees(o, obj')
BY StoredSteady DEF Agrees

(* The finalizer appears and disappears together with its reasons.         *)
LEMMA FinalizerStep ==
    ASSUME SetOnce, GraceInv, [Next]_vars, obj' # Absent
    PROVE  /\ obj'.finalizer => obj'.grace # NoGrace
           /\ obj'.deleting => obj'.finalizer
<1>0. TypeOK /\ obj # Absent /\ (obj.grace # NoGrace => obj'.grace = obj.grace)
  BY StoredSteady DEF GraceInv
<1>1. /\ obj.finalizer => obj.grace # NoGrace
      /\ obj.deleting => obj.finalizer
  BY <1>0 DEF GraceInv, Agrees, HeldByFinalizer
<1>2. CASE PatchStatus
  BY <1>0, <1>1, <1>2, PatchedStatus
<1>3. CASE PatchObject
  <2>1. pc = "patch" /\ before \in Object
    BY <1>0, <1>3, PatchedObject, HasCopies
  <2>2. after.finalizer => obj.grace # NoGrace
    BY <1>0, <2>1, AbsentAssumption
       DEF GraceInv, FinalizerInFlight, Agrees, AbsentAssumption
  <2>3. Merge(obj.finalizer, before.finalizer, after.finalizer) => obj.grace # NoGrace
    BY <1>1, <2>2 DEF Merge
  <2> QED
    BY <1>0, <1>3, <2>3, PatchedObject
<1>4. CASE SetGrace \/ SetShard \/ Delete \/ AgentReports
  BY <1>0, <1>1, <1>4, EditedObject
<1>5. CASE Register \/ UNCHANGED obj
  BY <1>0, <1>1, <1>5 DEF Register
<1> QED
  BY <1>2, <1>3, <1>4, <1>5, ObjectSteps

(* Time does not run backwards.                                            *)
LEMMA TimeSteps ==
    ASSUME TypeOK, [Next]_vars
    PROVE  now \in Nat /\ now' \in Nat /\ now' >= now
<1>1. now' = now \/ now' = now + 1
  BY DEF Next, Reconcile, Faults, Environment, Fetch, ShardMatch, ShardMismatch,
         ShardUnknown, reconcileDeleteWaits, reconcileDeleteReleases, reconcileNormal,
         PatchObject, PatchObjectSkip, PatchObjectRefused, PatchObjectFails,
         PatchStatus, PatchStatusSkip, PatchStatusRefused, PatchStatusFails,
         Restart, Deliver, TimerFires, Register, SetGrace, SetShard, Delete,
         UserStep, AgentReports, ManagedChanges, Tick, vars
<1>2. now \in Nat
  BY DEF TypeOK
<1> QED
  BY <1>1, <1>2

(* The cache holds what it held, what is stored, or nothing.               *)
LEMMA CacheSteps ==
    ASSUME [Next]_vars
    PROVE  cache' = cache \/ cache' = Absent \/ (Deliver /\ cache' = obj /\ UNCHANGED obj)
BY DEF Next, Reconcile, Faults, Environment, Fetch, ShardMatch, ShardMismatch,
       ShardUnknown, reconcileDeleteWaits, reconcileDeleteReleases, reconcileNormal,
       PatchObject, PatchObjectSkip, PatchObjectRefused, PatchObjectFails,
       PatchStatus, PatchStatusSkip, PatchStatusRefused, PatchStatusFails,
       Restart, Deliver, TimerFires, Register, SetGrace, SetShard, Delete,
       UserStep, AgentReports, ManagedChanges, Tick, vars

(* What the reconcile in flight has decided stays decided.                 *)
LEMMA FlightGraceStep ==
    ASSUME SetOnce, GraceInv, [Next]_vars
    PROVE  Unchecked' /\ FinalizerInFlight' /\ Agrees(before', obj')
<1>t. TypeOK /\ now \in Nat /\ now' \in Nat /\ now' >= now
  BY TimeSteps DEF GraceInv
<1>a. Agrees(before, obj')
  BY <1>t, AgreesStep DEF GraceInv
<1>b. ASSUME pc # "idle" PROVE before.deletedAt \in Nat /\
                               (before.grace # NoGrace => before.grace \in Nat)
  BY <1>b, <1>t, HasCopies, ControllerAssumption DEF Object, ControllerAssumption
<1>1. CASE Fetch
  <2>1. CASE cache = Absent
    BY <1>1, <1>a, <2>1 DEF Fetch, manager, GraceInv, Unchecked, FinalizerInFlight, TypeOK
  <2>2. CASE cache # Absent
    <3>1. pc' = "shard" /\ before' = cache /\ after' = cache /\ obj' = obj
      BY <1>1, <2>2 DEF Fetch
    <3> QED
      BY <3>1 DEF Unchecked, FinalizerInFlight, GraceInv
  <2> QED
    BY <2>1, <2>2
<1>2. CASE pc' = "idle"
  <2>1. before' = Absent
    BY <1>2, <1>t, TypeStep DEF TypeOK
  <2> QED
    BY <1>2, <2>1 DEF Unchecked, FinalizerInFlight, Agrees
<1>3. CASE reconcileDeleteReleases
  <2>1. /\ before' = before /\ pc' = "patch" /\ now' = now
        /\ before.deleting /\ before.finalizer /\ GraceElapsed(before)
        /\ gauges' = NoGauges /\ after'.finalizer = FALSE
    BY <1>3, <1>t, ReleaseResult
  <2>2. before.grace # NoGrace
    BY <1>3, <1>t, <2>1, HasCopies, AbsentAssumption
       DEF reconcileDeleteReleases, GraceInv, Agrees, AbsentAssumption
  <2> QED
    BY <1>a, <2>1, <2>2 DEF Unchecked, FinalizerInFlight, GraceElapsed
<1>4. CASE reconcileNormal
  <2>1. /\ before' = before /\ pc' = "patch"
        /\ after'.finalizer = (before.grace # NoGrace)
    BY <1>4, <1>t, NormalResult
  <2>2. before.finalizer => before.grace # NoGrace
    BY <1>4, <1>t, HasCopies, AbsentAssumption
       DEF reconcileNormal, GraceInv, Agrees, AbsentAssumption
  <2> QED
    BY <1>a, <2>1, <2>2 DEF Unchecked, FinalizerInFlight
<1>5. CASE UNCHANGED <<before, after, gauges>> /\ pc = "reconcile" /\ pc' = "patch"
  <2>1. after = before
    BY <1>5 DEF GraceInv, Unchecked
  <2>2. before.finalizer => before.grace # NoGrace
    BY <1>5, <1>t, HasCopies, AbsentAssumption DEF GraceInv, Agrees, AbsentAssumption
  <2> QED
    BY <1>a, <1>5, <2>1, <2>2 DEF Unchecked, FinalizerInFlight
<1>6. CASE UNCHANGED <<before, after>> /\ pc = "shard" /\ pc' = "reconcile"
  BY <1>a, <1>6 DEF GraceInv, Unchecked, FinalizerInFlight
<1>7. CASE UNCHANGED <<before, after, gauges>> /\ (pc' = pc \/ (pc = "patch" /\ pc' = "status"))
  <2>1. Unchecked' /\ before' = before
    BY <1>7 DEF GraceInv, Unchecked
  <2>2. ASSUME pc' \in {"patch", "status"}, before.finalizer, ~after.finalizer
        PROVE  now' >= before.deletedAt + before.grace
    <3>1. pc \in {"patch", "status"} /\ before.grace # NoGrace
      BY <1>7, <2>2, <1>t, HasCopies, AbsentAssumption
         DEF GraceInv, Agrees, AbsentAssumption
    <3>2. now >= before.deletedAt + before.grace
      BY <2>2, <3>1 DEF GraceInv, FinalizerInFlight
    <3> QED
      BY <3>1, <3>2, <1>b, <1>t
  <2>3. FinalizerInFlight'
    BY <1>7, <2>2 DEF GraceInv, FinalizerInFlight
  <2> QED
    BY <1>a, <2>1, <2>3
<1> QED
  BY <1>1, <1>2, <1>3, <1>4, <1>5, <1>6, <1>7, FlightSteps

(* The invariant is inductive.                                             *)
LEMMA GraceStep ==
    ASSUME SetOnce
    PROVE  GraceInv /\ [Next]_vars => GraceInv'
<1> SUFFICES ASSUME GraceInv, [Next]_vars PROVE GraceInv'
  OBVIOUS
<1>1. TypeOK /\ TypeOK'
  BY TypeStep DEF GraceInv
<1>2. Agrees(obj', obj') /\ HeldByFinalizer'
  BY FinalizerStep DEF Agrees, HeldByFinalizer
<1>3. Agrees(cache', obj')
  <2>1. CASE cache' = cache
    BY <1>1, <2>1, AgreesStep DEF GraceInv
  <2>2. CASE cache' = Absent
    BY <2>2 DEF Agrees
  <2>3. CASE cache' = obj /\ UNCHANGED obj
    BY <2>3 DEF GraceInv
  <2> QED
    BY <2>1, <2>2, <2>3, CacheSteps
<1> QED
  BY <1>1, <1>2, <1>3, FlightGraceStep DEF GraceInv

LEMMA GraceInit == Init => GraceInv
<1> SUFFICES ASSUME Init PROVE GraceInv
  OBVIOUS
<1>1. PICK g \in Graces \cup {NoGrace} : obj = Fresh(g)
  BY DEF Init
<1>2. ~obj.finalizer /\ ~obj.deleting
  BY <1>1 DEF Fresh
<1> QED
  BY <1>2, InitType
     DEF Init, GraceInv, Agrees, HeldByFinalizer, Unchecked, FinalizerInFlight

(* Only the patch of a release removes an object that is being deleted.    *)
LEMMA Removal ==
    ASSUME GraceInv, [Next]_vars, obj # Absent, obj.deleting, obj' = Absent
    PROVE  /\ PatchObject /\ pc = "patch"
           /\ before.finalizer /\ ~after.finalizer
<1>1. TypeOK /\ obj.finalizer
  BY DEF GraceInv, HeldByFinalizer
<1>2. PatchObject
  <2>1. ~PatchStatus
    BY <1>1, PatchedStatus, AbsentAssumption DEF AbsentAssumption
  <2>2. ~(SetGrace \/ SetShard \/ Delete \/ AgentReports)
    BY <1>1, EditedObject
  <2>3. ~Register /\ obj' # obj
    BY DEF Register
  <2> QED
    BY <2>1, <2>2, <2>3, ObjectSteps
<1>3. pc = "patch" /\ ~Merge(obj.finalizer, before.finalizer, after.finalizer)
  BY <1>1, <1>2, PatchedObject
<1>4. after.finalizer # before.finalizer /\ ~after.finalizer
  BY <1>1, <1>3 DEF Merge
<1>5. before.finalizer \in BOOLEAN /\ after.finalizer \in BOOLEAN
  BY <1>1, <1>3, HasCopies DEF Object
<1> QED
  BY <1>2, <1>3, <1>4, <1>5

(* The deadline of a deletion is kept, however stale the cache and         *)
(* whichever patch fails, as long as users do not change a grace period    *)
(* that is set.                                                            *)
THEOREM GraceAlwaysHonoured ==
    ASSUME SetOnce
    PROVE  Spec => GraceHonoured
<1>1. ASSUME GraceInv, [Next]_vars, obj # Absent, obj.deleting, obj' = Absent
      PROVE  obj.grace = NoGrace \/ now >= obj.deletedAt + obj.grace
  <2>1. pc = "patch" /\ before.finalizer /\ ~after.finalizer
    BY <1>1, Removal
  <2>2. before # Absent
    BY <2>1, HasCopies, <1>1, AbsentAssumption DEF GraceInv, AbsentAssumption
  <2>3. before.deleting /\ now >= before.deletedAt + before.grace /\ before.grace # NoGrace
    BY <1>1, <2>1, <2>2 DEF GraceInv, FinalizerInFlight, Agrees
  <2>4. obj.grace = before.grace /\ obj.deletedAt = before.deletedAt
    BY <1>1, <2>2, <2>3 DEF GraceInv, Agrees
  <2> QED
    BY <2>3, <2>4
<1>2. GraceInv /\ [Next]_vars
        => [obj # Absent /\ obj.deleting /\ obj' = Absent
              => obj.grace = NoGrace \/ now >= obj.deletedAt + obj.grace]_vars
  BY <1>1
<1> QED
  BY <1>2, GraceInit, GraceStep, PTL DEF Spec, GraceHonoured

(* A cluster released through the finalizer leaves no gauge behind.        *)
THEOREM ReleaseClearsGauges ==
    ASSUME SetOnce
    PROVE  Spec => ReleasedWithoutGauges
<1>1. ASSUME GraceInv, [Next]_vars, obj # Absent, obj.deleting, obj' = Absent
      PROVE  gauges' = NoGauges
  <2>1. PatchObject /\ pc = "patch" /\ before.finalizer /\ ~after.finalizer
    BY <1>1, Removal
  <2>2. gauges = NoGauges
    BY <1>1, <2>1 DEF GraceInv, FinalizerInFlight
  <2> QED
    BY <2>1, <2>2 DEF PatchObject
<1>2. GraceInv /\ [Next]_vars
        => [obj # Absent /\ obj.deleting /\ obj' = Absent => gauges' = NoGauges]_vars
  BY <1>1
<1> QED
  BY <1>2, GraceInit, GraceStep, PTL DEF Spec, ReleasedWithoutGauges
===============================================================================
