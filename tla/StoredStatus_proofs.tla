--------------------------- MODULE StoredStatus_proofs ---------------------------
(***************************************************************************)
(* Proofs about the connection status SveltosClusterController stores when *)
(* reconciles read an up-to-date cache: its two halves agree, recoveries   *)
(* are announced, the gauges mirror it, and it moves only as the abstract  *)
(* ConnectionMonitor allows.                                               *)
(***************************************************************************)
EXTENDS SveltosClusterController_proofs

(* A reconcile starts from the stored object, and that object is not       *)
(* replaced by a new registration under its name.                          *)
UpToDate == ~StaleCache /\ ~Recreate

(***************************************************************************)
(* The inductive invariant.                                                *)
(***************************************************************************)

(* The status the reconcile started from is still the stored one: only     *)
(* this manager writes it, and the agent's reports are only added.         *)
InStep ==
    pc # "idle" /\ obj # Absent =>
        /\ before.conn = obj.conn /\ before.failures = obj.failures
        /\ (before.ready => obj.ready) /\ (before.reported => obj.reported)

(* The working copy is one check ahead of the snapshot.                    *)
OneCheckAhead == pc \in {"patch", "status"} => CheckedOnce(before, after)

(* A status about to leave down has been announced.                        *)
RecoveryInFlight ==
    pc \in {"patch", "status"} /\ before.conn = Down /\ after.conn # Down
       => lastEvent = Recovered

StatusInv ==
    /\ ReportsInv
    /\ InStep /\ OneCheckAhead /\ RecoveryInFlight
    /\ DownMeansThresholdReached

(* Once a pull-mode cluster has exported gauges it has been heard of.      *)
HeardInv ==
    PullMode /\ gauges.failures # NoCount =>
        /\ obj # Absent => PullHeard(obj)
        /\ pc # "idle" => PullHeard(before)

(* The gauges show what the reconcile in flight is about to store, unless  *)
(* it returned before they were set.                                       *)
GaugesInFlight ==
    (/\ pc \in {"patch", "status"} /\ ~before.deleting
     /\ gauges.failures # NoCount /\ ~gauges.behind) =>
        /\ gauges.failures = after.failures
        /\ gauges.connectivity = Healthy <=> after.conn = Healthy

GaugesInv == StatusInv /\ HeardInv /\ GaugesInFlight

(***************************************************************************)
(* Steps.                                                                  *)
(***************************************************************************)

(* The count moves by one, or stands at its bound.                         *)
LEMMA Increment ==
    ASSUME NEW n \in 0..MaxFailures
    PROVE  /\ IncrementFailures(n) \in 0..MaxFailures
           /\ IncrementFailures(n) = n + 1 \/ (IncrementFailures(n) = n /\ n = MaxFailures)
           /\ n >= Threshold => IncrementFailures(n) >= Threshold
           /\ IncrementFailures(n) >= Threshold <=> n + 1 >= Threshold
BY ThresholdAssumption DEF ThresholdAssumption, IncrementFailures

(* A check keeps the two halves of a status in agreement.                  *)
LEMMA CheckAgrees ==
    ASSUME NEW b \in Object, NEW a \in Object, CheckedOnce(b, a),
           b.conn = Down <=> b.failures >= Threshold
    PROVE  a.conn = Down <=> a.failures >= Threshold
<1>1. b.failures \in 0..MaxFailures
  BY DEF Object
<1>2. CASE a.conn = Healthy /\ a.failures = 0
  BY <1>2, ThresholdAssumption DEF ThresholdAssumption, Healthy, Down
<1>3. CASE /\ a.failures = IncrementFailures(b.failures)
           /\ a.conn = IF a.failures >= Threshold THEN Down ELSE b.conn
  BY <1>1, <1>3, Increment
<1>4. CASE a.conn = b.conn /\ a.failures = b.failures
  BY <1>4
<1> QED
  BY <1>2, <1>3, <1>4 DEF CheckedOnce

(* The patch of an up-to-date reconcile stores its result.                 *)
LEMMA StoredIsChecked ==
    ASSUME StatusInv, PatchStatus
    PROVE  /\ obj \in Object /\ obj' \in Object
           /\ obj'.conn = after.conn /\ obj'.failures = after.failures
           /\ before.conn = obj.conn /\ before.failures = obj.failures
           /\ CheckedOnce(obj, obj')
<1>1. TypeOK
  BY DEF StatusInv, ReportsInv
<1>2. /\ obj \in Object /\ obj' \in Object /\ pc = "status"
      /\ obj'.failures = Merge(obj.failures, before.failures, after.failures)
      /\ obj'.conn = Merge(obj.conn, before.conn, after.conn)
  BY <1>1, PatchedStatus
<1>3. before.conn = obj.conn /\ before.failures = obj.failures
  BY <1>2, AbsentAssumption DEF StatusInv, InStep, AbsentAssumption
<1>4. obj'.conn = after.conn /\ obj'.failures = after.failures
  BY <1>2, <1>3 DEF Merge
<1>5. CheckedOnce(before, after)
  BY <1>2 DEF StatusInv, OneCheckAhead
<1> QED
  BY <1>2, <1>3, <1>4, <1>5 DEF CheckedOnce

(* What every step does to the stored status: a registered cluster's       *)
(* status changes only by the patch of a status.                           *)
LEMMA StoredSteps ==
    ASSUME UpToDate, TypeOK, [Next]_vars, obj' # Absent
    PROVE  /\ obj # Absent
           /\ \/ PatchStatus
              \/ obj'.conn = obj.conn /\ obj'.failures = obj.failures
<1>1. CASE PatchStatus
  BY <1>1 DEF PatchStatus
<1>2. CASE PatchObject
  BY <1>2, PatchedObject, AbsentAssumption DEF AbsentAssumption, StatusOf
<1>3. CASE SetGrace \/ SetShard \/ Delete \/ AgentReports
  BY <1>3, EditedObject, AbsentAssumption DEF AbsentAssumption
<1>4. CASE Register \/ UNCHANGED obj
  BY <1>4 DEF Register, UpToDate
<1> QED
  BY <1>1, <1>2, <1>3, <1>4, ObjectSteps

(* The two halves of the stored status keep agreeing.                      *)
LEMMA AgreementStep ==
    ASSUME UpToDate, StatusInv, [Next]_vars
    PROVE  DownMeansThresholdReached'
<1>1. TypeOK /\ TypeOK'
  BY TypeStep DEF StatusInv, ReportsInv
<1>2. CASE obj' = Absent
  BY <1>2, ThresholdAssumption
     DEF DownMeansThresholdReached, ConnectionOf, FailuresOf, ThresholdAssumption,
         Unknown, Down
<1>3. CASE obj' # Absent
  <2>1. obj # Absent /\ (PatchStatus \/ (obj'.conn = obj.conn /\ obj'.failures = obj.failures))
    BY <1>1, <1>3, StoredSteps
  <2>2. obj.conn = Down <=> obj.failures >= Threshold
    BY <2>1 DEF StatusInv, DownMeansThresholdReached, ConnectionOf, FailuresOf
  <2>3. obj'.conn = Down <=> obj'.failures >= Threshold
    <3>1. CASE PatchStatus
      BY <2>2, <3>1, StoredIsChecked, CheckAgrees
    <3>2. CASE obj'.conn = obj.conn /\ obj'.failures = obj.failures
      BY <2>2, <3>2
    <3> QED
      BY <2>1, <3>1, <3>2
  <2> QED
    BY <1>3, <2>3 DEF DownMeansThresholdReached, ConnectionOf, FailuresOf
<1> QED
  BY <1>2, <1>3

(* While a reconcile is in flight, nobody else moves the stored status.    *)
LEMMA InStepKept ==
    ASSUME UpToDate, StatusInv, [Next]_vars, pc # "idle", pc' # "idle", before' = before
    PROVE  InStep'
<1>1. TypeOK /\ ReportsInv
  BY DEF StatusInv, ReportsInv
<1>2. CASE obj' = Absent
  BY <1>2 DEF InStep
<1>3. CASE obj' # Absent
  <2>1. ~PatchStatus
    BY <1>1, PatchedStatus
  <2>2. obj # Absent /\ obj'.conn = obj.conn /\ obj'.failures = obj.failures
    BY <1>1, <1>3, <2>1, StoredSteps
  <2>3. (obj.reported => obj'.reported) /\ (obj.ready => obj'.ready)
    BY <1>1, <1>3, <2>2, ReportsKeptStep
  <2> QED
    BY <2>2, <2>3 DEF StatusInv, InStep
<1> QED
  BY <1>2, <1>3

(* The reconcile in flight keeps its place.                                *)
LEMMA FlightStatusStep ==
    ASSUME UpToDate, StatusInv, [Next]_vars
    PROVE  InStep' /\ OneCheckAhead' /\ RecoveryInFlight'
<1>t. TypeOK
  BY DEF StatusInv, ReportsInv
<1>1. CASE Fetch
  <2>1. CASE cache = Absent
    BY <1>1, <2>1
       DEF Fetch, manager, StatusInv, InStep, OneCheckAhead, RecoveryInFlight
  <2>2. CASE cache # Absent
    BY <1>1, <2>2 DEF Fetch, UpToDate, InStep, OneCheckAhead, RecoveryInFlight
  <2> QED
    BY <2>1, <2>2
<1>2. CASE pc' = "idle"
  BY <1>2 DEF InStep, OneCheckAhead, RecoveryInFlight
<1>3. CASE reconcileDeleteReleases
  <2>1. /\ before' = before /\ pc' = "patch" /\ pc = "reconcile"
        /\ after'.conn = before.conn /\ after'.failures = before.failures
    BY <1>3, <1>t, ReleaseResult DEF StatusOf, reconcileDeleteReleases
  <2>2. InStep'
    BY <2>1, InStepKept
  <2> QED
    BY <2>1, <2>2 DEF OneCheckAhead, RecoveryInFlight, CheckedOnce
<1>4. CASE reconcileNormal
  <2>1. /\ before' = before /\ pc' = "patch" /\ pc = "reconcile"
        /\ CheckedOnce(before, after')
        /\ lastEvent' = recordConnectionTransition(before.conn, after'.conn, lastEvent)
    BY <1>4, <1>t, NormalResult DEF reconcileNormal
  <2>2. InStep'
    BY <2>1, InStepKept
  <2> QED
    BY <2>1, <2>2 DEF OneCheckAhead, RecoveryInFlight, recordConnectionTransition
<1>5. CASE UNCHANGED <<before, after>> /\ pc = "reconcile" /\ pc' = "patch"
  <2>1. after = before
    BY <1>5 DEF StatusInv, ReportsInv, Unchecked
  <2>2. InStep'
    BY <1>5, InStepKept
  <2> QED
    BY <1>5, <2>1, <2>2 DEF OneCheckAhead, RecoveryInFlight, CheckedOnce
<1>6. CASE UNCHANGED <<before, after>> /\ pc = "shard" /\ pc' = "reconcile"
  <2>1. InStep'
    BY <1>6, InStepKept
  <2> QED
    BY <1>6, <2>1 DEF OneCheckAhead, RecoveryInFlight
<1>7. CASE /\ UNCHANGED <<before, after, lastEvent>>
           /\ pc' = pc \/ (pc = "patch" /\ pc' = "status")
  <2>1. InStep'
    <3>1. CASE pc' = "idle"
      BY <3>1 DEF InStep
    <3>2. CASE pc' # "idle"
      BY <1>7, <3>2, InStepKept
    <3> QED
      BY <3>1, <3>2
  <2>2. OneCheckAhead' /\ RecoveryInFlight'
    BY <1>7 DEF StatusInv, OneCheckAhead, RecoveryInFlight, CheckedOnce
  <2> QED
    BY <2>1, <2>2
<1> QED
  BY <1>1, <1>2, <1>3, <1>4, <1>5, <1>6, <1>7, FlightSteps

LEMMA StatusStep ==
    ASSUME UpToDate
    PROVE  StatusInv /\ [Next]_vars => StatusInv'
<1> SUFFICES ASSUME StatusInv, [Next]_vars PROVE StatusInv'
  OBVIOUS
<1>1. ReportsInv'
  BY ReportsStep DEF StatusInv
<1> QED
  BY <1>1, AgreementStep, FlightStatusStep DEF StatusInv

LEMMA StatusInit == Init => StatusInv
<1> SUFFICES ASSUME Init PROVE StatusInv
  OBVIOUS
<1>1. PICK g \in Graces \cup {NoGrace} : obj = Fresh(g)
  BY DEF Init
<1>2. ConnectionOf(obj) = Unknown /\ FailuresOf(obj) = 0
  BY <1>1 DEF Fresh, ConnectionOf, FailuresOf
<1>3. DownMeansThresholdReached
  <2>1. Unknown # Down /\ ~(0 >= Threshold)
    BY ThresholdAssumption DEF ThresholdAssumption, Unknown, Down
  <2> QED
    BY <1>2, <2>1 DEF DownMeansThresholdReached
<1>4. ReportsInv
  BY ReportsInit
<1> QED
  BY <1>3, <1>4 DEF Init, StatusInv, InStep, OneCheckAhead, RecoveryInFlight

(***************************************************************************)
(* The theorems.                                                           *)
(***************************************************************************)

(* The stored status is down exactly when the stored count has reached the *)
(* threshold, whichever patch fails and whenever the manager restarts.     *)
THEOREM HalvesAgree ==
    ASSUME UpToDate
    PROVE  Spec => []DownMeansThresholdReached
<1>1. StatusInv => DownMeansThresholdReached
  BY DEF StatusInv
<1> QED
  BY <1>1, StatusInit, StatusStep, PTL DEF Spec

(* A recovery is stored only after it has been announced.                  *)
THEOREM NoSilentRecovery ==
    ASSUME UpToDate
    PROVE  Spec => RecoveryAnnounced
<1>1. ASSUME StatusInv, [Next]_vars,
             obj' # Absent, ConnectionOf(obj) = Down, ConnectionOf(obj') # Down
      PROVE  lastEvent = Recovered
  <2>1. TypeOK
    BY <1>1 DEF StatusInv, ReportsInv
  <2>2. obj # Absent /\ obj.conn = Down /\ obj'.conn # Down
    BY <1>1, <2>1, StoredSteps DEF ConnectionOf
  <2>3. PatchStatus /\ pc = "status"
    BY <1>1, <2>1, <2>2, StoredSteps DEF PatchStatus
  <2>4. before.conn = Down /\ after.conn # Down
    BY <1>1, <2>2, <2>3, StoredIsChecked
  <2> QED
    BY <1>1, <2>3, <2>4 DEF StatusInv, RecoveryInFlight
<1>2. StatusInv /\ [Next]_vars
        => [obj' # Absent /\ ConnectionOf(obj) = Down /\ ConnectionOf(obj') # Down
              => lastEvent = Recovered]_vars
  BY <1>1
<1> QED
  BY <1>2, StatusInit, StatusStep, PTL DEF Spec, RecoveryAnnounced

(* The stored status implements the abstract monitor: every change of it   *)
(* is one whole check, or the end of the registration.                     *)
THEOREM StatusImplementsMonitor ==
    ASSUME UpToDate
    PROVE  Spec => ImplementsMonitor
<1>1. Init => Monitor!Init
  <2> SUFFICES ASSUME Init PROVE Monitor!Init
    OBVIOUS
  <2>1. PICK g \in Graces \cup {NoGrace} : obj = Fresh(g)
    BY DEF Init
  <2> QED
    BY <2>1 DEF Fresh, ConnectionOf, FailuresOf, Monitor!Init, Unknown
<1>2. StatusInv /\ [Next]_vars => [Monitor!Next]_(Monitor!vars)
  <2> SUFFICES ASSUME StatusInv, [Next]_vars
               PROVE  [Monitor!Next]_(Monitor!vars)
    OBVIOUS
  <2>0. TypeOK
    BY DEF StatusInv, ReportsInv
  <2>1. CASE obj' = Absent
    <3>1. ConnectionOf(obj') = "" /\ FailuresOf(obj') = 0
      BY <2>1 DEF ConnectionOf, FailuresOf, Unknown
    <3> QED
      BY <3>1 DEF Monitor!Next, Monitor!Deregister
  <2>2. CASE obj' # Absent /\ obj'.conn = obj.conn /\ obj'.failures = obj.failures
    <3>1. ConnectionOf(obj') = ConnectionOf(obj) /\ FailuresOf(obj') = FailuresOf(obj)
      BY <2>0, <2>2, StoredSteps DEF ConnectionOf, FailuresOf
    <3> QED
      BY <3>1 DEF Monitor!vars
  <2>3. CASE PatchStatus /\ obj' # Absent
    <3>1. obj \in Object /\ obj' \in Object /\ CheckedOnce(obj, obj')
      BY <2>3, StoredIsChecked
    <3>2. /\ ConnectionOf(obj) = obj.conn /\ ConnectionOf(obj') = obj'.conn
          /\ FailuresOf(obj) = obj.failures /\ FailuresOf(obj') = obj'.failures
      BY <3>1, AbsentAssumption DEF ConnectionOf, FailuresOf, AbsentAssumption
    <3>3. CASE obj'.conn = Healthy /\ obj'.failures = 0
      BY <3>2, <3>3 DEF Healthy, Monitor!Next, Monitor!CheckSucceeds
    <3>4. CASE /\ obj'.failures = IncrementFailures(obj.failures)
               /\ obj'.conn = IF obj'.failures >= Threshold THEN Down ELSE obj.conn
      <4>0. obj.failures \in 0..MaxFailures
        BY <3>1 DEF Object
      <4>1. CASE obj.failures + 1 >= Threshold
        <5>1. /\ obj'.conn = "Down"
              /\ obj'.failures \in {obj.failures, obj.failures + 1}
              /\ obj'.failures = obj.failures => obj.failures = MaxFailures
          BY <3>4, <4>0, <4>1, Increment DEF Down
        <5> QED
          BY <3>2, <4>1, <5>1 DEF Monitor!Next, Monitor!CheckFailsDown
      <4>2. CASE ~(obj.failures + 1 >= Threshold)
        <5>1. obj.failures + 1 < Threshold /\ obj.failures # MaxFailures
          BY <4>0, <4>2, ThresholdAssumption DEF ThresholdAssumption
        <5>2. obj'.failures = obj.failures + 1 /\ obj'.conn = obj.conn
          BY <3>4, <4>0, <4>2, <5>1, Increment
        <5> QED
          BY <3>2, <5>1, <5>2 DEF Monitor!Next, Monitor!CheckFailsUp
      <4> QED
        BY <4>1, <4>2
    <3>5. CASE obj'.conn = obj.conn /\ obj'.failures = obj.failures
      BY <3>2, <3>5 DEF Monitor!vars
    <3> QED
      BY <3>1, <3>3, <3>4, <3>5 DEF CheckedOnce
  <2> QED
    BY <2>0, <2>1, <2>2, <2>3, StoredSteps
<1> QED
  BY <1>1, <1>2, StatusInit, StatusStep, PTL
     DEF Spec, ImplementsMonitor, Monitor!Spec

(***************************************************************************)
(* The gauges.                                                             *)
(***************************************************************************)

(* A process without gauges exports no count.                              *)
LEMMA NothingExported == NoGauges.failures = NoCount
BY DEF NoGauges

(* Steps of others leave the gauges alone; a restart and the end of a      *)
(* reconcile leave them alone or without a value.                          *)
LEMMA GaugeSteps ==
    ASSUME [Next]_vars
    PROVE  reconcileNormal \/ gauges' = gauges \/ gauges' = NoGauges
BY DEF Next, Reconcile, Faults, Environment, Fetch, ShardMatch, ShardMismatch,
       ShardUnknown, reconcileDeleteWaits, reconcileDeleteReleases, deleteClusterMetrics,
       PatchObject, PatchObjectSkip, PatchObjectRefused, PatchObjectFails,
       PatchStatus, PatchStatusSkip, PatchStatusRefused, PatchStatusFails,
       Restart, Deliver, TimerFires, Register, SetGrace, SetShard, Delete,
       UserStep, AgentReports, ManagedChanges, Tick, vars

(* A reconcile persists its result by the patch of the status, or because  *)
(* there is nothing to patch.                                              *)
LEMMA PersistedSteps ==
    ASSUME TypeOK, [Next]_vars, Persisted, obj' # Absent
    PROVE  PatchStatus \/ PatchStatusSkip
<1>1. pc = "status" /\ pc' = "idle" /\ faults' = faults /\ faults \in Nat
  BY DEF Persisted, TypeOK
<1>2. ~Faults
  <2>1. Faults => faults' = faults + 1
    BY DEF Faults, ShardUnknown, PatchObjectFails, PatchStatusFails, Restart
  <2> QED
    BY <1>1, <2>1
<1>3. ~PatchStatusRefused
  BY DEF PatchStatusRefused
<1>4. ~(\/ Fetch \/ ShardMatch \/ ShardMismatch
        \/ reconcileDeleteWaits \/ reconcileDeleteReleases \/ reconcileNormal
        \/ PatchObjectSkip \/ PatchObject \/ PatchObjectRefused)
  BY <1>1 DEF Fetch, ShardMatch, ShardMismatch, reconcileDeleteWaits,
              reconcileDeleteReleases, reconcileNormal,
              PatchObjectSkip, PatchObject, PatchObjectRefused
<1>5. ~(Deliver \/ TimerFires \/ Environment \/ UNCHANGED vars)
  BY <1>1 DEF Deliver, TimerFires, Environment, Register, SetGrace, SetShard, Delete,
              UserStep, AgentReports, ManagedChanges, Tick, vars, manager
<1> QED
  BY <1>2, <1>3, <1>4, <1>5 DEF Next, Reconcile

(* A pull-mode cluster heard of once stays heard of.                       *)
LEMMA HeardStep ==
    ASSUME UpToDate, GaugesInv, [Next]_vars
    PROVE  HeardInv'
<1> SUFFICES ASSUME PullMode, gauges'.failures # NoCount
             PROVE  /\ obj' # Absent => PullHeard(obj')
                    /\ pc' # "idle" => PullHeard(before')
  BY DEF HeardInv
<1>0. TypeOK /\ ReportsInv /\ StatusInv
  BY DEF GaugesInv, StatusInv, ReportsInv
<1>1. CASE reconcileNormal
  <2>1. /\ before' = before /\ pc = "reconcile" /\ obj' = obj
        /\ ~Exported(before) => gauges'.failures = gauges.failures
    BY <1>0, <1>1, NormalResult DEF reconcileNormal
  <2>2. PullHeard(before)
    BY <2>1 DEF Exported, GaugesInv, HeardInv
  <2> QED
    BY <1>0, <2>1, <2>2 DEF StatusInv, InStep, PullHeard
<1>2. CASE ~reconcileNormal
  <2>1. gauges' = gauges
    BY <1>2, GaugeSteps, NothingExported
  <2>2. /\ obj # Absent => PullHeard(obj)
        /\ pc # "idle" => PullHeard(before)
    BY <2>1 DEF GaugesInv, HeardInv
  <2>3. obj' # Absent => PullHeard(obj')
    BY <1>0, <2>2, StoredSteps, ReportsKeptStep DEF PullHeard
  <2>4. pc' # "idle" => PullHeard(before')
    <3>1. CASE Fetch
      BY <2>2, <3>1 DEF Fetch, UpToDate, manager
    <3>2. CASE reconcileDeleteReleases
      BY <2>2, <3>2 DEF reconcileDeleteReleases
    <3> QED
      BY <1>2, <2>2, <3>1, <3>2, FlightSteps
  <2> QED
    BY <2>3, <2>4
<1> QED
  BY <1>1, <1>2

(* The gauges keep showing what is about to be stored.                     *)
LEMMA MirrorStep ==
    ASSUME UpToDate, GaugesInv, [Next]_vars
    PROVE  GaugesInFlight'
<1>0. TypeOK
  BY DEF GaugesInv, StatusInv, ReportsInv
<1>1. CASE reconcileNormal
  <2>1. /\ before' = before /\ pc = "reconcile"
        /\ Exported(before) =>
              /\ gauges'.failures = after'.failures
              /\ gauges'.connectivity = Healthy <=> after'.conn = Healthy
        /\ ~Exported(before) => /\ gauges'.failures = gauges.failures
                                /\ Counted(before) => gauges'.behind
    BY <1>0, <1>1, NormalResult DEF reconcileNormal
  <2>2. ~Exported(before) => gauges.failures = NoCount \/ Counted(before)
    BY <1>0, <2>1 DEF Exported, Counted, GaugesInv, HeardInv
  <2> QED
    BY <2>1, <2>2 DEF GaugesInFlight
<1>2. CASE Fetch
  BY <1>0, <1>2 DEF Fetch, manager, TypeOK, GaugesInFlight
<1>3. CASE reconcileDeleteReleases
  BY <1>0, <1>3, ReleaseResult DEF GaugesInFlight
<1>4. CASE pc' = "idle"
  BY <1>4 DEF GaugesInFlight
<1>5. CASE \/ UNCHANGED before /\ before.deleting
           \/ pc' = "reconcile"
           \/ UNCHANGED <<before, after, gauges>> /\ (pc' = pc \/ pc = "patch")
  BY <1>5 DEF GaugesInv, GaugesInFlight
<1> QED
  BY <1>1, <1>2, <1>3, <1>4, <1>5, FlightSteps

(* A normal reconcile that persisted its result leaves the gauges at the   *)
(* stored count and status, unless it found no client.                     *)
THEOREM GaugesAlwaysMirror ==
    ASSUME UpToDate
    PROVE  Spec => GaugesMirrorStatus
<1>1. GaugesInv /\ [Next]_vars => GaugesInv'
  BY StatusStep, HeardStep, MirrorStep DEF GaugesInv
<1>2. Init => GaugesInv
  BY StatusInit, NothingExported DEF Init, GaugesInv, HeardInv, GaugesInFlight
<1>3. ASSUME GaugesInv, [Next]_vars, Persisted, obj' # Absent,
             gauges'.failures # NoCount, ~gauges'.behind
      PROVE  /\ gauges'.failures = obj'.failures
             /\ gauges'.connectivity = Healthy <=> obj'.conn = Healthy
  <2>0. TypeOK /\ StatusInv
    BY <1>3 DEF GaugesInv, StatusInv, ReportsInv
  <2>1. pc = "status" /\ pc' = "idle" /\ ~before.deleting
    BY <1>3 DEF Persisted
  <2>2. gauges' = gauges
    BY <1>3, <2>1, GaugeSteps, NothingExported DEF reconcileNormal
  <2>3. /\ gauges.failures = after.failures
        /\ gauges.connectivity = Healthy <=> after.conn = Healthy
    BY <1>3, <2>1, <2>2 DEF GaugesInv, GaugesInFlight
  <2>4. obj'.conn = after.conn /\ obj'.failures = after.failures
    <3>1. CASE PatchStatus
      BY <2>0, <3>1, StoredIsChecked
    <3>2. CASE PatchStatusSkip
      <4>1. after.conn = before.conn /\ after.failures = before.failures /\ obj' = obj
        BY <3>2 DEF PatchStatusSkip, StatusChanged, StatusOf
      <4> QED
        BY <1>3, <2>0, <2>1, <4>1 DEF StatusInv, InStep
    <3> QED
      BY <1>3, <2>0, <2>1, <3>1, <3>2, PersistedSteps
  <2> QED
    BY <2>2, <2>3, <2>4
<1>4. GaugesInv /\ [Next]_vars
        => [Persisted /\ obj' # Absent /\ gauges'.failures # NoCount /\ ~gauges'.behind =>
              /\ gauges'.failures = obj'.failures
              /\ gauges'.connectivity = Healthy <=> obj'.conn = Healthy]_vars
  BY <1>3
<1> QED
  BY <1>1, <1>2, <1>4, PTL DEF Spec, GaugesMirrorStatus
===============================================================================
