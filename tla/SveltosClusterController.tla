------------------------ MODULE SveltosClusterController ------------------------
(***************************************************************************)
(* One SveltosCluster and the manager that watches it: the API server's    *)
(* object, the informer cache the manager reads, the work queue, and the   *)
(* reconcile in flight, from the cached Get to the two merge patches that  *)
(* Scope.Close issues.  Users, the agent of a pull-mode cluster, a failing *)
(* API server and restarts of the manager interleave with every step.      *)
(*                                                                         *)
(* Left to other modules and here only a nondeterministic outcome: whether *)
(* a probe, a check or a token renewal fails (variable managed) and what   *)
(* the active window decides about Spec.Paused (constant AutoPause).       *)
(***************************************************************************)
EXTENDS ConnectionStatus, Scope

CONSTANTS
    PullMode,      \* Spec.PullMode
    StaleCache,    \* may a reconcile read a cache that lags the API server?
    Reshard,       \* may users move the cluster between shards?
    Recreate,      \* may users register the cluster again once it is gone?
    MayUnsetGrace, \* may users change a grace period once it is set?
    Graces,        \* the values users give Spec.CleanupGracePeriod
    NoGrace,       \* CleanupGracePeriod = nil
    AutoPause,     \* the values handleAutomaticPauseUnPause may write
    Conditions,    \* the conditions the managed cluster goes through
    Absent,        \* no such object
    LastDeletion,  \* bound: no deletion is requested later than this
    MaxTime,       \* bound on the clock
    MaxEdits,      \* bound on the users' requests
    MaxFaults      \* bound on failed API calls and restarts

(* What a reconcile of the cluster runs into.                              *)
PushConditions == {"ok", "noClient", "noVersion", "renewFails", "notReady", "notLive"}
PullConditions == {"ok", "renewFails", "agentQuiet"}

ASSUME ControllerAssumption ==
    /\ {PullMode, StaleCache, Reshard, Recreate, MayUnsetGrace} \subseteq BOOLEAN
    /\ AutoPause \subseteq BOOLEAN
    /\ Conditions \subseteq IF PullMode THEN PullConditions ELSE PushConditions
    /\ Conditions # {}
    /\ Graces \subseteq Nat
    /\ NoGrace \notin Nat
    /\ {LastDeletion, MaxTime, MaxEdits, MaxFaults} \subseteq Nat

(* The SveltosCluster resource.  Spec: paused, grace.  Metadata: mine (the *)
(* shard annotation matches this manager), deleting and deletedAt          *)
(* (DeletionTimestamp), finalizer.  Status: ready, reported                *)
(* (AgentLastReportTime # nil), failing (FailureMessage # nil), failures   *)
(* (ConnectionFailures), conn (ConnectionStatus).                          *)
Object == [paused : BOOLEAN, grace : Graces \cup {NoGrace}, mine : BOOLEAN,
           deleting : BOOLEAN, deletedAt : Nat, finalizer : BOOLEAN,
           ready : BOOLEAN, reported : BOOLEAN, failing : BOOLEAN,
           failures : 0..MaxFailures, conn : ConnectionStates]

ASSUME AbsentAssumption == Absent \notin Object

VARIABLES
    obj,        \* the object as the API server has it
    cache,      \* the object as the manager's informer has it
    managed,    \* the condition of the managed cluster
    queued,     \* the cluster's key is in the work queue
    timer,      \* a RequeueAfter is pending for the key
    pc,         \* the step the reconcile in flight is at
    before,     \* its snapshot of the object: what patches are relative to
    after,      \* its working copy
    failed,     \* a patch of this reconcile failed: it returns an error
    requeue,    \* it returns RequeueAfter
    gauges,     \* the Prometheus gauges of the cluster, in process memory
    lastEvent,  \* the last event recorded on the object
    now,        \* the clock
    edits,      \* users' requests so far
    faults      \* failed API calls and restarts so far

manager == <<pc, before, after, failed, requeue>>
vars == <<obj, cache, managed, queued, timer, manager, gauges, lastEvent,
          now, edits, faults>>

(* The gauges: the connectivity and failures gauges with their values, the *)
(* version and heartbeat gauges only as exported or not.  behind is        *)
(* history: the last check that was counted found no client, and returned  *)
(* before the gauges.                                                      *)
NotExported == "notExported"
NoCount == -1
NoGauges == [connectivity |-> NotExported, failures |-> NoCount,
             version |-> FALSE, heartbeat |-> FALSE, behind |-> FALSE]

Fresh(g) == [paused |-> FALSE, grace |-> g, mine |-> TRUE,
             deleting |-> FALSE, deletedAt |-> 0, finalizer |-> FALSE,
             ready |-> FALSE, reported |-> FALSE, failing |-> FALSE,
             failures |-> 0, conn |-> Unknown]

Init ==
    /\ obj \in {Fresh(g) : g \in Graces \cup {NoGrace}}
    /\ cache = Absent
    /\ managed \in Conditions
    /\ queued = FALSE /\ timer = FALSE
    /\ pc = "idle" /\ before = Absent /\ after = Absent
    /\ failed = FALSE /\ requeue = FALSE
    /\ gauges = NoGauges /\ lastEvent = NoEvent
    /\ now = 0 /\ edits = 0 /\ faults = 0

(***************************************************************************)
(* The watch and the work queue (controller-runtime).                      *)
(***************************************************************************)

(* SveltosClusterPredicates: which changes of the object reconcile it.     *)
SveltosClusterPredicates(old, new) ==
    \/ old = Absent
    \/ new = Absent
    \/ ~old.deleting /\ new.deleting
    \/ <<old.paused, old.grace>> # <<new.paused, new.grace>>

(* The watch brings the cache up to date; several writes may arrive as     *)
(* one event, as they do after a relist.                                   *)
Deliver ==
    /\ cache # obj
    /\ cache' = obj
    /\ queued' = (queued \/ SveltosClusterPredicates(cache, obj))
    /\ UNCHANGED <<obj, managed, timer, manager, gauges, lastEvent, now, edits, faults>>

TimerFires ==
    /\ timer
    /\ timer' = FALSE
    /\ queued' = TRUE
    /\ UNCHANGED <<obj, cache, managed, manager, gauges, lastEvent, now, edits, faults>>

(***************************************************************************)
(* Reconcile.  One reconcile per key is in flight at a time.               *)
(***************************************************************************)

(* The key leaves the queue and the cached object is fetched.  A cluster   *)
(* that is not found needs nothing more.                                   *)
Fetch ==
    /\ pc = "idle"
    /\ queued
    /\ ~StaleCache => cache = obj
    /\ queued' = FALSE
    /\ IF cache = Absent
       THEN UNCHANGED manager
       ELSE /\ pc' = "shard"
            /\ before' = cache
            /\ after' = cache
            /\ failed' = FALSE
            /\ requeue' = FALSE
    /\ UNCHANGED <<obj, cache, managed, timer, gauges, lastEvent, now, edits, faults>>

(* isClusterAShardMatch reads the cluster once more; one that is gone      *)
(* meanwhile matches every shard.                                          *)
isClusterAShardMatch == cache # Absent => cache.mine

EndReconcile ==
    /\ pc' = "idle"
    /\ before' = Absent
    /\ after' = Absent
    /\ failed' = FALSE
    /\ requeue' = FALSE

ShardMatch ==
    /\ pc = "shard"
    /\ isClusterAShardMatch
    /\ pc' = "reconcile"
    /\ UNCHANGED <<obj, cache, managed, queued, timer, before, after, failed, requeue,
                   gauges, lastEvent, now, edits, faults>>

(* Another manager's cluster is dropped: no patch, no requeue.             *)
ShardMismatch ==
    /\ pc = "shard"
    /\ ~isClusterAShardMatch
    /\ EndReconcile
    /\ UNCHANGED <<obj, cache, managed, queued, timer, gauges, lastEvent, now, edits, faults>>

(* The second read fails: RequeueAfter normalRequeueAfter.                 *)
ShardUnknown ==
    /\ pc = "shard"
    /\ faults < MaxFaults
    /\ faults' = faults + 1
    /\ timer' = TRUE
    /\ EndReconcile
    /\ UNCHANGED <<obj, cache, managed, queued, gauges, lastEvent, now, edits>>

(* Seeded fault: the grace period is ignored.                              *)
GraceElapsed_Always(o) == TRUE

(* reconcileDelete: no grace period, or its deadline is not after now.     *)
GraceElapsed(o) == o.grace # NoGrace => now >= o.deletedAt + o.grace

(* Seeded fault: the wait for the deadline is not requeued.                *)
deleteRequeueAfter_Never == FALSE

(* reconcileDelete asks to be called again only while it waits.            *)
deleteRequeueAfter == before.finalizer

(* reconcileDelete while it has nothing to do or must wait.                *)
reconcileDeleteWaits ==
    /\ pc = "reconcile"
    /\ before.deleting
    /\ before.finalizer => ~GraceElapsed(before)
    /\ pc' = "patch"
    /\ requeue' = deleteRequeueAfter
    /\ UNCHANGED <<obj, cache, managed, queued, timer, before, after, failed,
                   gauges, lastEvent, now, edits, faults>>

(* Seeded fault: the deleted cluster's gauges are kept.                    *)
deleteClusterMetrics_Keeps == gauges' = gauges

deleteClusterMetrics == gauges' = NoGauges

(* reconcileDelete once the grace period is over.                          *)
reconcileDeleteReleases ==
    /\ pc = "reconcile"
    /\ before.deleting
    /\ before.finalizer
    /\ GraceElapsed(before)
    /\ deleteClusterMetrics
    /\ after' = [before EXCEPT !.finalizer = FALSE]
    /\ pc' = "patch"
    /\ UNCHANGED <<obj, cache, managed, queued, timer, before, failed, requeue,
                   lastEvent, now, edits, faults>>

(* The push-mode probe: the client, the version, the renewal, the checks.  *)
(* Readiness checks run until the cluster is ready, liveness checks after. *)
ChecksFail(o) == \/ managed = "notReady" /\ ~o.ready
                 \/ managed = "notLive" /\ o.ready
Reached == managed \notin {"noClient", "noVersion"}
PushProbe(o) ==
    [o EXCEPT !.failing = ~Reached \/ managed = "renewFails" \/ ChecksFail(o),
              !.ready = @ \/ (Reached /\ ~ChecksFail(o))]

(* The pull-mode check: the renewal, then the age of the agent's report.   *)
PullHeard(o) == o.ready /\ o.reported
PullProbe(o) ==
    [o EXCEPT !.failing = \/ managed = "renewFails"
                          \/ PullHeard(o) /\ managed = "agentQuiet"]

Probe(o) == IF PullMode THEN PullProbe(o) ELSE PushProbe(o)

(* The early returns: a pull-mode cluster is counted once its agent is     *)
(* heard of, and a push-mode cluster without a client exports no gauge.    *)
Counted(o) == PullMode => PullHeard(o)
Exported(o) == IF PullMode THEN PullHeard(o) ELSE managed # "noClient"

(* Seeded fault: the failures gauge is set before the count is updated.    *)
updateMetrics_BeforeStatus(o, checked) ==
    [connectivity |-> IF checked.conn = Healthy THEN Healthy ELSE "Disconnected",
     failures |-> o.failures,
     version |-> gauges.version \/ (~PullMode /\ Reached /\ ~ChecksFail(o)),
     heartbeat |-> PullMode,
     behind |-> FALSE]

(* The gauges a reconcile of o exports once it is checked.                 *)
updateMetrics(o, checked) ==
    [connectivity |-> IF checked.conn = Healthy THEN Healthy ELSE "Disconnected",
     failures |-> checked.failures,
     version |-> gauges.version \/ (~PullMode /\ Reached /\ ~ChecksFail(o)),
     heartbeat |-> PullMode,
     behind |-> FALSE]

(* An early return leaves them as they are.                                *)
GaugesSkipped(o) == [gauges EXCEPT !.behind = @ \/ Counted(o)]

(* Seeded fault: the finalizer is added and never removed.                 *)
finalizerOf_OnlyAdds(o) == o.finalizer \/ o.grace # NoGrace

(* reconcileNormal keeps the finalizer exactly while a grace period is set. *)
finalizerOf(o) == o.grace # NoGrace

(* Seeded fault: the periodic reconcile is not asked for.                  *)
RequeueAfterMinute_Never == FALSE

(* Reconcile's result after reconcileNormal, whatever the check found.     *)
RequeueAfterMinute == TRUE

(* reconcileNormal: finalizer, probe, connection status and its event,     *)
(* gauges, and last (deferred) the automatic pause.                        *)
reconcileNormal ==
    /\ pc = "reconcile"
    /\ ~before.deleting
    /\ \E p \in AutoPause \cup {before.paused} :
          LET probed  == Probe(before)
              checked == IF Counted(before) THEN updateConnectionStatus(probed) ELSE probed
          IN  /\ after' = [checked EXCEPT !.finalizer = finalizerOf(before), !.paused = p]
              /\ lastEvent' = recordConnectionTransition(before.conn, checked.conn, lastEvent)
              /\ gauges' = IF Exported(before) THEN updateMetrics(before, checked)
                           ELSE GaugesSkipped(before)
    /\ requeue' = RequeueAfterMinute
    /\ pc' = "patch"
    /\ UNCHANGED <<obj, cache, managed, queued, timer, before, failed, now, edits, faults>>

(***************************************************************************)
(* Scope.Close.  The patch helper sends what changed between before and    *)
(* after, metadata and spec first, then status, each a merge patch with no *)
(* precondition on the version it lands on; a failure of the first does    *)
(* not stop the second.                                                    *)
(***************************************************************************)

ObjectChanged == <<before.paused, before.finalizer>> # <<after.paused, after.finalizer>>
MergedObject == [obj EXCEPT !.paused = Merge(@, before.paused, after.paused),
                            !.finalizer = Merge(@, before.finalizer, after.finalizer)]

StatusOf(o) == <<o.ready, o.reported, o.failing, o.failures, o.conn>>
StatusChanged == StatusOf(before) # StatusOf(after)

(* Seeded fault: the whole status is written back, not what changed.       *)
MergedStatus_Overwrite == [obj EXCEPT !.ready = after.ready, !.reported = after.reported,
                                      !.failing = after.failing, !.failures = after.failures,
                                      !.conn = after.conn]

MergedStatus == [obj EXCEPT !.ready = Merge(@, before.ready, after.ready),
                            !.reported = Merge(@, before.reported, after.reported),
                            !.failing = Merge(@, before.failing, after.failing),
                            !.failures = Merge(@, before.failures, after.failures),
                            !.conn = Merge(@, before.conn, after.conn)]

(* The API server refuses a patch of a missing object, and a finalizer     *)
(* added to an object that is being deleted.                               *)
ObjectRefused == obj # Absent => obj.deleting /\ ~obj.finalizer /\ MergedObject.finalizer

PatchObjectSkip ==
    /\ pc = "patch"
    /\ ~ObjectChanged
    /\ pc' = "status"
    /\ UNCHANGED <<obj, cache, managed, queued, timer, before, after, failed, requeue,
                   gauges, lastEvent, now, edits, faults>>

(* The object is removed when a patch takes its last finalizer away.       *)
PatchObject ==
    /\ pc = "patch"
    /\ ObjectChanged
    /\ ~ObjectRefused
    /\ obj' = IF obj.deleting /\ ~MergedObject.finalizer THEN Absent ELSE MergedObject
    /\ pc' = "status"
    /\ UNCHANGED <<cache, managed, queued, timer, before, after, failed, requeue,
                   gauges, lastEvent, now, edits, faults>>

PatchObjectRefused ==
    /\ pc = "patch"
    /\ ObjectChanged
    /\ ObjectRefused
    /\ failed' = TRUE
    /\ pc' = "status"
    /\ UNCHANGED <<obj, cache, managed, queued, timer, before, after, requeue,
                   gauges, lastEvent, now, edits, faults>>

PatchObjectFails ==
    /\ pc = "patch"
    /\ ObjectChanged
    /\ faults < MaxFaults
    /\ faults' = faults + 1
    /\ failed' = TRUE
    /\ pc' = "status"
    /\ UNCHANGED <<obj, cache, managed, queued, timer, before, after, requeue,
                   gauges, lastEvent, now, edits>>

(* Reconcile returns: an error puts the key back in the queue, after a     *)
(* backoff; RequeueAfter arms the timer.                                   *)
Return(err) ==
    /\ queued' = (queued \/ err)
    /\ timer' = (timer \/ (requeue /\ ~err))
    /\ EndReconcile

PatchStatusSkip ==
    /\ pc = "status"
    /\ ~StatusChanged
    /\ Return(failed)
    /\ UNCHANGED <<obj, cache, managed, gauges, lastEvent, now, edits, faults>>

PatchStatus ==
    /\ pc = "status"
    /\ StatusChanged
    /\ obj # Absent
    /\ obj' = MergedStatus
    /\ Return(failed)
    /\ UNCHANGED <<cache, managed, gauges, lastEvent, now, edits, faults>>

(* NotFound is an error here too: the helper passes over it for an object  *)
(* that is deleted and has no finalizer left, whose status reconcileDelete *)
(* does not change.                                                        *)
PatchStatusRefused ==
    /\ pc = "status"
    /\ StatusChanged
    /\ obj = Absent
    /\ Return(TRUE)
    /\ UNCHANGED <<obj, cache, managed, gauges, lastEvent, now, edits, faults>>

PatchStatusFails ==
    /\ pc = "status"
    /\ StatusChanged
    /\ faults < MaxFaults
    /\ faults' = faults + 1
    /\ Return(TRUE)
    /\ UNCHANGED <<obj, cache, managed, gauges, lastEvent, now, edits>>

(* The manager restarts: memory is lost, and the watch starts from a list. *)
Restart ==
    /\ faults < MaxFaults
    /\ faults' = faults + 1
    /\ cache' = Absent
    /\ queued' = FALSE
    /\ timer' = FALSE
    /\ gauges' = NoGauges
    /\ EndReconcile
    /\ UNCHANGED <<obj, managed, lastEvent, now, edits>>

(***************************************************************************)
(* The manager's surroundings: users, the agent of a pull-mode cluster,    *)
(* the managed cluster and the clock.                                      *)
(***************************************************************************)
UserStep ==
    /\ edits < MaxEdits
    /\ edits' = edits + 1
    /\ UNCHANGED <<cache, managed, queued, timer, manager, gauges, lastEvent, now, faults>>

Register ==
    /\ Recreate
    /\ obj = Absent
    /\ \E g \in Graces \cup {NoGrace} : obj' = Fresh(g)
    /\ UserStep

SetGrace ==
    /\ obj # Absent
    /\ obj.grace # NoGrace => MayUnsetGrace
    /\ \E g \in (Graces \cup {NoGrace}) \ {obj.grace} : obj' = [obj EXCEPT !.grace = g]
    /\ UserStep

SetShard ==
    /\ Reshard
    /\ obj # Absent
    /\ obj' = [obj EXCEPT !.mine = ~@]
    /\ UserStep

(* Without a finalizer the API server removes the object at once.          *)
Delete ==
    /\ obj # Absent
    /\ ~obj.deleting
    /\ now <= LastDeletion
    /\ obj' = IF obj.finalizer THEN [obj EXCEPT !.deleting = TRUE, !.deletedAt = now]
                               ELSE Absent
    /\ UserStep

(* The agent's first heartbeat, and its report that the cluster is ready.  *)
AgentReports ==
    /\ PullMode
    /\ obj # Absent
    /\ \/ ~obj.reported /\ obj' = [obj EXCEPT !.reported = TRUE]
       \/ ~obj.ready /\ obj' = [obj EXCEPT !.ready = TRUE]
    /\ UNCHANGED <<cache, managed, queued, timer, manager, gauges, lastEvent, now, edits, faults>>

ManagedChanges ==
    /\ managed' \in Conditions \ {managed}
    /\ UNCHANGED <<obj, cache, queued, timer, manager, gauges, lastEvent, now, edits, faults>>

Tick ==
    /\ now < MaxTime
    /\ now' = now + 1
    /\ UNCHANGED <<obj, cache, managed, queued, timer, manager, gauges, lastEvent, edits, faults>>

(***************************************************************************)
(* The specification.                                                      *)
(***************************************************************************)
Reconcile ==
    \/ Fetch
    \/ ShardMatch \/ ShardMismatch
    \/ reconcileDeleteWaits \/ reconcileDeleteReleases \/ reconcileNormal
    \/ PatchObjectSkip \/ PatchObject \/ PatchObjectRefused
    \/ PatchStatusSkip \/ PatchStatus \/ PatchStatusRefused

Faults == ShardUnknown \/ PatchObjectFails \/ PatchStatusFails \/ Restart

Environment ==
    \/ Register \/ SetGrace \/ SetShard \/ Delete
    \/ AgentReports \/ ManagedChanges \/ Tick

Next == Reconcile \/ Deliver \/ TimerFires \/ Faults \/ Environment

Spec == Init /\ [][Next]_vars

(* The queue's workers, the watch, the timers and the clock make progress; *)
(* nobody has to edit, fail or report.                                     *)
Fairness ==
    /\ WF_vars(Reconcile)
    /\ WF_vars(Deliver)
    /\ WF_vars(TimerFires)
    /\ WF_vars(Tick)

FairSpec == Spec /\ Fairness

(***************************************************************************)
(* Properties.                                                             *)
(***************************************************************************)
GaugeSet == [connectivity : {NotExported, Healthy, "Disconnected"},
             failures : {NoCount} \cup 0..MaxFailures,
             version : BOOLEAN, heartbeat : BOOLEAN, behind : BOOLEAN]

(* Type invariant.  A reconcile in flight has its two copies of the        *)
(* object, and the copies are dropped when it ends.                        *)
TypeOK ==
    /\ obj \in Object \cup {Absent}
    /\ cache \in Object \cup {Absent}
    /\ managed \in Conditions
    /\ queued \in BOOLEAN /\ timer \in BOOLEAN
    /\ pc \in {"idle", "shard", "reconcile", "patch", "status"}
    /\ before \in Object \cup {Absent}
    /\ after \in Object \cup {Absent}
    /\ pc = "idle" <=> before = Absent
    /\ pc = "idle" <=> after = Absent
    /\ failed \in BOOLEAN /\ requeue \in BOOLEAN
    /\ gauges \in GaugeSet
    /\ lastEvent \in ConnectionEvents
    /\ now \in Nat /\ edits \in Nat /\ faults \in Nat

(* A registered cluster's status; a cluster that is gone has none.         *)
ConnectionOf(o) == IF o = Absent THEN Unknown ELSE o.conn
FailuresOf(o) == IF o = Absent THEN 0 ELSE o.failures

(* No outage is silent: the stored status becomes down only through a      *)
(* reconcile whose event was Unreachable (recordConnectionTransition),     *)
(* whatever the cache showed and whatever failed in between.               *)
OutageAnnounced ==
    [][ConnectionOf(obj) # Down /\ ConnectionOf(obj') = Down
       => lastEvent = Unreachable]_vars

(* When reconciles read an up-to-date cache, the recovery is announced     *)
(* too: the stored status leaves down only after a Recovered event.        *)
RecoveryAnnounced ==
    [][obj' # Absent /\ ConnectionOf(obj) = Down /\ ConnectionOf(obj') # Down
       => lastEvent = Recovered]_vars

(* The two halves of the stored status agree: the cluster is down exactly  *)
(* when Threshold checks in a row failed (updateConnectionStatus), although*)
(* they are written by diff patches that may fail, be retried, or follow a *)
(* restart.                                                                *)
DownMeansThresholdReached ==
    ConnectionOf(obj) = Down <=> FailuresOf(obj) >= Threshold

(* The stored status moves as the abstract monitor's does: every change is *)
(* one whole check, none is torn, repeated or applied to another base.     *)
Monitor == INSTANCE ConnectionMonitor WITH conn <- ConnectionOf(obj),
                                           failures <- FailuresOf(obj)
ImplementsMonitor == Monitor!Spec

(* What the agent reported into the status is never undone by the patch of *)
(* a reconcile that had not seen it (Scope.Close).                         *)
AgentReportsKept ==
    [][obj # Absent /\ obj' # Absent
       => /\ obj.reported => obj'.reported
          /\ obj.ready => obj'.ready]_vars

(* The deadline of a deletion is kept: a cluster that entered deletion     *)
(* with a grace period is not removed before it elapsed (reconcileDelete). *)
GraceHonoured ==
    [][obj # Absent /\ obj.deleting /\ obj' = Absent
       => obj.grace = NoGrace \/ now >= obj.deletedAt + obj.grace]_vars

(* A cluster released through the finalizer leaves no gauge behind         *)
(* (deleteClusterMetrics), in whichever order the deletion, the last       *)
(* normal reconcile and retries of the release came.                       *)
ReleasedWithoutGauges ==
    [][obj # Absent /\ obj.deleting /\ obj' = Absent => gauges' = NoGauges]_vars

(* "mirrors SveltosCluster.status.connectionFailures" (metrics.go): a      *)
(* normal reconcile that persisted its result leaves the exported failures *)
(* gauge at the stored count and the connectivity gauge at the stored      *)
(* status, unless it found no client, in which case reconcileNormal counts *)
(* the failure and returns without setting them.                           *)
Persisted == /\ pc = "status" /\ pc' = "idle"
             /\ ~before.deleting /\ ~failed /\ faults' = faults
GaugesMirrorStatus ==
    [][Persisted /\ obj' # Absent /\ gauges'.failures # NoCount /\ ~gauges'.behind =>
         /\ gauges'.failures = obj'.failures
         /\ gauges'.connectivity = Healthy <=> obj'.conn = Healthy]_vars

(* What the next reconcile of o would find.                                *)
CheckFails(o) == Counted(o) /\ Probe(o).failing
CheckPasses(o) == Counted(o) /\ ~Probe(o).failing
Owned(o) == o # Absent /\ ~o.deleting /\ o.mine

(* "in charge of continuously verifying connectivity with registered       *)
(* clusters" (README): a cluster that stays with this manager is           *)
(* reconciled again and again, across failures, restarts and lag.          *)
VerifiedContinuously == <>[]Owned(obj) => []<>(pc = "reconcile")

(* A lasting outage of a cluster this manager owns is reported for good    *)
(* (reconcileNormal, RequeueAfter, retries, restarts).                     *)
OutageDetected ==
    <>[](Owned(obj) /\ CheckFails(obj)) => <>[](ConnectionOf(obj) = Down)

(* A lasting recovery is reported for good, and the count starts afresh.   *)
RecoveryDetected ==
    <>[](Owned(obj) /\ CheckPasses(obj))
      => <>[](ConnectionOf(obj) = Healthy /\ FailuresOf(obj) = 0)

(* The finalizer comes to follow Spec.CleanupGracePeriod, and clusters     *)
(* that carry it without a grace period lose it (reconcileNormal).         *)
FinalizerFollowsGrace ==
    <>[]Owned(obj) => <>[](Owned(obj) => (obj.finalizer <=> obj.grace # NoGrace))

(* A cluster being deleted is eventually removed: the wait for its grace   *)
(* period is requeued and a failed release is retried (reconcileDelete).   *)
DeletionCompletes == (obj # Absent /\ obj.deleting) ~> (obj = Absent)
===============================================================================
