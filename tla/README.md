# A TLA+ verification of sveltoscluster-manager

sveltoscluster-manager keeps the status of every registered cluster
(`SveltosCluster`) current: it probes push-mode clusters, listens to the agents
of pull-mode clusters, renews their credentials, pauses them outside their
active window and holds deleted ones for a grace period.  This directory models
that behaviour in TLA+, checks it with TLC on small instances and proves its safety
properties with TLAPS for all instances.  Paths below are relative to the
repository; `controller` is `controllers/sveltoscluster_controller.go`.

## 1. Inventory

| Part | State | Operations | Correct when |
|---|---|---|---|
| Reconcile loop (`controller`, `controllers/sveltoscluster_predicate.go`, `pkg/scope`) | informer cache, work queue, timers, the reconcile in flight | watch event, `Reconcile`, `reconcileNormal`, `reconcileDelete`, `Scope.Close` | a cluster is evaluated again and again, whatever failed before; nothing another writer stored is undone |
| Connection status (`updateConnectionStatus`) | `ConnectionFailures`, `ConnectionStatus`, `FailureMessage` | one update per reconcile | down exactly after the configured number of failures in a row; healthy after one success |
| Events (`controllers/events.go`) | last event of the object | `recordConnectionTransition` | no outage and no recovery is silent |
| Metrics (`controllers/metrics.go`) | four gauges per cluster, in memory | set, delete | they mirror the status and go with the cluster |
| Deletion | finalizer, `DeletionTimestamp`, `CleanupGracePeriod` | add and remove finalizer, wait, release | not before the grace period, and eventually |
| Active window (`handleAutomaticPauseUnPause`) | `Paused`, `NextPause`, `NextUnpause`, `ActiveWindowHash` | once per reconcile | unpaused inside the window only, and in every window |
| Push-mode token renewal (`handleTokenRequestRenewal`) | kubeconfig Secret, key, interval, time of last renewal | decide, request, adjust, store, record | the credential in use never expires; what is recorded is stored |
| Pull-mode token renewal (`handlePullModeTokenRequestRenewal`) | staged bundle, ConfigurationGroup and its status, interval, time of last renewal; the agent's credential | decide, request, adjust, stage, commit, record; fetch, apply, report; withdraw | the agent's credential never expires; what is recorded is delivered; a bundle is withdrawn once applied, and only then |
| License relay (`updateLicenseAnnotations`) | two annotations | compare, copy, patch | annotations follow the Secret and belong together |
| `SveltosLicense` controller (`controllers/sveltoslicense_controller.go`) | status of the license, one requeue | validate, update, requeue at expiration or in a minute | the verdict follows the Secret, which nobody watches, and expiry is noticed |
| Readiness and liveness checks (`controllers/cluster_checks.go`) | the round in flight, `Ready`, `FailureMessage` | choose the list, discover, list, match, validate | a verdict is what the checks mean; `Ready` is earned, and reached |
| Sharding | shard annotation | compare with the manager's key | every cluster has a manager |
| Start-up (`cmd/main.go`) | flags | wiring | — |

Interactions.  Everything meets in one object.  The manager reads it from a
cache, works on a copy, and patches what changed, first metadata and spec, then
status, with merge patches that carry no precondition.  Users edit spec, shard
annotation and grace period; the agent of a pull-mode cluster writes the status;
a reconcile asks for the next one through `RequeueAfter` or by returning an
error.  Push-mode renewal also reads and writes a Secret and talks to the
managed cluster, as the checks do; pull-mode renewal talks to the agent through
objects of the management cluster that both change.

Hard behaviours: patches computed from an old snapshot; one of two patches (or
three writes) failing; restarts between recording an event and storing the
status; metadata-only changes that wake nobody; deadlines that only a requeue
revisits; a window edited while a decision about it is in flight; a credential
that is needed to renew itself, or to fetch its successor; an acknowledgement that
may be of an earlier delivery; a Secret nobody watches; a verdict put together
from calls to a cluster that changes meanwhile.  `PROJECT.json` lists each hazard at its line.

## 2. Modules

### Scope, RenewalTiming
`Scope` is what a merge patch relative to a snapshot does to one field; every module
with a reconcile in flight uses it.  `RenewalTiming` is the arithmetic both renewals
share: `shouldRenewTokenRequest`, `getEffectiveTokenDurationInSecond`,
`adjustTokenRequestRenewalOption`.

### ConnectionStatus, ConnectionMonitor
`ConnectionStatus` holds `updateConnectionStatus` and
`recordConnectionTransition` as operators.  `ConnectionMonitor` is the abstract
promise: a status and a count that change by whole checks only.  The counter
saturates at `MaxFailures >= Threshold`; the code's grows without bound, and above
the threshold nothing tells its values apart.

### SveltosClusterController
One cluster and its manager.  Variables: `obj` (the API server's object),
`cache`, `queued`, `timer`, the reconcile in flight (`pc`, `before`, `after`,
`failed`, `requeue`), `gauges`, `lastEvent`, the condition of the managed cluster
(`managed`), the clock.

| Action | Code |
|---|---|
| `Deliver`, `TimerFires` | watch with `SveltosClusterPredicates`; `RequeueAfter` |
| `Fetch`, `ShardMatch`, `ShardMismatch`, `ShardUnknown` | `Reconcile` up to the shard check, which reads the object a second time |
| `reconcileNormal` | finalizer, probe (push or pull), status, event, gauges, deferred pause |
| `reconcileDeleteWaits`, `reconcileDeleteReleases` | `reconcileDelete` |
| `PatchObject…`, `PatchStatus…` | `Scope.Close`: skipped, accepted, refused, failed |
| `Restart` | memory lost, watch starts from a list |
| `Register`, `SetGrace`, `SetShard`, `Delete`, `AgentReports`, `ManagedChanges`, `Tick` | the surroundings |

The patch helper (cluster-api) is external: it diffs the copy against the
snapshot, sends the object patch and then the status patch, continues with the
second if the first fails, and ignores NotFound for the status patch only (an object
whose last finalizer the first one removed).  Several writes may reach the cache as one event.  Whether
probes, checks and renewals fail is `managed`; what the window decides is the
constant `AutoPause`.  `noClient` and `noVersion` differ only in the gauges: without a
client `reconcileNormal` returns before them, and the history field `behind` of `gauges`
records that the last check counted did so.

### ActiveWindow, MCActiveWindow
`handleAutomaticPauseUnPause` with its helpers as operators.

| Action | Code |
|---|---|
| `Deliver` | the watch: the cache catches up with the object |
| `Begin` | snapshot from the cache, and the time: the deferred call's arguments are evaluated early |
| `End` | the decision, and `Scope.Close`: the differences of Paused and of the three status fields |
| `EndFails` | one of the two patches fails, or both |
| `EditWindow`, `EditPaused`, `Tick` | users, the clock |

A schedule is the set of integers at which it fires, clock value n lies strictly
between n and n + 1, and the SHA-256 hash is the window it is of.  The two patches land
in one step or only one does: they change different fields, and no decision depends on
the `Paused` of the snapshot.

Three histories say where the properties end.  `mixed`, of each version of the object:
its times may be of another window than its hash, because a calculation stopped halfway
and stored `NextUnpause` alone, or because a difference to an outdated status was merged
into the current one; it ends when both times have been replaced or dropped.
`disturbed`: time passed without a reconcile, one began from an outdated window or
status, or a time could not be computed.  `setOpen`: a window was set while it was open.
`MCActiveWindow` defines periodic schedules, and a window whose closing does not parse.

### TokenRenewal
Push-mode renewal.  `obj` has interval, key and time of last renewal, `secret` two
entries (the one registered and the one for renewed tokens, possibly the same),
each with times of issue and expiry; `flight` is the reconcile, with snapshot and
working copy.

| Action | Code |
|---|---|
| `Begin`, `ProbeFails`, `ProbeSucceeds` | client from the Secret, version probe, `shouldRenewTokenRequest` |
| `ReadKubeconfig`, `RenewalFails` | `handleTokenRequestRenewal` up to its loop |
| `TokenRefused`, `TokenLost`, `TokenStored` | one iteration: no token; token but no Secret write; token stored |
| `PatchObject`, `PatchObjectFails`, `PatchStatus`, `PatchStatusFails` | `Scope.Close` |
| `Restart`, `EditInterval`, `Tick` | the surroundings |

`checked` is when the last reconcile looked that found the token fresh or renewed
it, and was persisted; the clock never runs more than `Slack` ahead of it, which
says how long reconciles may fail in a row.  `disturbed` records that a Secret write or
a spec patch failed or that users changed the interval so as to postpone the renewal.
Without a key `GetSveltosSecretData` returns any entry.  The cache is taken to be current.

### PullModeRenewal
Pull-mode renewal and the agent.  `staged` and `group` are the bundle and the
group, `seen` the group's status in the manager's cache, `agent` the credential
the agent uses; tokens are times of issue and expiry.

| Action | Code |
|---|---|
| `Begin` | `reconcilePullModeCluster`, `shouldRenewTokenRequest` |
| `RequestFails`, `TokenGranted` | endpoint ConfigMap, token request, adjusted interval |
| `Stage`, `StageFails`, `Commit`, `CommitFails` | the two calls of `pullmode`, and the time recorded |
| `Withdraw`, `WithdrawFails` | `terminatePullModeTokenRenewalTrackingIfProvisioned`, in the same reconcile |
| `PatchObject…`, `PatchStatus…`, `Restart` | `Scope.Close`; the process |
| `AgentApplies`, `AgentFails`, `AgentReports`, `Deliver` | the agent, while its credential lives; the cache |
| `EditInterval`, `Tick` | the surroundings |

libsveltos' `pullmode` is external: a commit replaces what the group carries and
may or may not reset its status, and the agent's report reaches the group it is
about.  `crossed` records that a renewal was committed while the group, or the cache
of it, still said `Provisioned` of an earlier one (section 5).

### SveltosLicense
The license Secret and its two readers.  `Reconcile`, `UpdateStatus`,
`UpdateStatusFails` and `TimerFires` are the `SveltosLicense` controller with its
three requeues (a minute is `Minute` units of the clock, so that licenses and grace
periods also end between two evaluations, and the failed update's ten seconds are less
than a unit);
`RelayBegins`, `RelayPatches` and `RelayFails` are `updateLicenseAnnotations` and
the patch of the pull-mode reconcile around it; `ChangeSecret`, `CreateLicense`,
`DeleteLicense`, `DeliverSecret`, `DeliverCluster`, `Restart` and `Tick` the
surroundings.  A license is the time at which it expires, some are refused
whatever the time, and what `VerifyLicenseSecret` cannot read looks like none.  An
annotation is the license it is of: two licenses are taken to differ in payload and
signature, so that no diff finds one part equal by chance.

### ClusterChecks, MCClusterChecks
A round through a list of checks, call by call: `Begin` (which list), `Discover`
(is the kind served), `List` (resources, filters, CEL and Lua), `ListRefused` and
`CallFails`, `validateCheck` (the condition), `Patch` and `PatchFails` (what
`reconcileNormal` makes of the verdict).  `ChangeResource` and `ChangeKinds` change
the managed cluster between any two calls, `EditChecks` the lists.  Scripts are
external: one on a resource is the set of health values it accepts, or broken; a
condition is the set of counts it accepts.  `Holds` says what a check means without
saying how it is evaluated, and the history `round` collects which checks held at some
and at every moment of the round.

### Proof modules
`M_proofs` proves theorems about `M`.  `StoredStatus_proofs` extends
`SveltosClusterController_proofs` with what holds of the stored status when the cache is
up to date, the refinement of `ConnectionMonitor` among it; `RenewalTiming_proofs` has the
lemmas both renewals need.

Definitions with a suffix such as `_OffByOne` are seeded faults: each is a
plausible bug of the definition next to it, and each makes TLC refute the
property it is meant for.

## 3. Runs

| Run | Checks | Shows |
|---|---|---|
| `push_status` | `TypeOK`, `DownMeansThresholdReached`, `RecoveryAnnounced`, `GaugesMirrorStatus`, `ImplementsMonitor` | up-to-date cache, two faults, clusters with and without a client: count and status move together, by whole checks, although written by diff patches that fail and are retried; the controller refines `ConnectionMonitor` |
| `stale_pull` | `OutageAnnounced`, `AgentReportsKept` | lagging cache, a fault, shard moves, re-registration |
| `deletion` | `GraceHonoured`, `ReleasedWithoutGauges` | the release waits for the deadline and drops the gauges, in any order of deletion, last reconcile and retries |
| `live` | `VerifiedContinuously`, `OutageDetected`, `RecoveryDetected`, `FinalizerFollowsGrace`, `DeletionCompletes` | liveness across lag, a fault or restart and a user's request |
| `window` | `TypeOK`, `HashCertifiesTimes`, `ClosedOutsideWindow`, `ClosedWhenSetOpens` | three windows, one with a closing that does not parse, a lagging cache, users' edits of window and `Paused`, downtime, a failed patch, more missed firings than `MaxMissed`; a window set while closed opens in every cycle in which reconciles keep up |
| `token_renewal` | `TypeOK`, `KeyResolves`, `RecordedIsStored`, `UndisturbedInTime` | two faults of any kind and an edit, intervals on both sides of ten minutes, kubeconfigs of one and two contexts |
| `pull_renewal` | `TypeOK`, `RecordedIsDelivered`, `AgentNotLockedOut`, `WithdrawnOnlyIfApplied`, `TokenDoesNotLinger` | a lagging cache, an agent that lags or fails once, a failed call at any step or a restart, an edit |
| `license` | `TypeOK`, `ExpiryNoticed`, `PairIntact`, `StatusFollowsSecret`, `RelayFollowsSecret` | licenses that expire, are replaced, removed and refused; a failed read, update or patch or a restart |
| `checks` | `TypeOK`, `PassedChecksHeld`, `FailedForAReason`, `ReadyEarned`, `BecomesReady`, `FailureFollowsLiveness` | a resource of a built-in kind and one of a kind that comes and goes; checks with labels, CEL, Lua, broken scripts, one and two selectors |

Runs that TLC refutes, each against a sentence of the repository:

| Run | What the code does |
|---|---|
| `shard_handover` | a cluster handed to another shard and back is dropped without a requeue, and the annotation change passes no predicate: it is never verified again until its spec changes or the manager restarts |
| `window_set_inside` | for a window set while it is open `NextPause` precedes `NextUnpause`; at the next opening both are past, the cluster is paused and both move on: it is never unpaused again |
| `token_lost` | the interval is adjusted to a token that then could not be stored; when that reaches past what is left of the life of the one in use, the next renewal comes after its expiry |

Bounds.  Threshold 2 is the smallest with a state between healthy and down.  Two
faults (one where the cache lags) put a failure on each side of a retry.
One or two user requests suffice for every race between a user and a reconcile in
flight, since one reconcile is in flight at a time; three are allowed where
grace period and deletion interact.  Window cycles have 4 instants and the clock
covers two cycles; with `MaxMissed` 1, a cluster older than one cycle has missed too
many closings of one window before it has missed too many of its openings, so that
half a calculation is stored also for schedules that parse.  In `TokenRenewal` ten minutes are 2 units and the
clock allows three renewals in a row.  In `PullModeRenewal` they are 3 of 6 units, a
renewal follows another within the clock, and the fault, the edit and the lag can
each fall into either.  In `SveltosLicense` a minute is two
units; one license expires at 1 and one at 2, each with a grace period of 3, in 6 units,
so that the evaluations fall on both sides of the end of each.  In `ClusterChecks` one change of
the managed cluster falls between any two calls of a round, from every initial
state of its resources, and one fault and one edit make stale and repeated
rounds.  `CHECK_DEADLOCK FALSE` appears only where
a deregistered cluster, or the end of the clock, ends the behaviour.

Fairness.  Weak fairness of the worker's steps, the watch, the timers and the
clock: controller-runtime's workers take queued keys, informers relist and
watch, `RequeueAfter` timers fire, and failed reconciles are retried.  In
`PullModeRenewal` an agent whose credential lives fetches and reports.  Nobody has
to edit, report or fail, and faults are bounded, so that patches succeed in the
end.

## 4. Theorems

Every invariant and every action property a passing run checks is also a theorem,
for every value of the constants that meets the named assumptions of the modules
and the hypotheses below.  The assumptions type the constants (thresholds, slacks and
durations are positive, the managed cluster's resources finite), keep the markers
(`Absent`, `NoFlight`, `NoTime`, ...) apart from the values they mark, and say that
a schedule that parses fires again.  Each inductive invariant was an invariant of a
TLC run before it was proved.

`SveltosClusterController_proofs` (any lag of the cache, failures, restarts):

* `TypeCorrect`, no hypothesis.
* `NoSilentOutage` (`OutageAnnounced`), no hypothesis.  The property is about a patch,
  while the event is recorded when the copy is computed.  `OutageInv` bridges the two:
  before `reconcileNormal` the copy is the snapshot (`Unchecked`), and afterwards a
  copy that turns to down was computed with the event that is still the last
  one (`AnnouncedInFlight`).
* `ReportsAlwaysKept` (`AgentReportsKept`), no hypothesis.  `ReportsInv`: a reconcile never
  takes a report out of its own copy, so the diff it sends can only add one.
* `GraceAlwaysHonoured` and `ReleaseClearsGauges`, under `SetOnce`: users do not
  change a grace period that is set, and the name is not registered anew.  The release
  is decided on a snapshot and lands on a newer object.  `GraceInv`: every version in
  use (cache, snapshot) agrees with the stored object about a grace period it has and a
  deletion it has entered, none has the finalizer without a grace period, an object
  being deleted still has it, and a copy that lost it waited for the deadline and dropped
  the gauges.  TLC refutes both properties without either half of `SetOnce`.

`StoredStatus_proofs`, under `UpToDate`: a reconcile starts from the stored object, and
the name is not registered anew.  `StatusInv`: the snapshot's status is still the
stored one (`InStep`: nobody else writes it), the copy is at most one check ahead of it
(`OneCheckAhead`), and a recovery about to be stored has been announced.

* `StatusImplementsMonitor`: the refinement of `ConnectionMonitor`, step by step; a
  status patch is one check, a removal is `Deregister`, all else stutters.
* `HalvesAgree` (`DownMeansThresholdReached`), `NoSilentRecovery` (`RecoveryAnnounced`).
* `GaugesAlwaysMirror` (`GaugesMirrorStatus`), which itself excepts a last check that
  found no client.  `GaugesInv` adds that the gauges, unless `behind`, show the copy about
  to be stored, and that a pull-mode cluster with gauges has been heard of.

TLC refutes these properties without `~StaleCache`, and all but `RecoveryAnnounced`
without `~Recreate`.

`ActiveWindow_proofs`:

* `WindowTypeCorrect`, `HashCertifies` and `NeverOpenOutside`, no hypothesis: also with
  schedules that do not parse or have missed too many firings, and any lag of the cache.
  `WindowInv`: every version in use (object, cache, snapshot in flight) that is not `mixed`
  has times that belong to its hash, with no closing between them, and no pause without
  an unpause.  The exceptions are in the properties: TLC refutes both when `mixed` leaves
  out either of its causes, and `ClosedOutsideWindow` when `Paused` may change in flight.
* `NoOpeningSkipped` (`ClosedWhenSetOpens`), under `Alternates`: a closed window opens
  before it closes again.  `KeepsUp` adds, while nothing disturbs the reconciles: no version
  is mixed, both times are stored or none, and the snapshot has the stored status
  (`Complete`); and for windows set while closed, the stored pause comes after the stored
  unpause and is never behind the clock (`PauseAhead`), a window without times is closed
  (`UntimedIsClosed`), and the reconcile in flight is at most one tick late and computes
  times only for a window that was closed (`FlightInTime`).  The proof needs `Alternates`
  and the code does not have it, see section 5.

`TokenRenewal_proofs`, with the arithmetic of `RenewalTiming_proofs`:

* `RenewalTypeCorrect`, `KeyAlwaysResolves` and `RenewalsAreStored`, no hypothesis.
  `StoreInv` extends the two claims to the working copy: a key or a time that differs
  from the snapshot's is in the Secret.
* `RenewedInTime`: `Adequate => (Spec => []UndisturbedInTime)`.  `Adequate` says
  that reconciles get through more often than every ten minutes, tokens are granted for
  more than ten minutes and can be read, and a configured `TokenDuration` reaches
  past the renewal.  Users may change the interval at any moment, also while a
  renewal is in flight, as long as they do not postpone the renewal.  The invariant
  `InTimeInv`: the entry in use outlives, by
  `Slack`, both the last reconcile that got through and the last moment at which
  `shouldRenewTokenRequest` says no; a token in flight outlives the renewal
  its own interval asks for (`GrantLasts`), and a reconcile that renews nothing
  looked before the renewal was due.  All grants, in-place and separate keys, and any
  number of contexts, refused tokens, failed status patches and restarts are covered.

`PullModeRenewal_proofs`:

* `PullTypeCorrect`, `RecordedAlwaysDelivered`, `NeverWithdrawnEarly`, no hypothesis.
  `DeliveryInv`: unless `crossed`, a `Provisioned` that the manager sees or the group
  says means that the agent has the token the group carries; so a withdrawal drops
  nothing the agent lacks, and what the object records, or the copy is about to, is
  with the group or the agent.
* `AgentNeverLockedOut`: `Adequate => (Spec => []AgentNotLockedOut)`, with the ten minutes
  of push mode shared between reconciles and the agent: `Margin`, the sum of `Slack` and
  `Lag`, takes the place of `Slack`.  `InTimeInv` is about the newest token the agent
  has or can fetch, and about the agent's own token while a newer one waits for it.
  That the agent fetches within `Lag` and reconciles get through within `Slack` bounds
  the model's clock.

`SveltosLicense_proofs`, no hypothesis:

* `LicenseTypeCorrect`; `PairAlwaysIntact` (`PairInv`: the stored annotations, the cached
  ones, and snapshot and copy of the relay in flight are each both parts of one license
  the Secret held, or both absent, so a diff changes both or neither).
* `ExpiryAlwaysNoticed` (`TimelyInv`: while the status says valid a reconcile is queued or
  in flight, or a timer is set no later than its expiration or, in its grace period, a
  minute after the end of that; a verdict in flight was reached at this moment).

`ClusterChecks_proofs`, no hypothesis:

* `ChecksTypeCorrect`, `PassedRoundsSound`, `FailedRoundsSound`, `ReadyIsEarned`.  The
  lemmas relate the evaluation of the code, selector by selector, to what a check means
  (`Holds`).  `RoundInv`: the history holds every check that holds now and calls steady
  only those (`HistoryInv`), the checks before the current one held (`PastInv`), and what
  the round has found is what the selectors read so far choose now, or the cluster
  changed since and the verdict is settled (`CurrentInv`).

Only model-checked: liveness (the properties of `live`, `TokenDoesNotLinger`,
`StatusFollowsSecret`, `RelayFollowsSecret`, `BecomesReady`, `FailureFollowsLiveness`),
which needs fairness and ENABLED; and the three refuted properties.

## 5. Where the properties end

These are consequences of the code, seen while modelling, that have no run of their
own.

* A lagging cache can tear count and status apart for a while, and let a recovery
  go unannounced; `push_status` therefore reads a current cache.
* The event is recorded before the status is stored: after a failed status patch
  or a restart the same outage is recorded again, which `controllers/events.go`
  rules out ("raises a single event … also holds across restarts").  So would two
  managers during a rolling update.
* A cluster without a grace period has no finalizer and is gone before
  `reconcileDelete` can run: its gauges stay until the manager restarts, although
  `controllers/metrics.go` says that "a deregistered cluster's last-known status
  doesn't persist in Prometheus indefinitely".
* With no client, `reconcileNormal` returns before the gauges: they keep the
  values of an earlier check until one gets a client again.  `GaugesMirrorStatus` excepts
  this, and is refuted without the exception.
* Users who unset a grace period, set it again and delete can lose the grace
  period to a reconcile in flight, and so can a cluster registered again while
  one is: the patch names no incarnation.  When a normal reconcile takes the finalizer
  off a cluster whose grace period was unset, and the cluster is deleted before its
  patch lands, the patch removes the object and its gauges stay.
* A deletion and a re-registration that reach the cache as one event after a
  relist pass no predicate if the spec is the same; the new object then waits for
  the next change.
* Missed firings are counted from the creation of the cluster when no time is
  stored; a window that has fired more than 100 times since never gets its times, and
  the cluster stays paused.
* Where `NextUnpause` can be computed and `NextPause` cannot (`To` does not parse, or has
  missed more than 100 firings and `From` has not), the new `NextUnpause` is stored alone,
  with the old hash.  It survives when the window is reverted, and the cluster can then be
  unpaused at the other window's time.  A patch relative to an outdated status can mix
  the times of two windows in the same way.  The properties except both as `mixed`.
* Only differences from the snapshot are patched: a `Paused` that users change while a
  reconcile is in flight stays as they left it until the next one, although it was
  decided otherwise.  A decision about a window edited in flight is right for the old
  window, and corrected by the next reconcile.
* The end of a license's grace period is noticed up to a minute late.
* A window that closes more often than it opens is never open.  With a weekly `From`
  and a daily `To`, the stored `NextPause` is tomorrow's and `NextUnpause` next week's;
  when the window opens both have passed, and both move on, again with the pause
  first.  The proof of `NoOpeningSkipped` had to exclude such windows (`Alternates`);
  TLC finds `ClosedWhenSetOpens` violated on one.
* At the very instant of `NextPause` a reconcile keeps `Paused` as it is; the
  model's clock never reads the instant at which a schedule fires.
* A pull-mode renewal can be committed twice before its report is dealt with: the
  status patch fails after the commit, the agent applies the bundle and reports
  `Provisioned`, and the retry commits a second token and, in the same reconcile,
  withdraws it because the cached status of the first one still says `Provisioned`.
  The second renewal is recorded and never reaches the agent, whose credential
  then expires before the next renewal (`WithdrawnOnlyIfApplied`,
  `RecordedIsDelivered` and `AgentNotLockedOut` except this as `crossed`).
* A license that is replaced, or removed, while it is valid is evaluated only when
  it would have expired, although `cmd/main.go` calls the sync period "the minimum
  interval at which watched resources are reconciled": the Secret is not watched, and
  the resync of the `SveltosLicense` does not pass the generation predicate.
* A Secret that cannot be read looks like no license: the annotations are cleared
  and set again a minute later.
* A kind the managed cluster does not serve gives a check no resources, not an
  error: a condition on all resources then holds, and the cluster becomes ready.  A
  resource that two selectors match is counted twice.  A check with several
  selectors can pass, or fail, on resources that never existed together.
* Readiness checks added while the round that makes the cluster ready is in
  flight are never run: a ready cluster runs only its liveness checks.
* `RenewedBeforeExpiry` also fails when the spec patch fails and the status patch
  does not (key and interval are old, the time is new), and when the interval is
  raised, or restored by a GitOps tool, since renewals are timed by
  the interval and not by the expiry of the token.

## 6. Not modelled

Two managers at once, of two shards or during a rolling update (there is no leader
election): one manager is modelled, and the shard annotation moves to and from it.
Lua and CEL evaluation, the `pullmode`, `license` and `clusterproxy` packages of
libsveltos, cron parsing and the agent: external, modelled from their use.
Kubernetes version parsing and the version label, logging, wording of events, the
text of kubeconfigs, the encoding of the license and the parsing of
`system:serviceaccount:` names: data no property tells apart.  The workload identity
cache belongs to libsveltos.  Pull-mode clusters without a ServiceAccount in their
renewal option, for which renewal is a no-op.  Start-up, test helpers, manifests and
scripts: wiring.

## 7. Plan

Modelling and the safety proofs of every run are done.  What could still be said, in
this order:

1. Theorems for a lagging cache in place of `UpToDate`: how far count and status can be
   torn apart (the stored count is that of some snapshot, or one check ahead of it), and
   that one up-to-date reconcile repairs it.
2. `ReleaseClearsGauges` and `GraceAlwaysHonoured` with a grace period that users raise
   but never unset.
