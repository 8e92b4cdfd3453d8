---------------------------- MODULE PullModeRenewal ----------------------------
(***************************************************************************)
(* The renewal of the credential with which the agent of a pull-mode       *)
(* SveltosCluster (sveltos-applier) reaches the management cluster.  The   *)
(* manager cannot write to the managed cluster: it commits a bundle with   *)
(* the renewed kubeconfig to a ConfigurationGroup, the agent fetches it    *)
(* with the credential it has, applies it and reports Provisioned, and a   *)
(* later reconcile withdraws group and bundle.  The manager reads the      *)
(* group's status through its cache.                                       *)
(*                                                                         *)
(* libsveltos' pullmode package and the agent are external: staging        *)
(* replaces what was staged, a commit replaces what the group carries and  *)
(* may or may not reset its status, withdrawing deletes the group by name, *)
(* and the agent's report reaches only the group it is about.              *)
(***************************************************************************)
EXTENDS RenewalTiming, Scope

CONSTANTS
    Intervals,    \* the intervals users configure
    NoToken,      \* no bundle, no group
    NoFlight,     \* no reconcile is in flight
    Slack,        \* reconciles that keep up get through this often
    Lag,          \* an agent that keeps up applies a bundle within this time
    MaxTime,      \* bound on the clock
    MaxEdits,     \* bound on users' changes of the interval
    MaxFaults     \* bound on failed calls and restarts

ASSUME PullAssumption ==
    /\ Intervals \subseteq Nat
    /\ {Slack, Lag} \subseteq Nat \ {0}
    /\ {MaxTime, MaxEdits, MaxFaults} \subseteq Nat

(* The kubeconfig Secret of a token: when it was issued, when it expires.  *)
Token == [issued : Nat, expiry : Nat]
Object == [interval : Nat, last : Nat]
Statuses == {"none", "Failed", "Provisioned"}

(* The group, and since when the agent has had a token to fetch there.     *)
Group == [token : Token, status : Statuses, open : Nat]

(* A reconcile in flight: its step, its snapshot and its working copy, the *)
(* token it was granted, and whether it found a renewal due, committed it  *)
(* and had its spec patch accepted.                                        *)
Flight == [step : {"request", "stage", "commit", "withdraw", "object", "status"},
           before : Object, after : Object, token : Token \cup {NoToken},
           due : BOOLEAN, sent : BOOLEAN, patched : BOOLEAN]

ASSUME MarkersAssumption ==
    NoToken \notin Token \cup Group \cup Statuses /\ NoFlight \notin Flight

VARIABLES
    obj,       \* the SveltosCluster as the API server has it
    staged,    \* the bundle staged and not committed, or none
    group,     \* the group: the token its bundle carries and its status
    seen,      \* the status of the group in the manager's cache, or none
    agent,     \* the credential the agent uses
    flight,    \* the reconcile in flight, or none
    checked,   \* when the last reconcile got through that found the token
               \* fresh, or committed a new one
    now,       \* the clock; the cluster was created at 0
    crossed,   \* history: a renewal was committed to a group that was, or in
               \* the cache still seemed, Provisioned with an earlier one
    disturbed, \* history: a bundle or the spec could not be written, users
               \* postponed the renewal, or reconciles or agent did not keep up
    edits,     \* users' changes so far
    faults     \* failed calls and restarts so far

vars == <<obj, staged, group, seen, agent, flight, checked, now, crossed, disturbed,
          edits, faults>>

(* The credential of the registration outlives the first renewal.          *)
Init ==
    /\ \E i \in Intervals, l \in Lifetimes :
          /\ l > renewalThreshold(i) + Slack + Lag
          /\ obj = [interval |-> i, last |-> 0]
          /\ agent = [issued |-> 0, expiry |-> l]
    /\ staged = NoToken /\ group = NoToken /\ seen = NoToken
    /\ flight = NoFlight
    /\ checked = 0 /\ now = 0
    /\ crossed = FALSE /\ disturbed = FALSE /\ edits = 0 /\ faults = 0

(***************************************************************************)
(* The steps of a reconcile.                                               *)
(***************************************************************************)
At(step) == flight # NoFlight /\ flight.step = step

(* The agent does not have the token the group carries.                    *)
Pending == group # NoToken /\ group.token # agent

Fault == faults < MaxFaults /\ faults' = faults + 1

(* reconcilePullModeCluster: is a renewal due?                             *)
Begin ==
    /\ flight = NoFlight
    /\ LET due == shouldRenewTokenRequest(obj, now)
       IN  flight' = [step |-> IF due THEN "request" ELSE "withdraw", before |-> obj,
                      after |-> obj, token |-> NoToken,
                      due |-> due, sent |-> FALSE, patched |-> FALSE]
    /\ UNCHANGED <<obj, staged, group, seen, agent, checked, now, crossed, disturbed,
                   edits, faults>>

(* Seeded fault: a renewal that failed is recorded.                        *)
Undelivered_Recorded(f) == [f EXCEPT !.step = "withdraw", !.after.last = now]

(* An error ends the renewal, not the reconcile: nothing is recorded, but  *)
(* an interval already adjusted stays in the working copy.                 *)
Undelivered(f) == [f EXCEPT !.step = "withdraw"]

(* The ConfigMap with the endpoint is missing or incomplete, or no token   *)
(* is granted.                                                             *)
RequestFails ==
    /\ At("request")
    /\ Fault
    /\ flight' = Undelivered(flight)
    /\ UNCHANGED <<obj, staged, group, seen, agent, checked, now, crossed, disturbed, edits>>

(* The interval of the working copy is adjusted before the kubeconfig is   *)
(* staged.                                                                 *)
TokenGranted ==
    /\ At("request")
    /\ \E l \in Lifetimes :
          /\ l <= getEffectiveTokenDuration(flight.before.interval)
          /\ flight' = [flight EXCEPT
                !.step = "stage",
                !.token = [issued |-> now, expiry |-> now + l],
                !.after.interval = adjustTokenRequestRenewalOption(@, l)]
    /\ UNCHANGED <<obj, staged, group, seen, agent, checked, now, crossed, disturbed,
                   edits, faults>>

Stage ==
    /\ At("stage")
    /\ staged' = flight.token
    /\ flight' = [flight EXCEPT !.step = "commit"]
    /\ UNCHANGED <<obj, group, seen, agent, checked, now, crossed, disturbed, edits, faults>>

StageFails ==
    /\ At("stage")
    /\ Fault
    /\ flight' = Undelivered(flight)
    /\ disturbed' = TRUE
    /\ UNCHANGED <<obj, staged, group, seen, agent, checked, now, crossed, edits>>

(* The group is created, or now carries the staged bundle.                 *)
Commit ==
    /\ At("commit")
    /\ \E st \in {"none"} \cup (IF group = NoToken THEN {} ELSE {group.status}) :
          group' = [token |-> staged, status |-> st,
                    open |-> IF Pending THEN group.open ELSE now]
    /\ staged' = NoToken
    /\ flight' = [flight EXCEPT !.step = "withdraw", !.after.last = now, !.sent = TRUE]
    /\ crossed' = \/ crossed
                  \/ seen = "Provisioned"
                  \/ group # NoToken /\ group.status = "Provisioned"
    /\ UNCHANGED <<obj, seen, agent, checked, now, disturbed, edits, faults>>

CommitFails ==
    /\ At("commit")
    /\ Fault
    /\ flight' = Undelivered(flight)
    /\ disturbed' = TRUE
    /\ UNCHANGED <<obj, staged, group, seen, agent, checked, now, crossed, edits>>

(* Seeded faults: any report of the agent ends the tracking; only the      *)
(* report that the bundle was removed does.                                *)
Withdrawn_AnyReport(st) == st \in {"Failed", "Provisioned"}
Withdrawn_Removed(st) == st = "Removed"

(* terminatePullModeTokenRenewalTrackingIfProvisioned ends the tracking.   *)
Withdrawn(st) == st = "Provisioned"

Withdraw ==
    /\ At("withdraw")
    /\ group' = IF Withdrawn(seen) THEN NoToken ELSE group
    /\ flight' = [flight EXCEPT !.step = "object"]
    /\ UNCHANGED <<obj, staged, seen, agent, checked, now, crossed, disturbed, edits, faults>>

(* The status cannot be read or the group not be deleted: only logged.     *)
WithdrawFails ==
    /\ At("withdraw")
    /\ Fault
    /\ flight' = [flight EXCEPT !.step = "object"]
    /\ UNCHANGED <<obj, staged, group, seen, agent, checked, now, crossed, disturbed, edits>>

(***************************************************************************)
(* Scope.Close.                                                            *)
(***************************************************************************)
PatchObject ==
    /\ At("object")
    /\ obj' = [obj EXCEPT !.interval = Merge(@, flight.before.interval, flight.after.interval)]
    /\ flight' = [flight EXCEPT !.step = "status", !.patched = TRUE]
    /\ UNCHANGED <<staged, group, seen, agent, checked, now, crossed, disturbed, edits, faults>>

PatchObjectFails ==
    /\ At("object")
    /\ Fault
    /\ flight' = [flight EXCEPT !.step = "status"]
    /\ disturbed' = TRUE
    /\ UNCHANGED <<obj, staged, group, seen, agent, checked, now, crossed, edits>>

(* The reconcile has got through, as far as the renewal is concerned.      *)
Checked == IF flight.patched /\ (flight.due => flight.sent) THEN now ELSE checked

PatchStatus ==
    /\ At("status")
    /\ obj' = [obj EXCEPT !.last = Merge(@, flight.before.last, flight.after.last)]
    /\ checked' = Checked
    /\ flight' = NoFlight
    /\ UNCHANGED <<staged, group, seen, agent, now, crossed, disturbed, edits, faults>>

PatchStatusFails ==
    /\ At("status")
    /\ Fault
    /\ flight' = NoFlight
    /\ UNCHANGED <<obj, staged, group, seen, agent, checked, now, crossed, disturbed, edits>>

(* The cache of the new process starts from a list.                        *)
Restart ==
    /\ Fault
    /\ flight' = NoFlight
    /\ seen' = IF group = NoToken THEN NoToken ELSE group.status
    /\ UNCHANGED <<obj, staged, group, agent, checked, now, crossed, disturbed, edits>>

(***************************************************************************)
(* The cache, the agent, users and the clock.                              *)
(***************************************************************************)
Deliver ==
    /\ seen' = IF group = NoToken THEN NoToken ELSE group.status
    /\ seen' # seen
    /\ UNCHANGED <<obj, staged, group, agent, flight, checked, now, crossed, disturbed,
                   edits, faults>>

(* The agent reaches the management cluster while its credential lives.    *)
Reaches == agent.expiry > now

AgentApplies ==
    /\ Reaches /\ Pending
    /\ agent' = group.token
    /\ UNCHANGED <<obj, staged, group, seen, flight, checked, now, crossed, disturbed,
                   edits, faults>>

AgentFails ==
    /\ Reaches /\ Pending
    /\ Fault
    /\ group' = [group EXCEPT !.status = "Failed"]
    /\ UNCHANGED <<obj, staged, seen, agent, flight, checked, now, crossed, disturbed, edits>>

AgentReports ==
    /\ Reaches
    /\ group # NoToken /\ group.token = agent /\ group.status # "Provisioned"
    /\ group' = [group EXCEPT !.status = "Provisioned"]
    /\ UNCHANGED <<obj, staged, seen, agent, flight, checked, now, crossed, disturbed,
                   edits, faults>>

EditInterval ==
    /\ edits < MaxEdits
    /\ \E i \in Intervals \ {obj.interval} :
          /\ obj' = [obj EXCEPT !.interval = i]
          /\ disturbed' = (disturbed \/ renewalThreshold(i) > renewalThreshold(obj.interval))
    /\ edits' = edits + 1
    /\ UNCHANGED <<staged, group, seen, agent, flight, checked, now, crossed, faults>>

(* A unit of time is longer than a reconcile, which calls only the         *)
(* management cluster.                                                     *)
Tick ==
    /\ now < MaxTime
    /\ flight = NoFlight
    /\ now' = now + 1
    /\ disturbed' = \/ disturbed
                    \/ now >= checked + Slack
                    \/ Pending /\ now >= group.open + Lag
    /\ UNCHANGED <<obj, staged, group, seen, agent, flight, checked, crossed, edits, faults>>

Reconciles ==
    \/ Begin \/ RequestFails \/ TokenGranted \/ Stage \/ StageFails \/ Commit \/ CommitFails
    \/ Withdraw \/ WithdrawFails \/ PatchObject \/ PatchObjectFails \/ PatchStatus
    \/ PatchStatusFails

Next ==
    \/ Reconciles \/ Restart \/ Deliver
    \/ AgentApplies \/ AgentFails \/ AgentReports \/ EditInterval \/ Tick

Spec == Init /\ [][Next]_vars

(* Workers run, watches deliver and a connected agent goes on; nobody has  *)
(* to edit, and the faults are bounded.                                    *)
FairSpec ==
    /\ Spec
    /\ WF_vars(Reconciles) /\ WF_vars(Deliver)
    /\ WF_vars(AgentApplies) /\ WF_vars(AgentReports)

(***************************************************************************)
(* Properties.                                                             *)
(***************************************************************************)
(* Type invariant.                                                         *)
TypeOK ==
    /\ obj \in Object
    /\ staged \in Token \cup {NoToken}
    /\ group \in Group \cup {NoToken}
    /\ seen \in Statuses \cup {NoToken}
    /\ agent \in Token
    /\ flight \in Flight \cup {NoFlight}
    /\ checked \in Nat /\ now \in Nat /\ {crossed, disturbed} \subseteq BOOLEAN
    /\ edits \in Nat /\ faults \in Nat

(* "Once sveltos-applier confirms it applied the renewed kubeconfig,       *)
(* remove the ConfigurationGroup": however far the cache lags, a bundle is *)
(* withdrawn only when the agent uses its token, unless it was committed   *)
(* to a group that still said Provisioned of an earlier bundle             *)
(* (terminatePullModeTokenRenewalTrackingIfProvisioned).                   *)
WithdrawnOnlyIfApplied ==
    [][group # NoToken /\ group' = NoToken /\ ~crossed => agent = group.token]_vars

(* A renewal the status records has reached the agent or is on its way in  *)
(* the group, across failed calls and restarts, with the same exception:   *)
(* no later reconcile is put off by a token that was lost                  *)
(* (handlePullModeTokenRequestRenewal).                                    *)
RecordedIsDelivered ==
    \/ crossed
    \/ agent.issued >= obj.last
    \/ group # NoToken /\ group.token.issued >= obj.last

(* The agent's credential is renewed before it expires, as long as bundles *)
(* and the adjusted interval could be written, users did not postpone the  *)
(* renewal, and reconciles and agent kept up (shouldRenewTokenRequest,     *)
(* adjustTokenRequestRenewalOption, handlePullModeTokenRequestRenewal).    *)
AgentNotLockedOut == crossed \/ disturbed \/ Reaches

(* "so the plaintext token does not linger as a readable object longer     *)
(* than necessary": every committed bundle is withdrawn in the end, after  *)
(* failed withdrawals too, if the agent's credential lives on              *)
(* (terminatePullModeTokenRenewalTrackingIfProvisioned).                   *)
TokenDoesNotLinger == group # NoToken ~> group = NoToken \/ ~Reaches
===============================================================================
