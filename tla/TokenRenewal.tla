----------------------------- MODULE TokenRenewal -----------------------------
(***************************************************************************)
(* The renewal of the credential of a push-mode SveltosCluster.  The       *)
(* kubeconfig lives in a Secret of the management cluster, under the key   *)
(* Spec.KubeconfigKeyName.  A reconcile whose probe succeeded with it, and *)
(* that finds the last renewal old enough, asks the managed cluster for a  *)
(* new ServiceAccount token, writes it to the Secret and then, when the    *)
(* scope is closed, its key and interval to the spec and the time of the   *)
(* renewal to the status: three writes, each of which may fail alone.      *)
(*                                                                         *)
(* A probe with an expired token fails, so a credential that is not        *)
(* renewed in time is never renewed.                                       *)
(***************************************************************************)
EXTENDS RenewalTiming, Scope

CONSTANTS
    Intervals,      \* the intervals users configure
    InitialKey,     \* the Secret entry the cluster was registered with
    RenewalKey,     \* getKubeconfigKey: the entry that holds renewed tokens
    NoKey,          \* KubeconfigKeyName = ""
    Missing,        \* no such Secret entry
    NoFlight,       \* no reconcile is in flight
    MaxContexts,    \* bound on the contexts of a kubeconfig
    Slack,          \* a reconcile gets through at least this often
    MaxTime,        \* bound on the clock
    MaxEdits,       \* bound on users' changes of the interval
    MaxFaults       \* bound on failed calls and restarts

Keys == {InitialKey, RenewalKey}

ASSUME RenewalAssumption ==
    /\ Intervals \subseteq Nat
    /\ {MaxTime, MaxEdits, MaxFaults} \subseteq Nat
    /\ MaxContexts \in Nat \ {0}
    /\ Slack \in Nat \ {0}
    /\ NoKey \notin Keys

(* A Secret entry: when its token was issued and when it expires.          *)
Entry == [issued : Nat, expiry : Nat]

(* The part of the object a reconcile copies, changes and patches:         *)
(* RenewTokenRequestInterval, KubeconfigKeyName and                        *)
(* LastReconciledTokenRequestAt, which is the creation time while unset.   *)
Object == [interval : Nat, key : Keys \cup {NoKey}, last : Nat]

(* A reconcile in flight: its step, its snapshot and its working copy, the *)
(* entry it authenticates with, when it looked at the clock, the lifetime  *)
(* it asks for, the contexts left, and whether it found a renewal due,     *)
(* stored a token and had its spec patch accepted.                         *)
Flight == [step : {"probe", "read", "renew", "object", "status"}, before : Object, after : Object,
           cred : Keys, looked : Nat, asked : Nat, left : 0..MaxContexts,
           due : BOOLEAN, stored : BOOLEAN, patched : BOOLEAN]

ASSUME MarkersAssumption == Missing \notin Entry /\ NoFlight \notin Flight

VARIABLES
    obj,      \* the object as the API server has it
    secret,   \* the entries of the Secret
    flight,   \* the reconcile in flight, or none
    checked,  \* when the last reconcile looked that found the token fresh, or
              \* renewed it, and was persisted
    now,      \* the clock; the cluster was created at 0
    disturbed,\* a write of the Secret or of the spec failed, or users postponed
              \* the renewal
    edits,    \* users' changes so far
    faults    \* failed calls and restarts so far

vars == <<obj, secret, flight, checked, now, disturbed, edits, faults>>

(* The entries GetSveltosSecretData may return: the one the key names, or, *)
(* without a key, whichever the iteration over the Secret meets first.     *)
InUse == IF obj.key = NoKey THEN {k \in Keys : secret[k] # Missing} ELSE {obj.key}

(* The token registered outlives the first interval.                       *)
Init ==
    /\ \E i \in Intervals, k \in {NoKey, InitialKey}, l \in Lifetimes :
          /\ l > renewalThreshold(i) + Slack
          /\ obj = [interval |-> i, key |-> k, last |-> 0]
          /\ secret = [x \in Keys |-> IF x = InitialKey THEN [issued |-> 0, expiry |-> l]
                                                        ELSE Missing]
    /\ flight = NoFlight
    /\ checked = 0
    /\ now = 0 /\ disturbed = FALSE /\ edits = 0 /\ faults = 0

(***************************************************************************)
(* The steps of a reconcile.                                               *)
(***************************************************************************)
At(step) == flight # NoFlight /\ flight.step = step

Fault == faults < MaxFaults /\ faults' = faults + 1

(* The snapshot, and the rest.Config made from the entry in use.           *)
Begin ==
    /\ flight = NoFlight
    /\ \E k \in InUse :
          /\ secret[k] # Missing
          /\ flight' = [step |-> "probe", before |-> obj, after |-> obj, cred |-> k,
                        looked |-> now, asked |-> 0, left |-> 0,
                        due |-> FALSE, stored |-> FALSE, patched |-> FALSE]
    /\ UNCHANGED <<obj, secret, checked, now, disturbed, edits, faults>>

(* The version probe fails: the cluster cannot be reached, or it refuses   *)
(* the credential.  Nothing is renewed.                                    *)
ProbeFails ==
    /\ At("probe")
    /\ flight' = NoFlight
    /\ UNCHANGED <<obj, secret, checked, now, disturbed, edits, faults>>

Authenticates == secret[flight.cred] # Missing /\ secret[flight.cred].expiry > now

ProbeSucceeds ==
    /\ At("probe")
    /\ Authenticates
    /\ LET due == shouldRenewTokenRequest(flight.before, now)
       IN  flight' = [flight EXCEPT !.step = IF due THEN "read" ELSE "object",
                                    !.looked = now, !.due = due]
    /\ UNCHANGED <<obj, secret, checked, now, disturbed, edits, faults>>

(* handleTokenRequestRenewal up to its loop: the duration to ask for, and  *)
(* the contexts of the kubeconfig.                                         *)
ReadKubeconfig ==
    /\ At("read")
    /\ \E n \in 1..MaxContexts :
          flight' = [flight EXCEPT !.step = "renew", !.left = n,
                                   !.asked = getEffectiveTokenDuration(flight.before.interval)]
    /\ UNCHANGED <<obj, secret, checked, now, disturbed, edits, faults>>

(* The Secret cannot be read, or the ServiceAccount not be found out.      *)
RenewalFails ==
    /\ At("read")
    /\ Fault
    /\ flight' = [flight EXCEPT !.step = "object"]
    /\ UNCHANGED <<obj, secret, checked, now, disturbed, edits>>

(* One iteration of the loop over the contexts is over.                    *)
NextContext(f) == [f EXCEPT !.left = @ - 1, !.step = IF f.left = 1 THEN "object" ELSE @]

(* No token for this context: it names no ServiceAccount, or the request   *)
(* was refused.                                                            *)
TokenRefused ==
    /\ At("renew")
    /\ Fault
    /\ flight' = NextContext(flight)
    /\ UNCHANGED <<obj, secret, checked, now, disturbed, edits>>

(* The interval is adjusted to the token granted before it is stored.      *)
Adjusted(f, lifetime) ==
    [f EXCEPT !.after.interval = adjustTokenRequestRenewalOption(@, lifetime)]

(* Once it is stored, its key and the time are put into the working copy.  *)
Renewed(f, lifetime) ==
    [f EXCEPT !.after = [interval |-> adjustTokenRequestRenewalOption(@.interval, lifetime),
                         key |-> RenewalKey, last |-> now],
              !.stored = TRUE]

(* Seeded fault: the failed write does not end the iteration.              *)
SecretWriteFails_GoesOn(lifetime) ==
    flight' = NextContext(Renewed(flight, lifetime))

SecretWriteFails(lifetime) == flight' = NextContext(Adjusted(flight, lifetime))

(* The token is granted and the Secret cannot be written.                  *)
TokenLost ==
    /\ At("renew")
    /\ Fault
    /\ \E l \in Lifetimes : l <= flight.asked /\ SecretWriteFails(l)
    /\ disturbed' = TRUE
    /\ UNCHANGED <<obj, secret, checked, now, edits>>

TokenStored ==
    /\ At("renew")
    /\ \E l \in Lifetimes :
          /\ l <= flight.asked
          /\ secret' = [secret EXCEPT ![RenewalKey] = [issued |-> now, expiry |-> now + l]]
          /\ flight' = NextContext(Renewed(flight, l))
    /\ UNCHANGED <<obj, checked, now, disturbed, edits, faults>>

(***************************************************************************)
(* Scope.Close: merge patches of what changed since the snapshot.          *)
(***************************************************************************)
PatchObject ==
    /\ At("object")
    /\ obj' = [obj EXCEPT !.interval = Merge(@, flight.before.interval, flight.after.interval),
                          !.key = Merge(@, flight.before.key, flight.after.key)]
    /\ flight' = [flight EXCEPT !.step = "status", !.patched = TRUE]
    /\ UNCHANGED <<secret, checked, now, disturbed, edits, faults>>

PatchObjectFails ==
    /\ At("object")
    /\ Fault
    /\ flight' = [flight EXCEPT !.step = "status"]
    /\ disturbed' = TRUE
    /\ UNCHANGED <<obj, secret, checked, now, edits>>

(* A reconcile that found the token fresh, or renewed it, has got through. *)
PatchStatus ==
    /\ At("status")
    /\ obj' = [obj EXCEPT !.last = Merge(@, flight.before.last, flight.after.last)]
    /\ checked' = IF flight.patched /\ (flight.due => flight.stored) THEN flight.looked
                  ELSE checked
    /\ flight' = NoFlight
    /\ UNCHANGED <<secret, now, disturbed, edits, faults>>

PatchStatusFails ==
    /\ At("status")
    /\ Fault
    /\ flight' = NoFlight
    /\ UNCHANGED <<obj, secret, checked, now, disturbed, edits>>

Restart ==
    /\ flight # NoFlight
    /\ Fault
    /\ flight' = NoFlight
    /\ UNCHANGED <<obj, secret, checked, now, disturbed, edits>>

(***************************************************************************)
(* Users and the clock.                                                    *)
(***************************************************************************)
(* An edit disturbs only if it postpones the renewal: the threshold falls  *)
(* where the interval passes ten minutes.                                  *)
EditInterval ==
    /\ edits < MaxEdits
    /\ \E i \in Intervals \ {obj.interval} :
          /\ obj' = [obj EXCEPT !.interval = i]
          /\ disturbed' = (disturbed \/ renewalThreshold(i) > renewalThreshold(obj.interval))
    /\ edits' = edits + 1
    /\ UNCHANGED <<secret, flight, checked, now, faults>>

(* Time passes at will, but within Slack of the last reconcile that got    *)
(* through another one gets through.                                       *)
Tick ==
    /\ now < MaxTime
    /\ now < checked + Slack
    /\ now' = now + 1
    /\ UNCHANGED <<obj, secret, flight, checked, disturbed, edits, faults>>

Next ==
    \/ Begin \/ ProbeFails \/ ProbeSucceeds \/ ReadKubeconfig \/ RenewalFails
    \/ TokenRefused \/ TokenLost \/ TokenStored
    \/ PatchObject \/ PatchObjectFails \/ PatchStatus \/ PatchStatusFails
    \/ Restart \/ EditInterval \/ Tick

Spec == Init /\ [][Next]_vars

(***************************************************************************)
(* Properties.                                                             *)
(***************************************************************************)
(* Type invariant.                                                         *)
TypeOK ==
    /\ obj \in Object
    /\ secret \in [Keys -> Entry \cup {Missing}]
    /\ flight \in Flight \cup {NoFlight}
    /\ checked \in Nat /\ now \in Nat /\ disturbed \in BOOLEAN
    /\ edits \in Nat /\ faults \in Nat

(* The object never names a Secret entry that is not there: the key is     *)
(* switched by a patch that comes after the write of the Secret, whichever *)
(* of the two fails and wherever a restart falls                           *)
(* (handleTokenRequestRenewal, Scope.Close).                               *)
KeyResolves == obj.key # NoKey => secret[obj.key] # Missing

(* A renewal that the status records is in the Secret: no later reconcile  *)
(* is put off by a token that was not stored (handleTokenRequestRenewal).  *)
RecordedIsStored ==
    obj.last > 0 => secret[RenewalKey] # Missing /\ secret[RenewalKey].issued >= obj.last

(* "That will also allow reconciler to renew it again before it current    *)
(* tokenRequest expires" (getEffectiveTokenDurationInSecond): no entry the *)
(* manager may authenticate with has expired.                              *)
RenewedBeforeExpiry ==
    \A k \in InUse : secret[k] # Missing => secret[k].expiry > now

(* The same as long as every renewed token and its interval could be       *)
(* stored and no user raised the interval so that the renewal comes later, *)
(* whatever else failed: probes, token requests, status patches, restarts; *)
(* an interval lowered in the middle of a reconcile does no harm           *)
(* (shouldRenewTokenRequest, adjustTokenRequestRenewalOption).             *)
UndisturbedInTime == disturbed \/ RenewedBeforeExpiry
===============================================================================
