---------------------------- MODULE SveltosLicense ----------------------------
(***************************************************************************)
(* The license Secret and its two readers: the SveltosLicense controller,  *)
(* which keeps the verdict in the status of the object "default", and the  *)
(* pull-mode reconcile of a SveltosCluster, which relays payload and       *)
(* signature in two annotations.  Nobody watches the Secret.  A verdict is *)
(* renewed when the license evaluated expires, and every minute when that  *)
(* is past; the relay runs every minute.                                   *)
(*                                                                         *)
(* A license is the time at which it expires.  VerifyLicenseSecret is      *)
(* libsveltos': a signature that does not verify, and a Secret that cannot *)
(* be read, look like no license.                                          *)
(***************************************************************************)
EXTENDS Integers, Scope

CONSTANTS
    Licenses,   \* the licenses users install
    Refused,    \* those with a good signature that are not for this system
    Grace,      \* an expired license is not enforced for this long
    Minute,     \* the wait when no expiration is ahead: a minute, in clock units
    NoLicense,  \* no license
    NoTimer,    \* no requeue is pending
    NoFlight,   \* no reconcile is in flight
    MaxTime,    \* bound on the clock
    MaxEdits,   \* bound on users' changes
    MaxFaults   \* bound on failed calls and restarts

ASSUME LicenseAssumption ==
    /\ Licenses \subseteq Nat /\ Refused \subseteq Licenses
    /\ {Grace, MaxTime, MaxEdits, MaxFaults} \subseteq Nat
    /\ Minute \in Nat \ {0}
    /\ NoLicense \notin Nat /\ NoTimer \notin Nat

Payload == Licenses \cup {NoLicense}

(* The status: verdict, ExpirationDate and Message.                        *)
Status == [state : {"unset", "Valid", "Expired", "Invalid"}, expiration : Payload,
           message : {"unset", "inGrace", "expired", "refused"}]
NoStatus == [state |-> "unset", expiration |-> NoLicense, message |-> "unset"]

(* The annotations: each part names the license it is of.  Two licenses    *)
(* are taken to differ in both parts, payload and signature.               *)
Annotations == [payload : Payload, signature : Payload]

(* A reconcile in flight: what it read and will write, and whether the     *)
(* object it read is gone.                                                 *)
Flight == [payload : Payload, status : Status, gone : BOOLEAN]

ASSUME MarkersAssumption == NoFlight \notin Flight

VARIABLES
    secret,      \* the license in the Secret
    cached,      \* the license in the manager's cache of the Secret
    present,     \* does the SveltosLicense exist?
    status,      \* its status
    evaluated,   \* the license the status was last computed from
    queued,      \* the controller has been asked to reconcile
    timer,       \* when the requeue fires
    flight,      \* its reconcile in flight, or none
    annotations, \* the annotations of the SveltosCluster
    seen,        \* its annotations in the manager's cache
    relay,       \* the relay in flight: snapshot and working copy
    held,        \* history: the licenses the Secret has held
    now,         \* the clock
    edits,       \* users' changes so far
    faults       \* failed calls and restarts so far

world == <<secret, held, now, edits>>
controller == <<present, status, evaluated, queued, timer, flight>>
relaying == <<annotations, seen, relay>>
vars == <<world, cached, controller, relaying, faults>>

Init ==
    /\ secret \in Payload /\ cached = secret /\ held = {secret}
    /\ present = TRUE /\ status = NoStatus /\ evaluated = NoLicense
    /\ queued = TRUE /\ timer = NoTimer /\ flight = NoFlight
    /\ annotations = [payload |-> NoLicense, signature |-> NoLicense]
    /\ seen = annotations /\ relay = NoFlight
    /\ now = 0 /\ edits = 0 /\ faults = 0

Fault == faults < MaxFaults /\ faults' = faults + 1

(* What VerifyLicenseSecret finds: the cached license, or, when the read   *)
(* fails, none.                                                            *)
Verified(l) ==
    \/ l = cached /\ UNCHANGED faults
    \/ l = NoLicense /\ cached # NoLicense /\ Fault

(***************************************************************************)
(* The SveltosLicense controller.                                          *)
(***************************************************************************)
IsValid(l, t) == l \notin Refused /\ t < l
IsEnforced(l, t) == l \in Refused \/ t >= l + Grace
IsExpired(l, t) == t >= l

(* The status st once license l has been evaluated at t.                   *)
validateSveltosLicense(st, l, t) ==
    CASE l = NoLicense -> [st EXCEPT !.state = "Invalid"]
      [] l # NoLicense /\ IsValid(l, t) ->
            [state |-> "Valid", expiration |-> l, message |-> "unset"]
      [] l # NoLicense /\ ~IsValid(l, t) /\ ~IsEnforced(l, t) ->
            [state |-> "Valid", expiration |-> l, message |-> "inGrace"]
      [] l # NoLicense /\ ~IsValid(l, t) /\ IsEnforced(l, t) /\ IsExpired(l, t) ->
            [state |-> "Expired", expiration |-> l, message |-> "expired"]
      [] l # NoLicense /\ ~IsValid(l, t) /\ IsEnforced(l, t) /\ ~IsExpired(l, t) ->
            [state |-> "Invalid", expiration |-> l, message |-> "refused"]

(* A minute from now, or when the clock reaches its bound.                 *)
InAMinute == IF now + Minute <= MaxTime THEN now + Minute ELSE MaxTime

(* Seeded faults: without a license there is nothing to evaluate again; a  *)
(* license is evaluated again only when its grace period ends; the wait is *)
(* counted from the expiration, not to it.                                 *)
requeueAt_Once(l) ==
    CASE l = NoLicense -> MaxTime + 1
      [] l # NoLicense -> IF l > now THEN l ELSE InAMinute
requeueAt_Since(l) == IF l # NoLicense THEN now + (now - l) ELSE InAMinute
requeueAt_GraceEnd(l) == IF l # NoLicense /\ l + Grace > now THEN l + Grace ELSE InAMinute

requeueAt(l) == IF l # NoLicense /\ l > now THEN l ELSE InAMinute

(* A pending requeue is not put off by a later one.                        *)
Earlier(t, u) == IF t # NoTimer /\ t < u THEN t ELSE u

(* Reconcile up to the status update.                                      *)
Reconcile ==
    /\ flight = NoFlight /\ queued
    /\ queued' = FALSE
    /\ IF present
       THEN \E l \in Payload :
              /\ Verified(l)
              /\ flight' = [payload |-> l, status |-> validateSveltosLicense(status, l, now),
                            gone |-> FALSE]
       ELSE UNCHANGED <<flight, faults>>
    /\ UNCHANGED <<world, cached, relaying, present, status, evaluated, timer>>

UpdateStatus ==
    /\ flight # NoFlight /\ ~flight.gone
    /\ status' = flight.status
    /\ evaluated' = flight.payload
    /\ timer' = Earlier(timer, requeueAt(flight.payload))
    /\ flight' = NoFlight
    /\ UNCHANGED <<world, cached, relaying, present, queued, faults>>

(* Refused, because the object is gone, or failed: requeued after ten      *)
(* seconds, less than a unit of the clock.                                 *)
UpdateStatusFails ==
    /\ flight # NoFlight
    /\ \/ flight.gone /\ UNCHANGED faults
       \/ ~flight.gone /\ Fault
    /\ flight' = NoFlight
    /\ queued' = TRUE
    /\ UNCHANGED <<world, cached, relaying, present, status, evaluated, timer>>

TimerFires ==
    /\ timer # NoTimer /\ timer <= now
    /\ timer' = NoTimer
    /\ queued' = TRUE
    /\ UNCHANGED <<world, cached, relaying, present, status, evaluated, flight, faults>>

(***************************************************************************)
(* The relay: updateLicenseAnnotations in the pull-mode reconcile.         *)
(***************************************************************************)
(* Seeded faults: an expired license is not relayed; the signature is      *)
(* written only with the first license.                                    *)
updateLicenseAnnotations_OnlyValid(a, l) ==
    IF l # NoLicense /\ IsExpired(l, now) THEN [payload |-> NoLicense, signature |-> NoLicense]
    ELSE [payload |-> l, signature |-> l]
updateLicenseAnnotations_KeepsSignature(a, l) ==
    [payload |-> l, signature |-> IF a.signature = NoLicense THEN l ELSE a.signature]

updateLicenseAnnotations(a, l) ==
    IF a = [payload |-> l, signature |-> l] THEN a ELSE [payload |-> l, signature |-> l]

RelayBegins ==
    /\ relay = NoFlight
    /\ \E l \in Payload :
          /\ Verified(l)
          /\ relay' = [before |-> seen, after |-> updateLicenseAnnotations(seen, l)]
    /\ UNCHANGED <<world, cached, controller, annotations, seen>>

RelayPatches ==
    /\ relay # NoFlight
    /\ annotations' = [part \in {"payload", "signature"} |->
                          Merge(annotations[part], relay.before[part], relay.after[part])]
    /\ relay' = NoFlight
    /\ UNCHANGED <<world, cached, controller, seen, faults>>

RelayFails ==
    /\ relay # NoFlight
    /\ Fault
    /\ relay' = NoFlight
    /\ UNCHANGED <<world, cached, controller, annotations, seen>>

(***************************************************************************)
(* The process, users and the clock.                                       *)
(***************************************************************************)
DeliverSecret ==
    /\ cached # secret
    /\ cached' = secret
    /\ UNCHANGED <<world, controller, relaying, faults>>

DeliverCluster ==
    /\ seen # annotations
    /\ seen' = annotations
    /\ UNCHANGED <<world, cached, controller, annotations, relay, faults>>

(* Requeues are lost; the caches and the queue start from lists.           *)
Restart ==
    /\ Fault
    /\ cached' = secret /\ seen' = annotations
    /\ queued' = present /\ timer' = NoTimer
    /\ flight' = NoFlight /\ relay' = NoFlight
    /\ UNCHANGED <<world, present, status, evaluated, annotations>>

Edit == edits < MaxEdits /\ edits' = edits + 1

ChangeSecret ==
    /\ Edit
    /\ \E l \in Payload \ {secret} : secret' = l /\ held' = held \cup {l}
    /\ UNCHANGED <<now, cached, controller, relaying, faults>>

CreateLicense ==
    /\ Edit /\ ~present
    /\ present' = TRUE /\ status' = NoStatus /\ evaluated' = NoLicense
    /\ queued' = TRUE
    /\ UNCHANGED <<secret, held, now, cached, timer, flight, relaying, faults>>

DeleteLicense ==
    /\ Edit /\ present
    /\ present' = FALSE
    /\ queued' = TRUE
    /\ flight' = IF flight = NoFlight THEN NoFlight ELSE [flight EXCEPT !.gone = TRUE]
    /\ UNCHANGED <<secret, held, now, cached, status, evaluated, timer, relaying, faults>>

(* A reconcile takes less than a unit of the clock; timers are punctual.   *)
Idle == ~queued /\ flight = NoFlight /\ (timer # NoTimer => timer > now)

Tick ==
    /\ now < MaxTime /\ Idle
    /\ now' = now + 1
    /\ UNCHANGED <<secret, held, edits, cached, controller, relaying, faults>>

Next ==
    \/ Reconcile \/ UpdateStatus \/ UpdateStatusFails \/ TimerFires
    \/ RelayBegins \/ RelayPatches \/ RelayFails
    \/ DeliverSecret \/ DeliverCluster \/ Restart
    \/ ChangeSecret \/ CreateLicense \/ DeleteLicense \/ Tick

(* Workers, timers, watches and the clock go on; nobody has to edit, and   *)
(* the faults are bounded.                                                 *)
Spec ==
    /\ Init /\ [][Next]_vars
    /\ WF_vars(Reconcile) /\ WF_vars(UpdateStatus \/ UpdateStatusFails) /\ WF_vars(TimerFires)
    /\ WF_vars(RelayBegins) /\ WF_vars(RelayPatches)
    /\ WF_vars(DeliverSecret) /\ WF_vars(DeliverCluster) /\ WF_vars(Tick)

(***************************************************************************)
(* Properties.                                                             *)
(***************************************************************************)
(* Type invariant.                                                         *)
TypeOK ==
    /\ {secret, cached, evaluated} \subseteq Payload /\ held \subseteq Payload
    /\ {present, queued} \subseteq BOOLEAN
    /\ status \in Status
    /\ timer \in Nat \cup {NoTimer}
    /\ flight \in Flight \cup {NoFlight}
    /\ {annotations, seen} \subseteq Annotations
    /\ relay \in [before : Annotations, after : Annotations] \cup {NoFlight}
    /\ now \in 0..MaxTime /\ edits \in Nat /\ faults \in Nat

(* A license is not called Valid past its expiration, nor in its grace     *)
(* period for a minute after that has ended (it may end between two        *)
(* evaluations), once the reconciles due have run: neither the time spent  *)
(* on the old verdict, a change of the Secret nor a failed update drops    *)
(* the requeue (Reconcile, validateSveltosLicense).                        *)
ExpiryNoticed ==
    Idle /\ present /\ status.state = "Valid" =>
        IF status.message = "inGrace" THEN now < status.expiration + Grace + Minute
                                      ELSE now < status.expiration

(* The verdict follows the Secret although nobody watches it, unless the   *)
(* license evaluated last has not expired yet: again and again, the status *)
(* is what the Secret deserves or is such a license's (Reconcile).         *)
StatusFollowsSecret ==
    []<>(\/ ~present
         \/ status.state = validateSveltosLicense(status, secret, now).state
         \/ evaluated # NoLicense /\ now < evaluated)

(* The two annotations always belong to one license that the Secret held,  *)
(* or are both absent, however old the copy a reconcile compared them with *)
(* and whichever patch failed (updateLicenseAnnotations, Scope.Close).     *)
PairIntact ==
    annotations.payload = annotations.signature /\ annotations.payload \in held \cup {NoLicense}

(* "The annotations are set whenever the signature verifies, even if the   *)
(* license itself is expired ... They are cleared when no signed payload   *)
(* could be extracted": again and again the agent finds the license that   *)
(* is in the Secret (updateLicenseAnnotations).                            *)
RelayFollowsSecret == []<>(annotations = [payload |-> secret, signature |-> secret])
===============================================================================
