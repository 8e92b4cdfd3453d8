------------------------- MODULE SveltosLicense_proofs -------------------------
(***************************************************************************)
(* Proofs about SveltosLicense, for every set of licenses, grace period    *)
(* and bound.  PairInv: every copy of the annotations, in the cache and in *)
(* the relay's hands, is a pair.  TimelyInv: a verdict that can go stale   *)
(* has a reconcile asked for, running or due by its end, or, in the grace  *)
(* period, within a minute of it.  The weak fairness in Spec is not used.  *)
(***************************************************************************)
EXTENDS SveltosLicense, TLAPS

(***************************************************************************)
(* Type correctness.                                                       *)
(***************************************************************************)

(* A verdict is a status.                                                  *)
LEMMA VerdictType ==
    ASSUME NEW st \in Status, NEW l \in Payload, NEW t \in Nat
    PROVE  validateSveltosLicense(st, l, t) \in Status
<1>1. CASE l = NoLicense
  <2>1. validateSveltosLicense(st, l, t) = [st EXCEPT !.state = "Invalid"]
    BY <1>1 DEF validateSveltosLicense
  <2> QED
    BY <2>1 DEF Status
<1>2. CASE l # NoLicense /\ IsValid(l, t)
  BY <1>2 DEF validateSveltosLicense, Status
<1>3. CASE l # NoLicense /\ ~IsValid(l, t) /\ ~IsEnforced(l, t)
  BY <1>3 DEF validateSveltosLicense, Status
<1>4. CASE l # NoLicense /\ ~IsValid(l, t) /\ IsEnforced(l, t) /\ IsExpired(l, t)
  BY <1>4 DEF validateSveltosLicense, Status
<1>5. CASE l # NoLicense /\ ~IsValid(l, t) /\ IsEnforced(l, t) /\ ~IsExpired(l, t)
  BY <1>5 DEF validateSveltosLicense, Status
<1> QED
  BY <1>1, <1>2, <1>3, <1>4, <1>5

(* What the relay writes is a pair of annotations.                         *)
LEMMA RelayedPair ==
    ASSUME NEW a \in Annotations, NEW l \in Payload
    PROVE  /\ updateLicenseAnnotations(a, l) = [payload |-> l, signature |-> l]
           /\ updateLicenseAnnotations(a, l) \in Annotations
BY DEF updateLicenseAnnotations, Annotations

(* The patch keeps the annotations' shape.                                 *)
LEMMA PatchedParts ==
    ASSUME NEW a \in Annotations, NEW b \in Annotations, NEW c \in Annotations, NEW d,
           d = [part \in {"payload", "signature"} |-> Merge(a[part], b[part], c[part])]
    PROVE  /\ d \in Annotations
           /\ d.payload = Merge(a.payload, b.payload, c.payload)
           /\ d.signature = Merge(a.signature, b.signature, c.signature)
<1>1. d.payload = Merge(a.payload, b.payload, c.payload)
  OBVIOUS
<1>2. d.signature = Merge(a.signature, b.signature, c.signature)
  OBVIOUS
<1>3. d.payload \in Payload /\ d.signature \in Payload
  BY <1>1, <1>2 DEF Annotations, Merge
<1>4. d = [payload |-> d.payload, signature |-> d.signature]
  OBVIOUS
<1> QED
  BY <1>1, <1>2, <1>3, <1>4 DEF Annotations

(* The requeue is a time, and not later than asked for.                    *)
LEMMA RequeueType ==
    ASSUME TypeOK, NEW l \in Payload
    PROVE  /\ requeueAt(l) \in Nat
           /\ Earlier(timer, requeueAt(l)) \in Nat
           /\ Earlier(timer, requeueAt(l)) <= requeueAt(l)
<1>1. now \in Nat /\ timer \in Nat \cup {NoTimer} /\ MaxTime \in Nat /\ Minute \in Nat
  BY LicenseAssumption DEF LicenseAssumption, TypeOK
<1>2. l # NoLicense => l \in Nat
  BY LicenseAssumption DEF LicenseAssumption, Payload
<1>3. InAMinute \in Nat
  BY <1>1 DEF InAMinute
<1>4. requeueAt(l) \in Nat
  BY <1>2, <1>3 DEF requeueAt
<1> QED
  BY <1>1, <1>4 DEF Earlier

(* A read of the Secret yields a license and at most counts a failure.     *)
LEMMA VerifiedType ==
    ASSUME TypeOK, NEW l \in Payload, Verified(l)
    PROVE  faults' \in Nat /\ l \in {cached, NoLicense}
BY DEF Verified, Fault, TypeOK

LEMMA InitType == Init => TypeOK
<1> SUFFICES ASSUME Init PROVE TypeOK
  OBVIOUS
<1> USE LicenseAssumption DEF LicenseAssumption
<1>1. NoStatus \in Status
  BY DEF NoStatus, Status, Payload
<1>2. annotations \in Annotations /\ seen \in Annotations
  BY DEF Init, Annotations, Payload
<1> QED
  BY <1>1, <1>2 DEF Init, TypeOK, Payload

LEMMA StepType == TypeOK /\ [Next]_vars => TypeOK'
<1> SUFFICES ASSUME TypeOK, [Next]_vars PROVE TypeOK'
  OBVIOUS
<1> USE LicenseAssumption, MarkersAssumption DEF LicenseAssumption, MarkersAssumption
<1> USE DEF world, controller, relaying
<1>1. CASE Reconcile
  <2>1. CASE present
    <3>1. PICK l \in Payload :
            /\ Verified(l)
            /\ flight' = [payload |-> l, status |-> validateSveltosLicense(status, l, now),
                          gone |-> FALSE]
      BY <1>1, <2>1 DEF Reconcile
    <3>2. validateSveltosLicense(status, l, now) \in Status
      BY VerdictType DEF TypeOK
    <3>3. flight' \in Flight /\ faults' \in Nat
      BY <3>1, <3>2, VerifiedType DEF Flight
    <3> QED
      BY <1>1, <3>3 DEF Reconcile, TypeOK
  <2>2. CASE ~present
    BY <1>1, <2>2 DEF Reconcile, TypeOK
  <2> QED
    BY <2>1, <2>2
<1>2. CASE UpdateStatus
  <2>1. flight.status \in Status /\ flight.payload \in Payload
    BY <1>2 DEF UpdateStatus, TypeOK, Flight
  <2>2. timer' \in Nat
    BY <1>2, <2>1, RequeueType DEF UpdateStatus
  <2> QED
    BY <1>2, <2>1, <2>2 DEF UpdateStatus, TypeOK
<1>3. CASE UpdateStatusFails
  BY <1>3 DEF UpdateStatusFails, Fault, TypeOK
<1>4. CASE TimerFires
  BY <1>4 DEF TimerFires, TypeOK
<1>5. CASE RelayBegins
  <2>1. PICK l \in Payload :
          /\ Verified(l)
          /\ relay' = [before |-> seen, after |-> updateLicenseAnnotations(seen, l)]
    BY <1>5 DEF RelayBegins
  <2>2. relay' \in [before : Annotations, after : Annotations] /\ faults' \in Nat
    BY <2>1, RelayedPair, VerifiedType DEF TypeOK
  <2> QED
    BY <1>5, <2>2 DEF RelayBegins, TypeOK
<1>6. CASE RelayPatches
  <2>1. relay.before \in Annotations /\ relay.after \in Annotations /\ annotations \in Annotations
    BY <1>6 DEF RelayPatches, TypeOK
  <2>2. annotations' \in Annotations
    BY <1>6, <2>1, PatchedParts DEF RelayPatches
  <2> QED
    BY <1>6, <2>2 DEF RelayPatches, TypeOK
<1>7. CASE RelayFails \/ DeliverSecret \/ DeliverCluster
  BY <1>7 DEF RelayFails, DeliverSecret, DeliverCluster, Fault, TypeOK
<1>8. CASE Restart
  BY <1>8 DEF Restart, Fault, TypeOK
<1>9. CASE ChangeSecret
  BY <1>9 DEF ChangeSecret, Edit, TypeOK
<1>10. CASE CreateLicense
  <2>1. NoStatus \in Status /\ NoLicense \in Payload
    BY DEF NoStatus, Status, Payload
  <2> QED
    BY <1>10, <2>1 DEF CreateLicense, Edit, TypeOK
<1>11. CASE DeleteLicense
  <2>1. flight' \in Flight \cup {NoFlight}
    BY <1>11 DEF DeleteLicense, TypeOK, Flight
  <2>2. present' = FALSE /\ queued' = TRUE /\ edits' \in Nat
    BY <1>11 DEF DeleteLicense, Edit, TypeOK
  <2>3. UNCHANGED <<secret, held, now, cached, status, evaluated, timer, annotations, seen,
                    relay, faults>>
    BY <1>11 DEF DeleteLicense
  <2> QED
    BY <2>1, <2>2, <2>3 DEF TypeOK
<1>12. CASE Tick
  BY <1>12 DEF Tick, TypeOK
<1>13. CASE UNCHANGED vars
  BY <1>13 DEF vars, TypeOK
<1> QED
  BY <1>1, <1>2, <1>3, <1>4, <1>5, <1>6, <1>7, <1>8, <1>9, <1>10, <1>11, <1>12, <1>13 DEF Next

(* Type correctness: whatever the calls return, the status, the requeue    *)
(* and both patches keep their shapes.                                     *)
THEOREM LicenseTypeCorrect == Spec => []TypeOK
BY InitType, StepType, PTL DEF Spec

(***************************************************************************)
(* The annotations are a pair.                                             *)
(***************************************************************************)

(* Both parts of one license the Secret held, or both absent.              *)
Pair(a) == a.payload = a.signature /\ a.payload \in held \cup {NoLicense}

PairInv ==
    /\ TypeOK
    /\ cached \in held /\ secret \in held
    /\ Pair(annotations) /\ Pair(seen)
    /\ relay # NoFlight => Pair(relay.before) /\ Pair(relay.after)

LEMMA InitPair == Init => PairInv
BY InitType DEF Init, PairInv, Pair

LEMMA StepPair == PairInv /\ [Next]_vars => PairInv'
<1> SUFFICES ASSUME PairInv, [Next]_vars PROVE PairInv'
  OBVIOUS
<1> USE DEF world, controller, relaying
<1>0. TypeOK /\ TypeOK'
  BY StepType DEF PairInv
<1>1. CASE RelayBegins
  <2>1. PICK l \in Payload :
          /\ Verified(l)
          /\ relay' = [before |-> seen, after |-> updateLicenseAnnotations(seen, l)]
    BY <1>1 DEF RelayBegins
  <2>2. relay'.before = seen /\ relay'.after = [payload |-> l, signature |-> l]
    BY <1>0, <2>1, RelayedPair DEF TypeOK
  <2>3. l \in held \cup {NoLicense}
    BY <1>0, <2>1, VerifiedType DEF PairInv
  <2>4. UNCHANGED <<held, secret, cached, annotations, seen>>
    BY <1>1 DEF RelayBegins
  <2> QED
    BY <1>0, <2>2, <2>3, <2>4 DEF PairInv, Pair
<1>2. CASE RelayPatches
  <2>1. /\ relay.before \in Annotations /\ relay.after \in Annotations
        /\ annotations \in Annotations /\ relay # NoFlight
    BY <1>0, <1>2 DEF RelayPatches, TypeOK
  <2>2. /\ annotations'.payload =
              Merge(annotations.payload, relay.before.payload, relay.after.payload)
        /\ annotations'.signature =
              Merge(annotations.signature, relay.before.signature, relay.after.signature)
    BY <1>2, <2>1, PatchedParts DEF RelayPatches
  <2>3. UNCHANGED <<held, secret, cached, seen>> /\ relay' = NoFlight
    BY <1>2 DEF RelayPatches
  <2>4. Pair(annotations) /\ Pair(relay.before) /\ Pair(relay.after)
    BY <2>1 DEF PairInv
  <2>5. Pair(annotations')
    BY <2>2, <2>4 DEF Pair, Merge
  <2> QED
    BY <1>0, <2>3, <2>5 DEF PairInv, Pair
<1>3. CASE ChangeSecret
  <2>1. held \subseteq held' /\ secret' \in held'
    BY <1>3 DEF ChangeSecret
  <2>2. UNCHANGED <<cached, annotations, seen, relay>>
    BY <1>3 DEF ChangeSecret
  <2> QED
    BY <1>0, <2>1, <2>2 DEF PairInv, Pair
<1>4. CASE RelayFails \/ DeliverSecret \/ DeliverCluster \/ Restart
  BY <1>0, <1>4 DEF RelayFails, DeliverSecret, DeliverCluster, Restart, PairInv, Pair
<1>5. CASE Reconcile \/ UpdateStatus \/ UpdateStatusFails \/ TimerFires \/ CreateLicense
             \/ DeleteLicense \/ Tick \/ UNCHANGED vars
  <2>1. UNCHANGED <<held, secret, cached, annotations, seen, relay>>
    BY <1>5 DEF Reconcile, UpdateStatus, UpdateStatusFails, TimerFires, CreateLicense,
                DeleteLicense, Tick, vars
  <2> QED
    BY <1>0, <2>1 DEF PairInv, Pair
<1> QED
  BY <1>1, <1>2, <1>3, <1>4, <1>5 DEF Next

(* The agent never finds the payload of one license with the signature of  *)
(* another, nor a license the Secret never held, whatever copy the relay   *)
(* compared with and wherever it failed (updateLicenseAnnotations).        *)
THEOREM PairAlwaysIntact == Spec => []PairIntact
<1>1. PairInv => PairIntact
  BY DEF PairInv, Pair, PairIntact
<1> QED
  BY <1>1, InitPair, StepPair, PTL DEF Spec

(***************************************************************************)
(* No verdict outlives its license.                                        *)
(***************************************************************************)

(* When the verdict stops being right: the end of the license, or of its   *)
(* grace period.                                                           *)
End(st) == IF st.message = "inGrace" THEN st.expiration + Grace ELSE st.expiration

(* By when the next reconcile is due.                                      *)
Due(st) == IF st.message = "inGrace" THEN st.expiration + Grace + Minute ELSE st.expiration

(* The verdict a reconcile carries was reached at this moment; a verdict   *)
(* in the object that can go stale has a reconcile asked for, running, or  *)
(* due in time.                                                            *)
TimelyInv ==
    /\ TypeOK
    /\ flight # NoFlight /\ flight.status.state = "Valid" =>
          /\ flight.status.expiration = flight.payload /\ flight.payload # NoLicense
          /\ now < End(flight.status)
          /\ flight.status.message = "inGrace" => flight.payload <= now
    /\ present /\ status.state = "Valid" =>
          /\ status.expiration # NoLicense
          /\ queued \/ flight # NoFlight \/ (timer # NoTimer /\ timer <= Due(status))

LEMMA InitTimely == Init => TimelyInv
BY InitType DEF Init, TimelyInv, NoStatus

(* A verdict Valid names its license, which has not ended.                 *)
LEMMA ValidVerdict ==
    ASSUME NEW st \in Status, NEW l \in Payload, NEW t \in Nat, NEW v,
           v = validateSveltosLicense(st, l, t), v.state = "Valid"
    PROVE  /\ v.expiration = l /\ l # NoLicense
           /\ t < End(v)
           /\ v.message = "inGrace" => l <= t
<1>1. CASE l = NoLicense
  <2>1. v = [st EXCEPT !.state = "Invalid"]
    BY <1>1 DEF validateSveltosLicense
  <2> QED
    BY <2>1 DEF Status
<1>2. CASE l # NoLicense /\ IsValid(l, t)
  <2>1. v = [state |-> "Valid", expiration |-> l, message |-> "unset"]
    BY <1>2 DEF validateSveltosLicense
  <2> QED
    BY <1>2, <2>1 DEF IsValid, End
<1>3. CASE l # NoLicense /\ ~IsValid(l, t) /\ ~IsEnforced(l, t)
  <2>1. v = [state |-> "Valid", expiration |-> l, message |-> "inGrace"]
    BY <1>3 DEF validateSveltosLicense
  <2>2. l \in Nat /\ Grace \in Nat
    BY <1>3, LicenseAssumption DEF LicenseAssumption, Payload
  <2> QED
    BY <1>3, <2>1, <2>2 DEF IsValid, IsEnforced, End
<1>4. CASE l # NoLicense /\ ~IsValid(l, t) /\ IsEnforced(l, t) /\ IsExpired(l, t)
  <2>1. v = [state |-> "Expired", expiration |-> l, message |-> "expired"]
    BY <1>4 DEF validateSveltosLicense
  <2> QED
    BY <2>1
<1>5. CASE l # NoLicense /\ ~IsValid(l, t) /\ IsEnforced(l, t) /\ ~IsExpired(l, t)
  <2>1. v = [state |-> "Invalid", expiration |-> l, message |-> "refused"]
    BY <1>5 DEF validateSveltosLicense
  <2> QED
    BY <2>1
<1> QED
  BY <1>1, <1>2, <1>3, <1>4, <1>5

LEMMA StepTimely == TimelyInv /\ [Next]_vars => TimelyInv'
<1> SUFFICES ASSUME TimelyInv, [Next]_vars PROVE TimelyInv'
  OBVIOUS
<1> USE LicenseAssumption, MarkersAssumption DEF LicenseAssumption, MarkersAssumption
<1> USE DEF world, controller, relaying
<1>0. TypeOK /\ TypeOK'
  BY StepType DEF TimelyInv
<1>1. CASE Reconcile
  <2>1. CASE present
    <3>1. PICK l \in Payload :
            flight' = [payload |-> l, status |-> validateSveltosLicense(status, l, now),
                       gone |-> FALSE]
      BY <1>1, <2>1 DEF Reconcile
    <3> DEFINE v == validateSveltosLicense(status, l, now)
    <3>2. flight'.payload = l /\ flight'.status = v
      BY <3>1
    <3>3. status \in Status /\ now \in Nat /\ UNCHANGED now
      BY <1>0, <1>1 DEF TypeOK, Reconcile
    <3>4. v.state = "Valid" =>
            /\ v.expiration = l /\ l # NoLicense
            /\ now < End(v)
            /\ v.message = "inGrace" => l <= now
      BY <3>3, ValidVerdict
    <3>5. flight' # NoFlight
      <4>1. validateSveltosLicense(status, l, now) \in Status
        BY <3>3, VerdictType
      <4>2. flight' \in Flight
        BY <3>1, <4>1 DEF Flight
      <4> QED
        BY <4>2
    <3>6. UNCHANGED <<present, status>>
      BY <1>1 DEF Reconcile
    <3> HIDE DEF v
    <3> QED
      BY <1>0, <3>2, <3>3, <3>4, <3>5, <3>6 DEF TimelyInv, End, Due
  <2>2. CASE ~present
    BY <1>0, <1>1, <2>2 DEF Reconcile, TimelyInv, End, Due
  <2> QED
    BY <2>1, <2>2
<1>2. CASE UpdateStatus
  <2>1. /\ flight # NoFlight /\ flight.payload \in Payload
        /\ status' = flight.status /\ flight' = NoFlight
        /\ timer' = Earlier(timer, requeueAt(flight.payload))
    BY <1>0, <1>2 DEF UpdateStatus, TypeOK, Flight
  <2>2. timer' \in Nat /\ timer' <= requeueAt(flight.payload)
    BY <1>0, <2>1, RequeueType
  <2>3. ASSUME flight.status.state = "Valid"
        PROVE  flight.status.expiration # NoLicense /\ timer' <= Due(flight.status)
    <3>1. /\ flight.status.expiration = flight.payload /\ flight.payload # NoLicense
          /\ now < End(flight.status)
          /\ flight.status.message = "inGrace" => flight.payload <= now
      BY <2>1, <2>3 DEF TimelyInv
    <3>2. /\ flight.payload \in Nat /\ now \in Nat /\ now <= MaxTime
          /\ Grace \in Nat /\ Minute \in Nat \ {0} /\ MaxTime \in Nat
      <4>1. flight.payload \in Nat
        BY <2>1, <3>1 DEF Payload
      <4> QED
        BY <1>0, <4>1 DEF TypeOK
    <3>3. requeueAt(flight.payload) <= Due(flight.status)
      BY <3>1, <3>2 DEF requeueAt, InAMinute, End, Due
    <3>4. requeueAt(flight.payload) \in Nat
      BY <3>2 DEF requeueAt, InAMinute
    <3>5. Due(flight.status) \in Nat
      BY <3>1, <3>2 DEF Due
    <3> QED
      BY <2>2, <3>1, <3>3, <3>4, <3>5
  <2> QED
    BY <1>0, <2>1, <2>2, <2>3 DEF TimelyInv, End, Due
<1>3. CASE UpdateStatusFails \/ TimerFires \/ Restart
  <2>1. /\ UNCHANGED <<present, status, now>>
        /\ flight' \in {NoFlight, flight} /\ (present => queued')
    BY <1>3 DEF UpdateStatusFails, TimerFires, Restart
  <2> QED
    BY <1>0, <2>1 DEF TimelyInv, End, Due
<1>4. CASE CreateLicense
  <2>1. status'.state = "unset" /\ UNCHANGED <<flight, now>>
    BY <1>4 DEF CreateLicense, NoStatus
  <2> QED
    BY <1>0, <2>1 DEF TimelyInv, End, Due
<1>5. CASE DeleteLicense
  <2>1. flight # NoFlight =>
          flight'.status = flight.status /\ flight'.payload = flight.payload
    BY <1>0, <1>5 DEF DeleteLicense, TypeOK, Flight
  <2>2. present' = FALSE /\ UNCHANGED now /\ (flight = NoFlight => flight' = NoFlight)
    BY <1>5 DEF DeleteLicense
  <2> QED
    BY <1>0, <2>1, <2>2 DEF TimelyInv, End, Due
<1>6. CASE Tick
  <2>1. UNCHANGED <<present, status, queued, timer, flight>> /\ flight = NoFlight
    BY <1>6 DEF Tick, Idle
  <2> QED
    BY <1>0, <2>1 DEF TimelyInv, End, Due
<1>7. CASE RelayBegins \/ RelayPatches \/ RelayFails \/ DeliverSecret \/ DeliverCluster
             \/ ChangeSecret \/ UNCHANGED vars
  <2>1. UNCHANGED <<present, status, queued, timer, flight, now>>
    BY <1>7 DEF RelayBegins, RelayPatches, RelayFails, DeliverSecret, DeliverCluster,
                ChangeSecret, vars
  <2> QED
    BY <1>0, <2>1 DEF TimelyInv, End, Due
<1> QED
  BY <1>1, <1>2, <1>3, <1>4, <1>5, <1>6, <1>7 DEF Next

(* Whatever is lost, refused or deleted on the way, a controller that has  *)
(* run the reconciles due does not call a license Valid past its end, nor  *)
(* past a minute after the end of its grace period.                        *)
THEOREM ExpiryAlwaysNoticed == Spec => []ExpiryNoticed
<1>1. TimelyInv => ExpiryNoticed
  <2> SUFFICES ASSUME TimelyInv, Idle, present, status.state = "Valid"
               PROVE  now < Due(status)
    BY DEF ExpiryNoticed, Due
  <2>1. timer # NoTimer /\ timer <= Due(status) /\ timer > now
    BY DEF Idle, TimelyInv
  <2>2. /\ timer \in Nat /\ now \in Nat /\ status.expiration \in Nat
        /\ Grace \in Nat /\ Minute \in Nat
    <3>1. status.expiration \in Payload \ {NoLicense}
      BY DEF TimelyInv, TypeOK, Status
    <3>2. status.expiration \in Nat
      BY <3>1, LicenseAssumption DEF LicenseAssumption, Payload
    <3> QED
      BY <2>1, <3>2, LicenseAssumption DEF LicenseAssumption, TimelyInv, TypeOK
  <2>3. Due(status) \in Nat
    BY <2>2 DEF Due
  <2> QED
    BY <2>1, <2>2, <2>3
<1> QED
  BY <1>1, InitTimely, StepTimely, PTL DEF Spec
===============================================================================
