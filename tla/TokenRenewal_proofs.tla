-------------------------- MODULE TokenRenewal_proofs --------------------------
(***************************************************************************)
(* Proofs about TokenRenewal, for every interval, duration and lifetime.   *)
(* Two invariants carry them.  StoreInv, which needs nothing: what is      *)
(* recorded about a renewal, in the object or in the copy a reconcile      *)
(* carries, is in the Secret.  InTimeInv, while nothing disturbs renewals: *)
(* the credential in use outlives the moment at which it is renewed.       *)
(***************************************************************************)
EXTENDS TokenRenewal, RenewalTiming_proofs

(***************************************************************************)
(* Type correctness.                                                       *)
(***************************************************************************)

(* The end of an iteration, field by field.                                *)
LEMMA NextContextFields ==
    ASSUME NEW f \in Flight, f.left # 0
    PROVE  /\ NextContext(f) \in Flight
           /\ NextContext(f).before = f.before /\ NextContext(f).after = f.after
           /\ NextContext(f).looked = f.looked /\ NextContext(f).due = f.due
           /\ NextContext(f).stored = f.stored /\ NextContext(f).patched = f.patched
           /\ NextContext(f).step \in {f.step, "object"}
           /\ NextContext(f).left = f.left - 1
           /\ NextContext(f).step # "object" => NextContext(f).left # 0
<1> DEFINE s == IF f.left = 1 THEN "object" ELSE f.step
<1>1. f.left - 1 \in 0..MaxContexts /\ f.left \in Nat
  BY RenewalAssumption, TimingAssumption DEF RenewalAssumption, TimingAssumption, Flight
<1>2. s \in {"probe", "read", "renew", "object", "status"} /\ s \in {f.step, "object"}
  BY DEF Flight
<1>3. NextContext(f) = [f EXCEPT !.left = f.left - 1, !.step = s]
  BY DEF NextContext
<1>4. NextContext(f) \in Flight /\ NextContext(f).step = s /\ NextContext(f).left = f.left - 1
  BY <1>1, <1>2, <1>3 DEF Flight
<1>5. s # "object" => f.left - 1 # 0
  BY <1>1
<1> QED
  BY <1>2, <1>3, <1>4, <1>5 DEF Flight

(* A token granted changes only the interval of the working copy.          *)
LEMMA AdjustedFields ==
    ASSUME NEW f \in Flight, NEW l \in Lifetimes
    PROVE  Adjusted(f, l) = [f EXCEPT !.after = [f.after EXCEPT !.interval =
                                adjustTokenRequestRenewalOption(f.after.interval, l)]]
BY DEF Adjusted, Flight, Object

(* A reconcile in its loop has a context left.                             *)
LoopOpen == flight # NoFlight /\ flight.step = "renew" => flight.left # 0

(* The copy a reconcile carries once a token is stored, field by field.     *)
LEMMA RenewedFields ==
    ASSUME TypeOK, NEW f \in Flight, NEW l \in Lifetimes
    PROVE  /\ Renewed(f, l) \in Flight
           /\ Renewed(f, l).after.interval = adjustTokenRequestRenewalOption(f.after.interval, l)
           /\ Renewed(f, l).after.key = RenewalKey /\ Renewed(f, l).after.last = now
           /\ Renewed(f, l).stored
           /\ Renewed(f, l).before = f.before /\ Renewed(f, l).looked = f.looked
           /\ Renewed(f, l).due = f.due /\ Renewed(f, l).step = f.step
           /\ Renewed(f, l).left = f.left /\ Renewed(f, l).patched = f.patched
<1>1. f.after \in Object /\ f.after.interval \in Nat /\ now \in Nat
  BY DEF Flight, Object, TypeOK
<1>2. adjustTokenRequestRenewalOption(f.after.interval, l) \in Nat
  BY <1>1, IntervalTypes
<1>3. Renewed(f, l) \in Flight
  BY <1>1, <1>2 DEF Renewed, Flight, Object, Keys
<1> QED
  BY <1>3 DEF Renewed, Flight

LEMMA InitType == Init => TypeOK /\ LoopOpen
<1> SUFFICES ASSUME Init PROVE TypeOK /\ LoopOpen
  OBVIOUS
<1>1. PICK i \in Intervals, k \in {NoKey, InitialKey}, l \in Lifetimes :
        /\ obj = [interval |-> i, key |-> k, last |-> 0]
        /\ secret = [x \in Keys |-> IF x = InitialKey THEN [issued |-> 0, expiry |-> l]
                                                      ELSE Missing]
  BY DEF Init
<1>2. i \in Nat /\ l \in Nat
  BY RenewalAssumption, TimingAssumption DEF RenewalAssumption, TimingAssumption
<1>3. obj \in Object
  BY <1>1, <1>2 DEF Object, Keys
<1>4. secret \in [Keys -> Entry \cup {Missing}]
  BY <1>1, <1>2 DEF Entry
<1> QED
  BY <1>3, <1>4 DEF Init, TypeOK, LoopOpen

LEMMA StepType == TypeOK /\ LoopOpen /\ [Next]_vars => TypeOK' /\ LoopOpen'
<1> SUFFICES ASSUME TypeOK, LoopOpen, [Next]_vars PROVE TypeOK' /\ LoopOpen'
  OBVIOUS
<1> USE RenewalAssumption, TimingAssumption, MarkersAssumption
        DEF RenewalAssumption, TimingAssumption, MarkersAssumption
<1>0. ASSUME flight # NoFlight
      PROVE  flight \in Flight /\ flight.before \in Object /\ flight.after \in Object
  BY <1>0 DEF TypeOK, Flight
<1>1. CASE Begin
  <2>1. PICK k \in InUse :
          flight' = [step |-> "probe", before |-> obj, after |-> obj, cred |-> k,
                     looked |-> now, asked |-> 0, left |-> 0,
                     due |-> FALSE, stored |-> FALSE, patched |-> FALSE]
    BY <1>1 DEF Begin
  <2>2. k \in Keys
    BY <2>1 DEF InUse, TypeOK, Object
  <2>3. flight' \in Flight /\ flight'.step = "probe"
    BY <2>1, <2>2 DEF TypeOK, Flight
  <2> QED
    BY <1>1, <2>3 DEF Begin, TypeOK, LoopOpen
<1>2. CASE ProbeSucceeds
  <2> DEFINE due == shouldRenewTokenRequest(flight.before, now)
  <2> DEFINE s == IF due THEN "read" ELSE "object"
  <2>1. flight \in Flight /\ flight' = [flight EXCEPT !.step = s, !.looked = now, !.due = due]
    BY <1>0, <1>2 DEF ProbeSucceeds, At
  <2>2. due \in BOOLEAN
    BY DEF shouldRenewTokenRequest
  <2>3. s \in {"probe", "read", "renew", "object", "status"} /\ s # "renew"
    OBVIOUS
  <2> HIDE DEF due, s
  <2>4. flight' \in Flight /\ flight'.step = s
    BY <2>1, <2>2, <2>3 DEF TypeOK, Flight
  <2> QED
    BY <1>2, <2>3, <2>4 DEF ProbeSucceeds, TypeOK, LoopOpen
<1>3. CASE ReadKubeconfig
  <2>1. flight \in Flight /\ flight.before.interval \in Nat
    BY <1>0, <1>3 DEF ReadKubeconfig, At, Object
  <2>2. getEffectiveTokenDuration(flight.before.interval) \in Nat
    BY <2>1 DEF getEffectiveTokenDuration
  <2>3. PICK n \in 1..MaxContexts :
          flight' = [flight EXCEPT !.step = "renew", !.left = n,
                                   !.asked = getEffectiveTokenDuration(flight.before.interval)]
    BY <1>3 DEF ReadKubeconfig
  <2>4. n \in 0..MaxContexts /\ n # 0
    OBVIOUS
  <2>5. flight' \in Flight
    BY <2>1, <2>2, <2>3, <2>4 DEF Flight
  <2>6. flight'.left = n
    BY <2>1, <2>3 DEF Flight
  <2> QED
    BY <1>3, <2>4, <2>5, <2>6 DEF ReadKubeconfig, TypeOK, LoopOpen
<1>4. CASE RenewalFails
  <2>1. flight' \in Flight /\ flight'.step = "object"
    BY <1>0, <1>4 DEF RenewalFails, At, Flight
  <2> QED
    BY <1>4, <2>1 DEF RenewalFails, Fault, TypeOK, LoopOpen
<1>5. CASE TokenRefused
  <2>1. flight \in Flight /\ flight.step = "renew" /\ flight.left # 0
    BY <1>0, <1>5 DEF TokenRefused, At, LoopOpen
  <2>2. flight' \in Flight /\ (flight'.step = "renew" => flight'.left # 0)
    BY <1>5, <2>1, NextContextFields DEF TokenRefused
  <2> QED
    BY <1>5, <2>2 DEF TokenRefused, Fault, TypeOK, LoopOpen
<1>6. CASE TokenLost
  <2>1. flight \in Flight /\ flight.step = "renew" /\ flight.left # 0 /\ flight.after.interval \in Nat
    BY <1>0, <1>6 DEF TokenLost, At, LoopOpen, Object
  <2>2. PICK l \in Lifetimes : flight' = NextContext(Adjusted(flight, l))
    BY <1>6 DEF TokenLost, SecretWriteFails
  <2>3. adjustTokenRequestRenewalOption(flight.after.interval, l) \in Nat
    BY <2>1, IntervalTypes
  <2>4. Adjusted(flight, l) \in Flight /\ Adjusted(flight, l).left # 0
    BY <2>1, <2>3, AdjustedFields DEF Flight, Object
  <2>5. flight' \in Flight /\ (flight'.step # "object" => flight'.left # 0)
    BY <2>2, <2>4, NextContextFields
  <2> QED
    BY <1>6, <2>5 DEF TokenLost, Fault, TypeOK, LoopOpen
<1>7. CASE TokenStored
  <2>1. flight \in Flight /\ flight.step = "renew" /\ flight.left # 0
    BY <1>0, <1>7 DEF TokenStored, At, LoopOpen
  <2>2. PICK l \in Lifetimes :
          /\ secret' = [secret EXCEPT ![RenewalKey] = [issued |-> now, expiry |-> now + l]]
          /\ flight' = NextContext(Renewed(flight, l))
    BY <1>7 DEF TokenStored
  <2>4. Renewed(flight, l) \in Flight /\ Renewed(flight, l).left # 0
    BY <2>1, RenewedFields
  <2>5. flight' \in Flight /\ (flight'.step # "object" => flight'.left # 0)
    BY <2>2, <2>4, NextContextFields
  <2>6. [issued |-> now, expiry |-> now + l] \in Entry
    BY DEF TypeOK, Entry
  <2>7. secret' \in [Keys -> Entry \cup {Missing}]
    BY <2>2, <2>6 DEF TypeOK
  <2> QED
    BY <1>7, <2>5, <2>7 DEF TokenStored, TypeOK, LoopOpen
<1>8. CASE PatchObject
  <2>1. flight \in Flight /\ flight.before \in Object /\ flight.after \in Object
    BY <1>0, <1>8 DEF PatchObject, At
  <2>2. obj' \in Object
    BY <1>8, <2>1 DEF PatchObject, Merge, TypeOK, Object
  <2>3. flight' \in Flight /\ flight'.step = "status"
    BY <1>8, <2>1 DEF PatchObject, Flight
  <2> QED
    BY <1>8, <2>2, <2>3 DEF PatchObject, TypeOK, LoopOpen
<1>9. CASE PatchObjectFails
  <2>1. flight' \in Flight /\ flight'.step = "status"
    BY <1>0, <1>9 DEF PatchObjectFails, At, Flight
  <2> QED
    BY <1>9, <2>1 DEF PatchObjectFails, Fault, TypeOK, LoopOpen
<1>10. CASE PatchStatus
  <2>1. flight \in Flight /\ flight.before \in Object /\ flight.after \in Object
    BY <1>0, <1>10 DEF PatchStatus, At
  <2>2. obj' \in Object
    BY <1>10, <2>1 DEF PatchStatus, Merge, TypeOK, Object
  <2>3. checked' \in Nat
    BY <1>10, <2>1 DEF PatchStatus, TypeOK, Flight
  <2> QED
    BY <1>10, <2>2, <2>3 DEF PatchStatus, TypeOK, LoopOpen
<1>11. CASE EditInterval
  <2>1. obj' \in Object
    BY <1>11 DEF EditInterval, TypeOK, Object
  <2> QED
    BY <1>11, <2>1 DEF EditInterval, TypeOK, LoopOpen
<1>12. CASE ProbeFails \/ PatchStatusFails \/ Restart \/ Tick
  BY <1>12 DEF ProbeFails, PatchStatusFails, Restart, Tick, Fault, TypeOK, LoopOpen
<1>13. CASE UNCHANGED vars
  BY <1>13 DEF vars, TypeOK, LoopOpen
<1> QED
  BY <1>1, <1>2, <1>3, <1>4, <1>5, <1>6, <1>7, <1>8, <1>9, <1>10, <1>11, <1>12, <1>13 DEF Next

(* Type correctness, for every value of the constants.                     *)
THEOREM RenewalTypeCorrect == Spec => []TypeOK
BY InitType, StepType, PTL DEF Spec

(***************************************************************************)
(* What is recorded is stored.                                             *)
(***************************************************************************)

(* The renewal entry holds a token issued at t or later.                   *)
Holds(t) == secret[RenewalKey] # Missing /\ secret[RenewalKey].issued >= t

(* A key or a time that differs from the snapshot's was put into the       *)
(* working copy after the token was stored.                                *)
BackedInFlight ==
    flight # NoFlight =>
        /\ flight.after.key # flight.before.key =>
              flight.after.key = RenewalKey /\ secret[RenewalKey] # Missing
        /\ flight.after.last # flight.before.last =>
              flight.after.last <= now /\ Holds(flight.after.last)

StoreInv ==
    /\ TypeOK /\ LoopOpen
    /\ KeyResolves /\ RecordedIsStored
    /\ BackedInFlight
    /\ obj.last <= now

LEMMA InitStore == Init => StoreInv
<1> SUFFICES ASSUME Init PROVE StoreInv
  OBVIOUS
<1>1. TypeOK /\ LoopOpen
  BY InitType
<1>2. PICK i \in Intervals, k \in {NoKey, InitialKey}, l \in Lifetimes :
        /\ obj = [interval |-> i, key |-> k, last |-> 0]
        /\ secret = [x \in Keys |-> IF x = InitialKey THEN [issued |-> 0, expiry |-> l]
                                                      ELSE Missing]
  BY DEF Init
<1>3. [issued |-> 0, expiry |-> l] \in Entry
  BY RenewalAssumption, TimingAssumption DEF RenewalAssumption, TimingAssumption, Entry
<1>4. secret[InitialKey] # Missing
  BY <1>2, <1>3, MarkersAssumption DEF MarkersAssumption, Keys
<1>5. KeyResolves
  BY <1>2, <1>4 DEF KeyResolves
<1>6. obj.last = 0 /\ now = 0 /\ flight = NoFlight
  BY <1>2 DEF Init
<1> QED
  BY <1>1, <1>5, <1>6 DEF StoreInv, RecordedIsStored, BackedInFlight

LEMMA StepStore == StoreInv /\ [Next]_vars => StoreInv'
<1> SUFFICES ASSUME StoreInv, [Next]_vars PROVE StoreInv'
  OBVIOUS
<1> USE RenewalAssumption, TimingAssumption, MarkersAssumption
        DEF RenewalAssumption, TimingAssumption, MarkersAssumption
<1>0. TypeOK' /\ LoopOpen'
  BY StepType DEF StoreInv
<1>a. ASSUME flight # NoFlight
      PROVE  flight \in Flight /\ flight.before \in Object /\ flight.after \in Object
  BY <1>a DEF StoreInv, TypeOK, Flight
<1>b. obj \in Object /\ now \in Nat /\ obj.last \in Nat /\ secret \in [Keys -> Entry \cup {Missing}]
  BY DEF StoreInv, TypeOK, Object
<1>1. CASE Begin
  <2>1. flight'.before = obj /\ flight'.after = obj
    BY <1>1 DEF Begin
  <2>2. UNCHANGED <<obj, secret, now>>
    BY <1>1 DEF Begin
  <2> QED
    BY <1>0, <2>1, <2>2 DEF StoreInv, KeyResolves, RecordedIsStored, BackedInFlight
<1>2. CASE ProbeSucceeds \/ ReadKubeconfig \/ RenewalFails \/ TokenRefused \/ PatchObjectFails
  <2>1. flight \in Flight /\ flight # NoFlight
    BY <1>2, <1>a DEF ProbeSucceeds, ReadKubeconfig, RenewalFails, TokenRefused,
                      PatchObjectFails, At
  <2>2. ASSUME TokenRefused PROVE flight.left # 0
    BY <2>2 DEF TokenRefused, At, StoreInv, LoopOpen
  <2>3. flight'.before = flight.before /\ flight'.after = flight.after
    <3>1. CASE TokenRefused
      BY <3>1, <2>1, <2>2, NextContextFields DEF TokenRefused
    <3>2. CASE ~TokenRefused
      BY <1>2, <3>2, <2>1
         DEF ProbeSucceeds, ReadKubeconfig, RenewalFails, PatchObjectFails, Flight
    <3> QED
      BY <3>1, <3>2
  <2>4. UNCHANGED <<obj, secret, now>>
    BY <1>2 DEF ProbeSucceeds, ReadKubeconfig, RenewalFails, TokenRefused, PatchObjectFails
  <2> QED
    BY <1>0, <2>1, <2>3, <2>4
       DEF StoreInv, KeyResolves, RecordedIsStored, BackedInFlight, Holds
<1>3. CASE TokenLost
  <2>1. flight \in Flight /\ flight # NoFlight /\ flight.left # 0 /\ flight.after.interval \in Nat
    BY <1>3, <1>a DEF TokenLost, At, StoreInv, LoopOpen, Object
  <2>2. PICK l \in Lifetimes : flight' = NextContext(Adjusted(flight, l))
    BY <1>3 DEF TokenLost, SecretWriteFails
  <2>3. adjustTokenRequestRenewalOption(flight.after.interval, l) \in Nat
    BY <2>1, IntervalTypes
  <2>4. /\ Adjusted(flight, l) \in Flight /\ Adjusted(flight, l).left # 0
        /\ Adjusted(flight, l).before = flight.before
        /\ Adjusted(flight, l).after.key = flight.after.key
        /\ Adjusted(flight, l).after.last = flight.after.last
    BY <2>1, <2>3, AdjustedFields DEF Flight, Object
  <2>5. /\ flight'.before = flight.before
        /\ flight'.after.key = flight.after.key
        /\ flight'.after.last = flight.after.last
    BY <2>2, <2>4, NextContextFields
  <2>6. UNCHANGED <<obj, secret, now>>
    BY <1>3 DEF TokenLost
  <2> QED
    BY <1>0, <2>1, <2>5, <2>6
       DEF StoreInv, KeyResolves, RecordedIsStored, BackedInFlight, Holds
<1>4. CASE TokenStored
  <2>1. flight \in Flight /\ flight # NoFlight /\ flight.left # 0
    BY <1>4, <1>a DEF TokenStored, At, StoreInv, LoopOpen
  <2>2. PICK l \in Lifetimes :
          /\ secret' = [secret EXCEPT ![RenewalKey] = [issued |-> now, expiry |-> now + l]]
          /\ flight' = NextContext(Renewed(flight, l))
    BY <1>4 DEF TokenStored
  <2>3. flight'.after.key = RenewalKey /\ flight'.after.last = now
    BY <2>1, <2>2, RenewedFields, NextContextFields DEF StoreInv
  <2>4. [issued |-> now, expiry |-> now + l] \in Entry
    BY <1>b DEF Entry
  <2>5. secret'[RenewalKey] # Missing /\ secret'[RenewalKey].issued = now
    BY <1>b, <2>2, <2>4 DEF Keys
  <2>6. \A k \in Keys : secret[k] # Missing => secret'[k] # Missing
    BY <1>b, <2>2, <2>4 DEF Keys
  <2>7. UNCHANGED <<obj, now>>
    BY <1>4 DEF TokenStored
  <2>8. KeyResolves'
    BY <1>b, <2>6, <2>7 DEF StoreInv, KeyResolves, Object
  <2>9. RecordedIsStored' /\ BackedInFlight'
    BY <1>b, <2>3, <2>5, <2>7 DEF StoreInv, RecordedIsStored, BackedInFlight, Holds
  <2> QED
    BY <1>0, <2>7, <2>8, <2>9 DEF StoreInv
<1>5. CASE PatchObject
  <2>1. flight \in Flight /\ flight # NoFlight
    BY <1>5, <1>a DEF PatchObject, At
  <2>2. obj'.key = Merge(obj.key, flight.before.key, flight.after.key) /\ obj'.last = obj.last
    BY <1>5, <1>b DEF PatchObject, Object
  <2>3. flight'.before = flight.before /\ flight'.after = flight.after
    BY <1>5, <2>1 DEF PatchObject, Flight
  <2>4. UNCHANGED <<secret, now>>
    BY <1>5 DEF PatchObject
  <2> QED
    BY <1>0, <2>1, <2>2, <2>3, <2>4
       DEF StoreInv, KeyResolves, RecordedIsStored, BackedInFlight, Holds, Merge
<1>6. CASE PatchStatus
  <2>1. flight \in Flight /\ flight # NoFlight
    BY <1>6, <1>a DEF PatchStatus, At
  <2>2. obj'.last = Merge(obj.last, flight.before.last, flight.after.last) /\ obj'.key = obj.key
    BY <1>6, <1>b DEF PatchStatus, Object
  <2>3. flight' = NoFlight /\ UNCHANGED <<secret, now>>
    BY <1>6 DEF PatchStatus
  <2> QED
    BY <1>0, <2>1, <2>2, <2>3
       DEF StoreInv, KeyResolves, RecordedIsStored, BackedInFlight, Holds, Merge
<1>7. CASE EditInterval
  <2>1. obj'.key = obj.key /\ obj'.last = obj.last /\ UNCHANGED <<secret, flight, now>>
    BY <1>7, <1>b DEF EditInterval, Object
  <2> QED
    BY <1>0, <2>1 DEF StoreInv, KeyResolves, RecordedIsStored, BackedInFlight, Holds
<1>8. CASE ProbeFails \/ PatchStatusFails \/ Restart
  BY <1>0, <1>8 DEF ProbeFails, PatchStatusFails, Restart, StoreInv, KeyResolves,
                    RecordedIsStored, BackedInFlight
<1>9. CASE Tick
  <2>1. now' = now + 1 /\ UNCHANGED <<obj, secret, flight>>
    BY <1>9 DEF Tick
  <2>2. ASSUME flight # NoFlight PROVE flight.after.last \in Nat
    BY <2>2, <1>a DEF Object
  <2> QED
    BY <1>0, <1>b, <2>1, <2>2
       DEF StoreInv, KeyResolves, RecordedIsStored, BackedInFlight, Holds
<1>10. CASE UNCHANGED vars
  BY <1>0, <1>10 DEF vars, StoreInv, KeyResolves, RecordedIsStored, BackedInFlight, Holds
<1> QED
  BY <1>1, <1>2, <1>3, <1>4, <1>5, <1>6, <1>7, <1>8, <1>9, <1>10 DEF Next

(* The key of the object always names an entry of the Secret, whichever    *)
(* write of a renewal fails and wherever the manager restarts.             *)
THEOREM KeyAlwaysResolves == Spec => []KeyResolves
<1>1. StoreInv => KeyResolves
  BY DEF StoreInv
<1> QED
  BY <1>1, InitStore, StepStore, PTL DEF Spec

(* Every renewal the status records is in the Secret.                      *)
THEOREM RenewalsAreStored == Spec => []RecordedIsStored
<1>1. StoreInv => RecordedIsStored
  BY DEF StoreInv
<1> QED
  BY <1>1, InitStore, StepStore, PTL DEF Spec

(***************************************************************************)
(* While nothing disturbs renewals the credential in use never expires.    *)
(***************************************************************************)

(* What the argument needs: reconciles get through more often than every   *)
(* ten minutes, and a configured duration reaches past the renewal.        *)
Reaches(i) == AsksPast(i, Slack)

Adequate == AdequateFor(Slack) /\ \A i \in Intervals : Reaches(i)

(* An entry that outlives t by Slack.                                      *)
Outlives(k, t) == secret[k] # Missing /\ secret[k].expiry > t + Slack

(* The credential in use outlives the last reconcile that got through, and *)
(* the last moment at which a reconcile finds its renewal not yet due.     *)
Lasting(k) ==
    Outlives(k, checked) /\ Outlives(k, obj.last + renewalThreshold(obj.interval))

(* The renewal is not timed later with i than with j.                      *)
NoLater(i, j) == renewalThreshold(i) <= renewalThreshold(j)

(* A reconcile in flight: the object has the key of its snapshot, of its   *)
(* copy once it is patched, and an interval that users have only made more *)
(* urgent; without a stored token its copy is its snapshot, by whose       *)
(* interval, too, the credential in use lasts, with one the renewal was    *)
(* due and the new token outlives the next renewal; and one that renews    *)
(* nothing looked before the renewal was due.                              *)
FlightInTime ==
    flight # NoFlight =>
        /\ flight.before.last = obj.last
        /\ flight.step # "status" =>
              NoLater(obj.interval, flight.before.interval) /\ obj.key = flight.before.key
        /\ flight.step = "status" =>
              NoLater(obj.interval, flight.after.interval) /\ obj.key = flight.after.key
        /\ Reaches(flight.after.interval)
        /\ ~flight.stored =>
              /\ flight.after = flight.before
              /\ \A k \in InUse :
                    Outlives(k, obj.last + renewalThreshold(flight.before.interval))
        /\ flight.stored =>
              /\ flight.after.key = RenewalKey
              /\ flight.looked <= flight.after.last /\ obj.last <= flight.after.last
              /\ Outlives(RenewalKey,
                          flight.after.last + renewalThreshold(flight.after.interval))
        /\ flight.step \in {"read", "renew"} \/ flight.stored =>
              flight.looked - obj.last > renewalThreshold(flight.before.interval)
        /\ flight.step \in {"object", "status"} /\ ~flight.due =>
              flight.looked - obj.last <= renewalThreshold(flight.before.interval)
        /\ flight.stored => flight.due
        /\ flight.step = "probe" => ~flight.stored
        /\ flight.step = "read" => ~flight.stored /\ flight.due
        /\ flight.step = "renew" => flight.due

InTimeInv ==
    /\ StoreInv
    /\ checked <= now /\ now <= checked + Slack
    /\ flight # NoFlight => checked <= flight.looked /\ flight.looked <= now
    /\ ~disturbed =>
          /\ Reaches(obj.interval)
          /\ \A k \in InUse : Lasting(k)
          /\ FlightInTime

LEMMA InitInTime == Adequate /\ Init => InTimeInv
<1> SUFFICES ASSUME Adequate, Init PROVE InTimeInv
  OBVIOUS
<1> USE RenewalAssumption, TimingAssumption, MarkersAssumption
        DEF RenewalAssumption, TimingAssumption, MarkersAssumption
<1>1. StoreInv
  BY InitStore
<1>2. PICK i \in Intervals, k \in {NoKey, InitialKey}, l \in Lifetimes :
        /\ l > renewalThreshold(i) + Slack
        /\ obj = [interval |-> i, key |-> k, last |-> 0]
        /\ secret = [x \in Keys |-> IF x = InitialKey THEN [issued |-> 0, expiry |-> l]
                                                      ELSE Missing]
  BY DEF Init
<1>3. obj.interval = i /\ obj.last = 0 /\ checked = 0 /\ now = 0 /\ flight = NoFlight
  BY <1>2 DEF Init
<1>4. i \in Nat /\ l \in Nat /\ renewalThreshold(i) \in Nat
  BY IntervalTypes
<1>5. secret[InitialKey] = [issued |-> 0, expiry |-> l] /\ secret[InitialKey] # Missing
  BY <1>2, <1>4 DEF Keys, Entry
<1>6. InUse \subseteq {InitialKey}
  BY <1>2 DEF InUse
<1>7. Lasting(InitialKey)
  BY <1>2, <1>3, <1>4, <1>5 DEF Lasting, Outlives
<1>8. Reaches(obj.interval)
  BY <1>3 DEF Adequate
<1> QED
  BY <1>1, <1>3, <1>6, <1>7, <1>8 DEF InTimeInv, FlightInTime

(* The types of what the arithmetic below is about.                        *)
LEMMA InTimeTypes ==
    ASSUME StoreInv
    PROVE  /\ obj \in Object /\ obj.interval \in Nat /\ obj.last \in Nat
           /\ renewalThreshold(obj.interval) \in Nat
           /\ checked \in Nat /\ now \in Nat
           /\ secret \in [Keys -> Entry \cup {Missing}]
           /\ \A k \in Keys : secret[k] # Missing => secret[k].expiry \in Nat
           /\ InUse \subseteq Keys
           /\ flight # NoFlight =>
                /\ flight \in Flight
                /\ flight.looked \in Nat /\ flight.after.last \in Nat
                /\ flight.before \in Object /\ flight.after \in Object
                /\ flight.before.interval \in Nat /\ flight.after.interval \in Nat
                /\ renewalThreshold(flight.after.interval) \in Nat
                /\ renewalThreshold(flight.before.interval) \in Nat
<1> USE RenewalAssumption, TimingAssumption, MarkersAssumption
        DEF RenewalAssumption, TimingAssumption, MarkersAssumption
<1>1. TypeOK
  BY DEF StoreInv
<1>2. obj \in Object /\ obj.interval \in Nat /\ obj.last \in Nat
  BY <1>1 DEF TypeOK, Object
<1>3. \A i \in Nat : renewalThreshold(i) \in Nat
  BY DEF renewalThreshold
<1>4. \A k \in Keys : secret[k] # Missing => secret[k].expiry \in Nat
  BY <1>1 DEF TypeOK, Entry
<1>5. InUse \subseteq Keys
  BY <1>2 DEF InUse, Object
<1>6. ASSUME flight # NoFlight
      PROVE  /\ flight \in Flight
             /\ flight.looked \in Nat /\ flight.after.last \in Nat
             /\ flight.before \in Object /\ flight.after \in Object
             /\ flight.before.interval \in Nat /\ flight.after.interval \in Nat
  BY <1>1, <1>6 DEF TypeOK, Flight, Object
<1> QED
  BY <1>1, <1>2, <1>3, <1>4, <1>5, <1>6 DEF TypeOK

LEMMA StepInTime == Adequate /\ InTimeInv /\ [Next]_vars => InTimeInv'
<1> SUFFICES ASSUME Adequate, InTimeInv, [Next]_vars PROVE InTimeInv'
  OBVIOUS
<1> USE RenewalAssumption, TimingAssumption, MarkersAssumption
        DEF RenewalAssumption, TimingAssumption, MarkersAssumption
<1>0. StoreInv /\ StoreInv'
  BY StepStore DEF InTimeInv
<1>a. TypeOK /\ LoopOpen
  BY <1>0 DEF StoreInv
<1>1. CASE Begin
  <2>1. /\ flight'.before = obj /\ flight'.after = obj /\ flight'.looked = now
        /\ flight'.step = "probe" /\ flight'.stored = FALSE
    BY <1>1 DEF Begin
  <2>2. UNCHANGED <<obj, secret, checked, now, disturbed>>
    BY <1>1 DEF Begin
  <2>3. checked' <= now' /\ now' <= checked' + Slack /\ checked' <= flight'.looked
          /\ flight'.looked <= now'
    BY <1>0, <2>1, <2>2, InTimeTypes DEF InTimeInv
  <2>4. ASSUME ~disturbed
        PROVE  Reaches(obj'.interval) /\ (\A k \in InUse' : Lasting(k)') /\ FlightInTime'
    <3>1. Reaches(obj.interval) /\ \A k \in InUse : Lasting(k)
      BY <2>4 DEF InTimeInv
    <3>2. NoLater(obj.interval, obj.interval)
      BY <1>0, InTimeTypes DEF NoLater
    <3> QED
      BY <2>1, <2>2, <3>1, <3>2 DEF InUse, Lasting, Outlives, FlightInTime, NoLater
  <2> QED
    BY <1>0, <2>2, <2>3, <2>4 DEF InTimeInv
<1>2. CASE ProbeSucceeds
  <2>1. flight # NoFlight /\ flight \in Flight /\ flight.step = "probe"
    BY <1>0, <1>2, InTimeTypes DEF ProbeSucceeds, At
  <2>2. /\ flight'.before = flight.before /\ flight'.after = flight.after
        /\ flight'.looked = now /\ flight'.stored = flight.stored
        /\ flight'.due = shouldRenewTokenRequest(flight.before, now)
        /\ flight'.step = IF shouldRenewTokenRequest(flight.before, now) THEN "read" ELSE "object"
    BY <1>2, <2>1 DEF ProbeSucceeds, Flight
  <2>3. UNCHANGED <<obj, secret, checked, now, disturbed>>
    BY <1>2 DEF ProbeSucceeds
  <2>4. checked' <= now' /\ now' <= checked' + Slack /\ checked' <= flight'.looked
          /\ flight'.looked <= now'
    BY <1>0, <2>2, <2>3, InTimeTypes DEF InTimeInv
  <2>5. ASSUME ~disturbed
        PROVE  Reaches(obj'.interval) /\ (\A k \in InUse' : Lasting(k)') /\ FlightInTime'
    <3>1. Reaches(obj.interval) /\ (\A k \in InUse : Lasting(k)) /\ FlightInTime
      BY <2>5 DEF InTimeInv
    <3>2. /\ ~flight.stored /\ flight.after = flight.before /\ flight.before.last = obj.last
          /\ NoLater(obj.interval, flight.before.interval) /\ obj.key = flight.before.key
          /\ Reaches(flight.after.interval)
          /\ \A k \in InUse : Outlives(k, obj.last + renewalThreshold(flight.before.interval))
      BY <2>1, <3>1 DEF FlightInTime
    <3>3. CASE shouldRenewTokenRequest(flight.before, now)
      <4>1. now - obj.last > renewalThreshold(flight.before.interval)
        BY <3>2, <3>3 DEF shouldRenewTokenRequest
      <4>2. flight'.step = "read" /\ flight'.due
        BY <2>2, <3>3
      <4>3. FlightInTime'
        BY <2>2, <2>3, <3>2, <4>1, <4>2 DEF FlightInTime, NoLater, InUse, Outlives
      <4> QED
        BY <2>3, <3>1, <4>3 DEF InUse, Lasting, Outlives
    <3>4. CASE ~shouldRenewTokenRequest(flight.before, now)
      <4>1. now - obj.last <= renewalThreshold(flight.before.interval)
        BY <1>0, <2>1, <3>2, <3>4, InTimeTypes DEF shouldRenewTokenRequest
      <4>2. flight'.step = "object" /\ ~flight'.due
        BY <2>2, <3>4
      <4>3. FlightInTime'
        BY <2>2, <2>3, <3>2, <4>1, <4>2 DEF FlightInTime, NoLater, InUse, Outlives
      <4> QED
        BY <2>3, <3>1, <4>3 DEF InUse, Lasting, Outlives
    <3> QED
      BY <3>3, <3>4
  <2> QED
    BY <1>0, <2>3, <2>4, <2>5 DEF InTimeInv
<1>3. CASE ReadKubeconfig \/ RenewalFails \/ TokenRefused
  <2>1. flight # NoFlight /\ flight \in Flight /\ flight.step \in {"read", "renew"}
    BY <1>0, <1>3, InTimeTypes DEF ReadKubeconfig, RenewalFails, TokenRefused, At
  <2>2. /\ flight'.before = flight.before /\ flight'.after = flight.after
        /\ flight'.looked = flight.looked /\ flight'.stored = flight.stored
        /\ flight'.due = flight.due /\ flight'.step \in {"renew", "object"}
    <3>1. CASE TokenRefused
      <4>1. flight.left # 0 /\ flight.step = "renew"
        BY <1>a, <3>1 DEF TokenRefused, At, LoopOpen
      <4> QED
        BY <2>1, <3>1, <4>1, NextContextFields DEF TokenRefused
    <3>2. CASE ReadKubeconfig
      BY <2>1, <3>2 DEF ReadKubeconfig, Flight
    <3>3. CASE RenewalFails
      BY <2>1, <3>3 DEF RenewalFails, Flight
    <3> QED
      BY <1>3, <3>1, <3>2, <3>3
  <2>3. UNCHANGED <<obj, secret, checked, now, disturbed>>
    BY <1>3 DEF ReadKubeconfig, RenewalFails, TokenRefused
  <2>4. ASSUME ~disturbed
        PROVE  Reaches(obj'.interval) /\ (\A k \in InUse' : Lasting(k)') /\ FlightInTime'
    <3>1. Reaches(obj.interval) /\ (\A k \in InUse : Lasting(k)) /\ FlightInTime
      BY <2>4 DEF InTimeInv
    <3>2. flight.due
      BY <2>1, <3>1 DEF FlightInTime
    <3>3. FlightInTime'
      BY <2>1, <2>2, <2>3, <3>1, <3>2 DEF FlightInTime, NoLater, InUse, Outlives
    <3> QED
      BY <2>3, <3>1, <3>3 DEF InUse, Lasting, Outlives
  <2> QED
    BY <1>0, <2>1, <2>2, <2>3, <2>4 DEF InTimeInv
<1>4. CASE TokenStored
  <2>1. flight # NoFlight /\ flight \in Flight /\ flight.step = "renew" /\ flight.left # 0
    BY <1>0, <1>a, <1>4, InTimeTypes DEF TokenStored, At, LoopOpen
  <2>2. PICK l \in Lifetimes :
          /\ secret' = [secret EXCEPT ![RenewalKey] = [issued |-> now, expiry |-> now + l]]
          /\ flight' = NextContext(Renewed(flight, l))
    BY <1>4 DEF TokenStored
  <2> DEFINE i == adjustTokenRequestRenewalOption(flight.after.interval, l)
  <2>3. /\ flight'.before = flight.before /\ flight'.looked = flight.looked
        /\ flight'.due = flight.due /\ flight'.stored /\ flight'.step \in {"renew", "object"}
        /\ flight'.after.interval = i /\ flight'.after.key = RenewalKey
        /\ flight'.after.last = now
    BY <1>a, <2>1, <2>2, RenewedFields, NextContextFields
  <2>4. UNCHANGED <<obj, checked, now, disturbed>>
    BY <1>4 DEF TokenStored
  <2>5. [issued |-> now, expiry |-> now + l] \in Entry
    BY <1>0, InTimeTypes DEF Entry
  <2>6. secret'[RenewalKey] # Missing /\ secret'[RenewalKey].expiry = now + l
    BY <1>0, <2>2, <2>5, InTimeTypes DEF Keys
  <2>7. \A k \in Keys \ {RenewalKey} : secret'[k] = secret[k]
    BY <1>0, <2>2, InTimeTypes
  <2>8. ASSUME ~disturbed
        PROVE  Reaches(obj'.interval) /\ (\A k \in InUse' : Lasting(k)') /\ FlightInTime'
    <3>1. Reaches(obj.interval) /\ (\A k \in InUse : Lasting(k)) /\ FlightInTime
      BY <2>8 DEF InTimeInv
    <3>2. /\ flight.due /\ flight.before.last = obj.last /\ Reaches(flight.after.interval)
          /\ NoLater(obj.interval, flight.before.interval) /\ obj.key = flight.before.key
          /\ flight.looked - obj.last > renewalThreshold(flight.before.interval)
      BY <2>1, <3>1 DEF FlightInTime
    <3>3. flight.after.interval \in Nat
      BY <1>0, <2>1, InTimeTypes
    <3>4. Reaches(i) /\ l > renewalThreshold(i) + Slack /\ l > Slack /\ l \in Nat
      BY <3>2, <3>3, GrantLasts DEF Adequate, Reaches
    <3>5. i \in Nat /\ renewalThreshold(i) \in Nat
      BY <3>3, IntervalTypes
    <3> HIDE DEF i
    <3>6. checked <= flight.looked /\ flight.looked <= now /\ obj.last <= now
      BY <1>0, <2>1 DEF InTimeInv, StoreInv
    <3>7. Lasting(RenewalKey)'
      BY <1>0, <2>1, <2>4, <2>6, <3>2, <3>4, <3>6, InTimeTypes DEF Lasting, Outlives, NoLater
    <3>8. InUse' \subseteq InUse \cup {RenewalKey}
      BY <2>4, <2>7 DEF InUse
    <3>9. \A k \in InUse' : Lasting(k)'
      <4>1. ASSUME NEW k \in InUse', k # RenewalKey PROVE Lasting(k)'
        <5>1. k \in InUse /\ k \in Keys
          BY <1>0, <3>8, <4>1, InTimeTypes
        <5> QED
          BY <2>4, <2>7, <3>1, <4>1, <5>1 DEF Lasting, Outlives
      <4> QED
        BY <3>7, <4>1
    <3>10. Outlives(RenewalKey, flight.after.last + renewalThreshold(flight.after.interval))'
      BY <1>0, <2>3, <2>6, <3>4, <3>5, InTimeTypes DEF Outlives
    <3>11. FlightInTime'
      BY <2>3, <2>4, <3>2, <3>4, <3>6, <3>10 DEF FlightInTime, NoLater
    <3> QED
      BY <2>4, <3>1, <3>9, <3>11
  <2> QED
    BY <1>0, <2>1, <2>3, <2>4, <2>8 DEF InTimeInv
<1>5. CASE PatchObject
  <2>1. flight # NoFlight /\ flight \in Flight /\ flight.step = "object"
    BY <1>0, <1>5, InTimeTypes DEF PatchObject, At
  <2>2. /\ flight'.before = flight.before /\ flight'.after = flight.after
        /\ flight'.looked = flight.looked /\ flight'.stored = flight.stored
        /\ flight'.due = flight.due /\ flight'.step = "status"
    BY <1>5, <2>1 DEF PatchObject, Flight
  <2>3. /\ obj'.interval = Merge(obj.interval, flight.before.interval, flight.after.interval)
        /\ obj'.key = Merge(obj.key, flight.before.key, flight.after.key)
        /\ obj'.last = obj.last
    BY <1>0, <1>5, InTimeTypes DEF PatchObject, Object
  <2>4. UNCHANGED <<secret, checked, now, disturbed>>
    BY <1>5 DEF PatchObject
  <2>5. ASSUME ~disturbed
        PROVE  Reaches(obj'.interval) /\ (\A k \in InUse' : Lasting(k)') /\ FlightInTime'
    <3>1. Reaches(obj.interval) /\ (\A k \in InUse : Lasting(k)) /\ FlightInTime
      BY <2>5 DEF InTimeInv
    <3>2. /\ obj'.interval = obj.interval \/ obj'.interval = flight.after.interval
          /\ NoLater(obj'.interval, flight.after.interval) /\ obj'.key = flight.after.key
      BY <1>0, <2>1, <2>3, <3>1, InTimeTypes DEF FlightInTime, Merge, NoLater
    <3>3. CASE flight.stored
      <4>1. /\ flight.after.key = RenewalKey /\ flight.due
            /\ flight.looked <= flight.after.last /\ obj.last <= flight.after.last
            /\ Outlives(RenewalKey,
                        flight.after.last + renewalThreshold(flight.after.interval))
        BY <2>1, <3>1, <3>3 DEF FlightInTime
      <4>2. InUse' = {RenewalKey}
        BY <3>2, <4>1 DEF InUse, Keys
      <4>3. secret[RenewalKey].expiry \in Nat /\ checked <= flight.looked
        BY <1>0, <2>1, <4>1, InTimeTypes DEF InTimeInv, Outlives, Keys
      <4>4. Lasting(RenewalKey)'
        BY <1>0, <2>1, <2>3, <2>4, <3>2, <4>1, <4>3, InTimeTypes DEF Lasting, Outlives, NoLater
      <4>5. FlightInTime'
        BY <2>1, <2>2, <2>3, <2>4, <3>1, <3>2, <3>3, <4>1 DEF FlightInTime, Outlives, NoLater
      <4> QED
        BY <2>1, <3>1, <3>2, <4>2, <4>4, <4>5 DEF FlightInTime
    <3>4. CASE ~flight.stored
      <4>1. obj'.interval = obj.interval /\ obj'.key = obj.key
        BY <2>1, <2>3, <3>1, <3>4 DEF FlightInTime, Merge
      <4>2. InUse' = InUse
        BY <2>4, <4>1 DEF InUse
      <4>3. FlightInTime'
        BY <2>1, <2>2, <2>3, <2>4, <3>1, <3>2, <3>4, <4>1, <4>2 DEF FlightInTime, Outlives, NoLater
      <4> QED
        BY <2>3, <2>4, <3>1, <4>1, <4>2, <4>3 DEF Lasting, Outlives
    <3> QED
      BY <3>3, <3>4
  <2> QED
    BY <1>0, <2>1, <2>2, <2>4, <2>5 DEF InTimeInv
<1>6. CASE PatchStatus
  <2>1. flight # NoFlight /\ flight \in Flight /\ flight.step = "status"
    BY <1>0, <1>6, InTimeTypes DEF PatchStatus, At
  <2>2. /\ obj'.last = Merge(obj.last, flight.before.last, flight.after.last)
        /\ obj'.interval = obj.interval /\ obj'.key = obj.key
    BY <1>0, <1>6, InTimeTypes DEF PatchStatus, Object
  <2>3. checked' = checked \/ (checked' = flight.looked /\ (flight.due => flight.stored))
    BY <1>6 DEF PatchStatus
  <2>4. flight' = NoFlight /\ UNCHANGED <<secret, now, disturbed>>
    BY <1>6 DEF PatchStatus
  <2>5. checked' <= now' /\ now' <= checked' + Slack
    BY <1>0, <2>1, <2>3, <2>4, InTimeTypes DEF InTimeInv
  <2>6. ASSUME ~disturbed
        PROVE  Reaches(obj'.interval) /\ (\A k \in InUse' : Lasting(k)')
    <3>1. Reaches(obj.interval) /\ (\A k \in InUse : Lasting(k)) /\ FlightInTime
      BY <2>6 DEF InTimeInv
    <3>2. /\ NoLater(obj.interval, flight.after.interval) /\ obj.key = flight.after.key
          /\ obj'.last = flight.after.last
      BY <2>1, <2>2, <3>1 DEF FlightInTime, Merge
    <3>3. InUse' = InUse
      BY <2>2, <2>4 DEF InUse
    <3>4. CASE flight.stored
      <4>1. /\ flight.after.key = RenewalKey /\ flight.looked <= flight.after.last
            /\ Outlives(RenewalKey,
                        flight.after.last + renewalThreshold(flight.after.interval))
        BY <2>1, <3>1, <3>4 DEF FlightInTime
      <4>2. InUse = {RenewalKey}
        BY <3>2, <4>1 DEF InUse, Keys
      <4>3. secret[RenewalKey].expiry \in Nat /\ checked <= flight.looked
        BY <1>0, <2>1, <4>1, InTimeTypes DEF InTimeInv, Outlives, Keys
      <4>4. Outlives(RenewalKey, checked)'
        BY <1>0, <2>1, <2>3, <2>4, <4>1, <4>3, InTimeTypes DEF Outlives
      <4>5. Lasting(RenewalKey)'
        BY <1>0, <2>1, <2>2, <2>4, <3>2, <4>1, <4>3, <4>4, InTimeTypes
           DEF Lasting, Outlives, NoLater
      <4> QED
        BY <2>2, <3>1, <3>3, <4>2, <4>5
    <3>5. CASE ~flight.stored
      <4>1. obj'.last = obj.last
        BY <2>1, <3>1, <3>2, <3>5 DEF FlightInTime
      <4>2. /\ \/ checked' = checked
               \/ checked' - obj.last <= renewalThreshold(flight.before.interval)
            /\ \A k \in InUse : Outlives(k, obj.last + renewalThreshold(flight.before.interval))
        BY <2>1, <2>3, <3>1, <3>5 DEF FlightInTime
      <4>3. ASSUME NEW k \in InUse PROVE Lasting(k)'
        <5>1. Lasting(k) /\ k \in Keys /\ secret[k].expiry \in Nat /\ checked' \in Nat
          BY <1>0, <2>1, <2>3, <3>1, <4>3, InTimeTypes DEF Lasting, Outlives
        <5>2. Outlives(k, checked)'
          BY <1>0, <2>1, <2>4, <4>2, <5>1, InTimeTypes DEF Lasting, Outlives
        <5> QED
          BY <2>2, <2>4, <4>1, <5>1, <5>2 DEF Lasting, Outlives
      <4> QED
        BY <2>2, <3>1, <3>3, <4>3
    <3> QED
      BY <3>4, <3>5
  <2> QED
    BY <1>0, <2>4, <2>5, <2>6 DEF InTimeInv, FlightInTime
<1>7. CASE TokenLost \/ PatchObjectFails
  <2>1. disturbed' /\ UNCHANGED <<checked, now>>
    BY <1>7 DEF TokenLost, PatchObjectFails
  <2>2. ASSUME flight' # NoFlight
        PROVE  flight # NoFlight /\ flight'.looked = flight.looked
    <3>1. CASE TokenLost
      <4>1. flight # NoFlight /\ flight \in Flight /\ flight.left # 0
              /\ flight.after.interval \in Nat
        BY <1>0, <1>a, <3>1, InTimeTypes DEF TokenLost, At, LoopOpen
      <4>2. PICK l \in Lifetimes : flight' = NextContext(Adjusted(flight, l))
        BY <3>1 DEF TokenLost, SecretWriteFails
      <4>3. adjustTokenRequestRenewalOption(flight.after.interval, l) \in Nat
        BY <4>1, IntervalTypes
      <4>4. /\ Adjusted(flight, l) \in Flight /\ Adjusted(flight, l).left # 0
            /\ Adjusted(flight, l).looked = flight.looked
        BY <4>1, <4>3, AdjustedFields DEF Flight, Object
      <4> QED
        BY <4>1, <4>2, <4>4, NextContextFields
    <3>2. CASE PatchObjectFails
      <4>1. flight # NoFlight /\ flight \in Flight
        BY <1>0, <3>2, InTimeTypes DEF PatchObjectFails, At
      <4> QED
        BY <3>2, <4>1 DEF PatchObjectFails, Flight
    <3> QED
      BY <1>7, <3>1, <3>2
  <2> QED
    BY <1>0, <2>1, <2>2 DEF InTimeInv
<1>8. CASE ProbeFails \/ PatchStatusFails \/ Restart
  <2>1. flight' = NoFlight /\ UNCHANGED <<obj, secret, checked, now, disturbed>>
    BY <1>8 DEF ProbeFails, PatchStatusFails, Restart
  <2> QED
    BY <1>0, <2>1 DEF InTimeInv, InUse, Lasting, Outlives, FlightInTime
<1>9. CASE Tick
  <2>1. now < checked + Slack /\ now' = now + 1 /\ UNCHANGED <<obj, secret, flight, checked, disturbed>>
    BY <1>9 DEF Tick
  <2>2. /\ checked' <= now' /\ now' <= checked' + Slack
        /\ flight' # NoFlight => checked' <= flight'.looked /\ flight'.looked <= now'
    BY <1>0, <2>1, InTimeTypes DEF InTimeInv
  <2>3. FlightInTime <=> FlightInTime'
    BY <2>1 DEF FlightInTime, NoLater, InUse, Outlives
  <2> QED
    BY <1>0, <2>1, <2>2, <2>3 DEF InTimeInv, InUse, Lasting, Outlives
<1>10. CASE EditInterval
  <2>1. PICK i \in Intervals :
          /\ obj' = [obj EXCEPT !.interval = i]
          /\ disturbed' = (disturbed \/ renewalThreshold(i) > renewalThreshold(obj.interval))
    BY <1>10 DEF EditInterval
  <2>2. /\ obj'.interval = i /\ obj'.key = obj.key /\ obj'.last = obj.last
        /\ UNCHANGED <<secret, flight, checked, now>>
    BY <1>0, <1>10, <2>1, InTimeTypes DEF EditInterval, Object
  <2>3. InUse' = InUse
    BY <2>2 DEF InUse
  <2>4. ASSUME ~disturbed'
        PROVE  Reaches(obj'.interval) /\ (\A k \in InUse' : Lasting(k)') /\ FlightInTime'
    <3>1. Reaches(obj.interval) /\ (\A k \in InUse : Lasting(k)) /\ FlightInTime
      BY <2>1, <2>4 DEF InTimeInv
    <3>2. i \in Nat /\ renewalThreshold(i) \in Nat /\ Reaches(i)
      BY DEF Adequate, renewalThreshold
    <3>3. NoLater(i, obj.interval)
      <4>1. ~(renewalThreshold(i) > renewalThreshold(obj.interval))
        BY <2>1, <2>4, Zenon
      <4> QED
        BY <1>0, <3>2, <4>1, InTimeTypes DEF NoLater
    <3>4. ASSUME NEW k \in InUse PROVE Lasting(k)'
      <4>1. Lasting(k) /\ k \in Keys /\ secret[k].expiry \in Nat
        BY <1>0, <3>1, <3>4, InTimeTypes DEF Lasting, Outlives
      <4> QED
        BY <1>0, <2>2, <3>2, <3>3, <4>1, InTimeTypes DEF Lasting, Outlives, NoLater
    <3>5. ASSUME flight # NoFlight, NEW j \in Nat, NoLater(obj.interval, j)
          PROVE  NoLater(i, j)
      <4>1. renewalThreshold(j) \in Nat
        BY DEF renewalThreshold
      <4> QED
        BY <1>0, <3>2, <3>3, <3>5, <4>1, InTimeTypes DEF NoLater
    <3>6. FlightInTime'
      BY <1>0, <2>2, <2>3, <3>1, <3>5, InTimeTypes DEF FlightInTime, Outlives, NoLater
    <3> QED
      BY <2>2, <2>3, <3>2, <3>4, <3>6
  <2> QED
    BY <1>0, <2>2, <2>4 DEF InTimeInv
<1>11. CASE UNCHANGED vars
  <2>1. FlightInTime <=> FlightInTime'
    BY <1>11 DEF vars, FlightInTime, NoLater, InUse, Outlives
  <2> QED
    BY <1>0, <1>11, <2>1 DEF vars, InTimeInv, InUse, Lasting, Outlives
<1> QED
  BY <1>1, <1>2, <1>3, <1>4, <1>5, <1>6, <1>7, <1>8, <1>9, <1>10, <1>11 DEF Next

(* The credential is renewed before it expires, for every interval, every  *)
(* lifetime granted and every gap between reconciles below ten minutes,    *)
(* across failing probes, refused tokens, failed status patches and        *)
(* restarts, as long as renewed tokens and intervals can be stored and     *)
(* users do not postpone the renewal.                                      *)
THEOREM RenewedInTime == Adequate => (Spec => []UndisturbedInTime)
<1> SUFFICES ASSUME Adequate PROVE Spec => []UndisturbedInTime
  OBVIOUS
<1>1. Init => InTimeInv
  BY InitInTime
<1>2. InTimeInv /\ [Next]_vars => InTimeInv'
  BY StepInTime
<1>3. InTimeInv => UndisturbedInTime
  <2> SUFFICES ASSUME InTimeInv, ~disturbed, NEW k \in InUse PROVE secret[k].expiry > now
    BY DEF UndisturbedInTime, RenewedBeforeExpiry
  <2>1. Lasting(k) /\ StoreInv /\ now <= checked + Slack
    BY DEF InTimeInv
  <2>2. k \in Keys /\ secret[k].expiry \in Nat
    BY <2>1, InTimeTypes DEF Lasting, Outlives
  <2> QED
    BY <2>1, <2>2, InTimeTypes, RenewalAssumption, TimingAssumption
       DEF Lasting, Outlives, RenewalAssumption, TimingAssumption
<1> QED
  BY <1>1, <1>2, <1>3, PTL DEF Spec
===============================================================================
