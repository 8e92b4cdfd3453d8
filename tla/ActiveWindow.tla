----------------------------- MODULE ActiveWindow -----------------------------
(***************************************************************************)
(* The active window of a SveltosCluster: handleAutomaticPauseUnPause, run *)
(* at the end of every normal reconcile, keeps Spec.Paused true outside    *)
(* the window, by means of three status fields: NextUnpause, NextPause and *)
(* ActiveWindowHash.  Users edit or remove the window, and set Paused      *)
(* themselves, while reconciles, which took their snapshot from the        *)
(* informer cache and the time earlier, are in flight.                     *)
(*                                                                         *)
(* Time.  A cron schedule is the set of integers at which it fires.  Clock *)
(* value n stands for an instant strictly between n and n + 1: a reconcile *)
(* never reads the clock at the very nanosecond at which a schedule fires, *)
(* so After(t) is n >= t and Before(t) is n < t.                           *)
(*                                                                         *)
(* The patches of spec and status land in one step, or only one does: they *)
(* change different fields, and what a reconcile decides does not depend   *)
(* on the Paused of its snapshot.                                          *)
(***************************************************************************)
EXTENDS Integers, FiniteSets, Scope

CONSTANTS
    Activations,  \* the schedules that parse, each with the times it fires
    Windows,      \* the windows users set: pairs of a from and a to schedule
    NoWindow,     \* Spec.ActiveWindow = nil
    NoTime,       \* NextUnpause or NextPause = nil
    NoFlight,     \* no reconcile is in flight
    MaxMissed,    \* maxNumberOfFailures of getNextScheduleTime
    StaleCache,   \* TRUE: reconciles may start from an outdated version
    MaxTime,      \* bound on the clock
    MaxEdits,     \* bound on the users' edits
    MaxFaults     \* bound on failed patches

Schedules == DOMAIN Activations

ASSUME WindowAssumption ==
    /\ \A s \in Schedules : Activations[s] \subseteq Nat
    /\ NoWindow \notin Windows
    /\ NoTime \notin Nat
    /\ MaxMissed \in Nat /\ StaleCache \in BOOLEAN
    /\ {MaxTime, MaxEdits, MaxFaults} \subseteq Nat

(* a is the first time after n at which s fires.                           *)
IsNext(s, n, a) ==
    a \in Activations[s] /\ a > n /\ \A b \in Activations[s] : b > n => a <= b

(* Every schedule that parses fires again after every instant.             *)
ASSUME FiresAgain ==
    \A s \in Schedules : \A n \in 0..MaxTime : \E a \in Activations[s] : IsNext(s, n, a)

(* The three status fields; the hash is modelled as the window it is of.   *)
Times == Nat \cup {NoTime}
StatusSet == [nextUnpause : Times, nextPause : Times, hash : Windows \cup {NoWindow}]

(* A version of the object.  mixed is history: its times may have been     *)
(* computed for another window than the one of its hash.                   *)
VersionSet == [window : Windows \cup {NoWindow}, paused : BOOLEAN, status : StatusSet,
               mixed : BOOLEAN]

(* What a reconcile in flight remembers: its time and its snapshot.        *)
FlightSet == [n : 0..MaxTime, before : VersionSet]

ASSUME NoFlightAssumption == NoFlight \notin FlightSet

VARIABLES
    obj,        \* the object: window, Paused, times and the window the hash is of
    cache,      \* the version in the manager's cache
    flight,     \* the reconcile in flight: its snapshot and its time, or none
    settled,    \* a reconcile of the current window and time has been persisted
    disturbed,  \* history: time passed without a reconcile, one started from an
                \* outdated window or status, or a time could not be computed
    setOpen,    \* history: users set a window that was open at that moment
    now,        \* the clock; the cluster was created at 0
    edits,      \* users' edits so far
    faults      \* failed patches so far

vars == <<obj, cache, flight, settled, disturbed, setOpen, now, edits, faults>>

(* w is open at n: its last opening has not been followed by a closing.    *)
InWindow(w, n) ==
    /\ w.from \in Schedules /\ w.to \in Schedules
    /\ \E u \in Activations[w.from] :
          u <= n /\ \A p \in Activations[w.to] : p < u \/ n < p

(* Seeded fault: the times are reset to the zero time instead of nil.      *)
NoTimes_Zero(st) == [st EXCEPT !.nextUnpause = -1, !.nextPause = -1]

(* NextUnpause = nil, NextPause = nil.                                     *)
NoTimes(st) == [st EXCEPT !.nextUnpause = NoTime, !.nextPause = NoTime]

Init ==
    /\ obj \in [window : Windows \cup {NoWindow}, paused : BOOLEAN, mixed : {FALSE},
                status : {[nextUnpause |-> NoTime, nextPause |-> NoTime, hash |-> NoWindow]}]
    /\ cache = obj
    /\ flight = NoFlight
    /\ settled = FALSE /\ disturbed = FALSE
    /\ setOpen = (obj.window # NoWindow /\ InWindow(obj.window, 0))
    /\ now = 0 /\ edits = 0 /\ faults = 0

(***************************************************************************)
(* Computing the times.                                                    *)
(***************************************************************************)

(* getNextScheduleTime fails on a schedule that does not parse, and when   *)
(* it counts more than MaxMissed firings between last and n.               *)
Missed(s, last, n) == {a \in Activations[s] : last < a /\ a <= n}
ScheduleFails(s, last, n) ==
    s \in Schedules => Cardinality(Missed(s, last, n)) > MaxMissed
getNextScheduleTime(s, n) == CHOOSE a \in Activations[s] : IsNext(s, n, a)

(* recalculateNextUnpause, recalculateNextPause: a stored time is replaced *)
(* once it has passed; the firings missed are counted from it, or from the *)
(* creation of the cluster.                                                *)
Passed(t, n) == t # NoTime => n >= t
LastRun(t) == IF t = NoTime THEN 0 ELSE t
recalculateFails(t, s, n) == Passed(t, n) /\ ScheduleFails(s, LastRun(t), n)

(* Seeded fault: a time once computed is kept after it has passed.         *)
recalculate_OnlyIfNil(t, s, n) == IF t = NoTime THEN getNextScheduleTime(s, n) ELSE t

recalculate(t, s, n) == IF Passed(t, n) THEN getNextScheduleTime(s, n) ELSE t

(* Both times, in order; the first failure ends the calculation, and the   *)
(* hash is stored only when both succeeded.                                *)
Recalculated(w, st, n) ==
    IF recalculateFails(st.nextUnpause, w.from, n) THEN st
    ELSE LET u == recalculate(st.nextUnpause, w.from, n)
         IN  IF recalculateFails(st.nextPause, w.to, n)
             THEN [st EXCEPT !.nextUnpause = u]
             ELSE [nextUnpause |-> u, hash |-> w,
                   nextPause |-> recalculate(st.nextPause, w.to, n)]

(***************************************************************************)
(* handleAutomaticPauseUnPause on window w, status st, at n.               *)
(***************************************************************************)

(* Seeded fault: a changed window is noted, but keeps the old one's times. *)
Current_Kept(w, st) == [st EXCEPT !.hash = w]

(* A window that is not the one the hash is of starts without times.       *)
Current(w, st) == IF st.hash = w THEN st ELSE NoTimes(st)

HasTimes(st) == st.nextUnpause # NoTime /\ st.nextPause # NoTime

(* Seeded fault: the end of the window is not looked at.                   *)
Open_NoEnd(st, n) == HasTimes(st) /\ n >= st.nextUnpause

Open(st, n) == HasTimes(st) /\ n >= st.nextUnpause /\ n < st.nextPause
NotYet(st, n) == HasTimes(st) /\ n < st.nextUnpause

(* Neither branch that returns early is taken.                             *)
Recalculates(w, st, n) == w # NoWindow /\ ~Open(st, n) /\ ~NotYet(st, n)

PausedAfter(w, p, st, n) == IF w = NoWindow THEN p ELSE ~Open(Current(w, st), n)
StatusAfter(w, st, n) ==
    LET cur == Current(w, st)
    IN  IF w = NoWindow THEN NoTimes(st)
        ELSE IF Recalculates(w, cur, n) THEN Recalculated(w, cur, n)
        ELSE cur

(* One of the times could not be computed.                                 *)
CalculationFails(w, st, n) ==
    LET cur == Current(w, st)
    IN  /\ Recalculates(w, cur, n)
        /\ \/ recalculateFails(cur.nextUnpause, w.from, n)
           \/ recalculateFails(cur.nextPause, w.to, n)

(***************************************************************************)
(* The steps of a reconcile.                                               *)
(***************************************************************************)

(* The watch brings the cache up to date; several writes may arrive as one.*)
Deliver ==
    /\ cache # obj
    /\ cache' = obj
    /\ UNCHANGED <<obj, flight, settled, disturbed, setOpen, now, edits, faults>>

(* The snapshot, and the time: the argument of the deferred call is        *)
(* evaluated when reconcileNormal defers it, before the probes.            *)
Begin ==
    /\ flight = NoFlight
    /\ StaleCache \/ cache = obj
    /\ flight' = [n |-> now, before |-> cache]
    /\ disturbed' = (disturbed \/ cache.window # obj.window \/ cache.status # obj.status)
    /\ UNCHANGED <<obj, cache, settled, setOpen, now, edits, faults>>

Before == flight.before
NewPaused == PausedAfter(Before.window, Before.paused, Before.status, flight.n)
NewStatus == StatusAfter(Before.window, Before.status, flight.n)

(* Scope.Close sends what differs from the snapshot, field by field.       *)
MergedPaused == Merge(obj.paused, Before.paused, NewPaused)
MergedStatus(new) ==
    [nextUnpause |-> Merge(obj.status.nextUnpause, Before.status.nextUnpause, new.nextUnpause),
     nextPause   |-> Merge(obj.status.nextPause, Before.status.nextPause, new.nextPause),
     hash        |-> Merge(obj.status.hash, Before.status.hash, new.hash)]

(* The two ways in which times end up next to the hash of another window:  *)
(* NextUnpause is stored alone, with the hash of an earlier window, or the *)
(* difference to an outdated status is merged into the current one.  What  *)
(* is mixed stays so until both times have been replaced or dropped.       *)
StoresHalf(new) ==
    Before.window # NoWindow /\ new.hash # Before.window /\ new.nextUnpause # NoTime
Carries(new) ==
    \/ new.nextUnpause # NoTime /\ new.nextUnpause = Before.status.nextUnpause
    \/ new.nextPause # NoTime /\ new.nextPause = Before.status.nextPause
MixedAfter(new) ==
    IF new = Before.status THEN obj.mixed
    ELSE Before.status # obj.status \/ StoresHalf(new) \/ (Before.mixed /\ Carries(new))

(* What the two patches leave of o.                                        *)
PatchPaused(o) == [o EXCEPT !.paused = MergedPaused]
PatchStatus(o) == LET new == NewStatus
                  IN  [o EXCEPT !.status = MergedStatus(new), !.mixed = MixedAfter(new)]
Failing == CalculationFails(Before.window, Before.status, flight.n)

(* Scope.Close persists Spec.Paused, then the status.                      *)
End ==
    /\ flight # NoFlight /\ flight' = NoFlight
    /\ obj' = PatchStatus(PatchPaused(obj))
    /\ settled' = (flight.n = now /\ Before.window = obj.window)
    /\ disturbed' = (disturbed \/ Failing)
    /\ UNCHANGED <<cache, setOpen, now, edits, faults>>

(* One of the two patches fails, or both; the reconcile is tried again.    *)
EndFails ==
    /\ flight # NoFlight /\ flight' = NoFlight
    /\ faults < MaxFaults
    /\ faults' = faults + 1
    /\ \/ obj' = PatchPaused(obj) /\ disturbed' = disturbed
       \/ obj' = PatchStatus(obj) /\ disturbed' = (disturbed \/ Failing)
       \/ obj' = obj /\ disturbed' = disturbed
    /\ UNCHANGED <<cache, settled, setOpen, now, edits>>

EditWindow ==
    /\ edits < MaxEdits
    /\ \E w \in (Windows \cup {NoWindow}) \ {obj.window} :
          /\ obj' = [obj EXCEPT !.window = w]
          /\ setOpen' = (setOpen \/ (w # NoWindow /\ InWindow(w, now)))
    /\ edits' = edits + 1
    /\ settled' = FALSE
    /\ UNCHANGED <<cache, flight, disturbed, now, faults>>

(* Users pause or unpause the cluster themselves.                          *)
EditPaused ==
    /\ edits < MaxEdits
    /\ obj' = [obj EXCEPT !.paused = ~@]
    /\ edits' = edits + 1
    /\ UNCHANGED <<cache, flight, settled, disturbed, setOpen, now, faults>>

Tick ==
    /\ now < MaxTime
    /\ now' = now + 1
    /\ settled' = FALSE
    /\ disturbed' = (disturbed \/ ~settled)
    /\ UNCHANGED <<obj, cache, flight, setOpen, edits, faults>>

Next == Deliver \/ Begin \/ End \/ EndFails \/ EditWindow \/ EditPaused \/ Tick

Spec == Init /\ [][Next]_vars

(***************************************************************************)
(* Properties.                                                             *)
(***************************************************************************)
(* Type invariant.                                                         *)
TypeOK ==
    /\ {obj, cache} \subseteq VersionSet
    /\ flight \in FlightSet \cup {NoFlight}
    /\ {settled, disturbed, setOpen} \subseteq BOOLEAN
    /\ now \in 0..MaxTime /\ edits \in Nat /\ faults \in Nat

(* The times of st are firings of the schedules of the window its hash is  *)
(* of, and no closing lies between them.                                   *)
Certified(st) ==
    st.hash # NoWindow =>
        /\ st.nextUnpause # NoTime =>
              st.hash.from \in Schedules /\ st.nextUnpause \in Activations[st.hash.from]
        /\ st.nextPause # NoTime =>
              st.hash.to \in Schedules /\ st.nextPause \in Activations[st.hash.to]
        /\ HasTimes(st) => \A p \in Activations[st.hash.to] :
                              p < st.nextUnpause \/ p >= st.nextPause

(* "Hash mismatch (ActiveWindow change) forces recalculation of            *)
(* NextPause/NextUnpause": whatever edits, failed calculations, failed     *)
(* patches and outdated snapshots come in between, the stored times belong *)
(* to the window whose hash is stored next to them, except while they are  *)
(* mixed: from a NextUnpause stored alone with an earlier window's hash,   *)
(* or a patch relative to an outdated status, until both are replaced.     *)
HashCertifiesTimes == ~obj.mixed => Certified(obj.status)

(* Nobody has changed Paused since the snapshot of the reconcile in flight.*)
PausedUntouched == obj.paused = Before.paused

(* A reconcile that persisted its result left the cluster unpaused only if *)
(* the window it looked at was open when it looked                         *)
(* (handleAutomaticPauseUnPause), except when the times it found were      *)
(* mixed, or somebody changed Paused meanwhile: the patch then leaves      *)
(* Paused as it is.                                                        *)
ClosedOutsideWindow ==
    [][End /\ Before.window # NoWindow /\ ~Before.mixed /\ PausedUntouched /\ ~obj'.paused
         => InWindow(Before.window, flight.n)]_vars

(* A reconcile inside the window, past the NextUnpause stored for it.      *)
OpeningDue ==
    /\ Before.window # NoWindow
    /\ Before.status.hash = Before.window
    /\ Before.status.nextUnpause # NoTime
    /\ flight.n >= Before.status.nextUnpause
    /\ InWindow(Before.window, flight.n)

(* "when time is past unpause but before pause, Paused will be set to      *)
(* false": as long as nothing disturbs the reconciles, one inside the      *)
(* window and past its NextUnpause leaves the cluster unpaused.            *)
OpensOnTime == [][End /\ OpeningDue /\ PausedUntouched /\ ~disturbed => ~obj'.paused]_vars

(* The same for windows set while they are closed, whatever edits and      *)
(* failed patches come in between: none of their openings is skipped       *)
(* (handleAutomaticPauseUnPause, recalculateNextUnpause).  It is stated of *)
(* windows that, once closed, open before they close again.                *)
ClosedWhenSetOpens ==
    [][End /\ OpeningDue /\ PausedUntouched /\ ~disturbed /\ ~setOpen => ~obj'.paused]_vars
===============================================================================
