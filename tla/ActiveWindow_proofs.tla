-------------------------- MODULE ActiveWindow_proofs --------------------------
(***************************************************************************)
(* Proofs about ActiveWindow, for all schedules and windows, also such as  *)
(* do not parse or have missed too many firings, and any lag of the cache: *)
(* stored times that are not mixed belong to the window whose hash is      *)
(* stored with them, no reconcile of such times leaves the cluster         *)
(* unpaused outside its window, and one that keeps up misses no opening.   *)
(***************************************************************************)
EXTENDS ActiveWindow, TLAPS

(* A status holds both times or none.                                      *)
Paired(st) == HasTimes(st) \/ (st.nextUnpause = NoTime /\ st.nextPause = NoTime)

(* A certified status has no pause without an unpause.                     *)
Sound(st) == Certified(st) /\ (st.nextPause # NoTime => st.nextUnpause # NoTime)
SoundVersion(v) == ~v.mixed => Sound(v.status)

(* The inductive invariant: every version in use is sound unless mixed.    *)
WindowInv ==
    /\ TypeOK
    /\ SoundVersion(obj) /\ SoundVersion(cache)
    /\ flight # NoFlight => SoundVersion(Before)

(***************************************************************************)
(* The operators.                                                          *)
(***************************************************************************)

(* The time computed is the schedule's first firing after n.               *)
LEMMA NextIsNext ==
    ASSUME NEW s \in Schedules, NEW n \in 0..MaxTime
    PROVE  IsNext(s, n, getNextScheduleTime(s, n)) /\ getNextScheduleTime(s, n) \in Nat
<1>1. \E a \in Activations[s] : IsNext(s, n, a)
  BY FiresAgain DEF FiresAgain
<1>2. IsNext(s, n, getNextScheduleTime(s, n))
  BY <1>1 DEF getNextScheduleTime
<1>3. Activations[s] \subseteq Nat
  BY WindowAssumption DEF WindowAssumption
<1> QED
  BY <1>2, <1>3 DEF IsNext

(* What is computed lies after n, so it differs from what it replaces.     *)
LEMMA RecalculateNext ==
    ASSUME NEW t \in Times, NEW s, NEW n \in 0..MaxTime, ~recalculateFails(t, s, n)
    PROVE  LET r == recalculate(t, s, n)
           IN  /\ r \in Nat
               /\ r = t \/ (Passed(t, n) /\ s \in Schedules /\ IsNext(s, n, r) /\ r # t)
               /\ r = t => n < t
<1>1. CASE Passed(t, n)
  <2>1. s \in Schedules
    BY <1>1 DEF recalculateFails, ScheduleFails
  <2>2. recalculate(t, s, n) = getNextScheduleTime(s, n)
    BY <1>1 DEF recalculate
  <2>3. IsNext(s, n, recalculate(t, s, n)) /\ recalculate(t, s, n) \in Nat
    BY <2>1, <2>2, NextIsNext
  <2>4. recalculate(t, s, n) > n
    BY <2>3 DEF IsNext
  <2>5. recalculate(t, s, n) # t
    BY <1>1, <2>3, <2>4, WindowAssumption DEF Passed, Times, WindowAssumption
  <2> QED
    BY <1>1, <2>1, <2>3, <2>5
<1>2. CASE ~Passed(t, n)
  BY <1>2 DEF recalculate, Passed, Times
<1> QED
  BY <1>1, <1>2

(* Dropping the times keeps a status sound.                                *)
LEMMA NoTimesSound ==
    ASSUME NEW st \in StatusSet
    PROVE  /\ NoTimes(st) \in StatusSet /\ Sound(NoTimes(st)) /\ ~HasTimes(NoTimes(st))
           /\ NoTimes(st).nextUnpause = NoTime /\ NoTimes(st).nextPause = NoTime
           /\ NoTimes(st).hash = st.hash
BY DEF NoTimes, StatusSet, Times, Sound, Certified, HasTimes

(* The current window's times are those found, or none.                    *)
LEMMA CurrentCases ==
    ASSUME NEW w, NEW st \in StatusSet
    PROVE  /\ Current(w, st) \in StatusSet
           /\ \/ st.hash = w /\ Current(w, st) = st
              \/ st.hash # w /\ Current(w, st) = NoTimes(st)
BY NoTimesSound DEF Current

(* A recalculation ends in one of three ways.                              *)
LEMMA RecalculatedCases ==
    ASSUME NEW w \in Windows, NEW st \in StatusSet, NEW n \in 0..MaxTime,
           NEW r, r = Recalculated(w, st, n)
    PROVE  /\ r \in StatusSet
           /\ \/ r = st
              \/ /\ r.hash = st.hash /\ r.nextPause = st.nextPause
                 /\ r.nextUnpause = recalculate(st.nextUnpause, w.from, n)
                 /\ ~recalculateFails(st.nextUnpause, w.from, n)
                 /\ recalculateFails(st.nextPause, w.to, n)
              \/ /\ r.hash = w
                 /\ r.nextUnpause = recalculate(st.nextUnpause, w.from, n)
                 /\ r.nextPause = recalculate(st.nextPause, w.to, n)
                 /\ ~recalculateFails(st.nextUnpause, w.from, n)
                 /\ ~recalculateFails(st.nextPause, w.to, n)
<1>0. st.nextUnpause \in Times /\ st.nextPause \in Times
  BY DEF StatusSet
<1>1. CASE recalculateFails(st.nextUnpause, w.from, n)
  BY <1>1 DEF Recalculated
<1>2. CASE ~recalculateFails(st.nextUnpause, w.from, n)
  <2>1. recalculate(st.nextUnpause, w.from, n) \in Times
    BY <1>0, <1>2, RecalculateNext DEF Times
  <2>2. CASE recalculateFails(st.nextPause, w.to, n)
    BY <1>2, <2>1, <2>2 DEF Recalculated, StatusSet
  <2>3. CASE ~recalculateFails(st.nextPause, w.to, n)
    <3>1. recalculate(st.nextPause, w.to, n) \in Times
      BY <1>0, <2>3, RecalculateNext DEF Times
    <3> QED
      BY <1>2, <2>1, <2>3, <3>1 DEF Recalculated, StatusSet
  <2> QED
    BY <2>2, <2>3
<1> QED
  BY <1>1, <1>2

(* What a reconcile stores has its type.                                   *)
LEMMA StatusAfterType ==
    ASSUME NEW w \in Windows \cup {NoWindow}, NEW st \in StatusSet, NEW n \in 0..MaxTime
    PROVE  StatusAfter(w, st, n) \in StatusSet
<1>1. NoTimes(st) \in StatusSet /\ Current(w, st) \in StatusSet
  BY NoTimesSound, CurrentCases
<1>2. w \in Windows => Recalculated(w, Current(w, st), n) \in StatusSet
  BY <1>1, RecalculatedCases
<1> QED
  BY <1>1, <1>2 DEF StatusAfter, Recalculates

(* No closing lies between an unpause and a pause that are both the next   *)
(* ones, or an unpause ahead and a pause that is the next one or passed.   *)
LEMMA NothingBetween ==
    ASSUME NEW w, w.to \in Schedules, NEW n \in 0..MaxTime, NEW u \in Nat, u > n,
           NEW p \in Nat, p <= n \/ IsNext(w.to, n, p)
    PROVE  \A q \in Activations[w.to] : q < u \/ q >= p
<1>1. Activations[w.to] \subseteq Nat
  BY WindowAssumption DEF WindowAssumption
<1> QED
  BY <1>1 DEF IsNext

(* Times all of which are new are sound when the hash is of their window.  *)
LEMMA NewTimesSound ==
    ASSUME NEW w \in Windows, NEW n \in 0..MaxTime, NEW r \in StatusSet, r.hash = w,
           w.from \in Schedules, IsNext(w.from, n, r.nextUnpause),
           r.nextPause = NoTime \/ (w.to \in Schedules /\ IsNext(w.to, n, r.nextPause))
    PROVE  Sound(r)
<1>1. r.nextUnpause \in Nat /\ r.nextUnpause \in Activations[w.from] /\ r.nextUnpause > n
  BY WindowAssumption DEF WindowAssumption, IsNext
<1>2. r.nextUnpause # NoTime
  BY <1>1, WindowAssumption DEF WindowAssumption
<1>3. CASE r.nextPause = NoTime
  BY <1>1, <1>2, <1>3 DEF Sound, Certified, HasTimes
<1>4. CASE w.to \in Schedules /\ IsNext(w.to, n, r.nextPause)
  <2>1. r.nextPause \in Nat /\ r.nextPause \in Activations[w.to]
    BY <1>4, WindowAssumption DEF WindowAssumption, IsNext
  <2>2. \A q \in Activations[w.to] : q < r.nextUnpause \/ q >= r.nextPause
    BY <1>1, <1>4, <2>1, NothingBetween
  <2> QED
    BY <1>1, <1>2, <1>4, <2>1, <2>2 DEF Sound, Certified
<1> QED
  BY <1>3, <1>4

(* A recalculation of sound times of w, some of which may be missing,      *)
(* leaves sound ones.                                                      *)
LEMMA RecalculatedSound ==
    ASSUME NEW w \in Windows, NEW st \in StatusSet, NEW n \in 0..MaxTime,
           Sound(st), st.hash = w, Recalculates(w, st, n)
    PROVE  Sound(Recalculated(w, st, n))
<1> DEFINE r == Recalculated(w, st, n)
<1>0. /\ st.nextUnpause \in Times /\ st.nextPause \in Times /\ w # NoWindow
      /\ n \in Nat /\ NoTime \notin Nat
  BY WindowAssumption DEF StatusSet, WindowAssumption
<1>1. r \in StatusSet
  BY RecalculatedCases
<1>2. /\ st.nextUnpause # NoTime =>
            w.from \in Schedules /\ st.nextUnpause \in Activations[w.from]
      /\ st.nextPause # NoTime =>
            /\ w.to \in Schedules /\ st.nextPause \in Activations[w.to]
            /\ st.nextUnpause # NoTime /\ n >= st.nextPause /\ n >= st.nextUnpause
  BY <1>0 DEF Sound, Certified, Recalculates, Open, NotYet, HasTimes, Times
<1>3. CASE r = st
  BY <1>3
<1>4. CASE /\ r.hash = st.hash /\ r.nextPause = st.nextPause
           /\ r.nextUnpause = recalculate(st.nextUnpause, w.from, n)
           /\ ~recalculateFails(st.nextUnpause, w.from, n)
  <2>1. PICK u : u = r.nextUnpause
    OBVIOUS
  <2>2. /\ u \in Nat
        /\ u = st.nextUnpause \/ (w.from \in Schedules /\ IsNext(w.from, n, u))
        /\ u = st.nextUnpause => n < u
    BY <1>0, <1>4, <2>1, RecalculateNext
  <2>3. w.from \in Schedules /\ u \in Activations[w.from] /\ u > n /\ u # NoTime
    BY <1>0, <1>2, <2>2 DEF IsNext
  <2>4. CASE st.nextPause = NoTime
    BY <1>4, <2>1, <2>3, <2>4 DEF Sound, Certified, HasTimes
  <2>5. CASE st.nextPause # NoTime
    <3>1. st.nextPause \in Nat /\ st.nextPause <= n /\ w.to \in Schedules
      BY <1>0, <1>2, <2>5 DEF Times
    <3>2. \A q \in Activations[w.to] : q < u \/ q >= st.nextPause
      BY <2>2, <2>3, <3>1, NothingBetween
    <3> QED
      BY <1>2, <1>4, <2>1, <2>3, <3>1, <3>2 DEF Sound, Certified
  <2> QED
    BY <2>4, <2>5
<1>5. CASE /\ r.hash = w
           /\ r.nextUnpause = recalculate(st.nextUnpause, w.from, n)
           /\ r.nextPause = recalculate(st.nextPause, w.to, n)
           /\ ~recalculateFails(st.nextUnpause, w.from, n)
           /\ ~recalculateFails(st.nextPause, w.to, n)
  <2>1. PICK u, p : u = r.nextUnpause /\ p = r.nextPause
    OBVIOUS
  <2>2. /\ u \in Nat
        /\ u = st.nextUnpause \/ (w.from \in Schedules /\ IsNext(w.from, n, u))
        /\ u = st.nextUnpause => n < u
    BY <1>0, <1>5, <2>1, RecalculateNext
  <2>3. /\ p \in Nat
        /\ p = st.nextPause \/ (w.to \in Schedules /\ IsNext(w.to, n, p))
        /\ p = st.nextPause => n < p
    BY <1>0, <1>5, <2>1, RecalculateNext
  <2>4. w.from \in Schedules /\ u \in Activations[w.from] /\ u > n /\ u # NoTime
    BY <1>0, <1>2, <2>2 DEF IsNext
  <2>5. w.to \in Schedules /\ IsNext(w.to, n, p) /\ p \in Activations[w.to] /\ p # NoTime
    BY <1>0, <1>2, <2>3 DEF IsNext
  <2>6. \A q \in Activations[w.to] : q < u \/ q >= p
    BY <2>2, <2>3, <2>4, <2>5, NothingBetween
  <2> QED
    BY <1>5, <2>1, <2>4, <2>5, <2>6 DEF Sound, Certified
<1> QED
  BY <1>3, <1>4, <1>5, RecalculatedCases

(***************************************************************************)
(* What a reconcile stores.                                                *)
(***************************************************************************)

(* A reconcile in flight has its types.                                    *)
LEMMA InFlight ==
    ASSUME TypeOK, flight # NoFlight
    PROVE  /\ Before \in VersionSet /\ flight.n \in 0..MaxTime
           /\ Before.window \in Windows \cup {NoWindow} /\ Before.paused \in BOOLEAN
           /\ Before.status \in StatusSet /\ Before.mixed \in BOOLEAN
           /\ NewStatus \in StatusSet /\ NewPaused \in BOOLEAN
<1>1. Before \in VersionSet /\ flight.n \in 0..MaxTime
  BY DEF TypeOK, FlightSet, Before
<1>2. /\ Before.window \in Windows \cup {NoWindow} /\ Before.paused \in BOOLEAN
      /\ Before.status \in StatusSet /\ Before.mixed \in BOOLEAN
  BY <1>1 DEF VersionSet
<1>3. NewStatus \in StatusSet
  BY <1>1, <1>2, StatusAfterType DEF NewStatus
<1>4. NewPaused \in BOOLEAN
  BY <1>2 DEF NewPaused, PausedAfter
<1> QED
  BY <1>1, <1>2, <1>3, <1>4

(* Sound times give sound times, unless NextUnpause is stored alone with   *)
(* the hash of another window.                                             *)
LEMMA SoundStaysSound ==
    ASSUME TypeOK, flight # NoFlight, Sound(Before.status), ~StoresHalf(NewStatus)
    PROVE  Sound(NewStatus)
<1> DEFINE w == Before.window
<1> DEFINE n == flight.n
<1> DEFINE cur == Current(w, Before.status)
<1>1. w \in Windows \cup {NoWindow} /\ Before.status \in StatusSet /\ n \in 0..MaxTime
  BY InFlight
<1>2. cur \in StatusSet /\ cur.nextUnpause \in Times /\ cur.nextPause \in Times
  BY <1>1, CurrentCases DEF StatusSet
<1>3. \/ Before.status.hash = w /\ cur = Before.status
      \/ Before.status.hash # w /\ cur = NoTimes(Before.status)
  BY <1>1, CurrentCases
<1>4. Sound(cur)
  BY <1>1, <1>3, NoTimesSound
<1>5. NewStatus = IF w = NoWindow THEN NoTimes(Before.status)
                  ELSE IF Recalculates(w, cur, n) THEN Recalculated(w, cur, n) ELSE cur
  BY DEF NewStatus, StatusAfter
<1>6. CASE w = NoWindow
  BY <1>1, <1>5, <1>6, NoTimesSound
<1>7. CASE w # NoWindow /\ ~Recalculates(w, cur, n)
  BY <1>4, <1>5, <1>7
<1>8. CASE w # NoWindow /\ Recalculates(w, cur, n)
  <2>1. w \in Windows /\ NewStatus = Recalculated(w, cur, n)
    BY <1>1, <1>5, <1>8
  <2>2. CASE Before.status.hash = w
    <3>1. cur.hash = w
      BY <1>3, <2>2
    <3> HIDE DEF cur, w, n
    <3> QED
      BY <1>1, <1>2, <1>4, <1>8, <2>1, <3>1, RecalculatedSound
  <2>3. CASE Before.status.hash # w
    <3>1. cur.nextUnpause = NoTime /\ cur.nextPause = NoTime /\ cur.hash # w
      BY <1>1, <1>3, <2>3, NoTimesSound
    <3> HIDE DEF cur
    <3> USE <2>1
    <3>2. CASE NewStatus = cur
      BY <1>4, <3>2
    <3>3. CASE NewStatus.hash = cur.hash
      <4>1. NewStatus.nextUnpause = NoTime
        BY <1>8, <3>1, <3>3 DEF StoresHalf
      <4>2. NewStatus = cur \/ NewStatus.nextUnpause \in Nat
        BY <1>1, <1>2, <1>8, RecalculatedCases, RecalculateNext
      <4> QED
        BY <1>4, <4>1, <4>2, WindowAssumption DEF WindowAssumption
    <3>4. CASE /\ NewStatus.hash = w
               /\ NewStatus.nextUnpause = recalculate(cur.nextUnpause, w.from, n)
               /\ NewStatus.nextPause = recalculate(cur.nextPause, w.to, n)
               /\ ~recalculateFails(cur.nextUnpause, w.from, n)
               /\ ~recalculateFails(cur.nextPause, w.to, n)
      <4>1. w.from \in Schedules /\ IsNext(w.from, n, NewStatus.nextUnpause)
        BY <1>1, <1>2, <3>1, <3>4, RecalculateNext, WindowAssumption DEF WindowAssumption
      <4>2. w.to \in Schedules /\ IsNext(w.to, n, NewStatus.nextPause)
        BY <1>1, <1>2, <3>1, <3>4, RecalculateNext, WindowAssumption DEF WindowAssumption
      <4> QED
        BY <1>1, <3>4, <4>1, <4>2, InFlight, NewTimesSound
    <3> QED
      BY <1>1, <1>2, <3>2, <3>3, <3>4, RecalculatedCases
  <2> QED
    BY <2>2, <2>3
<1> QED
  BY <1>6, <1>7, <1>8

(* Times none of which is taken over are sound even if mixed ones were     *)
(* found.                                                                  *)
LEMMA ReplacedIsSound ==
    ASSUME TypeOK, flight # NoFlight, ~StoresHalf(NewStatus), ~Carries(NewStatus),
           NewStatus # Before.status
    PROVE  Sound(NewStatus)
<1> DEFINE w == Before.window
<1> DEFINE n == flight.n
<1> DEFINE cur == Current(w, Before.status)
<1>1. w \in Windows \cup {NoWindow} /\ Before.status \in StatusSet /\ n \in 0..MaxTime
  BY InFlight
<1>2. cur \in StatusSet /\ cur.nextUnpause \in Times /\ cur.nextPause \in Times
  BY <1>1, CurrentCases DEF StatusSet
<1>5. NewStatus = IF w = NoWindow THEN NoTimes(Before.status)
                  ELSE IF Recalculates(w, cur, n) THEN Recalculated(w, cur, n) ELSE cur
  BY DEF NewStatus, StatusAfter
<1>6. CASE w = NoWindow
  BY <1>1, <1>5, <1>6, NoTimesSound
<1>7. CASE w # NoWindow /\ Before.status.hash # w
  <2>1. cur = NoTimes(Before.status) /\ cur.hash # w
    BY <1>1, <1>7, CurrentCases, NoTimesSound
  <2>2. cur.nextUnpause = NoTime /\ cur.nextPause = NoTime /\ Sound(cur)
    BY <1>1, <2>1, NoTimesSound
  <2> HIDE DEF cur
  <2>3. CASE NewStatus = cur
    BY <2>2, <2>3
  <2>4. CASE Recalculates(w, cur, n) /\ NewStatus = Recalculated(w, cur, n)
    <3> USE <2>4
    <3>1. CASE NewStatus.hash = cur.hash
      <4>1. NewStatus.nextUnpause = NoTime
        BY <1>7, <2>1, <3>1 DEF StoresHalf
      <4>2. NewStatus = cur \/ NewStatus.nextUnpause \in Nat
        BY <1>1, <1>2, <1>7, RecalculatedCases, RecalculateNext
      <4> QED
        BY <2>2, <4>1, <4>2, WindowAssumption DEF WindowAssumption
    <3>2. CASE /\ NewStatus.hash = w
               /\ NewStatus.nextUnpause = recalculate(cur.nextUnpause, w.from, n)
               /\ NewStatus.nextPause = recalculate(cur.nextPause, w.to, n)
               /\ ~recalculateFails(cur.nextUnpause, w.from, n)
               /\ ~recalculateFails(cur.nextPause, w.to, n)
      <4>1. w.from \in Schedules /\ IsNext(w.from, n, NewStatus.nextUnpause)
        BY <1>1, <1>2, <2>2, <3>2, RecalculateNext, WindowAssumption DEF WindowAssumption
      <4>2. w.to \in Schedules /\ IsNext(w.to, n, NewStatus.nextPause)
        BY <1>1, <1>2, <2>2, <3>2, RecalculateNext, WindowAssumption DEF WindowAssumption
      <4> QED
        BY <1>1, <1>7, <3>2, <4>1, <4>2, InFlight, NewTimesSound
    <3> QED
      BY <1>1, <1>2, <1>7, <2>2, <3>1, <3>2, RecalculatedCases
  <2> QED
    BY <1>5, <1>7, <2>3, <2>4
<1>8. CASE w # NoWindow /\ Before.status.hash = w
  <2>1. cur = Before.status /\ cur.hash = w
    BY <1>1, <1>8, CurrentCases
  <2> HIDE DEF cur
  <2>2. NewStatus = Recalculated(w, cur, n) /\ NewStatus # cur
    BY <1>5, <1>8, <2>1
  <2>3. /\ NewStatus.hash = w
        /\ NewStatus.nextUnpause = recalculate(cur.nextUnpause, w.from, n)
        /\ ~recalculateFails(cur.nextUnpause, w.from, n)
        /\ \/ NewStatus.nextPause = cur.nextPause
           \/ /\ NewStatus.nextPause = recalculate(cur.nextPause, w.to, n)
              /\ ~recalculateFails(cur.nextPause, w.to, n)
    BY <1>1, <1>2, <1>8, <2>1, <2>2, RecalculatedCases
  <2>4. w.from \in Schedules /\ IsNext(w.from, n, NewStatus.nextUnpause)
    <3>1. NewStatus.nextUnpause \in Nat
      BY <1>1, <1>2, <2>3, RecalculateNext
    <3>2. NewStatus.nextUnpause # cur.nextUnpause
      BY <2>1, <3>1, WindowAssumption DEF Carries, WindowAssumption
    <3> QED
      BY <1>1, <1>2, <2>3, <3>2, RecalculateNext
  <2>5. NewStatus.nextPause = NoTime \/ (w.to \in Schedules /\ IsNext(w.to, n, NewStatus.nextPause))
    <3>1. NewStatus.nextPause = NoTime \/ NewStatus.nextPause # cur.nextPause
      BY <2>1 DEF Carries
    <3> QED
      BY <1>1, <1>2, <2>3, <3>1, RecalculateNext
  <2> QED
    BY <1>1, <1>8, <2>3, <2>4, <2>5, InFlight, NewTimesSound
<1> QED
  BY <1>6, <1>7, <1>8

(* A patch relative to the status it lands on leaves the copy.             *)
LEMMA MergeOntoSnapshot ==
    ASSUME TypeOK, flight # NoFlight, Before.status = obj.status
    PROVE  MergedStatus(NewStatus) = NewStatus
<1>1. NewStatus \in StatusSet
  BY InFlight
<1> QED
  BY <1>1 DEF MergedStatus, Merge, StatusSet

(* A status patch leaves a sound version.                                  *)
LEMMA PatchSound ==
    ASSUME WindowInv, flight # NoFlight, NEW o \in VersionSet
    PROVE  /\ PatchStatus(o) \in VersionSet
           /\ PatchStatus(o).window = o.window /\ PatchStatus(o).paused = o.paused
           /\ PatchStatus(o).status = MergedStatus(NewStatus)
           /\ PatchStatus(o).mixed = MixedAfter(NewStatus)
           /\ SoundVersion(PatchStatus(o))
<1>0. TypeOK /\ obj \in VersionSet /\ SoundVersion(obj) /\ SoundVersion(Before)
  BY DEF WindowInv, TypeOK
<1>1. /\ NewStatus \in StatusSet /\ Before.status \in StatusSet /\ obj.status \in StatusSet
      /\ obj.mixed \in BOOLEAN /\ Before.mixed \in BOOLEAN
  BY <1>0, InFlight DEF VersionSet
<1>2. MergedStatus(NewStatus) \in StatusSet
  BY <1>1 DEF MergedStatus, Merge, StatusSet
<1>3. MixedAfter(NewStatus) \in BOOLEAN
  BY <1>1 DEF MixedAfter, Carries
<1>4. /\ PatchStatus(o) \in VersionSet
      /\ PatchStatus(o).window = o.window /\ PatchStatus(o).paused = o.paused
      /\ PatchStatus(o).status = MergedStatus(NewStatus)
      /\ PatchStatus(o).mixed = MixedAfter(NewStatus)
  BY <1>2, <1>3 DEF PatchStatus, VersionSet
<1>5. ASSUME ~MixedAfter(NewStatus) PROVE Sound(MergedStatus(NewStatus))
  <2>1. CASE NewStatus = Before.status
    <3>1. MergedStatus(NewStatus) = obj.status
      BY <1>1, <2>1 DEF MergedStatus, Merge, StatusSet
    <3> QED
      BY <1>0, <1>5, <2>1, <3>1 DEF MixedAfter, SoundVersion
  <2>2. CASE NewStatus # Before.status
    <3>1. /\ Before.status = obj.status /\ ~StoresHalf(NewStatus)
          /\ ~(Before.mixed /\ Carries(NewStatus))
      BY <1>5, <2>2 DEF MixedAfter
    <3>2. MergedStatus(NewStatus) = NewStatus
      BY <1>0, <3>1, MergeOntoSnapshot
    <3>3. CASE ~Before.mixed
      BY <1>0, <3>1, <3>2, <3>3, SoundStaysSound DEF SoundVersion
    <3>4. CASE ~Carries(NewStatus)
      BY <1>0, <2>2, <3>1, <3>2, <3>4, ReplacedIsSound
    <3> QED
      BY <3>1, <3>3, <3>4
  <2> QED
    BY <2>1, <2>2
<1> QED
  BY <1>4, <1>5 DEF SoundVersion

(* So does a patch of Paused.                                              *)
LEMMA PatchPausedSound ==
    ASSUME WindowInv, flight # NoFlight
    PROVE  /\ PatchPaused(obj) \in VersionSet /\ SoundVersion(PatchPaused(obj))
           /\ PatchPaused(obj).window = obj.window /\ PatchPaused(obj).status = obj.status
           /\ PatchPaused(obj).mixed = obj.mixed /\ PatchPaused(obj).paused = MergedPaused
<1>1. obj \in VersionSet /\ SoundVersion(obj) /\ NewPaused \in BOOLEAN
  BY InFlight DEF WindowInv, TypeOK
<1>2. MergedPaused \in BOOLEAN
  BY <1>1 DEF MergedPaused, Merge, VersionSet
<1> QED
  BY <1>1, <1>2 DEF PatchPaused, VersionSet, SoundVersion

(***************************************************************************)
(* The invariant and the theorems.                                         *)
(***************************************************************************)

(* The invariant is inductive.                                             *)
LEMMA WindowStep == WindowInv /\ [Next]_vars => WindowInv'
<1> SUFFICES ASSUME WindowInv, [Next]_vars PROVE WindowInv'
  OBVIOUS
<1>0. /\ obj \in VersionSet /\ cache \in VersionSet /\ SoundVersion(obj) /\ SoundVersion(cache)
      /\ flight \in FlightSet \cup {NoFlight} /\ now \in 0..MaxTime
      /\ edits \in Nat /\ faults \in Nat
      /\ settled \in BOOLEAN /\ disturbed \in BOOLEAN /\ setOpen \in BOOLEAN
  BY DEF WindowInv, TypeOK
<1>1. CASE Deliver
  BY <1>0, <1>1 DEF Deliver, WindowInv, TypeOK, Before
<1>2. CASE Begin
  <2>1. flight' \in FlightSet /\ flight'.before = cache
    BY <1>0, <1>2 DEF Begin, FlightSet
  <2>2. disturbed' \in BOOLEAN
    BY <1>2 DEF Begin
  <2> QED
    BY <1>0, <1>2, <2>1, <2>2 DEF Begin, WindowInv, TypeOK, Before
<1>3. CASE End
  <2>1. obj' \in VersionSet /\ SoundVersion(obj')
    BY <1>3, PatchSound, PatchPausedSound DEF End
  <2>2. settled' \in BOOLEAN /\ disturbed' \in BOOLEAN
    BY <1>3 DEF End
  <2> QED
    BY <1>0, <1>3, <2>1, <2>2 DEF End, WindowInv, TypeOK
<1>4. CASE EndFails
  <2>1. obj' \in VersionSet /\ SoundVersion(obj')
    BY <1>0, <1>4, PatchSound, PatchPausedSound DEF EndFails
  <2>2. disturbed' \in BOOLEAN
    BY <1>0, <1>4 DEF EndFails
  <2>3. faults' \in Nat
    BY <1>0, <1>4 DEF EndFails
  <2> QED
    BY <1>0, <1>4, <2>1, <2>2, <2>3 DEF EndFails, WindowInv, TypeOK
<1>5. CASE EditWindow
  <2>1. PICK w \in Windows \cup {NoWindow} : obj' = [obj EXCEPT !.window = w]
    BY <1>5 DEF EditWindow
  <2>2. obj' \in VersionSet /\ SoundVersion(obj')
    BY <1>0, <2>1 DEF VersionSet, SoundVersion
  <2>3. setOpen' \in BOOLEAN /\ edits' \in Nat /\ settled' = FALSE
    BY <1>0, <1>5 DEF EditWindow
  <2>4. UNCHANGED <<cache, flight, disturbed, now, faults>>
    BY <1>5 DEF EditWindow
  <2> QED
    BY <1>0, <2>2, <2>3, <2>4 DEF WindowInv, TypeOK, Before
<1>6. CASE EditPaused
  <2>0. PICK p \in BOOLEAN : obj' = [obj EXCEPT !.paused = p]
    BY <1>6 DEF EditPaused
  <2>1. obj' \in VersionSet /\ SoundVersion(obj')
    BY <1>0, <2>0 DEF VersionSet, SoundVersion
  <2>3. edits' \in Nat
    BY <1>0, <1>6 DEF EditPaused
  <2>2. UNCHANGED <<cache, flight, settled, disturbed, setOpen, now, faults>>
    BY <1>6 DEF EditPaused
  <2> QED
    BY <1>0, <2>1, <2>2, <2>3 DEF WindowInv, TypeOK, Before
<1>7. CASE Tick
  <2>1. now' \in 0..MaxTime
    BY <1>0, <1>7, WindowAssumption DEF Tick, WindowAssumption
  <2>2. disturbed' \in BOOLEAN /\ settled' = FALSE
    BY <1>7 DEF Tick
  <2>3. UNCHANGED <<obj, cache, flight, setOpen, edits, faults>>
    BY <1>7 DEF Tick
  <2> QED
    BY <1>0, <2>1, <2>2, <2>3 DEF WindowInv, TypeOK, Before
<1>8. CASE UNCHANGED vars
  BY <1>8 DEF vars, WindowInv, TypeOK, Before
<1> QED
  BY <1>1, <1>2, <1>3, <1>4, <1>5, <1>6, <1>7, <1>8 DEF Next

LEMMA WindowInit == Init => WindowInv
<1> SUFFICES ASSUME Init PROVE WindowInv
  OBVIOUS
<1> DEFINE none == [nextUnpause |-> NoTime, nextPause |-> NoTime, hash |-> NoWindow]
<1>0. none \in StatusSet
  BY DEF StatusSet, Times
<1>1. obj \in VersionSet /\ obj.status.nextUnpause = NoTime /\ obj.status.nextPause = NoTime
  <2>1. obj \in [window : Windows \cup {NoWindow}, paused : BOOLEAN, mixed : {FALSE},
                 status : {none}]
    BY DEF Init
  <2>2. obj.status = none /\ obj.mixed = FALSE
    BY <2>1
  <2>3. obj \in VersionSet
    BY <1>0, <2>1 DEF VersionSet
  <2> QED
    BY <2>2, <2>3
<1>2. Sound(obj.status)
  BY <1>1 DEF Sound, Certified, HasTimes
<1>3. now \in 0..MaxTime /\ edits \in Nat /\ faults \in Nat
  BY WindowAssumption DEF WindowAssumption, Init
<1>4. setOpen \in BOOLEAN /\ settled = FALSE /\ disturbed = FALSE
  BY DEF Init
<1> QED
  BY <1>1, <1>2, <1>3, <1>4 DEF Init, WindowInv, TypeOK, SoundVersion

(* Type correctness.                                                       *)
THEOREM WindowTypeCorrect == Spec => []TypeOK
<1>1. WindowInv => TypeOK
  BY DEF WindowInv
<1> QED
  BY <1>1, WindowInit, WindowStep, PTL DEF Spec

(* Stored times that are not mixed belong to the window whose hash is      *)
(* stored with them.                                                       *)
THEOREM HashCertifies == Spec => []HashCertifiesTimes
<1>1. WindowInv => HashCertifiesTimes
  BY DEF WindowInv, SoundVersion, Sound, HashCertifiesTimes
<1> QED
  BY <1>1, WindowInit, WindowStep, PTL DEF Spec

(* What End leaves in Paused if nobody else changed it.                    *)
LEMMA EndPaused ==
    ASSUME WindowInv, End, PausedUntouched
    PROVE  obj'.paused = NewPaused
<1>1. /\ flight # NoFlight /\ obj' = PatchStatus(PatchPaused(obj))
      /\ PatchPaused(obj) \in VersionSet /\ PatchPaused(obj).paused = MergedPaused
  BY PatchPausedSound DEF End
<1>2. obj'.paused = MergedPaused
  BY <1>1, PatchSound
<1> QED
  BY <1>2 DEF MergedPaused, Merge, PausedUntouched

(* No reconcile of times that are not mixed leaves the cluster unpaused    *)
(* outside its window, unless somebody changed Paused meanwhile.           *)
THEOREM NeverOpenOutside == Spec => ClosedOutsideWindow
<1>1. ASSUME WindowInv, End, Before.window # NoWindow, ~Before.mixed, PausedUntouched,
             ~obj'.paused
      PROVE  InWindow(Before.window, flight.n)
  <2> DEFINE w == Before.window
  <2> DEFINE cur == Current(w, Before.status)
  <2>1. /\ w \in Windows /\ flight.n \in 0..MaxTime /\ Before.status \in StatusSet
        /\ Sound(Before.status)
    BY <1>1, InFlight DEF End, WindowInv, SoundVersion
  <2>2. Open(cur, flight.n)
    <3>1. ~NewPaused
      BY <1>1, EndPaused
    <3> QED
      BY <1>1, <3>1 DEF NewPaused, PausedAfter
  <2>3. cur = Before.status /\ cur.hash = w
    BY <2>1, <2>2, CurrentCases, NoTimesSound DEF Open
  <2> HIDE DEF cur
  <2>4. /\ w.from \in Schedules /\ cur.nextUnpause \in Activations[w.from]
        /\ w.to \in Schedules /\ cur.nextPause \in Activations[w.to]
        /\ \A p \in Activations[w.to] : p < cur.nextUnpause \/ p >= cur.nextPause
    BY <1>1, <2>1, <2>2, <2>3 DEF Sound, Certified, Open, HasTimes
  <2>6. Activations[w.from] \subseteq Nat /\ Activations[w.to] \subseteq Nat
    BY <2>4, WindowAssumption DEF WindowAssumption
  <2>7. cur.nextUnpause <= flight.n /\ flight.n < cur.nextPause
    BY <2>1, <2>2, <2>4, <2>6 DEF Open
  <2>8. \A p \in Activations[w.to] : p < cur.nextUnpause \/ flight.n < p
    BY <2>1, <2>4, <2>6, <2>7
  <2> QED
    BY <2>4, <2>7, <2>8 DEF InWindow
<1>2. WindowInv /\ [Next]_vars
        => [End /\ Before.window # NoWindow /\ ~Before.mixed /\ PausedUntouched /\ ~obj'.paused
              => InWindow(Before.window, flight.n)]_vars
  BY <1>1
<1> QED
  BY <1>2, WindowInit, WindowStep, PTL DEF Spec, ClosedOutsideWindow

(***************************************************************************)
(* No opening is skipped.  The code decides "not in the window" once both  *)
(* stored times have passed, so it must never be caught with a pause that  *)
(* precedes the opening.  Three facts keep that from happening as long as  *)
(* nothing disturbs the reconciles and windows are set while they are      *)
(* closed: the times are computed only while the window is closed, a       *)
(* closed window opens before it closes again, and the stored pause never  *)
(* lies behind.                                                            *)
(***************************************************************************)

(* A window that is closed opens before it closes again.                   *)
Alternates ==
    \A w \in Windows : w.from \in Schedules /\ w.to \in Schedules =>
        \A n \in 0..MaxTime : ~InWindow(w, n) =>
            \A u \in Activations[w.from], p \in Activations[w.to] :
                IsNext(w.from, n, u) /\ IsNext(w.to, n, p) => u < p

(* Status st has times for window w.                                       *)
TimedFor(st, w) == st.hash = w /\ HasTimes(st)

(* The stored times are in order, and the pause is not behind the clock;   *)
(* it is ahead of it once the reconcile of this moment is done.            *)
PauseAhead ==
    HasTimes(obj.status) =>
        /\ obj.status.nextUnpause < obj.status.nextPause
        /\ now <= obj.status.nextPause
        /\ settled => now < obj.status.nextPause

(* A window whose times are still to be computed is closed.                *)
UntimedIsClosed ==
    obj.window # NoWindow /\ ~TimedFor(obj.status, obj.window)
        => ~settled /\ ~InWindow(obj.window, now)

(* The reconcile in flight is at most one tick late, has seen the current  *)
(* window unless users set one at this very moment, while it was closed,   *)
(* and will compute times only for a window that was closed.               *)
FlightInTime ==
    flight # NoFlight =>
        /\ flight.n = now \/ (flight.n + 1 = now /\ ~settled)
        /\ Before.window # obj.window =>
              ~settled /\ (obj.window # NoWindow => ~InWindow(obj.window, now))
        /\ Before.window # NoWindow /\ ~TimedFor(obj.status, Before.window)
              => ~InWindow(Before.window, flight.n)

(* Only the reconcile in flight writes the status it started from, and     *)
(* every calculation so far was complete.                                  *)
Complete ==
    /\ ~obj.mixed /\ ~cache.mixed /\ Paired(obj.status)
    /\ flight # NoFlight => ~Before.mixed /\ Before.status = obj.status

KeepsUp ==
    /\ WindowInv
    /\ ~disturbed => Complete
    /\ ~disturbed /\ ~setOpen => PauseAhead /\ UntimedIsClosed /\ FlightInTime

(* The times of a status that has both.                                    *)
LEMMA TimesType ==
    ASSUME NEW st \in StatusSet, HasTimes(st)
    PROVE  st.nextUnpause \in Nat /\ st.nextPause \in Nat
BY DEF StatusSet, Times, HasTimes

(* A window is closed at the instant at which it closes.                   *)
LEMMA ClosingCloses ==
    ASSUME NEW w, NEW p \in Activations[w.to], p \in Nat
    PROVE  ~InWindow(w, p)
<1> SUFFICES ASSUME InWindow(w, p) PROVE FALSE
  OBVIOUS
<1>1. PICK u \in Activations[w.from] : u <= p /\ (p < u \/ p < p)
  BY DEF InWindow
<1>2. u \in Nat
  BY WindowAssumption DEF WindowAssumption, InWindow
<1> QED
  BY <1>1, <1>2

(* A reconcile of a window keeps the times it found for it, or computes    *)
(* them anew when there are none or both have passed.                      *)
LEMMA KeptOrComputed ==
    ASSUME NEW w \in Windows, NEW st \in StatusSet, Paired(st), NEW n \in 0..MaxTime,
           ~CalculationFails(w, st, n), NEW r, r = StatusAfter(w, st, n)
    PROVE  /\ TimedFor(r, w)
           /\ \/ r = st /\ (n < st.nextPause \/ n < st.nextUnpause)
              \/ /\ TimedFor(st, w) => n >= st.nextPause
                 /\ w.from \in Schedules /\ w.to \in Schedules
                 /\ IsNext(w.from, n, r.nextUnpause) /\ IsNext(w.to, n, r.nextPause)
<1> DEFINE cur == Current(w, st)
<1>0. w # NoWindow /\ NoTime \notin Nat /\ n \in Nat
  BY WindowAssumption DEF WindowAssumption
<1>1. cur \in StatusSet /\ cur.nextUnpause \in Times /\ cur.nextPause \in Times
  BY CurrentCases DEF StatusSet
<1>2. \/ cur = st /\ st.hash = w
      \/ st.hash # w /\ ~HasTimes(cur) /\ cur.nextUnpause = NoTime /\ cur.nextPause = NoTime
  BY CurrentCases, NoTimesSound
<1>3. r = IF Recalculates(w, cur, n) THEN Recalculated(w, cur, n) ELSE cur
  BY <1>0 DEF StatusAfter
<1>4. Recalculates(w, cur, n) => /\ ~recalculateFails(cur.nextUnpause, w.from, n)
                                 /\ ~recalculateFails(cur.nextPause, w.to, n)
  BY DEF CalculationFails
<1> HIDE DEF cur
<1>5. CASE ~Recalculates(w, cur, n)
  BY <1>0, <1>2, <1>3, <1>5 DEF Recalculates, Open, NotYet, TimedFor, HasTimes
<1>6. CASE Recalculates(w, cur, n)
  <2>1. Passed(cur.nextUnpause, n) /\ Passed(cur.nextPause, n)
    BY <1>0, <1>1, <1>2, <1>6
       DEF Recalculates, Open, NotYet, HasTimes, Passed, Paired, Times
  <2>2. /\ r.hash = w \/ r = cur
        /\ r.nextUnpause = recalculate(cur.nextUnpause, w.from, n)
        /\ r.nextPause = recalculate(cur.nextPause, w.to, n)
        /\ r.hash = w
    BY <1>1, <1>3, <1>4, <1>6 DEF Recalculated
  <2>3. w.from \in Schedules /\ w.to \in Schedules
    BY <1>4, <1>6, <2>1 DEF recalculateFails, ScheduleFails
  <2>4. /\ IsNext(w.from, n, r.nextUnpause) /\ r.nextUnpause \in Nat
        /\ IsNext(w.to, n, r.nextPause) /\ r.nextPause \in Nat
    BY <2>1, <2>2, <2>3, NextIsNext DEF recalculate
  <2>5. TimedFor(r, w)
    BY <1>0, <2>2, <2>4 DEF TimedFor, HasTimes
  <2>6. TimedFor(st, w) => n >= st.nextPause
    BY <1>2, <2>1 DEF TimedFor, HasTimes, Passed
  <2> QED
    BY <2>3, <2>4, <2>5, <2>6
<1> QED
  BY <1>5, <1>6

(* A reconcile that keeps up stores times in order, with the pause ahead.  *)
LEMMA StoresPauseAhead ==
    ASSUME Alternates, KeepsUp, ~disturbed, ~setOpen, ~Failing,
           flight # NoFlight, Before.window # NoWindow
    PROVE  /\ TimedFor(NewStatus, Before.window)
           /\ NewStatus.nextUnpause < NewStatus.nextPause
           /\ now <= NewStatus.nextPause /\ flight.n < NewStatus.nextPause
<1> DEFINE w == Before.window
<1> DEFINE n == flight.n
<1>0. TypeOK /\ Complete /\ SoundVersion(obj) /\ PauseAhead /\ FlightInTime
  BY DEF KeepsUp, WindowInv
<1> DEFINE status == obj.status
<1>1. /\ w \in Windows /\ n \in 0..MaxTime /\ now \in 0..MaxTime
      /\ status \in StatusSet /\ Sound(status) /\ Paired(status) /\ Before.status = status
  BY <1>0, InFlight DEF Complete, SoundVersion, TypeOK, VersionSet
<1>2. PICK r : r = NewStatus
  OBVIOUS
<1>3. r = StatusAfter(w, status, n) /\ n <= now /\ now <= n + 1
  BY <1>0, <1>1, <1>2 DEF NewStatus, FlightInTime
<1>4. /\ HasTimes(status) => /\ status.nextUnpause \in Nat /\ status.nextPause \in Nat
                              /\ status.nextUnpause < status.nextPause
                              /\ now <= status.nextPause
  BY <1>0, <1>1, TimesType DEF PauseAhead
<1>8. ~CalculationFails(w, status, n)
  BY <1>1 DEF Failing
<1>9. TimedFor(status, w) => status.nextPause \in Activations[w.to]
  BY <1>1, WindowAssumption DEF TimedFor, HasTimes, Sound, Certified, WindowAssumption
<1>10. ~TimedFor(status, w) => ~InWindow(w, n)
  BY <1>0 DEF FlightInTime
<1> HIDE DEF w, n, status
<1>5. /\ TimedFor(r, w)
      /\ \/ r = status /\ (n < status.nextPause \/ n < status.nextUnpause)
         \/ /\ TimedFor(status, w) => n >= status.nextPause
            /\ w.from \in Schedules /\ w.to \in Schedules
            /\ IsNext(w.from, n, r.nextUnpause) /\ IsNext(w.to, n, r.nextPause)
  BY <1>1, <1>3, <1>8, KeptOrComputed
<1>6. CASE r = status /\ (n < status.nextPause \/ n < status.nextUnpause)
  BY <1>1, <1>2, <1>4, <1>5, <1>6 DEF TimedFor, w, n
<1>7. CASE /\ TimedFor(status, w) => n >= status.nextPause
           /\ w.from \in Schedules /\ w.to \in Schedules
           /\ IsNext(w.from, n, r.nextUnpause) /\ IsNext(w.to, n, r.nextPause)
  <2>1. ~InWindow(w, n)
    <3>1. CASE TimedFor(status, w)
      <4>1. n = status.nextPause
        BY <1>1, <1>3, <1>4, <1>7, <3>1 DEF TimedFor
      <4> QED
        BY <1>4, <1>9, <3>1, <4>1, ClosingCloses DEF TimedFor
    <3> QED
      BY <1>10, <3>1
  <2>2. r.nextUnpause < r.nextPause
    BY <1>1, <1>7, <2>1 DEF Alternates, IsNext
  <2>3. r.nextPause \in Nat /\ n < r.nextPause
    BY <1>1, <1>7, WindowAssumption DEF IsNext, WindowAssumption
  <2>4. now <= r.nextPause
    BY <1>1, <1>3, <2>3
  <2> QED
    BY <1>2, <1>5, <2>2, <2>3, <2>4 DEF w, n
<1> QED
  BY <1>5, <1>6, <1>7

(* Without a window no times are stored.                                   *)
LEMMA StoresNone ==
    ASSUME TypeOK, flight # NoFlight, Before.window = NoWindow
    PROVE  ~HasTimes(NewStatus) /\ Paired(NewStatus)
<1>1. Before.status \in StatusSet
  BY InFlight
<1> QED
  BY <1>1, NoTimesSound DEF NewStatus, StatusAfter, Paired

(* What a complete calculation stores is not mixed.                        *)
LEMMA StoresComplete ==
    ASSUME WindowInv, Complete, ~Failing, flight # NoFlight
    PROVE  MergedStatus(NewStatus) = NewStatus /\ ~MixedAfter(NewStatus) /\ Paired(NewStatus)
<1>0. /\ TypeOK /\ obj.status \in StatusSet /\ flight.n \in 0..MaxTime
      /\ Before.window \in Windows \cup {NoWindow}
  BY InFlight DEF WindowInv, TypeOK, VersionSet
<1>1. MergedStatus(NewStatus) = NewStatus
  BY <1>0, MergeOntoSnapshot DEF Complete
<1>2. CASE Before.window = NoWindow
  BY <1>0, <1>1, <1>2, StoresNone DEF Complete, MixedAfter, StoresHalf
<1>3. CASE Before.window # NoWindow
  <2>1. TimedFor(NewStatus, Before.window)
    BY <1>0, <1>3, KeptOrComputed DEF Failing, NewStatus, Complete
  <2> QED
    BY <1>1, <2>1 DEF Complete, MixedAfter, StoresHalf, TimedFor, Paired
<1> QED
  BY <1>2, <1>3

(* A write of the reconcile in flight, also when the patch of Paused       *)
(* fails, keeps the stored times right.                                    *)
LEMMA WriteKeepsUp ==
    ASSUME Alternates, KeepsUp, ~disturbed, ~setOpen, ~Failing, flight # NoFlight,
           obj'.status = NewStatus, obj'.window = obj.window, now' = now,
           \/ settled' = (flight.n = now /\ Before.window = obj.window)
           \/ settled' = settled
    PROVE  PauseAhead' /\ UntimedIsClosed'
<1>1. now \in 0..MaxTime /\ flight.n \in 0..MaxTime /\ TypeOK
  BY InFlight DEF KeepsUp, WindowInv, TypeOK
<1>2. settled' => flight.n = now /\ Before.window = obj.window
  BY <1>1 DEF KeepsUp, FlightInTime
<1>3. CASE Before.window = NoWindow
  <2>1. ~HasTimes(obj'.status)
    BY <1>1, <1>3, StoresNone
  <2>2. ASSUME obj.window # NoWindow PROVE ~settled' /\ ~InWindow(obj.window, now)
    BY <1>2, <1>3, <2>2 DEF KeepsUp, FlightInTime
  <2> QED
    BY <2>1, <2>2 DEF PauseAhead, UntimedIsClosed
<1>4. CASE Before.window # NoWindow
  <2>1. /\ TimedFor(obj'.status, Before.window)
        /\ obj'.status.nextUnpause < obj'.status.nextPause
        /\ now <= obj'.status.nextPause /\ flight.n < obj'.status.nextPause
    BY <1>4, StoresPauseAhead
  <2>2. PauseAhead'
    BY <1>2, <2>1 DEF PauseAhead
  <2>3. UntimedIsClosed'
    <3>1. CASE Before.window = obj.window
      BY <2>1, <3>1 DEF UntimedIsClosed, TimedFor
    <3>2. CASE Before.window # obj.window
      BY <1>2, <3>2 DEF KeepsUp, FlightInTime, UntimedIsClosed
    <3> QED
      BY <3>1, <3>2
  <2> QED
    BY <2>2, <2>3
<1> QED
  BY <1>3, <1>4

(* The end of a reconcile: the status patch lands or it does not.          *)
LEMMA EndKeepsUp ==
    ASSUME Alternates, KeepsUp, End \/ EndFails
    PROVE  /\ ~disturbed' => Complete'
           /\ ~disturbed' /\ ~setOpen' => PauseAhead' /\ UntimedIsClosed' /\ FlightInTime'
<1>0. WindowInv /\ obj \in VersionSet /\ TypeOK
  BY DEF KeepsUp, WindowInv, TypeOK
<1>1. flight # NoFlight /\ flight' = NoFlight /\ UNCHANGED <<cache, setOpen, now>>
  BY DEF End, EndFails
<1>2. FlightInTime'
  BY <1>1 DEF FlightInTime
<1>3. ASSUME obj'.window = obj.window, obj'.status = MergedStatus(NewStatus),
             obj'.mixed = MixedAfter(NewStatus), disturbed' = (disturbed \/ Failing),
             \/ settled' = (flight.n = now /\ Before.window = obj.window)
             \/ settled' = settled
      PROVE  /\ ~disturbed' => Complete'
             /\ ~disturbed' /\ ~setOpen' => PauseAhead' /\ UntimedIsClosed' /\ FlightInTime'
  <2>1. SUFFICES ASSUME ~disturbed'
                 PROVE  Complete' /\ (~setOpen' => PauseAhead' /\ UntimedIsClosed' /\ FlightInTime')
    OBVIOUS
  <2>2. ~disturbed /\ ~Failing /\ Complete
    BY <1>3, <2>1 DEF KeepsUp
  <2>3. MergedStatus(NewStatus) = NewStatus /\ ~MixedAfter(NewStatus) /\ Paired(NewStatus)
    BY <1>0, <1>1, <2>2, StoresComplete
  <2>4. Complete'
    BY <1>1, <1>3, <2>2, <2>3 DEF Complete
  <2>5. ASSUME ~setOpen' PROVE PauseAhead' /\ UntimedIsClosed'
    BY <1>1, <1>3, <2>2, <2>3, <2>5, WriteKeepsUp
  <2> QED
    BY <1>2, <2>4, <2>5
<1>4. ASSUME obj'.window = obj.window, obj'.status = obj.status, obj'.mixed = obj.mixed,
             disturbed' = disturbed, settled' = settled
      PROVE  /\ ~disturbed' => Complete'
             /\ ~disturbed' /\ ~setOpen' => PauseAhead' /\ UntimedIsClosed' /\ FlightInTime'
  BY <1>1, <1>2, <1>4 DEF KeepsUp, Complete, PauseAhead, UntimedIsClosed, TimedFor
<1>5. CASE End
  <2>1. PatchPaused(obj) \in VersionSet /\ PatchPaused(obj).window = obj.window
    BY <1>0, <1>1, PatchPausedSound
  <2>2. /\ obj'.window = obj.window /\ obj'.status = MergedStatus(NewStatus)
        /\ obj'.mixed = MixedAfter(NewStatus)
    BY <1>0, <1>1, <1>5, <2>1, PatchSound DEF End
  <2> QED
    BY <1>3, <1>5, <2>2 DEF End
<1>6. CASE EndFails
  <2>1. CASE obj' = PatchStatus(obj) /\ disturbed' = (disturbed \/ Failing)
    <3>1. /\ obj'.window = obj.window /\ obj'.status = MergedStatus(NewStatus)
          /\ obj'.mixed = MixedAfter(NewStatus)
      BY <1>0, <1>1, <2>1, PatchSound
    <3> QED
      BY <1>3, <1>6, <2>1, <3>1 DEF EndFails
  <2>2. CASE (obj' = PatchPaused(obj) \/ obj' = obj) /\ disturbed' = disturbed
    <3>1. obj'.window = obj.window /\ obj'.status = obj.status /\ obj'.mixed = obj.mixed
      BY <1>0, <1>1, <2>2, PatchPausedSound
    <3> QED
      BY <1>4, <1>6, <2>2, <3>1 DEF EndFails
  <2> QED
    BY <1>6, <2>1, <2>2 DEF EndFails
<1> QED
  BY <1>5, <1>6

(* The invariant is inductive.                                             *)
LEMMA KeepsUpStep ==
    ASSUME Alternates
    PROVE  KeepsUp /\ [Next]_vars => KeepsUp'
<1> SUFFICES ASSUME KeepsUp, [Next]_vars PROVE KeepsUp'
  OBVIOUS
<1>0. WindowInv /\ WindowInv'
  BY WindowStep DEF KeepsUp
<1>1. CASE Begin
  <2>1. /\ flight'.n = now /\ flight'.before = cache
        /\ UNCHANGED <<obj, cache, settled, setOpen, now>>
    BY <1>1 DEF Begin
  <2>2. ~disturbed' => ~disturbed /\ cache.window = obj.window /\ cache.status = obj.status
    BY <1>1 DEF Begin
  <2> QED
    BY <1>0, <2>1, <2>2
       DEF KeepsUp, Complete, PauseAhead, UntimedIsClosed, FlightInTime, TimedFor, Before
<1>2. CASE End \/ EndFails
  BY <1>0, <1>2, EndKeepsUp DEF KeepsUp
<1>3. CASE EditWindow
  <2>1. settled' = FALSE /\ UNCHANGED <<cache, flight, disturbed, now>>
    BY <1>3 DEF EditWindow
  <2>0. PICK w : obj' = [obj EXCEPT !.window = w] /\ setOpen' = (setOpen \/ (w # NoWindow /\ InWindow(w, now)))
    BY <1>3 DEF EditWindow
  <2>2. ~setOpen' => ~setOpen /\ (obj'.window # NoWindow => ~InWindow(obj'.window, now))
    BY <1>0, <2>0 DEF WindowInv, TypeOK, VersionSet
  <2>6. obj'.status = obj.status /\ obj'.mixed = obj.mixed
    BY <1>0, <2>0 DEF WindowInv, TypeOK, VersionSet
  <2>3. ~disturbed' => Complete'
    BY <2>1, <2>6 DEF KeepsUp, Complete, Before
  <2>4. ASSUME ~disturbed', ~setOpen' PROVE PauseAhead' /\ UntimedIsClosed' /\ FlightInTime'
    <3>1. PauseAhead /\ UntimedIsClosed /\ FlightInTime
      BY <2>1, <2>2, <2>4 DEF KeepsUp
    <3>2. PauseAhead'
      BY <2>1, <2>6, <3>1 DEF PauseAhead
    <3>3. UntimedIsClosed'
      BY <2>1, <2>2, <2>4 DEF UntimedIsClosed
    <3>4. FlightInTime'
      BY <2>1, <2>2, <2>4, <2>6, <3>1 DEF FlightInTime, TimedFor, Before
    <3> QED
      BY <3>2, <3>3, <3>4
  <2> QED
    BY <1>0, <2>3, <2>4 DEF KeepsUp
<1>4. CASE Tick
  <2>1. /\ now' = now + 1 /\ settled' = FALSE /\ disturbed' = (disturbed \/ ~settled)
        /\ UNCHANGED <<obj, cache, flight, setOpen>> /\ now \in Nat
    BY <1>0, <1>4 DEF Tick, WindowInv, TypeOK
  <2>2. ~disturbed' => Complete'
    BY <2>1 DEF KeepsUp, Complete, Before
  <2>3. ASSUME ~disturbed', ~setOpen' PROVE PauseAhead' /\ UntimedIsClosed' /\ FlightInTime'
    <3>1. settled /\ PauseAhead /\ UntimedIsClosed /\ FlightInTime
      BY <2>1, <2>3 DEF KeepsUp
    <3>2. PauseAhead'
      <4>1. HasTimes(obj.status) => obj.status.nextPause \in Nat
        BY <1>0, TimesType DEF WindowInv, TypeOK, VersionSet
      <4>2. HasTimes(obj.status) => /\ obj.status.nextUnpause < obj.status.nextPause
                                    /\ now < obj.status.nextPause
        BY <3>1 DEF PauseAhead
      <4>3. HasTimes(obj.status) => now' <= obj.status.nextPause
        BY <2>1, <4>1, <4>2
      <4> QED
        BY <2>1, <4>2, <4>3 DEF PauseAhead
    <3>3. UntimedIsClosed'
      BY <2>1, <3>1 DEF UntimedIsClosed, TimedFor
    <3>4. FlightInTime'
      <4>1. flight # NoFlight =>
              /\ flight.n = now /\ Before.window = obj.window
              /\ Before.window # NoWindow /\ ~TimedFor(obj.status, Before.window)
                    => ~InWindow(Before.window, flight.n)
        BY <3>1 DEF FlightInTime
      <4>2. flight # NoFlight => flight.n + 1 = now'
        BY <2>1, <4>1
      <4> QED
        BY <2>1, <4>1, <4>2 DEF FlightInTime, TimedFor, Before
    <3> QED
      BY <3>2, <3>3, <3>4
  <2> QED
    BY <1>0, <2>2, <2>3 DEF KeepsUp
<1>5. CASE Deliver \/ EditPaused \/ UNCHANGED vars
  <2>1. /\ UNCHANGED <<flight, settled, disturbed, setOpen, now>>
        /\ obj'.window = obj.window /\ obj'.status = obj.status /\ obj'.mixed = obj.mixed
        /\ cache' = cache \/ cache' = obj
    BY <1>0, <1>5 DEF Deliver, EditPaused, vars, WindowInv, TypeOK, VersionSet
  <2>2. ~disturbed' => Complete'
    BY <2>1 DEF KeepsUp, Complete, Before
  <2>3. ~disturbed' /\ ~setOpen' => PauseAhead' /\ UntimedIsClosed' /\ FlightInTime'
    BY <2>1 DEF KeepsUp, PauseAhead, UntimedIsClosed, FlightInTime, TimedFor, Before
  <2> QED
    BY <1>0, <2>2, <2>3 DEF KeepsUp
<1> QED
  BY <1>1, <1>2, <1>3, <1>4, <1>5 DEF Next

LEMMA KeepsUpInit == Init => KeepsUp
<1> SUFFICES ASSUME Init PROVE KeepsUp
  OBVIOUS
<1>1. WindowInv /\ flight = NoFlight /\ cache = obj /\ settled = FALSE
  BY WindowInit DEF Init
<1>2. obj.status.nextUnpause = NoTime /\ obj.status.nextPause = NoTime
  BY DEF Init
<1>3. ~obj.mixed
  BY DEF Init
<1>4. ~setOpen => UntimedIsClosed
  BY DEF Init, UntimedIsClosed
<1> QED
  BY <1>1, <1>2, <1>3, <1>4 DEF KeepsUp, Complete, Paired, HasTimes, PauseAhead, FlightInTime

(* As long as nothing disturbs the reconciles, no opening of a window set  *)
(* while it was closed is skipped, whatever edits and failed patches come  *)
(* in between.                                                             *)
THEOREM NoOpeningSkipped ==
    ASSUME Alternates
    PROVE  Spec => ClosedWhenSetOpens
<1>1. ASSUME KeepsUp, End, OpeningDue, PausedUntouched, ~disturbed, ~setOpen
      PROVE  ~obj'.paused
  <2> DEFINE w == Before.window
  <2> DEFINE status == obj.status
  <2>0. /\ flight # NoFlight /\ TypeOK /\ Complete /\ SoundVersion(obj)
        /\ PauseAhead /\ FlightInTime
    BY <1>1 DEF End, KeepsUp, WindowInv
  <2>1. /\ Before.status = status /\ Sound(status) /\ status \in StatusSet /\ Paired(status)
        /\ w \in Windows /\ flight.n \in 0..MaxTime /\ now \in 0..MaxTime
    BY <1>1, <2>0, InFlight
       DEF OpeningDue, Complete, SoundVersion, TypeOK, VersionSet
  <2>2. /\ status.hash = w /\ status.nextUnpause # NoTime /\ w # NoWindow
        /\ flight.n >= status.nextUnpause /\ InWindow(w, flight.n)
    BY <1>1, <2>1 DEF OpeningDue
  <2>3. HasTimes(status)
    BY <2>1, <2>2 DEF Paired
  <2>4. status.nextPause \in Nat /\ status.nextPause \in Activations[w.to]
    BY <2>1, <2>2, <2>3, TimesType DEF Sound, Certified, HasTimes
  <2>5. now <= status.nextPause /\ (flight.n = now \/ flight.n + 1 = now)
    BY <2>0, <2>3 DEF PauseAhead, FlightInTime
  <2>6. flight.n # status.nextPause
    BY <2>2, <2>4, ClosingCloses
  <2>7. flight.n < status.nextPause
    BY <2>1, <2>4, <2>5, <2>6
  <2>8. Open(Current(w, Before.status), flight.n)
    BY <2>1, <2>2, <2>3, <2>7 DEF Current, Open
  <2>9. ~NewPaused
    BY <2>2, <2>8 DEF NewPaused, PausedAfter
  <2> QED
    BY <1>1, <2>9, EndPaused DEF KeepsUp
<1>2. KeepsUp /\ [Next]_vars
        => [End /\ OpeningDue /\ PausedUntouched /\ ~disturbed /\ ~setOpen => ~obj'.paused]_vars
  BY <1>1
<1> QED
  BY <1>2, KeepsUpInit, KeepsUpStep, PTL DEF Spec, ClosedWhenSetOpens
===============================================================================
