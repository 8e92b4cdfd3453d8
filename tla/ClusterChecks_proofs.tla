-------------------------- MODULE ClusterChecks_proofs --------------------------
(***************************************************************************)
(* Proofs about ClusterChecks, for every set of resources, every list of   *)
(* checks and every script.  A round meets the definition of a check       *)
(* selector by selector: what it has found is what the selectors so far    *)
(* choose now (CurrentInv), and the history knows every verdict of the     *)
(* moment (HistoryInv).  The weak fairness in Spec is not used.            *)
(***************************************************************************)
EXTENDS ClusterChecks, FiniteSetTheorems, TLAPS

(* The round in flight counts checks and selectors from 1 and goes through *)
(* the list its snapshot asks for.                                         *)
Wellformed ==
    flight # NoFlight =>
        flight.selector >= 1 /\ flight.checks = runChecks(flight.before)

(* What the first k selectors of a check choose and count now.             *)
PairsTo(c, k) ==
    {p \in (DOMAIN c.selectors) \X Ids : p[1] <= k /\ p[2] \in Chosen(c.selectors[p[1]])}
CountsTo(c, k) ==
    [total |-> Cardinality(PairsTo(c, k)),
     healthy |-> Cardinality({p \in PairsTo(c, k) : cluster[p[2]].healthy})]
EvaluableTo(c, k) == \A n \in DOMAIN c.selectors : n <= k => Evaluable(c.selectors[n])

(***************************************************************************)
(* Lemmas about the operators.                                             *)
(***************************************************************************)

(* The lists and the selectors are sequences, and every check of a list is *)
(* known.                                                                  *)
LEMMA Lists ==
    /\ \A l \in Readiness \cup Liveness :
          /\ Len(l) \in Nat /\ DOMAIN l = 1..Len(l) /\ (l # <<>> => Len(l) >= 1)
          /\ \A n \in 1..Len(l) : l[n] \in DOMAIN Checks
    /\ \A c \in DOMAIN Checks :
          /\ Len(Checks[c].selectors) \in Nat
          /\ DOMAIN Checks[c].selectors = 1..Len(Checks[c].selectors)
<1>1. ASSUME NEW l \in Readiness \cup Liveness
      PROVE  /\ Len(l) \in Nat /\ DOMAIN l = 1..Len(l) /\ (l # <<>> => Len(l) >= 1)
             /\ \A n \in 1..Len(l) : l[n] \in DOMAIN Checks
  <2>1. l \in Seq(DOMAIN Checks)
    BY ChecksAssumption DEF ChecksAssumption
  <2> QED
    BY <2>1
<1>2. ASSUME NEW c \in DOMAIN Checks
      PROVE  /\ Len(Checks[c].selectors) \in Nat
             /\ DOMAIN Checks[c].selectors = 1..Len(Checks[c].selectors)
  <2>1. Checks[c].selectors \in Seq(Range(Checks[c].selectors))
    BY ChecksAssumption DEF ChecksAssumption
  <2> QED
    BY <2>1
<1> QED
  BY <1>1, <1>2

(* isMatch, which runs CEL before Lua, finds what the selector means, or   *)
(* an error where a script it needs is broken.                             *)
LEMMA MatchAgrees ==
    ASSUME NEW s, NEW r
    PROVE  /\ isMatch(r, s) = "error" <=> ~(s.cel # Broken /\ (ByCEL(s, r) \/ s.lua # Broken))
           /\ isMatch(r, s) # "error" =>
                (isMatch(r, s) = "yes" <=>
                    ByCEL(s, r) \/ ByLua(s, r) \/ (s.cel = NoScript /\ s.lua = NoScript))
<1> USE ChecksAssumption DEF ChecksAssumption
<1>1. /\ s.lua = NoScript => isMatchForLua(r, s.lua) = "yes"
      /\ s.lua = Broken => isMatchForLua(r, s.lua) = "error"
      /\ s.lua \notin {NoScript, Broken} =>
            isMatchForLua(r, s.lua) = IF r.healthy \in s.lua THEN "yes" ELSE "no"
  BY DEF isMatchForLua
<1>2. CASE s.cel = Broken
  BY <1>2 DEF isMatch
<1>3. CASE s.cel = NoScript
  <2>1. isMatch(r, s) = isMatchForLua(r, s.lua)
    BY <1>3 DEF isMatch
  <2> QED
    BY <1>1, <1>3, <2>1 DEF ByCEL, ByLua
<1>4. CASE s.cel \notin {NoScript, Broken}
  <2>1. CASE r.healthy \in s.cel
    BY <1>4, <2>1 DEF isMatch, ByCEL
  <2>2. CASE r.healthy \notin s.cel /\ s.lua = NoScript
    BY <1>4, <2>2 DEF isMatch, ByCEL, ByLua
  <2>3. CASE r.healthy \notin s.cel /\ s.lua # NoScript
    <3>1. isMatch(r, s) = isMatchForLua(r, s.lua)
      BY <1>4, <2>3 DEF isMatch
    <3> QED
      BY <1>1, <1>4, <2>3, <3>1 DEF ByCEL, ByLua
  <2> QED
    BY <2>1, <2>2, <2>3
<1> QED
  BY <1>2, <1>3, <1>4

(* What is listed and not left out is what the selector means.             *)
LEMMA UsableAgrees ==
    ASSUME NEW s, s.kind \in served PROVE Usable(s) = Candidates(s)
BY DEF Usable, Listed, Candidates, calculateLabelSelector

(* The List call fails for a script, or finds what the selector chooses.   *)
LEMMA ListAgrees ==
    ASSUME NEW s, s.kind \in served
    PROVE  LET fails == \/ s.selector = Broken
                        \/ \E id \in Usable(s) : isMatch(cluster[id], s) = "error"
           IN  /\ Evaluable(s) <=> ~fails
               /\ ~fails => {id \in Usable(s) : isMatch(cluster[id], s) = "yes"} = Chosen(s)
<1>1. Evaluable(s) <=> ~(\/ s.selector = Broken
                        \/ \E id \in Usable(s) : isMatch(cluster[id], s) = "error")
  BY UsableAgrees, MatchAgrees DEF Evaluable
<1>2. ASSUME \A id \in Usable(s) : isMatch(cluster[id], s) # "error"
      PROVE  {id \in Usable(s) : isMatch(cluster[id], s) = "yes"} = Chosen(s)
  BY <1>2, UsableAgrees, MatchAgrees DEF Chosen
<1> QED
  BY <1>1, <1>2

(* A kind that is not served: the selector chooses nothing.                *)
LEMMA UnservedAgrees ==
    ASSUME NEW s, s.kind \notin served PROVE Evaluable(s) /\ Chosen(s) = {}
BY DEF Evaluable, Chosen, Candidates

(* The sets counted are finite.                                            *)
LEMMA FinitePairs ==
    ASSUME NEW c \in DOMAIN Checks, NEW k \in Nat
    PROVE  /\ IsFiniteSet(PairsTo(Checks[c], k))
           /\ IsFiniteSet({p \in PairsTo(Checks[c], k) : cluster[p[2]].healthy})
<1>1. IsFiniteSet(DOMAIN Checks[c].selectors)
  BY Lists, FS_Interval
<1>2. IsFiniteSet((DOMAIN Checks[c].selectors) \X Ids)
  BY <1>1, ChecksAssumption, FS_Product DEF ChecksAssumption
<1>3. IsFiniteSet(PairsTo(Checks[c], k))
  BY <1>2, FS_Subset DEF PairsTo
<1> QED
  BY <1>3, FS_Subset

(* Before the first selector nothing has been counted, now or later.       *)
LEMMA CountsNone ==
    ASSUME NEW c \in DOMAIN Checks
    PROVE  /\ CountsTo(Checks[c], 0) = NoCounts /\ EvaluableTo(Checks[c], 0)
           /\ CountsTo(Checks[c], 0)' = NoCounts /\ EvaluableTo(Checks[c], 0)'
<1>1. PairsTo(Checks[c], 0) = {} /\ PairsTo(Checks[c], 0)' = {}
  BY Lists DEF PairsTo
<1>2. /\ {p \in PairsTo(Checks[c], 0) : cluster[p[2]].healthy} = {}
      /\ {p \in PairsTo(Checks[c], 0)' : cluster'[p[2]].healthy} = {}
  BY <1>1
<1>3. CountsTo(Checks[c], 0) = NoCounts
  BY <1>1, <1>2, FS_EmptySet DEF CountsTo, NoCounts
<1>4. CountsTo(Checks[c], 0)' = NoCounts
  BY <1>1, <1>2, FS_EmptySet DEF CountsTo, NoCounts
<1> QED
  BY <1>3, <1>4, Lists DEF EvaluableTo

(* One selector more.                                                      *)
LEMMA CountsOneMore ==
    ASSUME NEW c \in DOMAIN Checks, NEW k \in Nat, k + 1 \in DOMAIN Checks[c].selectors,
           NEW S, S = Chosen(Checks[c].selectors[k + 1]),
           NEW H, H = {id \in S : cluster[id].healthy}
    PROVE  CountsTo(Checks[c], k + 1) =
              [total |-> CountsTo(Checks[c], k).total + Cardinality(S),
               healthy |-> CountsTo(Checks[c], k).healthy + Cardinality(H)]
<1> DEFINE P == PairsTo(Checks[c], k)
           Q == {p \in P : cluster[p[2]].healthy}
<1>1. IsFiniteSet(P) /\ IsFiniteSet(Q)
  BY FinitePairs
<1>2. S \subseteq Ids /\ IsFiniteSet(S) /\ IsFiniteSet(H)
  <2>1. S \subseteq Ids
    BY DEF Chosen, Candidates
  <2>2. IsFiniteSet(S)
    BY <2>1, ChecksAssumption, FS_Subset DEF ChecksAssumption
  <2> QED
    BY <2>1, <2>2, FS_Subset
<1> DEFINE D == DOMAIN Checks[c].selectors
           R == {k + 1} \X S
           RH == {k + 1} \X H
<1>a. D = 1..Len(Checks[c].selectors) /\ Len(Checks[c].selectors) \in Nat /\ k + 1 \in D
  BY Lists
<1>3. PairsTo(Checks[c], k + 1) = P \cup R
  <2>1. ASSUME NEW n \in D, NEW id \in Ids
        PROVE  (n <= k + 1 /\ id \in Chosen(Checks[c].selectors[n])) <=>
               \/ n <= k /\ id \in Chosen(Checks[c].selectors[n])
               \/ n = k + 1 /\ id \in S
    BY <1>a
  <2>2. R \subseteq D \X Ids
    BY <1>2, <1>a
  <2>3. \A p \in D \X Ids : p[1] \in D /\ p[2] \in Ids /\ p = <<p[1], p[2]>>
    OBVIOUS
  <2>4. \A p \in D \X Ids : p \in R <=> p[1] = k + 1 /\ p[2] \in S
    BY <2>3
  <2>5. \A p \in D \X Ids : p \in PairsTo(Checks[c], k + 1) <=> p \in P \/ p \in R
    BY <2>1, <2>3, <2>4 DEF PairsTo
  <2>6. PairsTo(Checks[c], k + 1) \subseteq D \X Ids /\ P \subseteq D \X Ids
    BY DEF PairsTo
  <2> HIDE DEF P, R, D
  <2> QED
    BY <2>2, <2>5, <2>6
<1>4. {p \in PairsTo(Checks[c], k + 1) : cluster[p[2]].healthy} = Q \cup RH
  <2>1. \A p \in R : p[2] \in S /\ p[1] = k + 1 /\ p = <<p[1], p[2]>>
    OBVIOUS
  <2>2. \A p \in R : p \in RH <=> cluster[p[2]].healthy
    BY <2>1
  <2>3. RH \subseteq R
    OBVIOUS
  <2> HIDE DEF P, R, RH
  <2> QED
    BY <1>3, <2>2, <2>3
<1>5. P \cap R = {} /\ Q \cap RH = {}
  <2>1. \A p \in P : p[1] <= k /\ p[1] \in Nat
    BY <1>a DEF PairsTo
  <2>2. \A p \in R : p[1] = k + 1
    OBVIOUS
  <2>3. RH \subseteq R
    OBVIOUS
  <2> HIDE DEF P, R, RH
  <2>4. P \cap R = {}
    BY <2>1, <2>2
  <2> QED
    BY <2>3, <2>4
<1>6. ASSUME NEW T, IsFiniteSet(T)
      PROVE  IsFiniteSet({k + 1} \X T) /\ Cardinality({k + 1} \X T) = Cardinality(T)
  <2>1. IsFiniteSet({k + 1}) /\ Cardinality({k + 1}) = 1
    BY FS_Singleton
  <2>2. Cardinality(T) \in Nat
    BY <1>6, FS_CardinalityType
  <2>3. IsFiniteSet({k + 1} \X T) /\ Cardinality({k + 1} \X T) = 1 * Cardinality(T)
    BY <1>6, <2>1, FS_Product
  <2> QED
    BY <2>2, <2>3
<1>7. ASSUME NEW A, IsFiniteSet(A), NEW B, IsFiniteSet(B), A \cap B = {}
      PROVE  Cardinality(A \cup B) = Cardinality(A) + Cardinality(B)
  <2>1. Cardinality(A \cup B) = Cardinality(A) + Cardinality(B) - Cardinality(A \cap B)
    BY <1>7, FS_Union
  <2>2. Cardinality(A \cap B) = 0
    BY <1>7, FS_EmptySet
  <2>3. Cardinality(A) \in Nat /\ Cardinality(B) \in Nat
    BY <1>7, FS_CardinalityType
  <2> QED
    BY <2>1, <2>2, <2>3
<1>b. /\ IsFiniteSet(R) /\ Cardinality(R) = Cardinality(S)
      /\ IsFiniteSet(RH) /\ Cardinality(RH) = Cardinality(H)
  BY <1>2, <1>6
<1> HIDE DEF P, Q, R, RH
<1>8. Cardinality(PairsTo(Checks[c], k + 1)) = Cardinality(P) + Cardinality(S)
  BY <1>1, <1>3, <1>5, <1>7, <1>b
<1>9. Cardinality({p \in PairsTo(Checks[c], k + 1) : cluster[p[2]].healthy}) =
        Cardinality(Q) + Cardinality(H)
  BY <1>1, <1>4, <1>5, <1>7, <1>b
<1> QED
  BY <1>8, <1>9 DEF CountsTo, P, Q

(* After the last selector the counts decide as the check means.           *)
LEMMA CountsDecide ==
    ASSUME NEW c \in DOMAIN Checks, NEW k \in Nat, k >= Len(Checks[c].selectors),
           EvaluableTo(Checks[c], k)
    PROVE  Holds(c) <=> Passes(Checks[c].condition, CountsTo(Checks[c], k))
<1>1. \A n \in DOMAIN Checks[c].selectors : n <= k
  BY Lists
<1>2. PairsTo(Checks[c], k) = ChosenPairs(Checks[c])
  BY <1>1 DEF PairsTo, ChosenPairs
<1>3. CountsTo(Checks[c], k) =
        [total |-> Cardinality(ChosenPairs(Checks[c])),
         healthy |-> Cardinality({p \in ChosenPairs(Checks[c]) : cluster[p[2]].healthy})]
  BY <1>2 DEF CountsTo
<1>4. \A n \in DOMAIN Checks[c].selectors : Evaluable(Checks[c].selectors[n])
  BY <1>1 DEF EvaluableTo
<1> QED
  BY <1>3, <1>4 DEF Holds, HoldsNow, Passes

(* A selector that cannot be evaluated breaks its check.                   *)
LEMMA BrokenBreaks ==
    ASSUME NEW c \in DOMAIN Checks, NEW n \in DOMAIN Checks[c].selectors,
           ~Evaluable(Checks[c].selectors[n])
    PROVE  ~Holds(c)
BY DEF Holds, HoldsNow

(* While the managed cluster stands still, so does what it means.          *)
LEMMA StandsStill ==
    ASSUME UNCHANGED <<served, cluster>>
    PROVE  /\ \A c : Holds(c)' <=> Holds(c)
           /\ \A c, k : CountsTo(c, k)' = CountsTo(c, k)
           /\ \A c, k : EvaluableTo(c, k)' <=> EvaluableTo(c, k)
<1>1. \A s : Candidates(s)' = Candidates(s)
  BY DEF Candidates
<1>2. \A s : Chosen(s)' = Chosen(s)
  BY <1>1 DEF Chosen
<1>3. \A s : Evaluable(s)' <=> Evaluable(s)
  BY <1>1 DEF Evaluable
<1>4. \A c : ChosenPairs(c)' = ChosenPairs(c)
  BY <1>2 DEF ChosenPairs
<1>5. \A c, k : PairsTo(c, k)' = PairsTo(c, k)
  BY <1>2 DEF PairsTo
<1>6. \A c : HoldsNow(c)' <=> HoldsNow(c)
  BY <1>3, <1>4 DEF HoldsNow
<1>7. \A c, k : CountsTo(c, k)' = CountsTo(c, k)
  BY <1>5 DEF CountsTo
<1>8. \A c, k : EvaluableTo(c, k)' <=> EvaluableTo(c, k)
  BY <1>3 DEF EvaluableTo
<1> QED
  BY <1>6, <1>7, <1>8 DEF Holds

(* The steps of a round, field by field.                                   *)
LEMMA VerdictFields ==
    ASSUME NEW f \in Flight, NEW b \in BOOLEAN
    PROVE  /\ Verdict(f, b) \in Flight
           /\ Verdict(f, b).step = "done" /\ Verdict(f, b).passed = b
           /\ Verdict(f, b).before = f.before /\ Verdict(f, b).checks = f.checks
           /\ Verdict(f, b).selector = f.selector
BY DEF Verdict, Flight

LEMMA SelectorFields ==
    ASSUME NEW f \in Flight
    PROVE  /\ NextSelector(f) \in Flight
           /\ NextSelector(f).step = "discover" /\ NextSelector(f).selector = f.selector + 1
           /\ NextSelector(f).before = f.before /\ NextSelector(f).checks = f.checks
           /\ NextSelector(f).check = f.check /\ NextSelector(f).found = f.found
<1>1. PICK n \in Nat : n = f.selector + 1
  BY DEF Flight
<1>2. NextSelector(f) = [f EXCEPT !.selector = n, !.step = "discover"]
  BY <1>1 DEF NextSelector
<1>3. /\ NextSelector(f) \in Flight
      /\ NextSelector(f).step = "discover" /\ NextSelector(f).selector = n
      /\ NextSelector(f).before = f.before /\ NextSelector(f).checks = f.checks
      /\ NextSelector(f).check = f.check /\ NextSelector(f).found = f.found
  BY <1>2 DEF Flight
<1> QED
  BY <1>1, <1>3

LEMMA CheckFields ==
    ASSUME NEW f \in Flight, ~(f.check >= Len(f.checks)), f.step = "discover"
    PROVE  /\ NextCheck(f) \in Flight
           /\ NextCheck(f).step = "discover" /\ NextCheck(f).check = f.check + 1
           /\ NextCheck(f).selector = 1 /\ NextCheck(f).found = NoCounts
           /\ NextCheck(f).before = f.before /\ NextCheck(f).checks = f.checks
<1>1. PICK n \in Nat : n = f.check + 1
  BY DEF Flight
<1>2. PICK m \in Nat : m = 1
  OBVIOUS
<1>3. NextCheck(f) = [f EXCEPT !.check = n, !.selector = m, !.found = NoCounts]
  BY <1>1, <1>2 DEF NextCheck
<1>4. NoCounts \in Counts
  BY DEF NoCounts, Counts
<1>5. /\ NextCheck(f) \in Flight
      /\ NextCheck(f).step = f.step /\ NextCheck(f).check = n
      /\ NextCheck(f).selector = m /\ NextCheck(f).found = NoCounts
      /\ NextCheck(f).before = f.before /\ NextCheck(f).checks = f.checks
  BY <1>3, <1>4 DEF Flight
<1> QED
  BY <1>1, <1>2, <1>5

(* What a List call that succeeds adds, field by field.                    *)
LEMMA FoundFields ==
    ASSUME NEW f \in Flight, NEW t \in Nat, NEW h \in Nat
    PROVE  LET g == [f EXCEPT !.found = [total |-> @.total + t, healthy |-> @.healthy + h]]
           IN
           /\ g \in Flight
           /\ g.found = [total |-> f.found.total + t, healthy |-> f.found.healthy + h]
           /\ g.before = f.before /\ g.checks = f.checks /\ g.check = f.check
           /\ g.selector = f.selector
<1>1. PICK n \in Counts : n = [total |-> f.found.total + t, healthy |-> f.found.healthy + h]
  <2>1. f.found.total + t \in Nat /\ f.found.healthy + h \in Nat
    BY DEF Flight, Counts
  <2>2. [total |-> f.found.total + t, healthy |-> f.found.healthy + h] \in Counts
    BY <2>1 DEF Counts
  <2> QED
    BY <2>2
<1>2. [f EXCEPT !.found = [total |-> @.total + t, healthy |-> @.healthy + h]] =
        [f EXCEPT !.found = n]
  BY <1>1
<1>3. PICK g : g = [f EXCEPT !.found = n]
  OBVIOUS
<1>4. /\ g \in Flight /\ g.found = n
      /\ g.before = f.before /\ g.checks = f.checks /\ g.check = f.check
      /\ g.selector = f.selector
  BY <1>3 DEF Flight
<1> QED
  BY <1>1, <1>2, <1>3, <1>4

(***************************************************************************)
(* Type correctness.                                                       *)
(***************************************************************************)
TypeInv == TypeOK /\ Wellformed

LEMMA InitType == Init => TypeInv
<1> SUFFICES ASSUME Init PROVE TypeInv
  OBVIOUS
<1>1. obj \in Object /\ cache \in Object
  BY DEF Init, Object
<1>2. round \in History /\ round.steady \subseteq round.held
  BY DEF Init, NoRound, History
<1>3. served \in SUBSET Kinds /\ cluster \in [Ids -> Resource \cup {Gone}] /\ ExistsOnlyServed
  BY DEF Init
<1>4. flight = NoFlight /\ {changes, edits, faults} \subseteq Nat
  BY DEF Init
<1> QED
  BY <1>1, <1>2, <1>3, <1>4 DEF TypeInv, TypeOK, Wellformed

(* The round in flight, while it is not done.                              *)
LEMMA Current ==
    ASSUME TypeInv, flight # NoFlight
    PROVE  /\ flight \in Flight /\ flight.checks \in Readiness \cup Liveness
           /\ flight.selector \in Nat /\ flight.selector >= 1 /\ flight.found \in Counts
           /\ flight.step # "done" =>
                 /\ flight.check \in 1..Len(flight.checks) /\ Len(flight.checks) \in Nat
                 /\ flight.checks[flight.check] \in DOMAIN Checks
                 /\ flight.checks[flight.check] \in Range(flight.checks)
<1>1. /\ flight \in Flight /\ flight.checks \in Readiness \cup Liveness
      /\ flight.selector \in Nat /\ flight.selector >= 1 /\ flight.found \in Counts
  BY DEF TypeInv, TypeOK, Wellformed, Flight
<1>2. ASSUME flight.step # "done" PROVE flight.check \in DOMAIN flight.checks
  BY <1>2 DEF TypeInv, TypeOK
<1>3. ASSUME flight.step # "done"
      PROVE  flight.checks[flight.check] \in Range(flight.checks)
  BY <1>2, <1>3 DEF Range
<1> QED
  BY <1>1, <1>2, <1>3, Lists

(* The round begins.                                                       *)
LEMMA BeginFields ==
    ASSUME TypeInv, Begin
    PROVE  /\ flight' \in Flight /\ flight'.selector = 1 /\ flight'.check = 1
           /\ flight'.before = cache /\ flight'.checks = runChecks(cache)
           /\ flight'.found = NoCounts
           /\ runChecks(cache) \in Readiness \cup Liveness
           /\ IF runChecks(cache) = <<>> THEN flight'.step = "done" /\ flight'.passed
                                        ELSE flight'.step = "discover"
<1> DEFINE start == [before |-> cache, checks |-> runChecks(cache), check |-> 1, selector |-> 1,
                     found |-> NoCounts, step |-> "discover", passed |-> FALSE]
<1>1. cache \in Object /\ runChecks(cache) \in Readiness \cup Liveness
  BY DEF TypeInv, TypeOK, Object, runChecks
<1>2. start \in Flight
  BY <1>1 DEF Flight, NoCounts, Counts
<1>3. flight' = IF runChecks(cache) = <<>> THEN Verdict(start, TRUE) ELSE start
  BY DEF Begin
<1> QED
  BY <1>1, <1>2, <1>3 DEF Verdict, Flight

(* What the managed cluster may do keeps its shape.                        *)
LEMMA ManagedType ==
    ASSUME TypeInv, ChangeResource \/ ChangeKinds
    PROVE  served' \in SUBSET Kinds /\ cluster' \in [Ids -> Resource \cup {Gone}]
           /\ ExistsOnlyServed'
<1>0. served \in SUBSET Kinds /\ cluster \in [Ids -> Resource \cup {Gone}] /\ ExistsOnlyServed
  BY DEF TypeInv, TypeOK
<1>1. CASE ChangeResource
  <2>1. PICK id \in Ids : id.kind \in served /\ \E r \in Becomes(cluster[id]) :
                             cluster' = [cluster EXCEPT ![id] = r]
    BY <1>1 DEF ChangeResource
  <2>2. PICK r \in Becomes(cluster[id]) : cluster' = [cluster EXCEPT ![id] = r]
    BY <2>1
  <2>3. r \in Resource \cup {Gone}
    BY DEF Becomes
  <2>4. UNCHANGED served
    BY <1>1 DEF ChangeResource
  <2> QED
    BY <1>0, <2>1, <2>2, <2>3, <2>4 DEF ExistsOnlyServed
<1>2. CASE ChangeKinds
  <2>1. PICK k \in Kinds \ Builtin :
          /\ served' = IF k \in served THEN served \ {k} ELSE served \cup {k}
          /\ cluster' = [id \in Ids |-> IF id.kind = k THEN Gone ELSE cluster[id]]
    BY <1>2 DEF ChangeKinds
  <2> QED
    BY <1>0, <2>1 DEF ExistsOnlyServed
<1> QED
  BY <1>1, <1>2

(* The history after a change of the managed cluster.                      *)
LEMMA ManagedRound ==
    ASSUME TypeInv, ManagedChanges, flight # NoFlight
    PROVE  /\ round'.moved = TRUE /\ round'.erred = round.erred
           /\ \A c \in Range(flight.checks) :
                 /\ c \in round'.held <=> c \in round.held \/ Holds(c)'
                 /\ c \in round'.steady <=> c \in round.steady /\ Holds(c)'
           /\ round.held \subseteq round'.held /\ round'.steady \subseteq round.steady
           /\ round' \in History /\ round'.steady \subseteq round'.held
<1> DEFINE holding == {c \in Range(flight.checks) : Holds(c)'}
<1>1. round \in History /\ round.steady \subseteq round.held
  BY DEF TypeInv, TypeOK
<1>2. round' = [round EXCEPT !.held = round.held \cup holding,
                             !.steady = round.steady \cap holding, !.moved = TRUE]
  BY DEF ManagedChanges
<1>3. holding \subseteq DOMAIN Checks
  BY Current, Lists DEF Range
<1>4. \A c \in Range(flight.checks) : c \in holding <=> Holds(c)'
  OBVIOUS
<1> HIDE DEF holding
<1> QED
  BY <1>1, <1>2, <1>3, <1>4 DEF History

LEMMA StepType == TypeInv /\ [Next]_vars => TypeInv'
<1> SUFFICES ASSUME TypeInv, [Next]_vars PROVE TypeInv'
  OBVIOUS
<1>0. /\ served \in SUBSET Kinds /\ cluster \in [Ids -> Resource \cup {Gone}] /\ ExistsOnlyServed
      /\ obj \in Object /\ cache \in Object
      /\ round \in History /\ round.steady \subseteq round.held
      /\ changes \in Nat /\ edits \in Nat /\ faults \in Nat
  BY DEF TypeInv, TypeOK
<1>1. CASE Begin
  <2>1. runChecks(cache) # <<>> => flight'.check \in DOMAIN flight'.checks
    BY <1>1, BeginFields, Lists
  <2>2. round' \in History /\ round'.steady \subseteq round'.held
    <3>1. PICK S : S \subseteq Range(runChecks(cache)) /\
                   round' = [held |-> S, steady |-> S, moved |-> FALSE, erred |-> FALSE]
      BY <1>1 DEF Begin
    <3>2. S \subseteq DOMAIN Checks
      BY <1>1, <3>1, BeginFields, Lists DEF Range
    <3> QED
      BY <3>1, <3>2 DEF History
  <2>3. UNCHANGED <<served, cluster, obj, cache, changes, edits, faults>>
    BY <1>1 DEF Begin
  <2> QED
    BY <1>0, <1>1, <2>1, <2>2, <2>3, BeginFields DEF TypeInv, TypeOK, Wellformed, ExistsOnlyServed
<1>2. CASE Discover
  <2>1. flight # NoFlight /\ flight.step = "discover" /\ flight.selector <= Len(Check.selectors)
    BY <1>2 DEF Discover, Selecting
  <2>2. flight \in Flight /\ flight.check \in DOMAIN flight.checks
    BY <2>1 DEF TypeInv, TypeOK
  <2>3. UNCHANGED <<served, cluster, obj, cache, round, changes, edits, faults>>
    BY <1>2 DEF Discover
  <2>4. CASE Selector.kind \in served
    <3>1. /\ flight' \in Flight /\ flight'.step = "list" /\ flight'.before = flight.before
          /\ flight'.checks = flight.checks
          /\ flight'.check = flight.check /\ flight'.selector = flight.selector
      BY <1>2, <2>2, <2>4 DEF Discover, Flight
    <3>2. flight.selector \in DOMAIN Check.selectors
      BY <2>1, Current, Lists DEF Check
    <3>3. flight'.selector \in DOMAIN Check'.selectors
      BY <3>1, <3>2 DEF Check
    <3> QED
      BY <1>0, <2>1, <2>2, <2>3, <3>1, <3>3 DEF TypeInv, TypeOK, Wellformed, ExistsOnlyServed
  <2>5. CASE Selector.kind \notin served
    <3>1. flight' = NextSelector(flight)
      BY <1>2, <2>5 DEF Discover
    <3> QED
      BY <1>0, <2>1, <2>2, <2>3, <3>1, Current, SelectorFields
         DEF TypeInv, TypeOK, Wellformed, ExistsOnlyServed
  <2> QED
    BY <2>4, <2>5
<1>3. CASE List
  <2>1. flight # NoFlight /\ flight.step = "list"
    BY <1>3 DEF List, Listing
  <2>2. flight \in Flight /\ flight.check \in DOMAIN flight.checks
    BY <2>1 DEF TypeInv, TypeOK
  <2>3. UNCHANGED <<served, cluster, obj, cache, round, changes, edits, faults>>
    BY <1>3 DEF List
  <2>4. \/ flight' = Verdict(flight, FALSE)
        \/ \E t, h \in Nat : flight' = NextSelector([flight EXCEPT !.found =
                      [total |-> @.total + t, healthy |-> @.healthy + h]])
    <3> DEFINE matching == {id \in Usable(Selector) : isMatch(cluster[id], Selector) = "yes"}
               healthy == {id \in matching : cluster[id].healthy}
    <3>1. \/ flight' = Verdict(flight, FALSE)
          \/ flight' = NextSelector([flight EXCEPT !.found =
                      [total |-> @.total + Cardinality(matching),
                       healthy |-> @.healthy + Cardinality(healthy)]])
      BY <1>3 DEF List
    <3>2. matching \subseteq Ids /\ healthy \subseteq Ids
      BY DEF Usable, Listed
    <3> HIDE DEF matching, healthy
    <3>3. IsFiniteSet(matching) /\ IsFiniteSet(healthy)
      BY <3>2, ChecksAssumption, FS_Subset DEF ChecksAssumption
    <3>4. Cardinality(matching) \in Nat /\ Cardinality(healthy) \in Nat
      BY <3>3, FS_CardinalityType
    <3> QED
      BY <3>1, <3>4
  <2>5. CASE flight' = Verdict(flight, FALSE)
    BY <1>0, <2>1, <2>2, <2>3, <2>5, Current, VerdictFields
       DEF TypeInv, TypeOK, Wellformed, ExistsOnlyServed
  <2>6. CASE flight' # Verdict(flight, FALSE)
    <3>1. PICK t \in Nat, h \in Nat :
            flight' = NextSelector([flight EXCEPT !.found =
                          [total |-> @.total + t, healthy |-> @.healthy + h]])
      BY <2>4, <2>6
    <3>2. PICK g : g = [flight EXCEPT !.found =
                          [total |-> @.total + t, healthy |-> @.healthy + h]]
      OBVIOUS
    <3>3. /\ g \in Flight /\ g.before = flight.before /\ g.checks = flight.checks
          /\ g.check = flight.check /\ g.selector = flight.selector
      BY <2>2, <3>2, FoundFields
    <3>4. flight' = NextSelector(g)
      BY <3>1, <3>2
    <3> QED
      BY <1>0, <2>1, <2>2, <2>3, <3>3, <3>4, Current, SelectorFields
         DEF TypeInv, TypeOK, Wellformed, ExistsOnlyServed
  <2> QED
    BY <2>5, <2>6
<1>4. CASE ListRefused \/ CallFails
  <2>1. flight # NoFlight /\ flight' = Verdict(flight, FALSE) /\ flight \in Flight
    BY <1>4, Current DEF ListRefused, CallFails, Selecting, Listing
  <2>2. UNCHANGED <<served, cluster, obj, cache, changes, edits>> /\ faults' \in Nat
    <3>1. CASE ListRefused
      BY <1>0, <3>1 DEF ListRefused
    <3>2. CASE CallFails
      BY <1>0, <3>2 DEF CallFails, Fault
    <3> QED
      BY <1>4, <3>1, <3>2
  <2>3. round' \in History /\ round'.steady \subseteq round'.held
    BY <1>0, <1>4 DEF ListRefused, CallFails, History
  <2> QED
    BY <1>0, <2>1, <2>2, <2>3, Current, VerdictFields
       DEF TypeInv, TypeOK, Wellformed, ExistsOnlyServed
<1>5. CASE validateCheck
  <2>1. flight # NoFlight /\ flight.step = "discover" /\ flight \in Flight
    BY <1>5, Current DEF validateCheck, Validating
  <2>2. UNCHANGED <<served, cluster, obj, cache, round, changes, edits, faults>>
    BY <1>5 DEF validateCheck
  <2>3. CASE flight' = Verdict(flight, FALSE) \/ flight' = Verdict(flight, TRUE)
    <3>1. PICK b \in BOOLEAN : flight' = Verdict(flight, b)
      BY <2>3
    <3> QED
      BY <1>0, <2>1, <2>2, <3>1, Current, VerdictFields
         DEF TypeInv, TypeOK, Wellformed, ExistsOnlyServed
  <2>4. CASE ~(flight' = Verdict(flight, FALSE) \/ flight' = Verdict(flight, TRUE))
    <3>1. flight' = NextCheck(flight) /\ ~(flight.check >= Len(flight.checks))
      BY <1>5, <2>4 DEF validateCheck, NextCheck
    <3>2. flight.check + 1 \in DOMAIN flight.checks
      BY <2>1, <3>1, Current, Lists
    <3> QED
      BY <1>0, <2>1, <2>2, <3>1, <3>2, Current, CheckFields
         DEF TypeInv, TypeOK, Wellformed, ExistsOnlyServed
  <2> QED
    BY <2>3, <2>4
<1>6. CASE Patch
  <2>1. obj' \in Object
    <3>1. flight.before \in Object /\ flight.passed \in BOOLEAN
      BY <1>6, Current DEF Patch, Flight
    <3>2. /\ Outcome(flight.before, flight.passed).ready \in BOOLEAN
          /\ Outcome(flight.before, flight.passed).failing \in BOOLEAN
      BY <3>1 DEF Outcome, Object
    <3> DEFINE after == Outcome(flight.before, flight.passed)
               r == Merge(obj.ready, flight.before.ready, after.ready)
               m == Merge(obj.failing, flight.before.failing, after.failing)
    <3>3. r \in BOOLEAN /\ m \in BOOLEAN
      BY <1>0, <3>1, <3>2 DEF Merge, Object
    <3>4. obj' = [obj EXCEPT !.ready = r, !.failing = m]
      BY <1>6 DEF Patch
    <3> HIDE DEF r, m
    <3> QED
      BY <1>0, <3>3, <3>4 DEF Object
  <2>2. flight' = NoFlight /\ round' = NoRound
        /\ UNCHANGED <<served, cluster, cache, changes, edits, faults>>
    BY <1>6 DEF Patch
  <2>3. NoRound \in History /\ NoRound.steady \subseteq NoRound.held
    BY DEF NoRound, History
  <2> QED
    BY <1>0, <2>1, <2>2, <2>3 DEF TypeInv, TypeOK, Wellformed, ExistsOnlyServed
<1>7. CASE PatchFails \/ Restart
  <2>1. /\ flight' = NoFlight /\ round' = NoRound /\ cache' \in {cache, obj} /\ faults' \in Nat
        /\ UNCHANGED <<served, cluster, obj, changes, edits>>
    BY <1>0, <1>7 DEF PatchFails, Restart, Fault
  <2>2. NoRound \in History /\ NoRound.steady \subseteq NoRound.held
    BY DEF NoRound, History
  <2> QED
    BY <1>0, <2>1, <2>2 DEF TypeInv, TypeOK, Wellformed, ExistsOnlyServed
<1>8. CASE Deliver \/ EditChecks
  <2>1. obj' \in Object /\ cache' \in Object /\ edits' \in Nat
    BY <1>0, <1>8 DEF Deliver, EditChecks, Object
  <2>2. UNCHANGED <<served, cluster, flight, round, changes, faults>>
    BY <1>8 DEF Deliver, EditChecks
  <2>3. (TypeOK /\ Wellformed) <=> TypeInv
    BY DEF TypeInv
  <2> QED
    BY <2>1, <2>2, <2>3 DEF TypeInv, TypeOK, Wellformed, ExistsOnlyServed, Check
<1>9. CASE ChangeResource \/ ChangeKinds
  <2>1. served' \in SUBSET Kinds /\ cluster' \in [Ids -> Resource \cup {Gone}] /\ ExistsOnlyServed'
    BY <1>9, ManagedType
  <2>2. ManagedChanges
    BY <1>9 DEF ChangeResource, ChangeKinds
  <2>3. UNCHANGED <<obj, cache, flight, edits, faults>> /\ changes' \in Nat
    BY <1>0, <2>2 DEF ManagedChanges
  <2>4. round' \in History /\ round'.steady \subseteq round'.held
    <3>1. CASE flight = NoFlight
      BY <1>0, <2>2, <3>1 DEF ManagedChanges
    <3>2. CASE flight # NoFlight
      BY <2>2, <3>2, ManagedRound
    <3> QED
      BY <3>1, <3>2
  <2> QED
    BY <2>1, <2>3, <2>4 DEF TypeInv, TypeOK, Wellformed, Check
<1>10. CASE UNCHANGED vars
  BY <1>10 DEF vars, TypeInv, TypeOK, Wellformed, ExistsOnlyServed, Check
<1> QED
  BY <1>1, <1>2, <1>3, <1>4, <1>5, <1>6, <1>7, <1>8, <1>9, <1>10 DEF Next, Round

(* Type correctness: no round reads past its list of checks or past the    *)
(* selectors of a check, whatever lists users give and whatever the        *)
(* managed cluster does meanwhile.                                         *)
THEOREM ChecksTypeCorrect == Spec => []TypeOK
<1>1. TypeInv => TypeOK
  BY DEF TypeInv
<1> QED
  BY <1>1, InitType, StepType, PTL DEF Spec

(***************************************************************************)
(* A round's verdict is what its checks mean.                              *)
(***************************************************************************)

(* The history knows the verdicts of this moment.                          *)
HistoryInv ==
    flight # NoFlight => \A c \in Range(flight.checks) :
        (Holds(c) => c \in round.held) /\ (c \in round.steady => Holds(c))

(* The checks before the current one held.                                 *)
PastInv ==
    flight # NoFlight /\ flight.step # "done" =>
        \A n \in 1..(flight.check - 1) :
            OneMoment(flight.checks[n]) => flight.checks[n] \in round.held

(* The verdict on a check is settled.                                      *)
Settled(c, found) ==
    IF Passes(Checks[c].condition, found) THEN c \in round.held ELSE c \notin round.steady

(* The round has found what the selectors before the current one choose    *)
(* now; or the managed cluster has moved since, and either the check is    *)
(* not one of a single moment or it has been read and is settled.          *)
CurrentInv ==
    flight # NoFlight /\ flight.step # "done" => \A c \in DOMAIN Checks, k \in Nat :
        c = flight.checks[flight.check] /\ k = flight.selector - 1 =>
            \/ EvaluableTo(Checks[c], k) /\ flight.found = CountsTo(Checks[c], k)
            \/ /\ round.moved
               /\ \/ Len(Checks[c].selectors) > 1
                  \/ k >= Len(Checks[c].selectors) /\ Settled(c, flight.found)

RoundInv ==
    /\ TypeInv
    /\ HistoryInv /\ PastInv /\ CurrentInv
    /\ PassedChecksHeld /\ FailedForAReason

LEMMA InitRound == Init => RoundInv
<1> SUFFICES ASSUME Init PROVE RoundInv
  OBVIOUS
<1>1. flight = NoFlight
  BY DEF Init
<1> QED
  BY <1>1, InitType
     DEF RoundInv, HistoryInv, PastInv, CurrentInv, PassedChecksHeld, FailedForAReason

(* What a round that reaches the end of a check may conclude.              *)
LEMMA VerdictSound ==
    ASSUME RoundInv, flight # NoFlight, flight.step = "discover",
           NEW c, c = flight.checks[flight.check], flight.selector > Len(Checks[c].selectors)
    PROVE  IF Passes(Checks[c].condition, flight.found)
           THEN OneMoment(c) => c \in round.held
           ELSE ~OneMoment(c) \/ c \notin round.steady
<1>1. c \in DOMAIN Checks /\ c \in Range(flight.checks)
  BY Current DEF RoundInv
<1>2. PICK k \in Nat : k = flight.selector - 1 /\ k >= Len(Checks[c].selectors)
  BY <1>1, Current, Lists DEF RoundInv
<1>3. CASE EvaluableTo(Checks[c], k) /\ flight.found = CountsTo(Checks[c], k)
  <2>1. Holds(c) <=> Passes(Checks[c].condition, flight.found)
    BY <1>1, <1>2, <1>3, CountsDecide
  <2> QED
    BY <1>1, <2>1 DEF RoundInv, HistoryInv
<1>4. CASE /\ round.moved
           /\ \/ Len(Checks[c].selectors) > 1
              \/ k >= Len(Checks[c].selectors) /\ Settled(c, flight.found)
  <2>1. CASE Len(Checks[c].selectors) > 1
    <3>1. ~OneMoment(c)
      BY <1>1, <1>4, <2>1, Lists DEF OneMoment
    <3> QED
      BY <3>1
  <2>2. CASE Settled(c, flight.found)
    BY <2>2 DEF Settled
  <2> QED
    BY <1>4, <2>1, <2>2
<1> QED
  BY <1>1, <1>2, <1>3, <1>4 DEF RoundInv, CurrentInv

(* A selector has been dealt with: S is what it chooses now.               *)
LEMMA SelectorSound ==
    ASSUME RoundInv, TypeInv', flight # NoFlight, flight.step # "done",
           NEW c, c = flight.checks[flight.check], flight.selector <= Len(Checks[c].selectors),
           UNCHANGED <<served, cluster, round>>,
           NEW s, s = Checks[c].selectors[flight.selector], Evaluable(s),
           NEW S, S = Chosen(s), NEW H, H = {id \in S : cluster[id].healthy},
           flight'.checks = flight.checks, flight'.check = flight.check,
           flight'.selector = flight.selector + 1, flight'.step = "discover",
           flight'.found = [total |-> flight.found.total + Cardinality(S),
                            healthy |-> flight.found.healthy + Cardinality(H)]
    PROVE  RoundInv'
<1>1. c \in DOMAIN Checks /\ flight.selector \in Nat /\ flight.selector >= 1 /\ TypeInv
  BY Current DEF RoundInv
<1>2. PICK k \in Nat : k = flight.selector - 1
  BY <1>1
<1>3. k + 1 \in DOMAIN Checks[c].selectors /\ k + 1 = flight.selector
      /\ Len(Checks[c].selectors) \in Nat /\ ~(k >= Len(Checks[c].selectors))
  BY <1>1, <1>2, Lists
<1>4. ASSUME EvaluableTo(Checks[c], k) /\ flight.found = CountsTo(Checks[c], k)
      PROVE  EvaluableTo(Checks[c], k + 1) /\ flight'.found = CountsTo(Checks[c], k + 1)
  <2>1. EvaluableTo(Checks[c], k + 1)
    <3>1. \A n \in DOMAIN Checks[c].selectors : n <= k + 1 => n <= k \/ n = k + 1
      BY <1>1, Lists
    <3> QED
      BY <1>3, <1>4, <3>1 DEF EvaluableTo
  <2>2. S = Chosen(Checks[c].selectors[k + 1])
    BY <1>3
  <2>3. CountsTo(Checks[c], k + 1) =
          [total |-> CountsTo(Checks[c], k).total + Cardinality(S),
           healthy |-> CountsTo(Checks[c], k).healthy + Cardinality(H)]
    BY <1>1, <1>3, <2>2, CountsOneMore
  <2> QED
    BY <1>4, <2>1, <2>3
<1>5. \/ EvaluableTo(Checks[c], k + 1) /\ flight'.found = CountsTo(Checks[c], k + 1)
      \/ round.moved /\ Len(Checks[c].selectors) > 1
  BY <1>1, <1>2, <1>3, <1>4 DEF RoundInv, CurrentInv
<1>6. CurrentInv'
  <2> SUFFICES ASSUME NEW d \in DOMAIN Checks, NEW j \in Nat,
                      d = flight'.checks[flight'.check], j = flight'.selector - 1
               PROVE  \/ EvaluableTo(Checks[d], j)' /\ flight'.found = CountsTo(Checks[d], j)'
                      \/ round'.moved /\ Len(Checks[d].selectors) > 1
    BY DEF CurrentInv
  <2>1. d = c /\ j = k + 1
    BY <1>1, <1>2
  <2> QED
    BY <1>5, <2>1, StandsStill
<1>7. HistoryInv'
  BY StandsStill DEF RoundInv, HistoryInv
<1>8. PastInv'
  BY DEF RoundInv, PastInv, OneMoment
<1> QED
  BY <1>6, <1>7, <1>8 DEF RoundInv, PassedChecksHeld, FailedForAReason

(* The round ends with a failure, for a reason.                            *)
LEMMA FailureSound ==
    ASSUME RoundInv, TypeInv', flight # NoFlight, flight' = Verdict(flight, FALSE),
           UNCHANGED <<served, cluster>>, round' = round \/ round' = [round EXCEPT !.erred = TRUE],
           \/ round'.erred
           \/ \E c \in Range(flight.checks) : ~OneMoment(c) \/ c \notin round.steady
    PROVE  RoundInv'
<1>1. flight'.step = "done" /\ flight'.passed = FALSE /\ flight'.checks = flight.checks
  BY Current, VerdictFields DEF RoundInv
<1>2. round'.held = round.held /\ round'.steady = round.steady /\ round'.moved = round.moved
  BY DEF RoundInv, TypeInv, TypeOK, History
<1>3. HistoryInv'
  BY <1>1, <1>2, StandsStill DEF RoundInv, HistoryInv
<1>4. FailedForAReason'
  BY <1>1, <1>2 DEF FailedForAReason, OneMoment
<1> QED
  BY <1>1, <1>3, <1>4 DEF RoundInv, PastInv, CurrentInv, PassedChecksHeld

LEMMA StepRound == RoundInv /\ [Next]_vars => RoundInv'
<1> SUFFICES ASSUME RoundInv, [Next]_vars PROVE RoundInv'
  OBVIOUS
<1>0. TypeInv /\ TypeInv'
  BY StepType DEF RoundInv
<1>1. CASE Begin
  <2>1. UNCHANGED <<served, cluster>>
    BY <1>1 DEF Begin
  <2>2. /\ flight'.selector = 1 /\ flight'.check = 1 /\ flight'.found = NoCounts
        /\ flight'.checks = runChecks(cache) /\ runChecks(cache) \in Readiness \cup Liveness
        /\ IF runChecks(cache) = <<>> THEN flight'.step = "done" /\ flight'.passed
                                     ELSE flight'.step = "discover"
    BY <1>0, <1>1, BeginFields
  <2>3. \A c \in Range(runChecks(cache)) :
          (c \in round'.held <=> Holds(c)) /\ (c \in round'.steady <=> Holds(c))
    BY <1>1 DEF Begin
  <2>4. HistoryInv'
    BY <2>1, <2>2, <2>3, StandsStill DEF HistoryInv
  <2>5. PastInv'
    BY <2>2 DEF PastInv
  <2>6. CurrentInv'
    BY <2>2, CountsNone DEF CurrentInv
  <2>7. PassedChecksHeld' /\ FailedForAReason'
    <3>1. CASE runChecks(cache) = <<>>
      <4>1. Range(runChecks(cache)) = {}
        BY <3>1 DEF Range
      <4> QED
        BY <2>2, <3>1, <4>1 DEF PassedChecksHeld, FailedForAReason
    <3>2. CASE runChecks(cache) # <<>>
      BY <2>2, <3>2 DEF PassedChecksHeld, FailedForAReason
    <3> QED
      BY <3>1, <3>2
  <2> QED
    BY <1>0, <2>4, <2>5, <2>6, <2>7 DEF RoundInv
<1>2. CASE Discover
  <2>1. PICK c : c = flight.checks[flight.check]
    OBVIOUS
  <2>2. /\ flight # NoFlight /\ flight.step = "discover" /\ flight \in Flight
        /\ flight.selector <= Len(Checks[c].selectors) /\ flight.found \in Counts
        /\ c \in DOMAIN Checks
    BY <1>0, <1>2, <2>1, Current DEF Discover, Selecting, Check
  <2>3. UNCHANGED <<served, cluster, round>>
    BY <1>2 DEF Discover
  <2>4. PICK s : s = Checks[c].selectors[flight.selector]
    OBVIOUS
  <2>5. Selector = s
    BY <2>1, <2>4 DEF Selector, Check
  <2>6. CASE s.kind \in served
    <3>1. /\ flight'.step = "list" /\ flight'.checks = flight.checks
          /\ flight'.check = flight.check /\ flight'.selector = flight.selector
          /\ flight'.found = flight.found
      BY <1>2, <2>2, <2>5, <2>6 DEF Discover, Flight
    <3>2. HistoryInv'
      BY <2>2, <2>3, <3>1, StandsStill DEF RoundInv, HistoryInv
    <3>3. PastInv'
      BY <2>2, <2>3, <3>1 DEF RoundInv, PastInv, OneMoment
    <3>4. CurrentInv'
      BY <2>2, <2>3, <3>1, StandsStill DEF RoundInv, CurrentInv, Settled
    <3> QED
      BY <1>0, <3>1, <3>2, <3>3, <3>4 DEF RoundInv, PassedChecksHeld, FailedForAReason
  <2>7. CASE s.kind \notin served
    <3>1. flight' = NextSelector(flight)
      BY <1>2, <2>5, <2>7 DEF Discover
    <3>2. Evaluable(s) /\ Chosen(s) = {}
      BY <2>7, UnservedAgrees
    <3>3. PICK S, H : S = Chosen(s) /\ H = {id \in S : cluster[id].healthy}
      OBVIOUS
    <3>4. Cardinality(S) = 0 /\ Cardinality(H) = 0
      BY <3>2, <3>3, FS_EmptySet
    <3>5. flight.found = [total |-> flight.found.total + 0, healthy |-> flight.found.healthy + 0]
      BY <2>2 DEF Counts
    <3>6. /\ flight'.checks = flight.checks /\ flight'.check = flight.check
          /\ flight'.selector = flight.selector + 1 /\ flight'.step = "discover"
          /\ flight'.found = flight.found
      BY <2>2, <3>1, SelectorFields
    <3>7. flight'.found = [total |-> flight.found.total + Cardinality(S),
                           healthy |-> flight.found.healthy + Cardinality(H)]
      BY <3>4, <3>5, <3>6
    <3> QED
      BY <1>0, <2>1, <2>2, <2>3, <2>4, <3>2, <3>3, <3>6, <3>7, SelectorSound
  <2> QED
    BY <2>6, <2>7
<1>3. CASE List
  <2>1. PICK c : c = flight.checks[flight.check]
    OBVIOUS
  <2>2. /\ flight # NoFlight /\ flight.step = "list" /\ flight \in Flight
        /\ c \in DOMAIN Checks /\ c \in Range(flight.checks)
    BY <1>0, <1>3, <2>1, Current DEF List, Listing
  <2>3. flight.selector \in DOMAIN Checks[c].selectors
    BY <1>0, <2>1, <2>2 DEF TypeInv, TypeOK, Check
  <2>4. UNCHANGED <<served, cluster, round>>
    BY <1>3 DEF List
  <2>5. PICK s : s = Checks[c].selectors[flight.selector]
    OBVIOUS
  <2>6. Selector = s /\ s.kind \in served
    BY <1>3, <2>1, <2>5 DEF List, Selector, Check
  <2> DEFINE fails == \/ s.selector = Broken
                      \/ \E id \in Usable(s) : isMatch(cluster[id], s) = "error"
             matching == {id \in Usable(s) : isMatch(cluster[id], s) = "yes"}
             healthy == {id \in matching : cluster[id].healthy}
  <2>7. /\ fails => flight' = Verdict(flight, FALSE)
        /\ ~fails => flight' = NextSelector([flight EXCEPT !.found =
                         [total |-> @.total + Cardinality(matching),
                          healthy |-> @.healthy + Cardinality(healthy)]])
    BY <1>3, <2>6 DEF List
  <2>8. (Evaluable(s) <=> ~fails) /\ (~fails => matching = Chosen(s))
    BY <2>6, ListAgrees
  <2>9. matching \subseteq Ids
    BY DEF Usable, Listed
  <2>10. PICK S, H : S = matching /\ H = healthy
    OBVIOUS
  <2>11. H = {id \in S : cluster[id].healthy}
    BY <2>10
  <2> HIDE DEF fails, matching, healthy
  <2>12. CASE fails
    <3>1. ~Holds(c)
      BY <2>2, <2>3, <2>5, <2>8, <2>12, BrokenBreaks
    <3>2. c \notin round.steady
      BY <2>2, <3>1 DEF RoundInv, HistoryInv
    <3> QED
      BY <1>0, <2>2, <2>4, <2>7, <2>12, <3>2, FailureSound
  <2>13. CASE ~fails
    <3>1. Cardinality(S) \in Nat /\ Cardinality(H) \in Nat
      <4>1. IsFiniteSet(S)
        BY <2>9, <2>10, ChecksAssumption, FS_Subset DEF ChecksAssumption
      <4>2. IsFiniteSet(H)
        BY <2>11, <4>1, FS_Subset
      <4> QED
        BY <4>1, <4>2, FS_CardinalityType
    <3>2. PICK g : g = [flight EXCEPT !.found = [total |-> @.total + Cardinality(S),
                                                 healthy |-> @.healthy + Cardinality(H)]]
      OBVIOUS
    <3>3. /\ g \in Flight /\ g.checks = flight.checks /\ g.check = flight.check
          /\ g.selector = flight.selector
          /\ g.found = [total |-> flight.found.total + Cardinality(S),
                        healthy |-> flight.found.healthy + Cardinality(H)]
      BY <2>2, <3>1, <3>2, FoundFields
    <3>4. flight' = NextSelector(g)
      BY <2>7, <2>10, <2>13, <3>2
    <3>5. /\ flight'.checks = flight.checks /\ flight'.check = flight.check
          /\ flight'.selector = flight.selector + 1 /\ flight'.step = "discover"
          /\ flight'.found = [total |-> flight.found.total + Cardinality(S),
                              healthy |-> flight.found.healthy + Cardinality(H)]
      BY <3>3, <3>4, SelectorFields
    <3>6. flight.selector <= Len(Checks[c].selectors)
      BY <2>2, <2>3, Lists
    <3>7. Evaluable(s) /\ S = Chosen(s)
      BY <2>8, <2>10, <2>13
    <3> QED
      BY <1>0, <2>1, <2>2, <2>4, <2>5, <2>11, <3>5, <3>6, <3>7, SelectorSound
  <2> QED
    BY <2>12, <2>13
<1>4. CASE ListRefused \/ CallFails
  <2>1. /\ flight # NoFlight /\ flight' = Verdict(flight, FALSE)
        /\ UNCHANGED <<served, cluster>> /\ round' = [round EXCEPT !.erred = TRUE]
    BY <1>4 DEF ListRefused, CallFails, Selecting, Listing
  <2>2. round'.erred
    BY <1>0, <2>1 DEF TypeInv, TypeOK, History
  <2> QED
    BY <1>0, <2>1, <2>2, FailureSound
<1>5. CASE validateCheck
  <2>1. PICK c : c = flight.checks[flight.check]
    OBVIOUS
  <2>2. /\ flight # NoFlight /\ flight.step = "discover" /\ flight \in Flight
        /\ flight.selector > Len(Checks[c].selectors)
        /\ c \in DOMAIN Checks /\ c \in Range(flight.checks)
        /\ flight.check \in 1..Len(flight.checks) /\ Len(flight.checks) \in Nat
        /\ DOMAIN flight.checks = 1..Len(flight.checks)
    BY <1>0, <1>5, <2>1, Current, Lists DEF validateCheck, Validating, Check
  <2>3. UNCHANGED <<served, cluster, round>>
    BY <1>5 DEF validateCheck
  <2>4. flight' = IF Passes(Checks[c].condition, flight.found)
                  THEN NextCheck(flight) ELSE Verdict(flight, FALSE)
    BY <1>5, <2>1 DEF validateCheck, Check
  <2>5. CASE ~Passes(Checks[c].condition, flight.found)
    <3>1. ~OneMoment(c) \/ c \notin round.steady
      BY <2>1, <2>2, <2>5, VerdictSound
    <3>2. flight' = Verdict(flight, FALSE)
      BY <2>4, <2>5
    <3> QED
      BY <1>0, <2>2, <2>3, <3>1, <3>2, FailureSound
  <2>6. CASE Passes(Checks[c].condition, flight.found)
    <3>1. OneMoment(c) => c \in round.held
      BY <2>1, <2>2, <2>6, VerdictSound
    <3>2. \A n \in 1..flight.check :
            OneMoment(flight.checks[n]) => flight.checks[n] \in round.held
      <4>1. \A n \in 1..flight.check : n \in 1..(flight.check - 1) \/ n = flight.check
        BY <2>2
      <4> QED
        BY <2>1, <2>2, <3>1, <4>1 DEF RoundInv, PastInv
    <3>3. CASE flight.check >= Len(flight.checks)
      <4>1. flight' = Verdict(flight, TRUE)
        BY <2>4, <2>6, <3>3 DEF NextCheck
      <4>2. flight'.step = "done" /\ flight'.passed = TRUE /\ flight'.checks = flight.checks
        BY <2>2, <4>1, VerdictFields
      <4>3. \A d \in Range(flight.checks) : OneMoment(d) => d \in round.held
        BY <2>2, <3>2, <3>3 DEF Range
      <4>4. PassedChecksHeld' /\ FailedForAReason'
        BY <2>3, <4>2, <4>3 DEF PassedChecksHeld, FailedForAReason, OneMoment
      <4>5. HistoryInv'
        BY <2>2, <2>3, <4>2, StandsStill DEF RoundInv, HistoryInv
      <4> QED
        BY <1>0, <4>2, <4>4, <4>5 DEF RoundInv, PastInv, CurrentInv
    <3>4. CASE ~(flight.check >= Len(flight.checks))
      <4>1. /\ flight'.step = "discover" /\ flight'.check = flight.check + 1
            /\ flight'.selector = 1 /\ flight'.found = NoCounts /\ flight'.checks = flight.checks
        BY <2>2, <2>4, <2>6, <3>4, CheckFields
      <4>2. HistoryInv'
        BY <2>2, <2>3, <4>1, StandsStill DEF RoundInv, HistoryInv
      <4>3. PastInv'
        <5>1. flight'.check - 1 = flight.check
          BY <2>2, <4>1
        <5> QED
          BY <2>3, <3>2, <4>1, <5>1 DEF PastInv, OneMoment
      <4>4. CurrentInv'
        BY <4>1, CountsNone DEF CurrentInv
      <4> QED
        BY <1>0, <4>1, <4>2, <4>3, <4>4 DEF RoundInv, PassedChecksHeld, FailedForAReason
    <3> QED
      BY <3>3, <3>4
  <2> QED
    BY <2>5, <2>6
<1>6. CASE Patch \/ PatchFails \/ Restart
  <2>1. flight' = NoFlight
    BY <1>6 DEF Patch, PatchFails, Restart
  <2> QED
    BY <1>0, <2>1
       DEF RoundInv, HistoryInv, PastInv, CurrentInv, PassedChecksHeld, FailedForAReason
<1>7. CASE Deliver \/ EditChecks \/ UNCHANGED vars
  <2>1. UNCHANGED <<served, cluster, flight, round>>
    BY <1>7 DEF Deliver, EditChecks, vars
  <2>2. HistoryInv'
    BY <2>1, StandsStill DEF RoundInv, HistoryInv
  <2>3. CurrentInv'
    BY <2>1, StandsStill DEF RoundInv, CurrentInv, Settled
  <2> QED
    BY <1>0, <2>1, <2>2, <2>3
       DEF RoundInv, PastInv, PassedChecksHeld, FailedForAReason, OneMoment
<1>8. CASE ChangeResource \/ ChangeKinds
  <2>1. ManagedChanges /\ UNCHANGED flight
    BY <1>8 DEF ChangeResource, ChangeKinds, ManagedChanges
  <2>2. CASE flight = NoFlight
    BY <1>0, <2>1, <2>2
       DEF RoundInv, HistoryInv, PastInv, CurrentInv, PassedChecksHeld, FailedForAReason
  <2>3. CASE flight # NoFlight
    <3>1. /\ round'.moved = TRUE /\ round'.erred = round.erred
          /\ \A c \in Range(flight.checks) :
                /\ c \in round'.held <=> c \in round.held \/ Holds(c)'
                /\ c \in round'.steady <=> c \in round.steady /\ Holds(c)'
          /\ round.held \subseteq round'.held /\ round'.steady \subseteq round.steady
      BY <1>0, <2>1, <2>3, ManagedRound
    <3>2. \A c : OneMoment(c)' => OneMoment(c)
      BY <3>1 DEF OneMoment
    <3>3. HistoryInv'
      BY <2>1, <3>1 DEF HistoryInv
    <3>4. PastInv'
      BY <2>1, <2>3, <3>1, <3>2 DEF RoundInv, PastInv
    <3>5. PassedChecksHeld' /\ FailedForAReason'
      BY <2>1, <2>3, <3>1, <3>2 DEF RoundInv, PassedChecksHeld, FailedForAReason
    <3>6. ASSUME flight.step # "done", NEW c \in DOMAIN Checks, NEW k \in Nat,
                 c = flight.checks[flight.check], k = flight.selector - 1
          PROVE  \/ EvaluableTo(Checks[c], k)' /\ flight.found = CountsTo(Checks[c], k)'
                 \/ Len(Checks[c].selectors) > 1
                 \/ k >= Len(Checks[c].selectors) /\ Settled(c, flight.found)'
      <4>1. c \in Range(flight.checks) /\ Len(Checks[c].selectors) \in Nat
        BY <1>0, <2>3, <3>6, Current, Lists
      <4>2. CASE EvaluableTo(Checks[c], k) /\ flight.found = CountsTo(Checks[c], k)
        <5>1. CASE k = 0
          BY <4>2, <5>1, CountsNone
        <5>2. CASE k # 0 /\ ~(Len(Checks[c].selectors) > 1)
          <6>1. k >= Len(Checks[c].selectors)
            BY <4>1, <5>2
          <6>2. Holds(c) <=> Passes(Checks[c].condition, flight.found)
            BY <4>2, <6>1, CountsDecide
          <6>3. (Holds(c) => c \in round.held) /\ (c \in round.steady => Holds(c))
            BY <2>3, <4>1 DEF RoundInv, HistoryInv
          <6> QED
            BY <2>1, <3>1, <4>1, <6>1, <6>2, <6>3 DEF Settled
        <5> QED
          BY <5>1, <5>2
      <4>3. CASE k >= Len(Checks[c].selectors) /\ Settled(c, flight.found)
        BY <2>1, <3>1, <4>1, <4>3 DEF Settled
      <4> QED
        BY <2>3, <3>6, <4>2, <4>3 DEF RoundInv, CurrentInv
    <3>7. CurrentInv'
      BY <2>1, <2>3, <3>1, <3>6 DEF CurrentInv
    <3> QED
      BY <1>0, <3>3, <3>4, <3>5, <3>7 DEF RoundInv
  <2> QED
    BY <2>2, <2>3
<1> QED
  BY <1>1, <1>2, <1>3, <1>4, <1>5, <1>6, <1>7, <1>8 DEF Next, Round

(* A round passes only if each of its checks of a single moment really     *)
(* held during it, for every list of checks and every script, although the *)
(* managed cluster changes between the calls.                              *)
THEOREM PassedRoundsSound == Spec => []PassedChecksHeld
<1>1. RoundInv => PassedChecksHeld
  BY DEF RoundInv
<1> QED
  BY <1>1, InitRound, StepRound, PTL DEF Spec

(* A round fails only if a call failed or one of its checks did not hold   *)
(* throughout.                                                             *)
THEOREM FailedRoundsSound == Spec => []FailedForAReason
<1>1. RoundInv => FailedForAReason
  BY DEF RoundInv
<1> QED
  BY <1>1, InitRound, StepRound, PTL DEF Spec

(* A cluster becomes ready only in a round that passed through the         *)
(* readiness checks its reconcile read, even when that object was old.     *)
THEOREM ReadyIsEarned == Spec => ReadyEarned
<1> DEFINE A == ~obj.ready /\ obj'.ready =>
                  \A c \in Range(flight.before.readiness) : OneMoment(c) => c \in round.held
<1>1. RoundInv /\ [Next]_vars => [A]_vars
  <2> SUFFICES ASSUME RoundInv, Next, ~obj.ready, obj'.ready
               PROVE  \A c \in Range(flight.before.readiness) : OneMoment(c) => c \in round.held
    OBVIOUS
  <2>0. TypeInv /\ obj \in Object
    BY DEF RoundInv, TypeInv, TypeOK
  <2>1. CASE Patch
    <3>1. flight # NoFlight /\ flight.step = "done" /\ flight \in Flight
      BY <2>0, <2>1, Current DEF Patch
    <3>2. /\ flight.before \in Object /\ flight.passed \in BOOLEAN
          /\ flight.before.ready \in BOOLEAN
      BY <3>1 DEF Flight, Object
    <3>3. Outcome(flight.before, flight.passed).ready = (flight.before.ready \/ flight.passed)
      BY <3>2 DEF Outcome, Object
    <3>4. obj'.ready = Merge(obj.ready, flight.before.ready, flight.before.ready \/ flight.passed)
      BY <2>0, <2>1, <3>3 DEF Patch, Object
    <3>5. ~flight.before.ready /\ flight.passed
      BY <3>2, <3>4 DEF Merge
    <3>6. flight.checks = flight.before.readiness
      BY <2>0, <3>1, <3>5 DEF TypeInv, Wellformed, runChecks
    <3> QED
      BY <3>1, <3>5, <3>6 DEF RoundInv, PassedChecksHeld
  <2>2. CASE EditChecks
    <3>1. obj'.ready = obj.ready
      BY <2>0, <2>2 DEF EditChecks, Object
    <3> QED
      BY <3>1
  <2>3. CASE ~(Patch \/ EditChecks)
    <3>1. UNCHANGED obj
      BY <2>3 DEF Next, Round, Begin, Discover, List, ListRefused, validateCheck, CallFails,
                  PatchFails, Restart, Deliver, ChangeResource, ChangeKinds, ManagedChanges
    <3> QED
      BY <3>1
  <2> QED
    BY <2>1, <2>2, <2>3
<1> QED
  BY <1>1, InitRound, StepRound, PTL DEF Spec, ReadyEarned
===============================================================================
