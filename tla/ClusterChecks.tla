---------------------------- MODULE ClusterChecks ----------------------------
(***************************************************************************)
(* The readiness and liveness checks of a push-mode cluster.  A round goes *)
(* through a list of checks; a check goes through its resource selectors,  *)
(* and for each asks the managed cluster what kinds it serves and then for *)
(* the resources.  The managed cluster changes between any two of these    *)
(* calls.  The round's verdict reaches the SveltosCluster by merge patch.  *)
(*                                                                         *)
(* Lua and CEL are external: a script on one resource is the set of the    *)
(* health values it accepts, and may be absent or broken; a check's        *)
(* condition, if any, is the set of the counts it accepts, empty when it   *)
(* is broken, which fails the check as well.  Labels have one key.         *)
(***************************************************************************)
EXTENDS Naturals, Sequences, FiniteSets, Functions, Scope

CONSTANTS
    Kinds,       \* the kinds selectors name
    Builtin,     \* those the managed cluster always serves
    Ids,         \* resources: records with kind, namespace and name
    Values,      \* the values of the label
    NoLabel,     \* a resource without the label
    Resource,    \* the states resources go through: label, deletion, health
    Gone,        \* no such resource
    Any,         \* an empty Namespace or Name of a selector
    NoScript,    \* Evaluate = "", EvaluateCEL = nil, Condition = ""
    Broken,      \* a script, or a Selector, that cannot be used
    Checks,      \* the checks by name: selectors and condition
    Readiness,   \* the lists of checks, by name, users give as readiness checks
    Liveness,    \* and as liveness checks
    NoFlight,    \* no round is in flight
    MaxChanges,  \* bound on changes of the managed cluster
    MaxEdits,    \* bound on users' edits of the lists
    MaxFaults    \* bound on failed calls and restarts

ASSUME ChecksAssumption ==
    /\ Builtin \subseteq Kinds /\ \A id \in Ids : id.kind \in Kinds
    /\ NoLabel \notin Values
    /\ Resource \subseteq [label : Values \cup {NoLabel}, deleting : BOOLEAN, healthy : BOOLEAN]
    /\ IsFiniteSet(Ids) /\ NoScript # Broken
    /\ Readiness \cup Liveness \subseteq Seq(DOMAIN Checks)
    /\ \A c \in DOMAIN Checks : Checks[c].selectors \in Seq(Range(Checks[c].selectors))
    /\ {MaxChanges, MaxEdits, MaxFaults} \subseteq Nat

VARIABLES
    served,   \* the kinds the managed cluster serves
    cluster,  \* its resources
    obj,      \* the SveltosCluster: the two lists, Ready, FailureMessage
    cache,    \* the SveltosCluster in the manager's cache
    flight,   \* the round in flight
    round,    \* history of the round: checks that held at some moment of it
              \* (held) or at every moment (steady); did the managed cluster
              \* change (moved), did a call fail (erred)?
    changes,  \* changes of the managed cluster so far
    edits,    \* users' edits so far
    faults    \* failed calls and restarts so far

vars == <<served, cluster, obj, cache, flight, round, changes, edits, faults>>

Object == [readiness : Readiness, liveness : Liveness,
           ready : BOOLEAN, failing : BOOLEAN]
Counts == [total : Nat, healthy : Nat]
History == [held : SUBSET DOMAIN Checks, steady : SUBSET DOMAIN Checks,
            moved : BOOLEAN, erred : BOOLEAN]
NoRound == [held |-> {}, steady |-> {}, moved |-> FALSE, erred |-> FALSE]

(* A resource exists only while its kind is served.                        *)
ExistsOnlyServed == \A id \in Ids : cluster[id] # Gone => id.kind \in served

Init ==
    /\ served \in {kinds \in SUBSET Kinds : Builtin \subseteq kinds}
    /\ cluster \in [Ids -> {r \in Resource : ~r.deleting} \cup {Gone}] /\ ExistsOnlyServed
    /\ \E r \in Readiness, l \in Liveness :
          obj = [readiness |-> r, liveness |-> l, ready |-> FALSE, failing |-> FALSE]
    /\ cache = obj
    /\ flight = NoFlight /\ round = NoRound
    /\ changes = 0 /\ edits = 0 /\ faults = 0

(* One requirement on the label.  "Different" also takes the resources     *)
(* that do not have it, as Kubernetes' != does.                            *)
Satisfies(r, requirement) ==
    CASE requirement.op = "Equal"       -> r.label = requirement.value
      [] requirement.op = "Different"   -> r.label # requirement.value
      [] requirement.op = "Has"         -> r.label # NoLabel
      [] requirement.op = "DoesNotHave" -> r.label = NoLabel

(***************************************************************************)
(* What a check means, whatever order it is evaluated in: the selectors    *)
(* describe sets of resources, and the condition speaks of their counts.   *)
(***************************************************************************)
Candidates(s) ==
    IF s.kind \notin served THEN {}
    ELSE {id \in Ids :
            /\ cluster[id] # Gone /\ id.kind = s.kind
            /\ s.namespace # Any => s.namespace = id.namespace
            /\ s.name # Any => s.name = id.name
            /\ \A q \in s.labelFilters : Satisfies(cluster[id], q)
            /\ \A q \in s.selector : Satisfies(cluster[id], q)
            /\ cluster[id].deleting => s.includeDeletingResources}

(* A resource is chosen by its CEL rules or by its Lua script; by neither  *)
(* only where neither is given.                                            *)
ByCEL(s, r) == s.cel # NoScript /\ r.healthy \in s.cel
ByLua(s, r) == s.lua # NoScript /\ r.healthy \in s.lua
Chosen(s) == {id \in Candidates(s) : \/ ByCEL(s, cluster[id])
                                     \/ ByLua(s, cluster[id])
                                     \/ s.cel = NoScript /\ s.lua = NoScript}
Evaluable(s) ==
    s.kind \in served =>
        /\ s.selector # Broken
        /\ \A id \in Candidates(s) :
              s.cel # Broken /\ (ByCEL(s, cluster[id]) \/ s.lua # Broken)

(* A resource counts once for every selector that chooses it.              *)
ChosenPairs(c) == {p \in (DOMAIN c.selectors) \X Ids : p[2] \in Chosen(c.selectors[p[1]])}
HoldsNow(c) ==
    /\ \A n \in DOMAIN c.selectors : Evaluable(c.selectors[n])
    /\ c.condition # NoScript =>
          [total |-> Cardinality(ChosenPairs(c)),
           healthy |-> Cardinality({p \in ChosenPairs(c) : cluster[p[2]].healthy})] \in c.condition
Holds(name) == HoldsNow(Checks[name])

(***************************************************************************)
(* Which resources a selector gets.                                        *)
(***************************************************************************)
(* LabelFilters and Selector together.                                     *)
calculateLabelSelector(s) == s.labelFilters \cup s.selector

(* The List call.                                                          *)
Listed(s) ==
    {id \in Ids : /\ cluster[id] # Gone
                  /\ id.kind = s.kind
                  /\ s.namespace \in {Any, id.namespace}
                  /\ s.name \in {Any, id.name}
                  /\ \A q \in calculateLabelSelector(s) : Satisfies(cluster[id], q)}

isMatchForLua(r, script) ==
    CASE script = NoScript              -> "yes"
      [] script = Broken                -> "error"
      [] script \notin {NoScript, Broken} -> IF r.healthy \in script THEN "yes" ELSE "no"

(* Seeded fault: without Lua, CEL rules that do not match are ignored.     *)
isMatch_LuaOnly(r, s) ==
    CASE s.cel = Broken -> "error"
      [] s.cel \notin {NoScript, Broken} /\ r.healthy \in s.cel -> "yes"
      [] OTHER -> isMatchForLua(r, s.lua)

(* CEL rules that match decide; otherwise Lua does, and when there are CEL *)
(* rules its absence is not a match.                                       *)
isMatch(r, s) ==
    CASE s.cel = Broken -> "error"
      [] s.cel \notin {NoScript, Broken} /\ r.healthy \in s.cel -> "yes"
      [] s.cel \notin {NoScript, Broken} /\ r.healthy \notin s.cel /\ s.lua = NoScript -> "no"
      [] OTHER -> isMatchForLua(r, s.lua)

(* Seeded fault: resources that are being deleted are used.                *)
Usable_Deleting(s) == Listed(s)

(* Resources that are being deleted are left out, before any script runs.  *)
Usable(s) == {id \in Listed(s) : cluster[id].deleting => s.includeDeletingResources}

(***************************************************************************)
(* A round.                                                                *)
(***************************************************************************)
Check == Checks[flight.checks[flight.check]]
Selector == Check.selectors[flight.selector]
NoCounts == [total |-> 0, healthy |-> 0]

(* Seeded fault: a ready cluster runs its readiness checks.                *)
runChecks_Inverted(o) == IF o.ready THEN o.readiness ELSE o.liveness

(* The method runChecks: which list the round goes through.                *)
runChecks(o) == IF o.ready THEN o.liveness ELSE o.readiness

Verdict(f, pass) == [f EXCEPT !.step = "done", !.passed = pass]

(* The loop of getResources: on to the next selector.                      *)
NextSelector(f) == [f EXCEPT !.selector = @ + 1, !.step = "discover"]

(* Seeded fault: the loop goes one past the last check.                    *)
NextCheck_PastEnd(f) ==
    IF f.check > Len(f.checks) THEN Verdict(f, TRUE)
    ELSE [f EXCEPT !.check = @ + 1, !.selector = 1, !.found = NoCounts]

(* The loop of runChecks: on to the next check, or the round has passed.   *)
NextCheck(f) ==
    IF f.check >= Len(f.checks) THEN Verdict(f, TRUE)
    ELSE [f EXCEPT !.check = @ + 1, !.selector = 1, !.found = NoCounts]

(* Reconcile reads the cached object and starts the round.                 *)
Begin ==
    /\ flight = NoFlight
    /\ LET start == [before |-> cache, checks |-> runChecks(cache), check |-> 1, selector |-> 1,
                     found |-> NoCounts, step |-> "discover", passed |-> FALSE]
       IN  /\ flight' = IF start.checks = <<>> THEN Verdict(start, TRUE) ELSE start
           /\ LET holding == {c \in Range(start.checks) : Holds(c)}
              IN  round' = [held |-> holding, steady |-> holding, moved |-> FALSE, erred |-> FALSE]
    /\ UNCHANGED <<served, cluster, obj, cache, changes, edits, faults>>

Selecting == flight # NoFlight /\ flight.step = "discover" /\ flight.selector <= Len(Check.selectors)
Listing == flight # NoFlight /\ flight.step = "list"
Validating == flight # NoFlight /\ flight.step = "discover" /\ flight.selector > Len(Check.selectors)

(* A selector of a kind that is not served gets nothing.                   *)
Discover ==
    /\ Selecting
    /\ flight' = IF Selector.kind \in served THEN [flight EXCEPT !.step = "list"]
                                             ELSE NextSelector(flight)
    /\ UNCHANGED <<served, cluster, obj, cache, round, changes, edits, faults>>

(* The resources are listed and added to those found so far, a resource    *)
(* that two selectors match twice.  One script that breaks fails the round.*)
List ==
    /\ Listing
    /\ Selector.kind \in served
    /\ flight' =
         IF \/ Selector.selector = Broken
            \/ \E id \in Usable(Selector) : isMatch(cluster[id], Selector) = "error"
         THEN Verdict(flight, FALSE)
         ELSE LET matching == {id \in Usable(Selector) : isMatch(cluster[id], Selector) = "yes"}
                  healthy == {id \in matching : cluster[id].healthy}
              IN  NextSelector([flight EXCEPT !.found =
                      [total |-> @.total + Cardinality(matching),
                       healthy |-> @.healthy + Cardinality(healthy)]])
    /\ UNCHANGED <<served, cluster, obj, cache, round, changes, edits, faults>>

(* The kind is gone since it was discovered: the call fails.               *)
ListRefused ==
    /\ Listing
    /\ Selector.kind \notin served
    /\ flight' = Verdict(flight, FALSE)
    /\ round' = [round EXCEPT !.erred = TRUE]
    /\ UNCHANGED <<served, cluster, obj, cache, changes, edits, faults>>

Fault == faults < MaxFaults /\ faults' = faults + 1

(* The discovery call or the List call fails.                              *)
CallFails ==
    /\ Selecting \/ Listing
    /\ Fault
    /\ flight' = Verdict(flight, FALSE)
    /\ round' = [round EXCEPT !.erred = TRUE]
    /\ UNCHANGED <<served, cluster, obj, cache, changes, edits>>

Passes(condition, found) == condition = NoScript \/ found \in condition

validateCheck ==
    /\ Validating
    /\ flight' = IF Passes(Check.condition, flight.found)
                 THEN NextCheck(flight)
                 ELSE Verdict(flight, FALSE)
    /\ UNCHANGED <<served, cluster, obj, cache, round, changes, edits, faults>>

(* Seeded faults: Ready is not set; a ready cluster's failure is dropped.  *)
Outcome_NotReady(o, passed) == [o EXCEPT !.failing = ~passed]
Outcome_ReadyKept(o, passed) == [o EXCEPT !.failing = ~passed /\ ~o.ready, !.ready = @ \/ passed]

(* reconcileNormal, given the verdict: Ready is set and never reset.       *)
Outcome(o, passed) == [o EXCEPT !.failing = ~passed, !.ready = @ \/ passed]

(* Scope.Close.                                                            *)
Patch ==
    /\ flight # NoFlight /\ flight.step = "done"
    /\ LET after == Outcome(flight.before, flight.passed)
       IN  obj' = [obj EXCEPT !.ready = Merge(@, flight.before.ready, after.ready),
                              !.failing = Merge(@, flight.before.failing, after.failing)]
    /\ flight' = NoFlight /\ round' = NoRound
    /\ UNCHANGED <<served, cluster, cache, changes, edits, faults>>

PatchFails ==
    /\ flight # NoFlight /\ flight.step = "done"
    /\ Fault
    /\ flight' = NoFlight /\ round' = NoRound
    /\ UNCHANGED <<served, cluster, obj, cache, changes, edits>>

Restart ==
    /\ Fault
    /\ cache' = obj
    /\ flight' = NoFlight /\ round' = NoRound
    /\ UNCHANGED <<served, cluster, obj, changes, edits>>

(***************************************************************************)
(* The surroundings.                                                       *)
(***************************************************************************)
Deliver ==
    /\ cache # obj
    /\ cache' = obj
    /\ UNCHANGED <<served, cluster, obj, flight, round, changes, edits, faults>>

EditChecks ==
    /\ edits < MaxEdits /\ edits' = edits + 1
    /\ \/ \E list \in Readiness \ {obj.readiness} : obj' = [obj EXCEPT !.readiness = list]
       \/ \E list \in Liveness \ {obj.liveness} : obj' = [obj EXCEPT !.liveness = list]
    /\ UNCHANGED <<served, cluster, cache, flight, round, changes, faults>>

(* A change of the managed cluster, and what it does to the history.       *)
ManagedChanges ==
    /\ changes < MaxChanges /\ changes' = changes + 1
    /\ round' = IF flight = NoFlight THEN round
                ELSE LET holding == {c \in Range(flight.checks) : Holds(c)'}
                     IN  [round EXCEPT !.held = @ \cup holding, !.steady = @ \cap holding,
                                       !.moved = TRUE]
    /\ UNCHANGED <<obj, cache, flight, edits, faults>>

(* Deletion is not taken back.                                             *)
Becomes(r) ==
    ({Gone} \cup {new \in Resource : r # Gone => (r.deleting => new.deleting)}) \ {r}

(* A resource is created, changed, marked for deletion or removed.         *)
ChangeResource ==
    /\ \E id \in {i \in Ids : i.kind \in served} :
          \E r \in Becomes(cluster[id]) : cluster' = [cluster EXCEPT ![id] = r]
    /\ UNCHANGED served
    /\ ManagedChanges

(* A kind comes or goes, and its resources go with it.                     *)
ChangeKinds ==
    /\ \E k \in Kinds \ Builtin :
          /\ served' = IF k \in served THEN served \ {k} ELSE served \cup {k}
          /\ cluster' = [id \in Ids |-> IF id.kind = k THEN Gone ELSE cluster[id]]
    /\ ManagedChanges

Round == Begin \/ Discover \/ List \/ ListRefused \/ validateCheck \/ Patch

Next ==
    \/ Round \/ CallFails \/ PatchFails \/ Restart
    \/ Deliver \/ EditChecks \/ ChangeResource \/ ChangeKinds

(* Reconciles are requeued every minute and the watch goes on.             *)
Spec == Init /\ [][Next]_vars /\ WF_vars(Round) /\ WF_vars(Deliver)

(***************************************************************************)
(* Properties.                                                             *)
(***************************************************************************)
Flight == [before : Object, checks : Readiness \cup Liveness, check : Nat, selector : Nat,
           found : Counts, step : {"discover", "list", "done"}, passed : BOOLEAN]

(* Type invariant.  The indices of an unfinished round name a check, and   *)
(* while it lists a selector of that check.                                *)
TypeOK ==
    /\ served \in SUBSET Kinds /\ cluster \in [Ids -> Resource \cup {Gone}] /\ ExistsOnlyServed
    /\ {obj, cache} \subseteq Object
    /\ flight # NoFlight =>
          /\ flight \in Flight
          /\ flight.step # "done" => flight.check \in DOMAIN flight.checks
          /\ flight.step = "list" => flight.selector \in DOMAIN Check.selectors
    /\ round \in History /\ round.steady \subseteq round.held
    /\ {changes, edits, faults} \subseteq Nat

(* A check whose resources were all read at one moment.                    *)
OneMoment(c) == Len(Checks[c].selectors) <= 1 \/ ~round.moved

(* A round that passes went through checks each of which really held at    *)
(* some moment of the round, although kinds and resources changed between  *)
(* the calls (runChecks, getResourcesMatchinResourceSelector, isMatch).    *)
PassedChecksHeld ==
    flight # NoFlight /\ flight.step = "done" /\ flight.passed =>
        \A c \in Range(flight.checks) : OneMoment(c) => c \in round.held

(* A round fails only for a reason: a call failed, or one of its checks    *)
(* did not hold at some moment of the round (runChecks, runCheck).         *)
FailedForAReason ==
    flight # NoFlight /\ flight.step = "done" /\ ~flight.passed =>
        \/ round.erred
        \/ \E c \in Range(flight.checks) : ~OneMoment(c) \/ c \notin round.steady

(* A cluster becomes ready only in a round through the readiness checks    *)
(* the reconcile read, each of which held, even when the object it read is *)
(* old (runChecks, reconcileNormal, Scope.Close).                          *)
ReadyEarned ==
    [][~obj.ready /\ obj'.ready =>
         \A c \in Range(flight.before.readiness) : OneMoment(c) => c \in round.held]_vars

AllHold(list) == \A c \in Range(list) : Holds(c)

(* Checks that keep holding make the cluster ready, across failed calls,   *)
(* failed patches and restarts (reconcileNormal).                          *)
BecomesReady == <>[]AllHold(obj.readiness) => <>obj.ready

(* The failure message of a ready cluster comes to follow its liveness     *)
(* checks (reconcileNormal).                                               *)
FailureFollowsLiveness ==
    /\ <>[](obj.ready /\ ~AllHold(obj.liveness)) => <>[]obj.failing
    /\ <>[](obj.ready /\ AllHold(obj.liveness)) => <>[]~obj.failing
===============================================================================
