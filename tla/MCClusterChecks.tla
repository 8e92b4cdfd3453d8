--------------------------- MODULE MCClusterChecks ---------------------------
(***************************************************************************)
(* An instance of ClusterChecks for TLC: a resource of a built-in kind and *)
(* one of a kind that is not always served.                                *)
(***************************************************************************)
EXTENDS ClusterChecks

Pod == [kind |-> "pod", namespace |-> "sys", name |-> "a"]
Ring == [kind |-> "ring", namespace |-> "app", name |-> "b"]
TwoIds == {Pod, Ring}

(* Every pod and every ring that is not being deleted.                     *)
Pods == [kind |-> "pod", namespace |-> Any, name |-> Any, labelFilters |-> {}, selector |-> {},
         cel |-> NoScript, lua |-> NoScript, includeDeletingResources |-> FALSE]
Rings == [Pods EXCEPT !.kind = "ring"]
Web == [op |-> "Equal", value |-> "web"]
NotWeb == [op |-> "Different", value |-> "web"]
Labelled == [op |-> "Has", value |-> "web"]
Unlabelled == [op |-> "DoesNotHave", value |-> "web"]

Pairs == [total : 0..3, healthy : 0..3]
NoneFound == {n \in Pairs : n.total = 0}
OneHealthy == {n \in Pairs : n.healthy >= 1}
TwoHealthy == {n \in Pairs : n.healthy >= 2}

(* A web pod of the namespace is healthy; no ring is unhealthy, the ones   *)
(* being deleted included; a healthy pod, chosen by CEL before a Lua script*)
(* that breaks, and a healthy ring; selectors that break on an unlabelled  *)
(* pod and where rings are served.                                         *)
PodUp == [selectors |-> <<[Pods EXCEPT !.namespace = "sys", !.labelFilters = {Labelled},
                                       !.selector = {Web}]>>, condition |-> OneHealthy]
NoBadRing == [selectors |-> <<[Rings EXCEPT !.cel = {FALSE},
                                            !.includeDeletingResources = TRUE]>>,
              condition |-> NoneFound]
BothUp == [selectors |-> <<[Pods EXCEPT !.cel = {TRUE}, !.lua = Broken],
                           [Rings EXCEPT !.lua = {TRUE}, !.name = "b", !.labelFilters = {NotWeb}]>>,
           condition |-> TwoHealthy]
Breaks == [selectors |-> <<[Pods EXCEPT !.cel = Broken, !.labelFilters = {Unlabelled}],
                           [Rings EXCEPT !.selector = Broken]>>, condition |-> NoScript]

MCChecks == [podUp |-> PodUp, noBadRing |-> NoBadRing, bothUp |-> BothUp, breaks |-> Breaks]
MCReadiness == {<<>>, <<"podUp", "noBadRing">>}
MCLiveness == {<<>>, <<"bothUp", "breaks">>}

(* Healthy, unhealthy, unlabelled, going.                                  *)
States == {[label |-> "web", deleting |-> FALSE, healthy |-> TRUE],
           [label |-> "web", deleting |-> FALSE, healthy |-> FALSE],
           [label |-> NoLabel, deleting |-> FALSE, healthy |-> TRUE],
           [label |-> "web", deleting |-> TRUE, healthy |-> TRUE]}
===============================================================================
