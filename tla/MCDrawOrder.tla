---------------------------- MODULE MCDrawOrder -----------------------------
(* Small artboards for the checks of DrawTargetOrder.                      *)
EXTENDS DrawTargetOrder, FiniteSetsExt, Functions

Set(S, n, d) == Cardinality({e \in 1 .. Count : S[e] = n}) = d

MCRules == {"r1", "r2", "r3"}
MCTargets == {"t1", "t2", "t3"}
Filed == <<"t1", "t2", "t3">>
Owner == [t1 |-> "r1", t2 |-> "r2", t3 |-> "r3"]
Shared == [t1 |-> "r1", t2 |-> "r1", t3 |-> "r2"]
Holder == [t1 |-> "r1", t2 |-> "r2", t3 |-> "r1"]

(* Every artboard of five drawables and three rules with a target each,    *)
(* wherever that is; the first rules move two drawables.                   *)
Nested ==
  [rules : {g \in [1 .. Count -> MCRules \cup {None}] :
              /\ Set(g, "r1", 2) /\ Set(g, "r2", 1) /\ Set(g, "r3", 1)
              /\ Min({d \in 1 .. Count : g[d] = "r2"}) < Min({d \in 1 .. Count : g[d] = "r3"})},
   parent : {Owner}, drawable : [MCTargets -> 1 .. Count],
   targets : {Filed}, hittable : {{1}}, edits : {{}}]

(* Two targets for one rules, both before the third if that is at what the *)
(* rules move, and two ways to every target.                               *)
Forked ==
  [rules : {<<"r1", "r1", "r2", None, None>>, <<"r2", None, "r1", None, "r1">>},
   parent : {Shared}, drawable : [MCTargets -> 1 .. Count],
   targets : {Filed, <<"t3", "t1", "t2">>}, hittable : {{1, 3}}, edits : {{}}]

(* A character whose hand, 4, is in front of or behind the body, 2, with   *)
(* the sword, 5, before or after the hand; 1 and 3 stay, and so do the     *)
(* third rules, which move nothing.                                        *)
Swordsman ==
  {[rules |-> <<None, None, None, "r1", "r2">>, parent |-> Holder,
    drawable |-> [t1 |-> 2, t2 |-> 4, t3 |-> 3], targets |-> <<"t1", "t3", "t2">>,
    hittable |-> {1, 2, 4, 5}, edits |-> MCRules \cup MCTargets]}

AllFiles == Nested \cup Forked \cup Swordsman
AllTargets == MCTargets \cup {Root}
OnlyRoot == <<Root>>
Dependents == {q \in UNION {[1 .. n -> MCTargets] : n \in 0 .. 3} : IsInjective(q)}
AllGraphs == [AllTargets -> Dependents]
=============================================================================
