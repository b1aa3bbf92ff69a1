--------------------------- MODULE MCUpdateCycle ---------------------------
(***************************************************************************)
(* A scene of six components: a solo (1) whose children are a group (2)    *)
(* and another solo (3) holding one node (4), and a node outside (5) with  *)
(* a constraint that targets a component inside the solos.                 *)
(***************************************************************************)
EXTENDS UpdateCycle, TLC

SceneParent == 1 :> 0 @@ 2 :> 1 @@ 3 :> 1 @@ 4 :> 3 @@ 5 :> 0

NoComps == [j \in 0 .. 5 |-> {}]

(* The constraint targets the node inside the inner solo.                  *)
TargetsNode == [NoComps EXCEPT ![5] = {4}]

(* The update of the innermost component dirties the artboard, as a layout *)
(* does when its content changed size, and another dirties a later one.    *)
Feedback == [NoComps EXCEPT ![4] = {0}, ![2] = {5}]
=============================================================================
