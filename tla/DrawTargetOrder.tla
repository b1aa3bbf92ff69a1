-------------------------- MODULE DrawTargetOrder ---------------------------
(***************************************************************************)
(* Artboard::initialize has a DependencySorter put the draw targets in     *)
(* order, below a root that is made for this; from then on sortDrawOrder   *)
(* (module DrawOrder) places their groups in it.                           *)
(***************************************************************************)
EXTENDS DependencySorter

CONSTANTS
  None, Count, Rules, Targets, Files,  (* as in DrawOrder                  *)
  Root                                 (* the local DrawTarget             *)

VARIABLES file, drawTargets, active, placement, list, dirty, changed, hits, turn

Drawing == INSTANCE DrawOrder

drawVars == <<file, drawTargets, active, placement, list, dirty, changed, hits, turn>>

(* A target comes after the root, and after all those of the rules that    *)
(* move the drawable it is placed at.                                      *)
ComesAfter(f, t, c) == c = Root \/ f.parent[c] = f.rules[f.drawable[t]]

(* The dependents of c, in the order of the targets.                       *)
DependentsOf(f, c) ==
  LET upTo[k \in 0 .. Len(f.targets)] ==
        IF k = 0 THEN <<>>
        ELSE IF ComesAfter(f, f.targets[k], c) THEN Append(upTo[k - 1], f.targets[k])
        ELSE upTo[k - 1]
  IN  upTo[Len(f.targets)]

TargetGraph(f) == [c \in Components |-> DependentsOf(f, c)]

ASSUME DrawTargetOrderAssumption ==
  /\ Drawing!DrawOrderAssumption
  /\ Root \notin Targets
  /\ Components = Targets \cup {Root}
  /\ Roots = <<Root>>
  /\ \A f \in Files : TargetGraph(f) \in Graphs

ArtboardInit == Drawing!Init /\ graph = TargetGraph(file) /\ Init

SortTargets == Next /\ UNCHANGED drawVars

Initialized == Done /\ Drawing!TakeTargets(order) /\ UNCHANGED vars

Draws == Drawing!Next /\ UNCHANGED vars

ArtboardNext == SortTargets \/ Initialized \/ Draws

ArtboardSpec == ArtboardInit /\ [][ArtboardNext]_<<vars, drawVars>>

-----------------------------------------------------------------------------
(* Where the targets form no cycle, what sortDrawOrder draws is what the   *)
(* rules say: no drawable is lost or drawn twice and every group is where  *)
(* its placement puts it, whatever order the sorter chose.                 *)
GroupsInPlace == ~failed => Drawing!GroupsInPlace

(* The shapes under a pointer are tested in the order they are drawn in.   *)
HitsFollowList == ~failed => Drawing!HitsFollowList
=============================================================================
