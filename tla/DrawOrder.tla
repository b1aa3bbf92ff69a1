----------------------------- MODULE DrawOrder ------------------------------
(***************************************************************************)
(* The order an artboard draws in, and the order a state machine tests     *)
(* its hit shapes in.                                                      *)
(*                                                                         *)
(* Draw rules move the drawables below them, as one group, before or after *)
(* the drawable of their active draw target, which may be in a group       *)
(* itself.  sortDrawOrder links all drawables into one list: first each    *)
(* group and the drawables that stay where they are, then the groups into  *)
(* the rest, in the order the draw targets were sorted in when the         *)
(* artboard was initialized (module DrawTargetOrder does that).  The list   *)
(* is drawn from its end: the drawable without a prev is on top.           *)
(***************************************************************************)
EXTENDS Naturals, SequencesExt, FiniteSetsExt

CONSTANTS
  None,
  Count,      (* the drawables are 1 .. Count, in the order of m_Drawables *)
  Rules, Targets,
  Files       (* the artboards, see FileRecord                             *)

Drawable == 1 .. Count

(* rules: flattenedDrawRules; parent: the rules a target belongs to;       *)
(* drawable: the drawable it is placed at; targets: all of them, in file   *)
(* order.  hittable: the drawables a pointer listener is attached to;      *)
(* edits: the rules and targets that animations or the host change.        *)
FileRecord ==
  [rules : [Drawable -> Rules \cup {None}], parent : [Targets -> Rules],
   drawable : [Targets -> Drawable], targets : SetToSeqs(Targets),
   hittable : SUBSET Drawable, edits : SUBSET (Rules \cup Targets)]

DrawOrderAssumption ==
  /\ Count \in Nat /\ IsFiniteSet(Targets)
  /\ None \notin Rules \cup Targets /\ None \notin Drawable
  /\ Files \subseteq FileRecord

VARIABLES
  file,
  drawTargets, (* m_DrawTargets                                            *)
  active,      (* each rules' activeTarget                                 *)
  placement,   (* each target's placement                                  *)
  list,        (* prev and next of each drawable, and m_FirstDrawable      *)
  dirty,       (* the artboard has ComponentDirt::DrawOrder                *)
  changed,     (* m_HasChangedDrawOrderInLastUpdate                        *)
  hits,        (* m_hitComponents                                          *)
  turn         (* initialize, then which call of advanceAndApply is next   *)

vars == <<file, drawTargets, active, placement, list, dirty, changed, hits, turn>>

-----------------------------------------------------------------------------
(* sortDrawOrder.                                                          *)

TargetOf(d) == IF file.rules[d] = None THEN None ELSE active[file.rules[d]]

(* The drawables target t moves, or those that stay for None.              *)
Group(t) == {d \in Drawable : TargetOf(d) = t}

(* Every group, and the rest, linked in file order.                        *)
Linked ==
  [prev |-> [d \in Drawable |-> LET S == {e \in Group(TargetOf(d)) : e < d}
                                IN  IF S = {} THEN None ELSE Max(S)],
   next |-> [d \in Drawable |-> LET S == {e \in Group(TargetOf(d)) : e > d}
                                IN  IF S = {} THEN None ELSE Min(S)],
   last |-> IF Group(None) = {} THEN None ELSE Max(Group(None))]

Linking(links, x, y) == IF x = None THEN links ELSE [links EXCEPT ![x] = y]

(* l with y after x, where either may be None.                             *)
Join(l, x, y) ==
  [l EXCEPT !.next = Linking(@, x, y), !.prev = Linking(@, y, x)]

(* A group that comes after the end of the list is the end of it.          *)
LastWith(l, t) == IF file.drawable[t] = l.last THEN Max(Group(t)) ELSE l.last

(* Mutant: the placements are swapped.                                     *)
GoesAfter(t) == placement[t] = "after"

GoesBefore(t) == placement[t] = "before"

(* The group of target t put into list l.                                  *)
Placed(l, t) ==
  LET at == file.drawable[t]
      head == Min(Group(t))
      tail == Max(Group(t))
  IN  IF Group(t) = {} THEN l
      ELSE IF GoesBefore(t)
      THEN Join(Join(l, l.prev[at], head), tail, at)
      ELSE [Join(Join(l, tail, l.next[at]), at, head) EXCEPT !.last = LastWith(l, t)]

Sorted ==
  LET upTo[k \in 0 .. Len(drawTargets)] ==
        IF k = 0 THEN Linked ELSE Placed(upTo[k - 1], drawTargets[k])
  IN  upTo[Len(drawTargets)]

-----------------------------------------------------------------------------
(* The drawables from d on along links; Count + 1 of them if they never    *)
(* end.                                                                    *)
Along(links, d) ==
  LET walk[k \in 0 .. Count + 1] ==
        IF k = 0 THEN <<>>
        ELSE LET w == walk[k - 1]
                 e == IF w = <<>> THEN d ELSE links[Last(w)]
             IN  IF e = None THEN w ELSE Append(w, e)
  IN  walk[Count + 1]

(* What is drawn, in the order it is drawn in.                             *)
DrawnOrder == Along(list.prev, list.last)

(* What sortHitComponents visits: from the drawable without a prev on.     *)
TestOrder ==
  IF list.last = None THEN <<>> ELSE Along(list.next, Last(DrawnOrder))

(* The hit component of each visited drawable is swapped to the next place *)
(* in front.                                                               *)
SwapTo(seq, i, j) == [seq EXCEPT ![i] = seq[j], ![j] = seq[i]]

SortedHits ==
  LET visit[k \in 0 .. Len(TestOrder)] ==
        IF k = 0 THEN [seq |-> hits, at |-> 1]
        ELSE LET v == visit[k - 1]
                 found == {i \in v.at .. Len(hits) : v.seq[i] = TestOrder[k]}
             IN  IF found = {} THEN v
                 ELSE [seq |-> SwapTo(v.seq, v.at, Min(found)), at |-> v.at + 1]
  IN  visit[Len(TestOrder)].seq

-----------------------------------------------------------------------------
Unlinked ==
  [prev |-> [d \in Drawable |-> None], next |-> [d \in Drawable |-> None],
   last |-> None]

Own(r) == {t \in Targets : file.parent[t] = r}

(* An artboard as it is loaded.                                            *)
Init ==
  /\ file \in Files
  /\ drawTargets = <<>>
  /\ active \in [Rules -> Targets \cup {None}]
  /\ \A r \in Rules : active[r] \in Own(r) \cup (IF r \in file.edits THEN {None} ELSE {})
  /\ placement \in [Targets -> {"before", "after"}]
  /\ list = Unlinked
  /\ dirty = TRUE
  /\ changed = FALSE
  /\ hits \in SetToSeqs(file.hittable)
  /\ turn = "initialize"

(* The end of initialize: all that was sorted but the root, which comes    *)
(* first unless the targets form a cycle; with nothing sorted at all the   *)
(* iterator is beyond the end.                                             *)
TakeTargets(sorted) ==
  /\ turn = "initialize"
  /\ sorted # <<>>
  /\ drawTargets' = Tail(sorted)
  /\ turn' = "machine"
  /\ UNCHANGED <<file, active, placement, list, dirty, changed, hits>>

(* drawTargetIdChanged: the rules take a target of theirs, or none.        *)
ChangeTarget(r) ==
  /\ \E t \in (Own(r) \cup {None}) \ {active[r]} : active' = [active EXCEPT ![r] = t]
  /\ dirty' = TRUE
  /\ UNCHANGED <<file, drawTargets, placement, list, changed, hits, turn>>

ChangePlacement(t) ==
  /\ placement' = [placement EXCEPT ![t] = IF @ = "before" THEN "after" ELSE "before"]
  /\ dirty' = TRUE
  /\ UNCHANGED <<file, drawTargets, active, list, changed, hits, turn>>

Edit ==
  /\ turn # "initialize"
  /\ \/ \E r \in file.edits \cap Rules : ChangeTarget(r)
     \/ \E t \in file.edits \cap Targets : ChangePlacement(t)

(* The artboard's update: the order is sorted if it is dirty.              *)
UpdateArtboard == list' = (IF dirty THEN Sorted ELSE list) /\ dirty' = FALSE

(* The host updates the artboard without advancing it.                     *)
UpdateComponents ==
  /\ turn = "machine"
  /\ UpdateArtboard
  /\ changed' = (changed \/ dirty)
  /\ UNCHANGED <<file, drawTargets, active, placement, hits, turn>>

(* The state machine advances: its hit components are sorted if the last   *)
(* update changed the order.                                               *)
AdvanceMachine ==
  /\ turn = "machine"
  /\ hits' = IF changed THEN SortedHits ELSE hits
  /\ turn' = "artboard"
  /\ UNCHANGED <<file, drawTargets, active, placement, list, dirty, changed>>

(* Mutant: the flag is cleared after the update that sets it.              *)
ChangedByNone == FALSE

(* The flag is cleared before the update that sets it.                     *)
ChangedByUpdate == dirty

(* The artboard advances, which updates it.                                *)
AdvanceArtboard ==
  /\ turn = "artboard"
  /\ UpdateArtboard
  /\ changed' = ChangedByUpdate
  /\ turn' = "machine"
  /\ UNCHANGED <<file, drawTargets, active, placement, hits>>

Next == Edit \/ UpdateComponents \/ AdvanceMachine \/ AdvanceArtboard

-----------------------------------------------------------------------------
(* Properties.                                                             *)

(* The drawables that move along with d: d, and the groups placed at one   *)
(* that moves along with it.                                               *)
CarriedBy(d) ==
  LET grown[k \in 0 .. Count] ==
        IF k = 0 THEN {d}
        ELSE LET g == grown[k - 1]
             IN  g \cup {e \in Drawable : /\ TargetOf(e) # None
                                          /\ file.drawable[TargetOf(e)] \in g}
  IN  grown[Count]

(* Where each drawable is in the order, from the one without a prev on.    *)
Places ==
  LET order == TestOrder
  IN  [d \in Drawable |-> CHOOSE i \in DOMAIN order : order[i] = d]

(* Once sorted, every drawable is drawn, and drawn once, and the links the  *)
(* other way are the same order; the drawables of one group, and those     *)
(* that no rules move, are in the order of the file; a moved group is on   *)
(* the side of its target's drawable that the placement says, and nothing  *)
(* is between the two but what moves along with either of them.            *)
GroupsInPlace ==
  ~dirty =>
    /\ Len(DrawnOrder) = Count
    /\ ToSet(DrawnOrder) = Drawable
    /\ TestOrder = Reverse(DrawnOrder)
    /\ LET place == Places
           Between(a, b) ==
             {e \in Drawable : \/ place[a] < place[e] /\ place[e] < place[b]
                               \/ place[b] < place[e] /\ place[e] < place[a]}
       IN  /\ \A d, e \in Drawable :
                TargetOf(d) = TargetOf(e) /\ d < e => place[d] < place[e]
           /\ \A t \in Targets : \A d \in Group(t) :
                LET at == file.drawable[t]
                IN  /\ place[d] < place[at] <=> placement[t] = "before"
                    /\ Between(d, at) \subseteq
                         UNION {CarriedBy(x) : x \in Group(t) \cup {at}}

(* When the machine has advanced, and until the artboard does, the shapes  *)
(* under a pointer are tested in the order of the list, also when the list *)
(* was sorted in an update outside of advance.                             *)
HitsFollowList ==
  turn = "artboard" /\ list # Unlinked =>
    LET place == Places
    IN  \A i, j \in DOMAIN hits : i < j => place[hits[i]] < place[hits[j]]
=============================================================================
