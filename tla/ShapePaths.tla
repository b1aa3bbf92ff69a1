----------------------------- MODULE ShapePaths -----------------------------
(***************************************************************************)
(* What is kept of the geometry of shapes, and whether dirt makes it up to  *)
(* date: the points of each path, the path a shape composes of them, the   *)
(* path a clipping shape clips with, the contours a constraint follows,    *)
(* the world transforms and a shape's cached bounds.                       *)
(*                                                                         *)
(* Dirt comes to these by four ways that cross each other: addDirt down    *)
(* the dependents, onDirty of paths, composers and constraints, collapse   *)
(* in solos, and paths that put off their update while their shape cannot  *)
(* be seen and must make it up when it can.                                *)
(*                                                                         *)
(* An update adds no dirt here, so updateComponents is one pass and one    *)
(* action; UpdateCycle has the passes.                                     *)
(***************************************************************************)
EXTENDS Sequences, SequencesExt

CONSTANTS
  None,
  Scenes   (* the artboards, see Scene                                     *)

(* order: the components in dependency order.  shape: that of each path    *)
(* and composer.  sources: the shapes each clipping shape clips with;      *)
(* target: the shape each constraint follows.  hit: the shapes that        *)
(* listeners hit, which put nothing off.  moves, reshapes, fades: what     *)
(* animations change the transform, vertices and opacity of.               *)
Scene(C) ==
  [order : Seq(C), parent : [C -> C \cup {None}],
   kind : [C -> {"node", "solo", "shape", "path", "composer", "clip", "follow"}],
   shape : [C -> C \cup {None}], sources : [C -> SUBSET C], target : [C -> C \cup {None}],
   hit : SUBSET C, moves : SUBSET C, reshapes : SUBSET C, fades : SUBSET C]

ASSUME SceneAssumption == \A s \in Scenes : s \in Scene(ToSet(s.order))

VARIABLES
  scene,
  dependents, (* m_Dependents                                              *)
  active,    (* the active child of each solo                              *)
  clear,     (* the components whose opacity is 0                          *)
  marks,     (* dirt, collapsed: m_Dirt; flagged: the artboard's Components *)
  deferred,  (* m_deferredPathDirt of paths and composers                  *)
  unseen,    (* the components whose m_RenderOpacity is 0                  *)
  bounded,   (* the shapes with WorldBoundsClean                           *)
  behind     (* history: what is older than what it is made of             *)

vars == <<scene, dependents, active, clear, marks, deferred, unseen, bounded, behind>>

Comp == ToSet(scene.order)
Kind(k) == {c \in Comp : scene.kind[c] = k}
Transforms == Kind("node") \cup Kind("solo") \cup Kind("shape") \cup Kind("path")
Flags == {"Path", "Transform", "WorldTransform", "RenderOpacity"}

Children(c) == SelectSeq(scene.order, LAMBDA d : scene.parent[d] = c)
Paths(s) == {p \in Kind("path") : scene.shape[p] = s}
Composer(s) == CHOOSE k \in Kind("composer") : scene.shape[k] = s
IsConstrained(c) == c \in Transforms /\ \E f \in Kind("follow") : scene.parent[f] = c
Constraints(c) ==
  SelectSeq(scene.order, LAMBDA f : scene.kind[f] = "follow" /\ scene.parent[f] = c)

-----------------------------------------------------------------------------
(* buildDependencies: d is a dependent of c.                               *)

DependsOn(d, c) ==
  \/ d \in Transforms /\ scene.parent[d] = c
  \/ scene.kind[d] = "composer" /\ (c = scene.shape[d] \/ c \in Paths(scene.shape[d]))
  \/ scene.kind[d] = "clip" /\ \E s \in scene.sources[d] : c = Composer(s)
  \/ scene.kind[d] = "follow" /\ c = Composer(scene.target[d])
  \/ scene.kind[c] = "follow" /\ d = scene.parent[c]

BuildDependencies == [c \in Comp |-> SelectSeq(scene.order, LAMBDA d : DependsOn(d, c))]

-----------------------------------------------------------------------------
(* Calls that mark components, and the calls each of them makes in turn.   *)

AddDirt(c, flag, recurse) == <<"addDirt", c, flag, recurse>>
MarkTransformDirty(c) == <<"markTransformDirty", c>>
Collapse(c, value) == <<"collapse", c, value>>
PathChanged(s) == <<"pathChanged", s>>
PathCollapseChanged(s) == <<"pathCollapseChanged", s>>

Each(cs, Call(_)) == [k \in DOMAIN cs |-> Call(cs[k])]

(* m is marks with what call itself changes of it.                         *)
Effect(m, call) ==
  CASE call[1] = "addDirt" /\ call[3] \notin m.dirt[call[2]] ->
         [m EXCEPT !.dirt[call[2]] = @ \cup {call[3]}, !.flagged = TRUE]
    [] call[1] = "collapse" /\ (call[2] \in m.collapsed) # call[3] ->
         [m EXCEPT !.collapsed = IF call[3] THEN @ \cup {call[2]} ELSE @ \ {call[2]},
                   !.flagged = TRUE]
    [] OTHER -> m

(* Mutant: a composer that put its path off does not care.                 *)
DeferredNever(m, c) == << >>

(* PathComposer::onDirty.                                                  *)
OnComposerDirty(m, c) ==
  IF c \in deferred THEN <<PathChanged(scene.shape[c])>> ELSE << >>

(* Path::onDirty.                                                          *)
OnPathDirty(m, c) ==
  (IF "WorldTransform" \in m.dirt[c] THEN <<PathChanged(scene.shape[c])>> ELSE << >>)
    \o (IF c \in deferred THEN <<AddDirt(c, "Path", FALSE)>> ELSE << >>)

OnDirty(m, c) ==
  CASE scene.kind[c] = "composer" -> OnComposerDirty(m, c)
    [] scene.kind[c] = "path" -> OnPathDirty(m, c)
    [] scene.kind[c] = "follow" -> <<MarkTransformDirty(scene.parent[c])>>
    [] OTHER -> << >>

(* Component::addDirt, when the flag is new.                               *)
AfterAddDirt(m, c, flag, recurse) ==
  OnDirty(m, c) \o
    IF recurse THEN Each(dependents[c], LAMBDA d : AddDirt(d, flag, TRUE)) ELSE << >>

(* Solo::propagateCollapse.                                                *)
PropagateCollapse(c, chosen, value) ==
  Each(Children(c),
       LAMBDA d : Collapse(d, IF scene.kind[d] \in {"clip", "follow"} THEN value
                              ELSE value \/ d # chosen))

(* collapse of each kind of component, when the value is new.              *)
AfterCollapse(m, c, value) ==
  OnDirty(m, c) \o
    IF scene.kind[c] = "solo" THEN PropagateCollapse(c, active[c], value)
    ELSE Each(Children(c), LAMBDA d : Collapse(d, value))
           \o Each(SelectSeq(dependents[c], IsConstrained),
                   LAMBDA d : AddDirt(d, "WorldTransform", TRUE))
           \o (CASE scene.kind[c] = "path" -> <<PathCollapseChanged(scene.shape[c])>>
                 [] scene.kind[c] = "shape" -> <<Collapse(Composer(c), value)>>
                 [] OTHER -> << >>)

(* Shape::pathChanged.                                                     *)
AfterPathChanged(s) ==
  <<AddDirt(Composer(s), "Path", TRUE)>>
    \o Each(Constraints(s), LAMBDA f : AddDirt(f, "Path", FALSE))

(* Mutant: the composer's own dirt is relied on to reach its dependents.   *)
ByRecursion(s) == <<AddDirt(Composer(s), "Path", TRUE)>>

(* PathComposer::pathCollapseChanged.                                      *)
AfterPathCollapseChanged(s) ==
  <<AddDirt(Composer(s), "Path", FALSE)>>
    \o Each(dependents[Composer(s)], LAMBDA d : AddDirt(d, "Path", TRUE))

(* The calls that call makes, which made n of m.                           *)
Calls(m, n, call) ==
  CASE call[1] = "addDirt" /\ n # m -> AfterAddDirt(n, call[2], call[3], call[4])
    [] call[1] = "collapse" /\ n # m -> AfterCollapse(n, call[2], call[3])
    [] call[1] = "markTransformDirty" /\ "Transform" \notin m.dirt[call[2]] ->
         <<AddDirt(call[2], "Transform", FALSE),
           AddDirt(call[2], "WorldTransform", TRUE)>>
    [] call[1] = "pathChanged" -> AfterPathChanged(call[2])
    [] call[1] = "pathCollapseChanged" -> AfterPathCollapseChanged(call[2])
    [] OTHER -> << >>

RECURSIVE Marked(_, _)
Marked(m, todo) ==
  IF todo = << >> THEN m
  ELSE LET n == Effect(m, Head(todo))
       IN  Marked(n, Calls(m, n, Head(todo)) \o Tail(todo))

-----------------------------------------------------------------------------
(* History: what everything is made of, as the code computes it.           *)

World(c) == <<"world", c>>
Points(p) == <<"points", p>>
Composed(s) == <<"composed", s>>
Clip(k) == <<"clip", k>>
Contours(f) == <<"contours", f>>
Bounds(s) == <<"bounds", s>>

Items ==
  {World(c) : c \in Transforms} \cup {Points(p) : p \in Kind("path")}
    \cup {Composed(s) : s \in Kind("shape")} \cup {Bounds(s) : s \in Kind("shape")}
    \cup {Clip(k) : k \in Kind("clip")} \cup {Contours(f) : f \in Kind("follow")}

(* The paths of s that can be seen: a collapsed one does not count.        *)
Shown(s, hidden) == Paths(s) \ hidden

Geometry(s, hidden) == UNION {{World(p), Points(p)} : p \in Shown(s, hidden)}

Inputs(i, hidden) ==
  LET c == i[2]
  IN  CASE i[1] = "world" ->
             {World(d) : d \in Transforms \cap {scene.parent[c]}}
               \cup {Contours(f) : f \in {g \in Kind("follow") :
                       scene.parent[g] = c /\ scene.target[g] \notin hidden}}
        [] i[1] = "points" -> {}
        [] i[1] = "composed" ->
             Geometry(c, hidden) \cup (IF Shown(c, hidden) = {} THEN {} ELSE {World(c)})
        [] i[1] = "clip" ->
             {Composed(s) : s \in {t \in scene.sources[c] : Shown(t, hidden) # {}}}
        [] i[1] = "contours" -> Geometry(scene.target[c], hidden)
        [] i[1] = "bounds" -> Geometry(c, hidden)

(* With the items of B, everything that is made of them is behind.         *)
RECURSIVE Behind(_, _)
Behind(B, hidden) ==
  LET more == {i \in Items : /\ Inputs(i, hidden) \cap B # {}
                             /\ i[1] = "bounds" => i[2] \in bounded}
  IN  IF more \subseteq B THEN B ELSE Behind(B \cup more, hidden)

(* What is made of other things when the components of S change.           *)
Regrouped(S) ==
  UNION {{Composed(s)} \cup {Bounds(t) : t \in {s} \cap bounded}
           \cup {Clip(k) : k \in {l \in Kind("clip") : s \in scene.sources[l]}} :
         s \in {scene.shape[p] : p \in S \cap Kind("path")}}
    \cup {World(scene.parent[f]) : f \in {g \in Kind("follow") : scene.target[g] \in S}}

-----------------------------------------------------------------------------
(* Something of an artboard is changed, which calls what is in todo and    *)
(* makes the items of B out of date.                                       *)
Change(todo, B) ==
  /\ marks' = Marked(marks, todo)
  /\ behind' =
       Behind(behind \cup B
                \cup Regrouped((marks.collapsed \cup marks'.collapsed)
                                 \ (marks.collapsed \cap marks'.collapsed)),
              marks'.collapsed)
  /\ UNCHANGED <<scene, dependents, deferred, unseen, bounded>>

(* The components of S with all that are below them.                       *)
RECURSIVE Below(_)
Below(S) ==
  LET more == {c \in Comp : \/ scene.parent[c] \in S
                            \/ scene.kind[c] = "composer" /\ scene.shape[c] \in S}
  IN  IF more \subseteq S THEN S ELSE Below(S \cup more)

(* An artboard as it is loaded: its solos have collapsed what they hide.   *)
Init ==
  /\ scene \in Scenes
  /\ dependents = BuildDependencies
  /\ active \in [Kind("solo") -> Comp]
  /\ \A s \in Kind("solo") : scene.parent[active[s]] = s
  /\ clear = {}
  /\ marks = [dirt |-> [c \in Comp |-> Flags],
              collapsed |-> Below({c \in Transforms :
                                     /\ scene.parent[c] \in Kind("solo")
                                     /\ active[scene.parent[c]] # c}),
              flagged |-> TRUE]
  /\ deferred = {}
  /\ unseen = Transforms
  /\ bounded = {}
  /\ behind = {i \in Items : i[1] # "bounds"}

(* A transform property of c is set.                                       *)
Move(c) ==
  /\ c \in scene.moves
  /\ Change(<<MarkTransformDirty(c)>>, {World(c)})
  /\ UNCHANGED <<active, clear>>

(* markPathDirty.                                                          *)
Reshape(p) ==
  /\ p \in scene.reshapes
  /\ Change(<<AddDirt(p, "Path", FALSE), PathChanged(scene.shape[p])>>, {Points(p)})
  /\ UNCHANGED <<active, clear>>

(* The opacity of c becomes 0, or something else again.                    *)
Fade(c) ==
  /\ c \in scene.fades
  /\ clear' = (IF c \in clear THEN clear \ {c} ELSE clear \cup {c})
  /\ Change(<<AddDirt(c, "RenderOpacity", TRUE)>>, {})
  /\ UNCHANGED active

(* Solo::activeComponentIdChanged.                                         *)
Choose(s, c) ==
  /\ scene.kind[s] = "solo" /\ c \in Transforms /\ scene.parent[c] = s /\ c # active[s]
  /\ active' = [active EXCEPT ![s] = c]
  /\ Change(PropagateCollapse(s, c, s \in marks.collapsed), {})
  /\ UNCHANGED clear

(* Shape::worldBounds.                                                     *)
ReadBounds(s) ==
  /\ s \in Kind("shape") \ bounded
  /\ bounded' = bounded \cup {s}
  /\ behind' = IF Inputs(Bounds(s), marks.collapsed) \cap behind = {} THEN behind
               ELSE behind \cup {Bounds(s)}
  /\ UNCHANGED <<scene, dependents, active, clear, marks, deferred, unseen>>

-----------------------------------------------------------------------------
(* updateComponents.  u has what the pass changes.                         *)

(* i is made again.                                                        *)
Made(u, i) ==
  IF Inputs(i, marks.collapsed) \cap u.behind = {} THEN [u EXCEPT !.behind = @ \ {i}] ELSE u

IsSource(s) == \E k \in Kind("clip") : s \in scene.sources[k]
IsFollowed(s) == \E f \in Kind("follow") : scene.target[f] = s

(* Shape::canDeferPathUpdate.                                              *)
CanDeferShape(u, s) == s \in u.unseen /\ ~IsSource(s) /\ s \notin scene.hit

(* Path::canDeferPathUpdate.                                               *)
CanDeferPath(u, p) ==
  CanDeferShape(u, scene.shape[p]) /\ ~IsFollowed(scene.shape[p])

(* TransformComponent::update.                                             *)
UpdateTransform(u, c, d) ==
  LET v == IF "WorldTransform" \in d THEN Made(u, World(c)) ELSE u
      isUnseen == c \in clear \/ scene.parent[c] \in u.unseen
  IN  IF "RenderOpacity" \in d
      THEN [v EXCEPT !.unseen = IF isUnseen THEN @ \cup {c} ELSE @ \ {c}]
      ELSE v

(* Path::update.                                                           *)
UpdatePath(u, p, d) ==
  IF "Path" \notin d THEN u
  ELSE IF CanDeferPath(u, p) THEN [u EXCEPT !.deferred = @ \cup {p}]
  ELSE Made([u EXCEPT !.deferred = @ \ {p}], Points(p))

(* PathComposer::update.                                                   *)
UpdateComposer(u, k, d) ==
  LET s == scene.shape[k]
  IN  IF "Path" \notin d THEN u
      ELSE IF CanDeferShape(u, s) THEN [u EXCEPT !.deferred = @ \cup {k}]
      ELSE LET v == Made([u EXCEPT !.deferred = @ \ {k}], Composed(s))
           IN  [v EXCEPT !.bounded = @ \ {s}, !.behind = @ \ {Bounds(s)}]

(* The update of component c, if it is marked and not collapsed.           *)
Visit(u, c) ==
  LET d == u.dirt[c]
      v == [u EXCEPT !.dirt[c] = {}]
  IN  IF d = {} \/ c \in marks.collapsed THEN u
      ELSE CASE scene.kind[c] \in {"node", "solo", "shape"} -> UpdateTransform(v, c, d)
             [] scene.kind[c] = "path" -> UpdatePath(UpdateTransform(v, c, d), c, d)
             [] scene.kind[c] = "composer" -> UpdateComposer(v, c, d)
             [] scene.kind[c] = "clip" ->
                  IF d \cap {"Path", "WorldTransform"} = {} THEN v ELSE Made(v, Clip(c))
             [] scene.kind[c] = "follow" -> Made(v, Contours(c))

UpdateComponents ==
  /\ marks.flagged
  /\ LET u == FoldLeft(Visit,
                        [dirt |-> marks.dirt, deferred |-> deferred, unseen |-> unseen,
                         bounded |-> bounded, behind |-> behind], scene.order)
     IN  /\ marks' = [marks EXCEPT !.dirt = u.dirt, !.flagged = FALSE]
         /\ deferred' = u.deferred /\ unseen' = u.unseen
         /\ bounded' = u.bounded /\ behind' = u.behind
  /\ UNCHANGED <<scene, dependents, active, clear>>

Next ==
  \/ \E c \in Comp : Move(c) \/ Reshape(c) \/ Fade(c) \/ ReadBounds(c)
  \/ \E s, c \in Comp : Choose(s, c)
  \/ UpdateComponents

Spec == Init /\ [][Next]_vars

-----------------------------------------------------------------------------
IsUnseen(c) == \E d \in clear : c \in Below({d})

(* What nobody can see may be out of date: what is collapsed, what a       *)
(* constraint follows while that is collapsed, and the paths of a shape of *)
(* no opacity that has no other use.                                       *)
MayBeBehind(i) ==
  LET c == i[2]
      Hidden(s) == IsUnseen(s) /\ ~IsSource(s) /\ s \notin scene.hit
  IN  \/ c \in marks.collapsed
      \/ i[1] = "contours" /\ scene.target[c] \in marks.collapsed
      \/ i[1] \in {"composed", "bounds"} /\ Hidden(c)
      \/ i[1] = "points" /\ Hidden(scene.shape[c]) /\ ~IsFollowed(scene.shape[c])

(* When nothing is left to update, the paths, clips, bounds and            *)
(* constrained transforms of all that can be seen are those of the         *)
(* vertices, transforms and solos as they are now, whatever was put off or *)
(* collapsed when these changed; and what has opacity is known to have it. *)
ShownIsCurrent ==
  ~marks.flagged =>
    /\ \A i \in behind : MayBeBehind(i)
    /\ \A c \in Transforms \ marks.collapsed : c \in unseen <=> IsUnseen(c)
=============================================================================
