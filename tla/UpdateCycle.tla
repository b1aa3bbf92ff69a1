---------------------------- MODULE UpdateCycle ----------------------------
(***************************************************************************)
(* The dirt-propagation and update cycle of one artboard: Component's      *)
(* addDirt and collapse, Solo's choice of the one visible child, and       *)
(* Artboard::updateComponents, which walks the components in dependency    *)
(* order and restarts when an update dirties something behind it.          *)
(*                                                                         *)
(* A component is its graph order: component 0 is the artboard and         *)
(* component i is m_DependencyOrder[i].  The cycle runs on one thread; an  *)
(* action is one call made by the host, or one iteration of the for loop   *)
(* of updateComponents.                                                    *)
(***************************************************************************)
EXTENDS Naturals

CONSTANTS
  N,         (* number of components in m_DependencyOrder               *)
  Parent,    (* the container each component but the artboard sits in   *)
  Targets,   (* the components each component's constraints target      *)
  Solos,     (* the components that are Solos                           *)
  Pinned,    (* constraints and clipping shapes: not in a solo's choice *)
  Feeds,     (* the components an update of i may itself dirty          *)
  MaxSteps   (* the bound on passes of one update, 100 in the code      *)

Comp == 0 .. N - 1

ASSUME SizeAssumption == N \in Nat \ {0} /\ MaxSteps \in Nat \ {0}

(* Dependencies point forward in the order DependencySorter computed.      *)
ASSUME GraphAssumption ==
  /\ Parent \in [Comp \ {0} -> Comp]
  /\ \A j \in Comp \ {0} : Parent[j] < j
  /\ Targets \in [Comp -> SUBSET Comp]
  /\ \A j \in Comp : \A i \in Targets[j] : i < j
  /\ Solos \subseteq Comp \ {0}
  /\ Pinned \subseteq Comp
  /\ Feeds \in [Comp -> SUBSET Comp]
  /\ \A i \in Comp : i \notin Feeds[i]

Flags == {"Transform", "WorldTransform", "Paint"}

Children(i) == {j \in Comp \ {0} : Parent[j] = i}
IsConstrained(j) == Targets[j] # {}

(* m_Dependents: children from buildDependencies, constrained components   *)
(* from TargetedConstraint::buildDependencies.                             *)
Dependents == [i \in Comp |-> Children(i) \cup {j \in Comp : i \in Targets[j]}]

(* The children among which a solo picks its active one.                   *)
Selectable(s) == Children(s) \ Pinned

VARIABLES
  dirt,       (* m_Dirt without Collapsed, one set of flags per component  *)
  collapsed,  (* the components whose m_Dirt has Collapsed                 *)
  active,     (* activeComponentId of each solo                            *)
  rootDirty,  (* ComponentDirt::Components in the artboard's m_Dirt        *)
  pc,         (* "idle" between calls, "pass" inside updateComponents      *)
  index,      (* the for loop's i: the next component to visit             *)
  step,       (* passes finished by this call of updateComponents          *)
  stale       (* history: world transform older than what it derives from  *)

vars == <<dirt, collapsed, active, rootDirty, pc, index, step, stale>>

-----------------------------------------------------------------------------
(* Dirt.                                                                   *)

Lacking(d, f) == {j \in Comp : f \notin d[j]}

WithFlag(d, S, f) ==
  [j \in Comp |-> IF j \in S THEN d[j] \cup {f} ELSE d[j]]

(* S holds every dependent of its members that addDirt would still mark.   *)
SpreadClosed(d, S) ==
  \A i \in S : Dependents[i] \cap Lacking(d, "WorldTransform") \subseteq S

(* The components a recursive addDirt(WorldTransform, true) on each of M   *)
(* marks: it stops at a component that is already marked, and so does not  *)
(* reach the dependents behind it.                                         *)
Reached(d, M) ==
  LET unmarked == Lacking(d, "WorldTransform")
  IN  {j \in unmarked : \A S \in SUBSET unmarked :
         M \cap unmarked \subseteq S /\ SpreadClosed(d, S) => j \in S}

(* markTransformDirty: everything a call on c newly marks.                 *)
NewlyDirty(d, c) ==
  IF "Transform" \in d[c] THEN {} ELSE {c} \cup Reached(d, {c})

MarkTransformDirty(d, c) ==
  IF "Transform" \in d[c] THEN d
  ELSE WithFlag(WithFlag(d, Reached(d, {c}), "WorldTransform"),
                {c}, "Transform")

(* Artboard::onComponentDirty, called for each component of S.  Its        *)
(* m_DirtDepth is written by each iteration of the for loop before the     *)
(* iteration reads it, so it does not outlive one: see BreaksOut.          *)
OnComponentDirty(S) == rootDirty' = (rootDirty \/ S # {})

(* Mutant: the early out is missing.                                       *)
NeverBreaksOut(i, S) == FALSE

(* m_DirtDepth < i once the update of i dirtied the components of S.       *)
BreaksOut(i, S) == \E j \in S : j < i

-----------------------------------------------------------------------------
(* Collapse.                                                               *)

(* Mutant: Solo::collapse calls the container's, which hands on the value. *)
BlindRequest(act, p, j, req) == req

(* What a container passes on to its child once its own state changed.     *)
ChildRequest(act, p, j, req) ==
  IF p \in Solos /\ j \notin Pinned
  THEN IF req = "show" /\ act[p] = j THEN "show" ELSE "hide"
  ELSE req

(* Component::collapse does nothing when the value is the one it has.      *)
Changes(j, req) ==
  \/ req = "hide" /\ j \notin collapsed
  \/ req = "show" /\ j \in collapsed

(* The collapse value every component is called with when solo s runs      *)
(* propagateCollapse; "none" where the recursion does not arrive.  What is *)
(* below s comes after s.                                                  *)
Calls(act, s, req) ==
  \A j \in Comp :
    req[j] = IF j <= s THEN "none"
             ELSE IF Parent[j] = s
             THEN ChildRequest(act, s, j, IF s \in collapsed THEN "hide" ELSE "show")
             ELSE IF Changes(Parent[j], req[Parent[j]])
             THEN ChildRequest(act, Parent[j], j, req[Parent[j]])
             ELSE "none"

(* Mutant: collapse marks no constrained dependents.                       *)
MarksNothing(changed) == {}

(* TransformComponent::collapse marks the constrained dependents of a      *)
(* component that changed; Solo::collapse overrides it and does not.       *)
MarksOnCollapse(changed) ==
  {d \in Comp : IsConstrained(d)
                /\ \E j \in changed \ Solos : d \in Dependents[j]}

(* The components a choice of active children hides: a child of a hidden   *)
(* component, and a child its solo does not show.                          *)
HiddenBy(act, hidden) ==
  /\ 0 \notin hidden
  /\ \A j \in Comp \ {0} :
       j \in hidden <=>
         \/ Parent[j] \in hidden
         \/ Parent[j] \in Solos /\ j \notin Pinned /\ act[Parent[j]] # j

-----------------------------------------------------------------------------
Init ==
  /\ active \in {a \in [Solos -> Comp] : \A s \in Solos : a[s] \in Selectable(s)}
  /\ collapsed \in {h \in SUBSET Comp : HiddenBy(active, h)}
  /\ dirt = [j \in Comp |-> Flags]
  /\ rootDirty = TRUE
  /\ pc = "idle"
  /\ index = N
  /\ step = 0
  /\ stale = Comp

(* A transform property of c is set to another value.                      *)
SetTransform(c) ==
  /\ pc = "idle"
  /\ dirt' = MarkTransformDirty(dirt, c)
  /\ OnComponentDirty(NewlyDirty(dirt, c))
  /\ stale' = stale \cup {c}
  /\ UNCHANGED <<collapsed, active, pc, index, step>>

(* addDirt(Paint) on c, not recursive.                                     *)
SetPaint(c) ==
  /\ pc = "idle"
  /\ "Paint" \notin dirt[c]
  /\ dirt' = WithFlag(dirt, {c}, "Paint")
  /\ OnComponentDirty({c})
  /\ UNCHANGED <<collapsed, active, pc, index, step, stale>>

(* Solo::activeComponentIdChanged.                                         *)
SetActive(s, c) ==
  /\ pc = "idle"
  /\ c # active[s]
  /\ active' = [active EXCEPT ![s] = c]
  /\ \E req \in [Comp -> {"none", "hide", "show"}] :
       LET changed == {j \in Comp : Changes(j, req[j])}
           marked  == Reached(dirt, MarksOnCollapse(changed))
       IN
         /\ Calls(active', s, req)
         /\ collapsed' = (collapsed \ changed) \cup (changed \ collapsed)
         /\ dirt' = WithFlag(dirt, marked, "WorldTransform")
         /\ OnComponentDirty(changed \cup marked)
  /\ UNCHANGED <<pc, index, step, stale>>

(* updateComponents is called with something to do and starts a pass.      *)
BeginUpdate ==
  /\ pc = "idle"
  /\ rootDirty
  /\ pc' = "pass"
  /\ rootDirty' = FALSE
  /\ index' = 0
  /\ step' = 0
  /\ UNCHANGED <<dirt, collapsed, active, stale>>

(* The for loop passes over a clean or collapsed component.                *)
SkipComponent ==
  /\ pc = "pass"
  /\ index < N
  /\ dirt[index] = {} \/ index \in collapsed
  /\ index' = index + 1
  /\ UNCHANGED <<dirt, collapsed, active, rootDirty, pc, step, stale>>

(* The world transforms that an update of i with dirt d leaves stale.      *)
StaleAfter(i, d) ==
  IF "WorldTransform" \in d THEN (stale \ {i}) \cup Dependents[i] ELSE stale

(* The for loop updates a component, whose update dirties those of fed.    *)
UpdateComponent(fed) ==
  /\ pc = "pass"
  /\ index < N
  /\ fed \subseteq Feeds[index]
  /\ dirt[index] # {}
  /\ index \notin collapsed
  /\ LET clean == [dirt EXCEPT ![index] = {}]
         newly == UNION {NewlyDirty(clean, k) : k \in fed}
     IN  /\ dirt' = [j \in Comp |->
                       clean[j] \cup UNION {MarkTransformDirty(clean, k)[j] : k \in fed}]
         /\ OnComponentDirty(newly)
         /\ index' = IF BreaksOut(index, newly) THEN N ELSE index + 1
  /\ stale' = StaleAfter(index, dirt[index]) \cup fed
  /\ UNCHANGED <<collapsed, active, pc, step>>

(* Mutant: the flag is cleared after the pass, with what the pass raised.  *)
FinishClearing ==
  /\ pc = "pass"
  /\ index = N
  /\ step' = step + 1
  /\ rootDirty' = FALSE
  /\ IF rootDirty /\ step' < MaxSteps
     THEN index' = 0 /\ pc' = "pass"
     ELSE pc' = "idle" /\ UNCHANGED index
  /\ UNCHANGED <<dirt, collapsed, active, stale>>

(* The for loop is left: another pass, or the end of the call.             *)
FinishPass ==
  /\ pc = "pass"
  /\ index = N
  /\ step' = step + 1
  /\ IF rootDirty /\ step' < MaxSteps
     THEN rootDirty' = FALSE /\ index' = 0 /\ pc' = "pass"
     ELSE pc' = "idle" /\ UNCHANGED <<rootDirty, index>>
  /\ UNCHANGED <<dirt, collapsed, active, stale>>

Loop ==
  \/ SkipComponent
  \/ \E fed \in SUBSET Comp : UpdateComponent(fed)
  \/ FinishPass

Next ==
  \/ \E c \in Comp : SetTransform(c)
  \/ \E c \in Comp : SetPaint(c)
  \/ \E s \in Solos : \E c \in Selectable(s) : SetActive(s, c)
  \/ BeginUpdate
  \/ Loop

Spec == Init /\ [][Next]_vars

-----------------------------------------------------------------------------
TypeOK ==
  /\ dirt \in [Comp -> SUBSET Flags]
  /\ collapsed \subseteq Comp
  /\ active \in [Solos -> Comp]
  /\ rootDirty \in BOOLEAN
  /\ pc \in {"idle", "pass"}
  /\ index \in 0 .. N
  /\ step \in 0 .. MaxSteps
  /\ stale \subseteq Comp

Live(j) == dirt[j] # {} /\ j \notin collapsed

(* No dirt is forgotten: a visible component that needs an update is       *)
(* either still ahead of the running pass or keeps the artboard flagged,   *)
(* so that the next pass or the next advance visits it.  This is what the  *)
(* early break on m_DirtDepth and the flag cleared before the pass could   *)
(* get wrong.                                                              *)
PendingIsFlagged ==
  \A j \in Comp : Live(j) => rootDirty \/ (pc = "pass" /\ index <= j)

(* What the update cycle promises: when the artboard has nothing left to   *)
(* update, no visible component has a world transform older than its own   *)
(* properties, its parent's or its constraint targets' world transforms.   *)
Fresh == pc = "idle" /\ ~rootDirty => stale \subseteq collapsed

(* Collapse recursion, with its early return on an unchanged value and     *)
(* Solo's own override, always leaves hidden exactly what lies under an    *)
(* inactive child of some solo.                                            *)
CollapseMatchesSolos == HiddenBy(active, collapsed)

(* A component's world transform is never recomputed while one it derives  *)
(* from is visible and itself out of date: m_DependencyOrder is walked from *)
(* the root, and nothing behind the walk is dirtied without restarting it. *)
ParentsFirst ==
  [][\A j \in Comp :
       j \in stale /\ j \notin stale' =>
         \A i \in Comp : j \in Dependents[i] => i \notin stale \/ i \in collapsed]_vars
=============================================================================
