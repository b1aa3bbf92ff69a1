-------------------------- MODULE PointerListeners --------------------------
(***************************************************************************)
(* The pointer listeners of a state machine instance, and of one nested in *)
(* its artboard.                                                           *)
(*                                                                         *)
(* A listener listens to all shapes below its target as one: its group     *)
(* says whether the pointer is over any of them, whether it was in the     *)
(* call before, how far a click has come, and whether the listener has had *)
(* its turn in this call.  A call visits the hit components from the       *)
(* topmost on; an opaque shape hides the pointer from those behind it.     *)
(* Shapes and groups of the nested machine are told apart by name.         *)
(***************************************************************************)
EXTENDS PointerPromise, SequencesExt

CONSTANTS
  Nested,      (* the hit component of the nested artboard                 *)
  Order,       (* m_HitComponents: shapes, and Nested                      *)
  NestedOrder, (* m_HitComponents of the nested machine: shapes            *)
  Opaque,      (* the shapes that are opaque                               *)
  Calls,       (* the calls that the host makes                            *)
  Positions    (* for each place of the pointer, the shapes that are there *)

Shapes == ToSet(NestedOrder) \cup (ToSet(Order) \ {Nested})
Kinds == {"enter", "exit", "down", "up", "move", "click"}

ASSUME PointerAssumption ==
  /\ Order \in Seq(Shapes \cup {Nested}) /\ NestedOrder \in Seq(Shapes)
  /\ IsInjective(Order) /\ IsInjective(NestedOrder)
  /\ ToSet(NestedOrder) \cap ToSet(Order) = {} /\ Nested \notin ToSet(NestedOrder)
  /\ Opaque \subseteq Shapes
  /\ Listener \in [Groups -> [kind : Kinds, shapes : SUBSET Shapes]]
  /\ \A g \in Groups : \/ Listener[g].shapes \subseteq ToSet(NestedOrder)
                       \/ Listener[g].shapes \subseteq ToSet(Order)
  /\ Calls \subseteq {"move", "down", "up", "exit"}
  /\ Positions \subseteq SUBSET Shapes

-----------------------------------------------------------------------------
(* updateListeners.                                                        *)

GroupsOf(s) == {g \in Groups : s \in Listener[g].shapes}

(* Mutant: only downs are looked for.                                      *)
EarlyOutButForDowns(s, type) ==
  /\ s \notin Opaque
  /\ \A g \in GroupsOf(s) : Listener[g].kind \notin {"enter", "exit", "move"}
  /\ type = "down" => \A g \in GroupsOf(s) : Listener[g].kind \notin {"down", "click"}

(* A shape with listeners for presses alone is not tested in other calls.  *)
EarlyOut(s, type) ==
  /\ s \notin Opaque
  /\ \A g \in GroupsOf(s) : Listener[g].kind \notin {"enter", "exit", "move"}
  /\ type = "down" => \A g \in GroupsOf(s) : Listener[g].kind \notin {"down", "click"}
  /\ type = "up" => \A g \in GroupsOf(s) : Listener[g].kind \notin {"up", "click"}

(* What hides the pointer from the hit components behind it.               *)
Blocks(h, under) ==
  IF h = Nested THEN ToSet(NestedOrder) \cap Opaque \cap under # {}
                ELSE h \in Opaque \cap under

CanHit(order, h, under) ==
  \A i, j \in DOMAIN order : i < j /\ order[j] = h => ~Blocks(order[i], under)

(* Mutant: a click that was performed stays one.                           *)
StaysClicked(p) == p

AfterClick(p) == IF p = "clicked" THEN "out" ELSE p

(* The group as a call finds it, hovered if any of its shapes is.          *)
Prepared(g, type, under) ==
  [hovered |-> \E s \in Listener[g].shapes \cap under : ~EarlyOut(s, type),
   phase |-> AfterClick(phase[g]), performed |-> 0]

(* A listener that performed is done in this call.                         *)
IsConsumed(group) == group.performed > 0

ClickPhase(p, type, isOver) ==
  CASE isOver /\ type = "down"              -> "down"
    [] isOver /\ type = "up" /\ p = "down"  -> "clicked"
    [] ~isOver /\ type \in {"down", "up"}   -> "out"
    [] OTHER                                -> p

(* Mutant: enter and exit are taken for each other.                        *)
PerformsSwapped(kind, type, isOver, wasOver, p) ==
  \/ isOver # wasOver /\ kind = IF isOver THEN "exit" ELSE "enter"
  \/ kind = "click" /\ p = "clicked"
  \/ isOver /\ kind = type

Performs(kind, type, isOver, wasOver, p) ==
  \/ isOver # wasOver /\ kind = IF isOver THEN "enter" ELSE "exit"
  \/ kind = "click" /\ p = "clicked"
  \/ isOver /\ kind = type

SeesPointer(group, canHit) == canHit /\ group.hovered

(* The turn of group g at one of its shapes, of which the pointer is       *)
(* hidden or not.                                                          *)
Heard(group, g, type, canHit) ==
  LET isOver == SeesPointer(group, canHit)
      p == ClickPhase(group.phase, type, isOver)
  IN  [hovered |-> isOver, phase |-> p,
       performed |-> IF Performs(Listener[g].kind, type, isOver, hovered[g], p)
                     THEN group.performed + 1 ELSE group.performed]

(* The group after its turn at s, if it has one there.                     *)
Turn(group, s, g, order, type, under) ==
  IF s \notin Listener[g].shapes \/ EarlyOut(s, type) \/ IsConsumed(group)
  THEN group
  ELSE Heard(group, g, type, CanHit(order, s, under))

(* Group g when all its shapes in order were processed.                    *)
Processed(g, order, type, under) ==
  LET after[i \in 0 .. Len(order)] ==
        IF i = 0 THEN Prepared(g, type, under)
        ELSE Turn(after[i - 1], order[i], g, order, type, under)
  IN  after[Len(order)]

IsNested(g) == Listener[g].shapes \subseteq ToSet(NestedOrder)

(* The nested machine has the same call, or an exit where it is hidden;    *)
(* an exit is not handed on.                                               *)
AfterCall(g, type, under) ==
  CASE ~IsNested(g) -> Processed(g, Order, type, under)
    [] IsNested(g) /\ type = "exit" ->
         [hovered |-> hovered[g], phase |-> phase[g], performed |-> 0]
    [] OTHER ->
         Processed(g, NestedOrder,
                   IF CanHit(Order, Nested, under) THEN type ELSE "exit", under)

-----------------------------------------------------------------------------
(* What the pointer is over.                                               *)

(* Shape s is drawn above shape t, in one artboard or in the other.        *)
Above(s, t) ==
  \/ \E i, j \in DOMAIN NestedOrder : i < j /\ NestedOrder[i] = s /\ NestedOrder[j] = t
  \/ \E i, j \in DOMAIN Order :
       /\ i < j
       /\ IF s \in ToSet(NestedOrder) THEN Order[i] = Nested ELSE Order[i] = s
       /\ IF t \in ToSet(NestedOrder) THEN Order[j] = Nested ELSE Order[j] = t

(* The opaque shapes above each one.                                       *)
Hiding == [t \in Shapes |-> {s \in Opaque : Above(s, t)}]

(* The shapes at the pointer with no opaque one above them.                *)
Visible(under) == {t \in under : Hiding[t] \cap under = {}}

Over(under) == {g \in Groups : Listener[g].shapes \cap Visible(under) # {}}

Init ==
  /\ hovered = [g \in Groups |-> FALSE]
  /\ phase = [g \in Groups |-> "out"]
  /\ performed = [g \in Groups |-> 0]
  /\ call = "none"
  /\ over = {}
  /\ pressed = {}

(* pointerMove, pointerDown, pointerUp and pointerExit.  A pointer that    *)
(* left is over no shape.                                                  *)
Pointer(type, under) ==
  /\ type = "exit" => under = {}
  /\ LET after == [g \in Groups |-> AfterCall(g, type, under)]
     IN  /\ hovered' = [g \in Groups |-> after[g].hovered]
         /\ phase' = [g \in Groups |-> after[g].phase]
         /\ performed' = [g \in Groups |-> after[g].performed]
  /\ call' = type
  /\ over' = Over(under)
  /\ pressed' = CASE type = "down" -> Over(under)
                  [] type = "up"   -> {}
                  [] OTHER         -> pressed

Next == \E type \in Calls, under \in Positions : Pointer(type, under)

Spec == Init /\ [][Next]_listening

=============================================================================
