--------------------------- MODULE PointerPromise ---------------------------
(***************************************************************************)
(* What the pointer listeners of a state machine promise, whatever the     *)
(* shapes of their targets and the order these are tested in: each hears   *)
(* what the pointer does to its target, once.                              *)
(***************************************************************************)
EXTENDS Naturals

CONSTANTS
  Groups,      (* m_listenerGroups of both machines, by their listeners    *)
  Listener     (* of each group: its kind, and its shapes                  *)

VARIABLES
  hovered,    (* m_isHovered of each group                                 *)
  phase,      (* m_clickPhase of each group                                *)
  performed,  (* how often each listener performed in the last call        *)
  call,       (* the last call                                             *)
  over,       (* the groups that the pointer was over in it, whatever the  *)
              (* machine makes of it                                       *)
  pressed     (* the groups it was over when it went down last, if it did  *)
              (* not go up since                                           *)

listening == <<hovered, phase, performed, call, over, pressed>>

Once(condition) == IF condition THEN 1 ELSE 0

(* A listener for enter or exit performs once in the call in which the     *)
(* pointer comes over the first of its shapes or leaves the last one, and  *)
(* in no other, whichever shapes it passes and whatever is above them.     *)
EntersAndExits ==
  [][\A g \in Groups :
       /\ Listener[g].kind = "enter" => performed'[g] = Once(g \in over' \ over)
       /\ Listener[g].kind = "exit"  => performed'[g] = Once(g \in over \ over')]_listening

(* A listener for clicks performs once when the pointer goes up over one   *)
(* of its shapes after it went down over one of them, with no other press  *)
(* between.                                                                *)
ClicksComplete ==
  [][\A g \in Groups : Listener[g].kind = "click" =>
       performed'[g] = Once(call' = "up" /\ g \in over' \cap pressed)]_listening

(* A listener for moves, downs or ups performs once in each such call over *)
(* one of its shapes, however many of them there are.                      *)
EachCallHeard ==
  [][\A g \in Groups : Listener[g].kind \in {"move", "down", "up"} =>
       performed'[g] = Once(call' = Listener[g].kind /\ g \in over')]_listening
=============================================================================
