------------------------- MODULE MCPointerListeners -------------------------
(* Small artboards for the checks of PointerListeners.                     *)
EXTENDS PointerListeners

Hears(kind, shapes) == [kind |-> kind, shapes |-> shapes]
Pair == {"a", "b"}

(* Two shapes of one target, the second of them opaque, above one shape;   *)
(* and above them all a nested artboard with a shape that press listeners  *)
(* alone are attached to, and an opaque one behind it.                     *)
Stacked == <<"n", "a", "b", "c">>
Window == <<"d", "e">>
StackedGroups ==
  {"enter", "exit", "move", "up", "click"} \X {Pair, {"c"}}
    \cup {"down", "up", "click"} \X {{"d"}} \cup {"move", "down"} \X {{"e"}}
StackedListeners == [g \in StackedGroups |-> Hears(g[1], g[2])]

Anywhere == SUBSET Shapes
=============================================================================
