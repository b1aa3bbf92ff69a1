-------------------------- MODULE MCNestedAdvance --------------------------
(***************************************************************************)
(* A root with a panel and a toast, one of them shown by a solo, and a badge *)
(* nested in the panel.  The host opens and closes the panel; opening it runs *)
(* through the panel's machine to the badge's, whose event comes back through *)
(* the panel to the root, which then shows the toast; when that has popped    *)
(* for the first time it closes the panel again.                             *)
(***************************************************************************)
EXTENDS NestedAdvance, TLC

Paths == [root |-> <<"root">>, panel |-> <<"panel", "root">>, toast |-> <<"toast", "root">>,
          badge |-> <<"badge", "panel", "root">>]
Tree == [root |-> <<"panel", "toast">>, panel |-> <<"badge">>, toast |-> <<>>, badge |-> <<>>]
Animated == [root |-> <<"R">>, panel |-> <<"P">>, toast |-> <<"pop", "glow", "fade">>,
             badge |-> <<"B", "spin">>]
Sticks == [root |-> <<"pull", "follow">>, panel |-> <<"slide">>, toast |-> <<>>, badge |-> <<>>]
Kinds == [R |-> "machine", P |-> "machine", B |-> "machine",
          pop |-> "simple", glow |-> "simple", spin |-> "simple", fade |-> "remap"]

-----------------------------------------------------------------------------
Opens == <<"input", "R", "open">>
Done == <<"input", "R", "done">>
Busy == <<"input", "P", "busy">>
Lit == <<"input", "B", "lit">>
Pressed == {Opens}
Names == {"open", "again", "bright", "on", "popped"}

First == [R |-> "closed", P |-> "idle", B |-> "dark"]
Arc(from, input, is, to) == [from |-> from, input |-> input, is |-> is, to |-> to]
Graph ==
  [R |-> <<Arc("closed", Opens, TRUE, "opened"), Arc("opened", Done, TRUE, "seen"),
           Arc("opened", Opens, FALSE, "closed"), Arc("seen", Opens, FALSE, "closed")>>,
   P |-> <<Arc("idle", Busy, TRUE, "busy"), Arc("busy", Busy, FALSE, "idle")>>,
   B |-> <<Arc("dark", Lit, TRUE, "lit"), Arc("lit", Lit, FALSE, "dark")>>]
(* The badge's event has the id of one of the panel's. *)
Fired ==
  [R |-> [closed |-> <<>>, opened |-> <<"open">>, seen |-> <<>>],
   P |-> [idle |-> <<>>, busy |-> <<"on">>],
   B |-> [dark |-> <<>>, lit |-> <<"on">>]]

Sets(target, event, what, v) ==
  [target |-> target, event |-> event, does |-> "set", what |-> what, value |-> v]
Reports(target, event, what) ==
  [target |-> target, event |-> event, does |-> "report", what |-> what, value |-> TRUE]
Listens ==
  [R |-> <<Reports("root", "open", "again"), Sets("root", "again", Done, FALSE),
           Sets("panel", "bright", Done, TRUE), Sets("toast", "popped", Opens, FALSE)>>,
   P |-> <<Reports("badge", "on", "bright"), Sets("panel", "on", Lit, TRUE)>>,
   B |-> <<>>]

-----------------------------------------------------------------------------
OnFrames == [pop |-> <<<<>>, <<"popped">>>>, glow |-> <<<<>>, <<>>>>, spin |-> <<<<>>, <<>>>>]
Lengths == [pop |-> 2, glow |-> 2, spin |-> 2]

Stage(shown, x, busy) ==
  <<"active", "root">> :> shown @@ <<"x", "pull">> :> x @@ Busy :> busy
    @@ <<"mix", "fade">> :> x
Poses ==
  [R |-> [closed |-> Stage("panel", 0, FALSE), opened |-> Stage("panel", 1, TRUE),
          seen |-> Stage("toast", 1, FALSE)],
   P |-> [idle |-> <<"x", "slide">> :> 0 @@ Lit :> FALSE @@ <<"playing", "spin">> :> FALSE,
          busy |-> <<"x", "slide">> :> 1 @@ <<"playing", "spin">> :> TRUE],
   B |-> [dark |-> <<"look", "B">> :> 0, lit |-> <<"look", "B">> :> 1],
   pop |-> [f \in 0 .. 2 |-> <<"look", "pop">> :> f],
   glow |-> [f \in 0 .. 2 |-> <<"look", "glow">> :> f],
   spin |-> [f \in 0 .. 2 |-> <<"look", "spin">> :> f],
   fade |-> [f \in 0 .. 1 |-> <<"look", "fade">> :> f],
   pull |-> [x \in 0 .. 1 |-> <<"node", "root">> :> x @@ <<"time", "fade">> :> x],
   follow |-> [x \in 0 .. 1 |-> <<"alpha", "panel">> :> x],
   slide |-> [x \in 0 .. 1 |-> <<"alpha", "badge">> :> x]]

Start ==
  [p \in {Opens, Done, Busy, Lit} |-> FALSE]
    @@ <<"active", "root">> :> "panel" @@ <<"node", "root">> :> 0 @@ <<"time", "fade">> :> 0
    @@ [p \in {"x"} \X {"pull", "follow", "slide"} |-> 0]
    @@ [p \in {"look"} \X DOMAIN Kinds |-> 0]
    @@ [p \in {"opacity"} \X DOMAIN Tree |-> 1]
    @@ [p \in {"alpha"} \X (DOMAIN Tree \ {"root"}) |-> 1]
    @@ [p \in {"playing"} \X DOMAIN Lengths |-> p[2] # "spin"]
    @@ [p \in {"mix"} \X {"pop", "glow", "spin", "fade"} |-> 1]
=============================================================================
