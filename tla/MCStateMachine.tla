--------------------------- MODULE MCStateMachine ---------------------------
(***************************************************************************)
(* Two small machines.  The character has a layer that runs, is struck    *)
(* from any state and recovers, and a layer that two pulls of one trigger  *)
(* open and close.  The reel plays animations one after another, and jams. *)
(***************************************************************************)
EXTENDS StateMachine, TLC

Go(to) == [to |-> to, bools |-> {}, triggers |-> {}, exit |-> NoExit, mix |-> 0,
           percent |-> FALSE, early |-> FALSE, weight |-> 1]
Mixed(arc, ticks) == [arc EXCEPT !.mix = ticks]
MixedPercent(arc, percent) == [arc EXCEPT !.mix = percent, !.percent = TRUE]
When(arc, b, v) == [arc EXCEPT !.bools = {<<b, v>>}]
On(arc, g) == [arc EXCEPT !.triggers = {g}]
After(arc, ticks) == [arc EXCEPT !.exit = ticks]
Early(arc) == [arc EXCEPT !.early = TRUE]
Weighing(arc, w) == [arc EXCEPT !.weight = w]

Quiet(X) == [x \in X |-> [atStart |-> <<>>, atEnd |-> <<>>]]

-----------------------------------------------------------------------------
CharacterStates == {"entry1", "any1", "idle", "run", "hit", "entry2", "any2", "shut", "open"}
CharacterEntry == <<"entry1", "entry2">>
CharacterAny == <<"any1", "any2">>
CharacterLength == [s \in CharacterStates |->
  CASE s = "idle" -> 3 [] s \in {"run", "hit"} -> 2 [] OTHER -> 0]
CharacterArc ==
  "start"   :> Go("idle") @@
  "toRun"   :> Early(Mixed(When(Go("run"), "fast", TRUE), 3)) @@
  "toIdle"  :> MixedPercent(After(When(Go("idle"), "fast", FALSE), 2), 100) @@
  "struck"  :> On(Go("hit"), "tap") @@
  "recover" :> Mixed(After(Go("idle"), 3), 1) @@
  "begin"   :> Go("shut") @@
  "flip"    :> MixedPercent(On(Go("open"), "tap"), 50) @@
  "flop"    :> On(Go("shut"), "tap")
CharacterTransitions == DOMAIN CharacterArc
CharacterOut == [s \in CharacterStates |->
  CASE s = "entry1" -> <<"start">>
    [] s = "idle"   -> <<"toRun">>
    [] s = "run"    -> <<"toIdle">>
    [] s = "any1"   -> <<"struck">>
    [] s = "hit"    -> <<"recover">>
    [] s = "entry2" -> <<"begin">>
    [] s = "shut"   -> <<"flip">>
    [] s = "open"   -> <<"flop">>
    [] OTHER        -> <<>>]
CharacterFires == [Quiet(CharacterStates \cup DOMAIN CharacterArc)
                     EXCEPT !["recover"].atEnd = <<"well">>, !["hit"].atStart = <<"ouch">>]
(* A hit is told on as a cry, which makes it run and pulls the trigger     *)
(* again; once well, it no longer runs.                                    *)
CharacterListens ==
  <<[hears |-> "ouch", does |-> "report", what |-> "cry", value |-> TRUE],
    [hears |-> "well", does |-> "set", what |-> "fast", value |-> FALSE],
    [hears |-> "cry", does |-> "set", what |-> "fast", value |-> TRUE],
    [hears |-> "cry", does |-> "fire", what |-> "tap", value |-> TRUE]>>

-----------------------------------------------------------------------------
ReelStates == {"entry", "any", "short", "middle", "long", "jam"}
ReelLength == [s \in ReelStates |->
  CASE s = "short" -> 1 [] s = "middle" -> 2 [] s = "long" -> 4 [] OTHER -> 0]
(* While it is stuck it goes from long to jam and back without end; slip    *)
(* mixes over half of no time, and again over more than short lasts.       *)
ReelArc ==
  "start" :> Go("short") @@
  "next"  :> After(Go("middle"), 1) @@
  "jump"  :> After(Go("long"), 1) @@
  "never" :> Weighing(After(Go("entry"), 1), 0) @@
  "last"  :> After(Go("long"), 2) @@
  "again" :> Mixed(After(Go("short"), 4), 2) @@
  "stick" :> When(Go("jam"), "stuck", TRUE) @@
  "back"  :> When(Go("long"), "stuck", TRUE) @@
  "slip"  :> MixedPercent(When(Go("long"), "stuck", FALSE), 50)
ReelTransitions == DOMAIN ReelArc
ReelOut == [s \in ReelStates |->
  CASE s = "entry"  -> <<"start">>
    [] s = "short"  -> <<"next", "never", "jump">>
    [] s = "middle" -> <<"last">>
    [] s = "long"   -> <<"again", "stick">>
    [] s = "jam"    -> <<"back", "slip">>
    [] OTHER        -> <<>>]
ReelFires == Quiet(ReelStates \cup DOMAIN ReelArc)

One(s) == <<s>>
OneEntry == One("entry")
OneAny == One("any")
NoListeners == <<>>
=============================================================================
