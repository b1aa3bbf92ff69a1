---------------------------- MODULE StateMachine ----------------------------
(***************************************************************************)
(* A StateMachineInstance: its inputs, the events it reported, the event   *)
(* listeners that react to them, and its layers, each a                    *)
(* StateMachineLayerInstance in one state or mixing one state into the     *)
(* next.                                                                   *)
(*                                                                         *)
(* An advance is one call, cut at the places where its loops go round: the *)
(* listeners are notified, then each layer advances its state and makes    *)
(* one state change after another until none is allowed.  Time is counted  *)
(* in ticks.  Animations play at speed 1, once or looping; what a state    *)
(* applies to the artboard is left out, and so are number and view model   *)
(* conditions, which read like bool ones.                                  *)
(***************************************************************************)
EXTENDS Integers, Sequences, FiniteSets

CONSTANTS
  Layers,        (* how many layers there are                              *)
  States,        (* the states of all layers                               *)
  Entry, AnyState,   (* the entry state and the any state of each layer        *)
  Length,        (* length of each state's animation, 0: it has none       *)
  OneShots,      (* the states whose animation plays once                  *)
  Blends,        (* the blend states, which always go on                   *)
  Randoms,       (* the states that choose a transition at random          *)
  Transitions,
  Out,           (* each state's transitions, in order                     *)
  Arc,           (* what each transition is: to, bools, triggers, exit ... *)
  Fires,         (* the events a state or a transition fires, by moment    *)
  Listeners,     (* the actions of the event listeners, in order           *)
  Bools, Triggers,
  Steps,         (* the times the host advances by                         *)
  MaxIterations, (* 100 in the code                                        *)
  Horizon        (* bound: a finished animation's total time stops here    *)

None == "none"
NoExit == -1
Layer == 1 .. Layers

ASSUME MachineAssumption ==
  /\ Layers \in Nat \ {0}
  /\ Entry \in [Layer -> States] /\ AnyState \in [Layer -> States]
  /\ Length \in [States -> Nat]
  /\ OneShots \subseteq States /\ Blends \subseteq States /\ Randoms \subseteq States
  /\ \A l \in Layer : Length[AnyState[l]] = 0
  /\ None \notin States /\ None \notin Transitions
  /\ Out \in [States -> Seq(Transitions)]
  /\ \A t \in Transitions :
       /\ Arc[t].to \in States
       /\ Arc[t].bools \subseteq Bools \X BOOLEAN
       /\ Arc[t].triggers \subseteq Triggers
       /\ Arc[t].exit \in Nat \cup {NoExit}
       /\ Arc[t].exit # NoExit => Arc[t].exit <= Horizon
       /\ Arc[t].mix \in Nat /\ Arc[t].percent \in BOOLEAN
       /\ Arc[t].early \in BOOLEAN /\ Arc[t].weight \in Nat
  /\ \A s \in States : Length[s] < Horizon
  /\ \A s \in States \ OneShots : \A k \in DOMAIN Out[s] :
       Length[s] > 0 /\ Arc[Out[s][k]].exit # NoExit => Arc[Out[s][k]].exit <= Length[s]
  /\ Steps \subseteq Nat
  /\ MaxIterations \in Nat /\ Horizon \in Nat

VARIABLES
  bools,        (* the value of each bool input                            *)
  fired,        (* the triggers whose m_fired is set                       *)
  reported,     (* m_reportedEvents                                        *)
  needsAdvance, (* m_needsAdvance                                          *)
  layers,       (* what each StateMachineLayerInstance holds               *)
  pc,           (* "idle", or where advance is: "layer" or "update"        *)
  at,           (* the layer advance is at                                 *)
  iteration,    (* i of the layer's loop                                   *)
  elapsed,      (* the time of the last advance, -1 before the first       *)
  history       (* see Init: what the properties count                     *)

vars == <<bools, fired, reported, needsAdvance, layers, pc, at, iteration, elapsed, history>>

Low(x, y) == IF x < y THEN x ELSE y

-----------------------------------------------------------------------------
(* The state instance in a layer.                                          *)

(* keepGoing of the current state.                                         *)
KeepGoing(r) == r.cur \in Blends \/ (Length[r.cur] > 0 /\ r.going)

(* makeInstance(s), in the fields of layer r.                              *)
Instance(r, s) ==
  [r EXCEPT !.cur = s, !.last = 0, !.total = 0, !.spilled = 0, !.going = TRUE]

(* StateInstance::advance.  The totals of a looping animation are kept     *)
(* relative to the lap the last total is in: exit times are compared so.   *)
Advanced(r, s) ==
  LET len == Length[r.cur]
      pos == r.total % len
  IN  IF len = 0 THEN r
      ELSE IF s = 0 THEN [r EXCEPT !.spilled = 0, !.going = TRUE]
      ELSE IF r.cur \in OneShots
      THEN [r EXCEPT !.last = r.total,
                     !.total = Low(r.total + s, Horizon),
                     !.spilled = IF r.total < len /\ r.total + s > len
                                 THEN r.total + s - len ELSE 0,
                     !.going = r.total + s < len]
      ELSE [r EXCEPT !.last = pos,
                     !.total = pos + s,
                     !.spilled = IF pos + s >= len THEN (pos + s) % len ELSE 0,
                     !.going = TRUE]

(* mixTime(stateFrom): a percentage of its animation, or a time.           *)
MixTime(t, s) == IF Arc[t].percent THEN (Arc[t].mix * Length[s]) \div 100 ELSE Arc[t].mix

(* There is a transition with a duration.                                  *)
Mixes(r) == r.trans # None /\ r.from # None /\ Arc[r.trans].mix # 0

(* The mix is 1 after s more.  For a mix of no length, seconds / mixTime   *)
(* is not a number when seconds is 0, and max(0, NaN) is 0; else infinite. *)
MixIsFull(r, s) ==
  LET time == MixTime(r.trans, r.from)
  IN  IF time = 0 THEN s > 0 ELSE r.mixed + s >= time

(* Mutant: every update of a full mix completes it again.                  *)
CompletesAgain(r, s) == Mixes(r) /\ MixIsFull(r, s)

(* updateMix(s) completes the transition and fires its end events.         *)
MixCompletesNow(r, s) == Mixes(r) /\ MixIsFull(r, s) /\ ~r.done

UpdateMix(r, s) ==
  IF Mixes(r)
  THEN [r EXCEPT !.mixed = Low(r.mixed + s, MixTime(r.trans, r.from)),
                 !.full = MixIsFull(r, s),
                 !.done = r.done \/ MixIsFull(r, s),
                 !.reset = r.reset /\ ~MixCompletesNow(r, s)]
  ELSE [r EXCEPT !.full = TRUE]

IsTransitioning(r) == Mixes(r) /\ ~r.full

-----------------------------------------------------------------------------
(* Which transition a layer takes.                                         *)

(* Mutant: triggers count in every iteration.                              *)
TriggersAlwaysCount(t, ignoreTriggers) ==
  /\ \A c \in Arc[t].bools : bools[c[1]] = c[2]
  /\ Arc[t].triggers \subseteq fired

(* The conditions of a transition.                                         *)
ConditionsHold(t, ignoreTriggers) ==
  /\ \A c \in Arc[t].bools : bools[c[1]] = c[2]
  /\ ignoreTriggers => Arc[t].triggers = {}
  /\ Arc[t].triggers \subseteq fired

(* allowed(...) = waitingForExit.  The any state has no animation.         *)
WaitsForExit(r, s, t) ==
  s = r.cur /\ Length[s] > 0 /\ Arc[t].exit # NoExit /\ r.total < Arc[t].exit

(* Positions in Out[s] of the transitions that are allowed and lead away   *)
(* from the current state.                                                 *)
Allowed(r, s, ignoreTriggers) ==
  {k \in DOMAIN Out[s] : /\ ConditionsHold(Out[s][k], ignoreTriggers)
                         /\ ~WaitsForExit(r, s, Out[s][k])
                         /\ Arc[Out[s][k]].to # r.cur}

(* findAllowedTransition: the first one, or a random one by weight.  When  *)
(* rand() returns RAND_MAX no weight exceeds the random one and none is    *)
(* taken.                                                                  *)
Found(r, s, ignoreTriggers) ==
  LET K == Allowed(r, s, ignoreTriggers)
  IN  IF s \in Randoms THEN {Out[s][k] : k \in {j \in K : Arc[Out[s][j]].weight > 0}} \cup {None}
      ELSE IF K = {} THEN {None}
      ELSE {Out[s][k] : k \in {i \in K : \A j \in K : i <= j}}

(* updateState: the transition it takes from the any state or, when there  *)
(* is none, from the current state.                                        *)
Choices(r, any, ignoreTriggers) ==
  IF IsTransitioning(r) /\ ~Arc[r.trans].early THEN {None}
  ELSE LET first == Found(r, any, ignoreTriggers)
       IN  (first \ {None})
           \cup (IF None \in first THEN Found(r, r.cur, ignoreTriggers) ELSE {})

(* m_waitingForExit once updateState changed nothing.                      *)
Waiting(r, ignoreTriggers) ==
  IF IsTransitioning(r) /\ ~Arc[r.trans].early THEN r.waiting
  ELSE \E k \in DOMAIN Out[r.cur] : /\ ConditionsHold(Out[r.cur][k], ignoreTriggers)
                                    /\ WaitsForExit(r, r.cur, Out[r.cur][k])

(* Mutant: the next state starts at its beginning.                         *)
ForgetSpilled(r) == 0

(* The time the state that is left hands to the next one.                  *)
HandedOn(r) == IF Length[r.cur] > 0 THEN r.spilled ELSE 0

(* tryChangeState taking transition t.  Only an animation state hands time *)
(* on, and a new instance advanced by 0 stays as it is; a transition of no *)
(* duration is completed at once.                                          *)
Taken(r, t) ==
  LET instant == Arc[t].mix = 0
  IN  [Advanced(Instance(r, Arc[t].to), HandedOn(r)) EXCEPT
         !.from = r.cur, !.trans = t, !.mixed = 0,
         !.waiting = FALSE,
         !.done = instant, !.full = instant, !.reset = ~instant]

(* The events of a state change, in the order they are fired.              *)
EventsOf(r, t) ==
  Fires[r.cur].atEnd \o Fires[Arc[t].to].atStart \o Fires[t].atStart
  \o (IF Arc[t].mix = 0 THEN Fires[t].atEnd ELSE <<>>)

-----------------------------------------------------------------------------
(* Event listeners.                                                        *)

Members(s) == {s[k] : k \in DOMAIN s}

(* performChanges of one listener action on the inputs and events in m.    *)
Perform(a, m) ==
  CASE a.does = "set"    -> [m EXCEPT !.bools[a.what] = a.value]
    [] a.does = "fire"   -> [m EXCEPT !.fired = @ \cup {a.what}]
    [] a.does = "report" -> [m EXCEPT !.reported = Append(@, a.what)]

(* notifyEventListeners(m_reportedEvents): the listeners run in order over *)
(* the very list that their own reports are appended to.                   *)
Notified ==
  LET after[k \in 0 .. Len(Listeners)] ==
        IF k = 0 THEN [bools |-> bools, fired |-> fired, reported |-> reported]
        ELSE LET m == after[k - 1]
             IN  IF Listeners[k].hears \in Members(m.reported)
                 THEN Perform(Listeners[k], m) ELSE m
  IN  after[Len(Listeners)]

-----------------------------------------------------------------------------
(* The events the layers fire when they enter their entry states.          *)
EnteredEvents ==
  LET upTo[l \in 0 .. Layers] ==
        IF l = 0 THEN <<>> ELSE upTo[l - 1] \o Fires[Entry[l]].atStart
  IN  upTo[Layers]

(* history.triggered: trigger transitions each layer took in this advance; *)
(* history.ends: at-end firings of each layer's latest transition.         *)
Init ==
  /\ bools \in [Bools -> BOOLEAN]
  /\ fired = {}
  /\ layers = [l \in Layer |->
       [cur |-> Entry[l], last |-> 0, total |-> 0, spilled |-> 0, going |-> TRUE,
        from |-> None, trans |-> None, mixed |-> 0, done |-> FALSE, full |-> TRUE,
        reset |-> FALSE, waiting |-> FALSE]]
  /\ reported = EnteredEvents
  /\ needsAdvance = FALSE
  /\ pc = "idle" /\ at = 1 /\ iteration = 0 /\ elapsed = -1
  /\ history = [triggered |-> [l \in Layer |-> 0], ends |-> [l \in Layer |-> 0]]

(* SMIBool::value.                                                         *)
SetBool(b, v) ==
  /\ pc = "idle"
  /\ bools[b] # v
  /\ bools' = [bools EXCEPT ![b] = v]
  /\ needsAdvance' = TRUE
  /\ UNCHANGED <<fired, reported, layers, pc, at, iteration, elapsed, history>>

(* SMITrigger::fire.                                                       *)
Fire(g) ==
  /\ pc = "idle"
  /\ g \notin fired
  /\ fired' = fired \cup {g}
  /\ needsAdvance' = TRUE
  /\ UNCHANGED <<bools, reported, layers, pc, at, iteration, elapsed, history>>

(* advance(s), up to its layers: listeners hear what was reported before.  *)
BeginAdvance(s) ==
  /\ pc = "idle"
  /\ bools' = Notified.bools
  /\ fired' = Notified.fired
  /\ reported' = <<>>
  /\ needsAdvance' = FALSE
  /\ elapsed' = s
  /\ pc' = "layer" /\ at' = 1 /\ iteration' = 0
  /\ history' = [history EXCEPT !.triggered = [l \in Layer |-> 0]]
  /\ UNCHANGED layers

(* A layer advances its current state and its mix.                         *)
AdvanceLayer ==
  /\ pc = "layer"
  /\ at <= Layers
  /\ LET r == Advanced(layers[at], elapsed)
         completes == MixCompletesNow(r, elapsed)
     IN  /\ layers' = [layers EXCEPT ![at] = UpdateMix(r, elapsed)]
         /\ reported' = IF completes THEN reported \o Fires[r.trans].atEnd ELSE reported
         /\ history' = [history EXCEPT !.ends[at] = @ + (IF completes THEN 1 ELSE 0)]
  /\ pc' = "update" /\ iteration' = 0
  /\ UNCHANGED <<bools, fired, needsAdvance, at, elapsed>>

GivesUp(i) == i = MaxIterations

Counted(i) == i + 1

(* updateState changes the layer's state; the layer gives up, and does not *)
(* ask for another advance, when it did so too often.                      *)
ChangeState(t) ==
  /\ pc = "update"
  /\ LET r == layers[at]
     IN  /\ t \in Choices(r, AnyState[at], iteration # 0) \ {None}
         /\ layers' = [layers EXCEPT ![at] = Taken(r, t)]
         /\ reported' = reported \o EventsOf(r, t)
         /\ history' = [history EXCEPT
              !.triggered[at] = IF Arc[t].triggers # {} THEN Low(@ + 1, 2) ELSE @,
              !.ends[at] = IF Arc[t].mix = 0 THEN 1 ELSE 0]
  /\ IF GivesUp(iteration)
     THEN pc' = "layer" /\ at' = at + 1 /\ iteration' = 0
     ELSE iteration' = Counted(iteration) /\ UNCHANGED <<pc, at>>
  /\ UNCHANGED <<bools, fired, needsAdvance, elapsed>>

(* Mutant: a layer that is mixing does not ask to go on.                   *)
GoesOnUnmixed(r) == r.waiting \/ KeepGoing(r)

(* Mutant: a layer that waits for an exit time does not ask to go on.      *)
GoesOnUnlessWaiting(r) == ~r.full \/ KeepGoing(r)

(* What a layer's advance returns.                                         *)
GoesOn(r) == ~r.full \/ r.waiting \/ KeepGoing(r)

(* updateState changes nothing and the layer is done.                      *)
EndLayer ==
  /\ pc = "update"
  /\ None \in Choices(layers[at], AnyState[at], iteration # 0)
  /\ LET r == [layers[at] EXCEPT !.waiting = Waiting(layers[at], iteration # 0),
                                 !.spilled = 0]
     IN  /\ layers' = [layers EXCEPT ![at] = r]
         /\ needsAdvance' = (needsAdvance \/ GoesOn(r))
  /\ pc' = "layer" /\ at' = at + 1 /\ iteration' = 0
  /\ UNCHANGED <<bools, fired, reported, elapsed, history>>

(* Every layer has advanced: the triggers are cleared.                     *)
FinishAdvance ==
  /\ pc = "layer"
  /\ at > Layers
  /\ fired' = {}
  /\ pc' = "idle" /\ at' = 1
  /\ UNCHANGED <<bools, reported, needsAdvance, layers, iteration, elapsed, history>>

Running == AdvanceLayer \/ (\E t \in Transitions : ChangeState(t)) \/ EndLayer \/ FinishAdvance

Next ==
  \/ \E b \in Bools, v \in BOOLEAN : SetBool(b, v)
  \/ \E g \in Triggers : Fire(g)
  \/ \E s \in Steps : BeginAdvance(s)
  \/ Running

Spec == Init /\ [][Next]_vars

(* An advance runs to its end on the caller's thread, and a host that is   *)
(* asked again and again to advance does not always do so by no time.      *)
FairSpec ==
  /\ Spec
  /\ WF_vars(Running)
  /\ SF_vars(needsAdvance /\ \E s \in Steps \ {0} : BeginAdvance(s))

-----------------------------------------------------------------------------
LayerRecord ==
  [cur : States, last : Nat, total : Nat, spilled : Nat, going : BOOLEAN,
   from : States \cup {None}, trans : Transitions \cup {None}, mixed : Nat,
   done : BOOLEAN, full : BOOLEAN, reset : BOOLEAN, waiting : BOOLEAN]

(* A fired trigger moves each layer at most once per advance, however many *)
(* states in a row wait for that trigger.                                  *)
OneTriggerEach == \A l \in Layer : history.triggered[l] <= 1

(* The at-end events of the transition a layer is in fire exactly once,    *)
(* when its mix completes, and the snapshot taken to reset the animated    *)
(* properties is held exactly until then.                                  *)
MixIsConsistent ==
  \A l \in Layer :
    LET r == layers[l]
    IN  r.trans # None => /\ history.ends[l] = IF r.done THEN 1 ELSE 0
                          /\ r.reset <=> ~r.done
                          /\ r.full => r.done

(* With the inputs as they are, a transition would take layer l away from  *)
(* its state, now or once its exit time has come.                          *)
Pending(l) ==
  \E s \in {AnyState[l], layers[l].cur} : \E k \in DOMAIN Out[s] :
    /\ ConditionsHold(Out[s][k], TRUE)
    /\ Arc[Out[s][k]].to # layers[l].cur
    /\ s \in Randoms => Arc[Out[s][k]].weight > 0

(* Once advance has said that it needs no further advance, and no input    *)
(* has changed since, there is no state change left to make.               *)
QuietLayers ==
  pc = "idle" /\ ~needsAdvance /\ elapsed >= 0 => \A l \in Layer : ~Pending(l)

(* A oneShot left by the advance that ends it, at its last frame, starts   *)
(* the next animation with exactly the time that was left: a chain of      *)
(* animations neither loses nor gains time at its joints.                  *)
NoTimeLost ==
  [][\A l \in Layer :
       LET r == layers[l]
       IN  /\ layers'[l].cur # r.cur
           /\ r.cur \in OneShots /\ Length[layers'[l].cur] > 0
           /\ Arc[layers'[l].trans].exit = Length[r.cur]
           /\ r.last < Length[r.cur] /\ elapsed # 0
           => layers'[l].total = r.total - Length[r.cur]]_vars

(* A mix that has begun completes or gives way to another transition as    *)
(* long as the host follows what advance answers.                          *)
MixCompletes ==
  \A l \in Layer : \A t \in Transitions :
    layers[l].trans = t /\ ~layers[l].full ~> layers[l].full \/ layers[l].trans # t
=============================================================================
