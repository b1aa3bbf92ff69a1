--------------------------- MODULE NestedAdvance ----------------------------
(***************************************************************************)
(* One frame of a tree of nested artboards: StateMachineInstance's         *)
(* advanceAndApply advances the host's machine and then its artboard, which *)
(* applies joysticks, updates and advances the artboards nested in it:     *)
(* their machines and animations first, then they themselves.              *)
(*                                                                         *)
(* Down the tree go properties: what a machine's state, an animation or a  *)
(* joystick keys, the inputs of nested machines and the opacity of nested  *)
(* artboards.  Up the tree go events, and the answer whether the host must *)
(* go on.  A machine has one layer whose states take no time (StateMachine *)
(* has layers, LinearAnimation playback, UpdateCycle updates), and an      *)
(* artboard has at most one machine and one solo.                          *)
(***************************************************************************)
EXTENDS Integers, SequencesExt, FiniteSetsExt

CONSTANTS
  None,
  Root,       \* the artboard the host shows
  Path,       \* each artboard and those it is nested in, from the inside out
  Nested,     \* m_NestedArtboards of each artboard
  Animations, \* m_NestedAnimations of each, of the root the host's machine
  Soloed,     \* the nested artboards that are children of a solo
  Joysticks,  \* m_Joysticks of each artboard
  Handled,    \* the joysticks with a handle source, the artboard's node
  Kind,       \* "machine", "simple" or "remap", of each animation
  Entry,      \* the state a machine begins in
  Arcs,       \* its transitions: from, on which input, when it is what, to
  Looping,    \* the states whose animation goes on for ever
  Ids,        \* the ids of events
  Fires,      \* the events of each state, by their id in the artboard
  Listeners,  \* the event listeners of each machine
  Length,     \* the last frame of each simple animation
  Loops,      \* the simple animations that loop
  Keyed,      \* the events keyed on each of its frames
  Pose,       \* what each machine, animation, joystick sets where it stands
  Begin,      \* the properties, with their values in the file
  HostInputs  \* the inputs the host sets

Artboards == DOMAIN Nested
Animation == DOMAIN Kind
Machines == {m \in Animation : Kind[m] = "machine"}
Simples == {s \in Animation : Kind[s] = "simple"}
Remaps == {r \in Animation : Kind[r] = "remap"}
AllJoysticks == UNION {ToSet(Joysticks[a]) : a \in Artboards}
States(m) == DOMAIN Pose[m]

Host(a) == Path[a][2]
In == [p \in Animation |-> CHOOSE a \in Artboards : p \in ToSet(Animations[a])]
MachineIn(a) == IF \E m \in Machines : In[m] = a THEN CHOOSE m \in Machines : In[m] = a ELSE None

Event(a, id) == [of |-> a, id |-> id]
Events == [of : Artboards, id : Ids]

-----------------------------------------------------------------------------
(***************************************************************************)
(* Properties.  Tuples name them: <<"input", machine, name>>, of artboards *)
(* <<"opacity", a>>, <<"alpha", a>> (of the NestedArtboard), <<"node", a>>, *)
(* <<"active", a>> (of the solo), of animations <<"mix", p>>,              *)
(* <<"playing", p>>, <<"time", p>>, <<"look", p>> (what it keys itself), of *)
(* joysticks <<"x", j>>.                                                   *)
(***************************************************************************)
Properties == DOMAIN Begin
Inputs(m) == {p \in Properties : p[1] = "input" /\ p[2] = m}

(* The values a property may have. *)
Takes(p) ==
  CASE p[1] \in {"input", "playing"} -> BOOLEAN
    [] p[1] = "active" -> ToSet(Nested[p[2]])
    [] p[1] \in {"time", "x"} -> DOMAIN Pose[p[2]]
    [] p[1] = "node" -> {v \in Nat : \A j \in ToSet(Joysticks[p[2]]) \cap Handled : v \in DOMAIN Pose[j]}
    [] OTHER -> Nat

(* A pose is a property and a value for each. *)
IsPose(pose) == DOMAIN pose \subseteq Properties /\ \A p \in DOMAIN pose : pose[p] \in Takes(p)

(* The properties of an artboard's own objects, which are all that its      *)
(* machine, its animations and its joysticks can key: nested artboards and  *)
(* animations are objects of the artboard they are in. *)
PropertiesOf(a) ==
  {p \in Properties :
     \/ p[1] \in {"opacity", "node", "active"} /\ p[2] = a
     \/ p[1] = "alpha" /\ p[2] \in ToSet(Nested[a])
     \/ /\ p[1] \in {"input", "mix", "playing", "time"}
        /\ p[2] \in Animation /\ In[p[2]] \in ToSet(Nested[a])
     \/ p[1] = "look" /\ p[2] \in Animation /\ In[p[2]] = a
     \/ p[1] = "x" /\ p[2] \in ToSet(Joysticks[a])}

ASSUME TreeAssumption ==
  /\ Root \in Artboards /\ None \notin Artboards \cup Animation
  /\ \A a \in Artboards :
       /\ Path[a] \in Seq(Artboards)
       /\ IF a = Root THEN Path[a] = <<Root>>
          ELSE /\ Len(Path[a]) > 1 /\ Path[a] = <<a>> \o Path[Host(a)]
               /\ a \in ToSet(Nested[Host(a)])
       /\ Nested[a] \in Seq(Artboards) /\ IsInjective(Nested[a])
       /\ \A n \in ToSet(Nested[a]) : n /= Root /\ Host(n) = a
       /\ Animations[a] \in Seq(Animation) /\ IsInjective(Animations[a])
       /\ Joysticks[a] \in Seq(AllJoysticks) /\ IsInjective(Joysticks[a])
  /\ \A p \in Animation : \E a \in Artboards : p \in ToSet(Animations[a])
  /\ \A a, b \in Artboards :
       a /= b => /\ ToSet(Animations[a]) \cap ToSet(Animations[b]) = {}
                 /\ ToSet(Joysticks[a]) \cap ToSet(Joysticks[b]) = {}
  /\ Animation \cap AllJoysticks = {}
  /\ \A p \in Animation : Kind[p] \in {"machine", "simple", "remap"}
  /\ \A m, k \in Machines : In[m] = In[k] => m = k
  /\ \A p \in Animation : In[p] = Root => p \in Machines

ASSUME PropertyAssumption ==
  /\ IsPose(Begin) /\ Begin = [p \in Properties |-> Begin[p]]
  /\ \A a \in Artboards : <<"opacity", a>> \in Properties
  /\ \A n \in Artboards \ {Root} : <<"alpha", n>> \in Properties
  /\ \A n \in Soloed : n \in Artboards \ {Root} /\ <<"active", Host(n)>> \in Properties
  /\ \A s \in Simples : {<<"mix", s>>, <<"playing", s>>} \subseteq Properties
  /\ \A r \in Remaps : {<<"mix", r>>, <<"time", r>>} \subseteq Properties
  /\ \A a \in Artboards : \A j \in ToSet(Joysticks[a]) :
       <<"x", j>> \in Properties /\ (j \in Handled => <<"node", a>> \in Properties)
  /\ \A a \in Artboards : \A q \in ToSet(Animations[a]) \cup ToSet(Joysticks[a]) :
       \A at \in DOMAIN Pose[q] : IsPose(Pose[q][at]) /\ DOMAIN Pose[q][at] \subseteq PropertiesOf(a)
  /\ \A p \in HostInputs : \E m \in Machines : In[m] = Root /\ p \in Inputs(m)

(* A listener hears events of its own artboard or of one nested in it, and  *)
(* sets an input of its machine or of one nested in its artboard. *)
ASSUME MachineAssumption ==
  /\ Entry = [m \in Machines |-> Entry[m]]
  /\ \A m \in Machines :
       /\ Entry[m] \in States(m)
       /\ DOMAIN Arcs[m] = 1 .. Len(Arcs[m]) /\ Len(Arcs[m]) \in Nat
       /\ \A i \in DOMAIN Arcs[m] :
            Arcs[m][i].from \in States(m) /\ Arcs[m][i].to \in States(m) /\ Arcs[m][i].input \in Inputs(m)
       /\ \A s \in States(m) : Fires[m][s] \in Seq(Ids)
       /\ DOMAIN Listeners[m] = 1 .. Len(Listeners[m]) /\ Len(Listeners[m]) \in Nat
       /\ \A i \in DOMAIN Listeners[m] : LET l == Listeners[m][i] IN
            /\ l.target \in {In[m]} \cup ToSet(Nested[In[m]]) /\ l.event \in Ids
            /\ l.does \in {"set", "report"}
            /\ l.does = "report" => l.what \in Ids
            /\ l.does = "set" =>
                 /\ l.value \in BOOLEAN
                 /\ \/ l.what \in Inputs(m)
                    \/ \E n \in Machines : In[n] \in ToSet(Nested[In[m]]) /\ l.what \in Inputs(n)
  /\ \A s \in Simples :
       /\ Length[s] \in Nat \ {0} /\ DOMAIN Pose[s] = 0 .. Length[s]
       /\ \A f \in 1 .. Length[s] : Keyed[s][f] \in Seq(Ids)

VARIABLES
  value,    \* of every property and input
  dirty,    \* the artboards with ComponentDirt::Components
  needs,    \* m_needsAdvance of each machine
  state,    \* the state each machine is in
  time,     \* the frame of each simple animation
  reports,  \* m_reportedEvents of each machine
  todo,     \* the calls still to be made in this frame
  elapsed,  \* the frame's seconds
  answer,   \* what advanceAndApply will answer; TRUE once the host has changed something
  owed      \* how often each listener has still to hear (of the model alone)

frameVars == <<value, dirty, needs, state, time, reports, todo, elapsed, answer, owed>>

(* What a call changes, collected while it runs. *)
Now == [value |-> value, dirty |-> dirty, needs |-> needs, state |-> state,
        reports |-> reports, told |-> <<>>, updated |-> FALSE, owed |-> owed]

Becomes(w) ==
  /\ value' = w.value /\ dirty' = w.dirty /\ needs' = w.needs /\ state' = w.state
  /\ reports' = w.reports /\ owed' = w.owed

(* A change of the property makes the artboard's components dirty. *)
Dirties(p, a) ==
  \/ p[1] \in {"opacity", "node", "active"} /\ p[2] = a
  \/ p[1] = "alpha" /\ p[2] \in ToSet(Nested[a])
  \/ p[1] = "look" /\ In[p[2]] = a

(* Setters do nothing unless the value changes; an input marks its machine. *)
Apply(w, pose) ==
  LET changed == {p \in DOMAIN pose : w.value[p] /= pose[p]} IN
  [w EXCEPT !.value = [p \in DOMAIN @ |-> IF p \in DOMAIN pose THEN pose[p] ELSE @[p]],
            !.dirty = @ \cup {a \in Artboards : \E p \in changed : Dirties(p, a)},
            !.needs = [m \in Machines |-> @[m] \/ \E p \in changed : p[1] = "input" /\ p[2] = m]]

(* isCollapsed: it is not the active child of its solo. *)
Collapsed(w, n) == n \in Soloed /\ w.value[<<"active", Host(n)>>] /= n

(* renderOpacity of a nested artboard. *)
Rendered(w, n) == w.value[<<"alpha", n>>] * w.value[<<"opacity", Host(n)>>]

-----------------------------------------------------------------------------
(***************************************************************************)
(* Events.                                                                 *)
(***************************************************************************)
Ears == UNION {{m} \X DOMAIN Listeners[m] : m \in Machines}
Listener(l) == Listeners[l[1]][l[2]]
IsFor(l, e) == Event(Listener(l).target, Listener(l).event) = e

(* m_reportedEvents.push_back; whoever is to hear of it is owed one call for *)
(* all equal events of the list. *)
Report(w, m, ids) ==
  LET new == [i \in DOMAIN ids |-> Event(In[m], ids[i])] IN
  [w EXCEPT !.reports[m] = @ \o new,
            !.owed = [l \in DOMAIN @ |->
                        IF \E e \in ToSet(new) : e \notin ToSet(w.reports[m]) /\ IsFor(l, e)
                        THEN @[l] + 1 ELSE @[l]]]

(* performChanges: sets an input of its machine or of a nested one, or      *)
(* reports another event, which joins the list that is being told if it is  *)
(* the machine's own. *)
Perform(w, k, i, source) ==
  LET l == Listeners[k][i]
      paid == [w EXCEPT !.owed[<<k, i>>] = @ - 1]
  IN  IF l.does = "set" THEN Apply(paid, [p \in {l.what} |-> l.value])
      ELSE [Report(paid, k, <<l.what>>) EXCEPT
              !.told = IF source = None THEN Append(@, Event(In[k], l.what)) ELSE @]

(* A mutant: ids alone tell events apart, in whatever artboard they are. *)
AimsAnyhow(k, l, source) == source = None \/ l.target = source
(* The listener is for the artboard the events come from; source is None for *)
(* the machine's own. *)
Aims(k, l, source) == l.target = IF source = None THEN In[k] ELSE source

(* Its event is looked up in the artboard the events come from. *)
Hears(w, k, l, source) ==
  /\ Aims(k, l, source)
  /\ Event(IF source = None THEN In[k] ELSE source, l.event) \in ToSet(w.told)

Told(w, k, i, source) ==
  IF Hears(w, k, Listeners[k][i], source) THEN Perform(w, k, i, source) ELSE w

(* notifyEventListeners: the listeners of one machine, in order. *)
Tell(w, k, source) ==
  LET after[i \in 0 .. Len(Listeners[k])] ==
        IF i = 0 THEN w ELSE Told(after[i - 1], k, i, source)
  IN  after[Len(Listeners[k])]

(* The machines that events of an artboard bubble to: of the one it is nested *)
(* in, of that which this is nested in, as far as each has one. *)
Reaches(a, i) == \A j \in 2 .. i + 1 : MachineIn(Path[a][j]) /= None

Up(w, a, i) == IF Reaches(a, i) THEN Tell(w, MachineIn(Path[a][i + 1]), Path[a][i]) ELSE w

Bubble(w, a) ==
  LET after[i \in 0 .. Len(Path[a]) - 1] == IF i = 0 THEN w ELSE Up(after[i - 1], a, i)
  IN  after[Len(Path[a]) - 1]

-----------------------------------------------------------------------------
(***************************************************************************)
(* One frame, as the list of calls still to be made.                       *)
(***************************************************************************)
Visits(kind, s) == [i \in DOMAIN s |-> <<kind, s[i]>>]
Play(s) == [i \in DOMAIN s |-> <<Kind[s[i]], s[i]>>]
PlayAll(a) == Play(Animations[a]) \o <<<<"artboard", a>>>>

(* keepGoing = ... || keepGoing. *)
(* A mutant: the last answer counts. *)
LastCounts(goes) == goes
OrElse(goes) == goes \/ answer

Call(kind, x) == todo /= <<>> /\ Head(todo) = <<kind, x>>
Returns(goes, calls) ==
  /\ todo' = calls \o Tail(todo)
  /\ answer' = OrElse(goes)
  /\ UNCHANGED elapsed

(* The transitions a machine may take. *)
Open(w, m) ==
  {i \in DOMAIN Arcs[m] : /\ Arcs[m][i].from = w.state[m] /\ Arcs[m][i].to /= w.state[m]
                          /\ w.value[Arcs[m][i].input] = Arcs[m][i].is}

Moved(w, m) ==
  LET to == Arcs[m][Min(Open(w, m))].to
      fired == Report(w, m, Fires[m][to])
  IN  Apply([fired EXCEPT !.state[m] = to], Pose[m][to])

(* StateMachineLayerInstance::advance: what it applies, one state after     *)
(* another.  No machine here goes round in circles, so it is not cut off.   *)
Change(w, m) == IF Open(w, m) = {} THEN w ELSE Moved(w, m)
Layer(w, m) ==
  LET after[i \in 0 .. Len(Arcs[m])] ==
        IF i = 0 THEN Apply(w, Pose[m][w.state[m]]) ELSE Change(after[i - 1], m)
  IN  after[Len(Arcs[m])]

(* What a machine reported is told to its own listeners, and then up. *)
Heard(m) == Bubble(Tell([Now EXCEPT !.told = reports[m]], m, None), In[m])

Advanced(w, m) == Layer([w EXCEPT !.reports[m] = <<>>, !.needs[m] = FALSE], m)

(* StateMachineInstance::advance. *)
AdvanceMachine ==
  \E m \in Machines :
    /\ Call("machine", m)
    /\ LET after == Advanced(Heard(m), m)
           goes == after.state[m] \in Looping
       IN  Becomes([after EXCEPT !.needs[m] = goes]) /\ Returns(goes, <<>>)
    /\ UNCHANGED time

(* An event that a simple animation is keyed on is told at once. *)
TellKeyed(w, s, id) ==
  LET e == Event(In[s], id) IN
  Bubble([w EXCEPT !.told = <<e>>,
                   !.owed = [l \in DOMAIN @ |-> IF IsFor(l, e) THEN @[l] + 1 ELSE @[l]]], In[s])

TellAllKeyed(w, s, ids) ==
  LET after[i \in 0 .. Len(ids)] == IF i = 0 THEN w ELSE TellKeyed(after[i - 1], s, ids[i])
  IN  after[Len(ids)]

(* NestedSimpleAnimation::advance. *)
AdvanceSimple ==
  \E s \in Simples :
    /\ Call("simple", s)
    /\ LET plays == value[<<"playing", s>>]
           moves == plays /\ elapsed > 0 /\ time[s] < Length[s]
           to == IF ~moves THEN time[s]
                 ELSE IF s \in Loops /\ time[s] + 1 = Length[s] THEN 0 ELSE time[s] + 1
           after == IF moves THEN TellAllKeyed(Now, s, Keyed[s][time[s] + 1]) ELSE Now
       IN  /\ time' = [time EXCEPT ![s] = to]
           /\ Becomes(IF value[<<"mix", s>>] = 0 THEN after ELSE Apply(after, Pose[s][to]))
           /\ Returns(plays /\ (elapsed = 0 \/ s \in Loops \/ to < Length[s]), <<>>)

(* NestedRemapAnimation::advance: as long as it is mixed in, it goes on. *)
AdvanceRemap ==
  \E r \in Remaps :
    /\ Call("remap", r)
    /\ LET mixed == value[<<"mix", r>>] /= 0 IN
       /\ Becomes(IF mixed THEN Apply(Now, Pose[r][value[<<"time", r>>]]) ELSE Now)
       /\ Returns(mixed, <<>>)
    /\ UNCHANGED time

(* NestedArtboard::advance. *)
AdvanceNested ==
  \E n \in Artboards :
    /\ Call("nested", n)
    /\ Returns(FALSE, IF Collapsed(Now, n) THEN <<>> ELSE PlayAll(n))
    /\ Becomes(Now)
    /\ UNCHANGED time

(* updateComponents: a joystick follows its handle, a nested artboard that  *)
(* is shown hands its opacity on. *)
Updates(w, a) ==
  [p \in {<<"x", j>> : j \in ToSet(Joysticks[a]) \cap Handled}
           \cup {<<"opacity", n>> : n \in {n \in ToSet(Nested[a]) : ~Collapsed(w, n)}} |->
     IF p[1] = "x" THEN w.value[<<"node", a>>] ELSE Rendered(w, p[2])]

Update(w, a) ==
  IF a \notin w.dirty THEN w
  ELSE Apply([w EXCEPT !.dirty = @ \ {a}, !.updated = TRUE], Updates(w, a))

ApplyJoystick(w, j) == Apply(w, Pose[j][w.value[<<"x", j>>]])

(* A mutant: one joystick without a handle is enough. *)
SomeApplyBefore(a) == Joysticks[a] = <<>> \/ \E j \in ToSet(Joysticks[a]) : j \notin Handled
(* m_JoysticksApplyBeforeUpdate. *)
AllApplyBefore(a) == \A j \in ToSet(Joysticks[a]) : j \notin Handled

(* The artboard's joysticks in turn; with an update before each that follows *)
(* a handle, unless all are applied before the update. *)
Pulled(w, a, j) ==
  ApplyJoystick(IF j \in Handled /\ ~AllApplyBefore(a) THEN Update(w, a) ELSE w, j)
Pull(w, a) ==
  LET after[i \in 0 .. Len(Joysticks[a])] ==
        IF i = 0 THEN w ELSE Pulled(after[i - 1], a, Joysticks[a][i])
  IN  after[Len(Joysticks[a])]

(* advanceInternal, but for the nested artboards. *)
JoysticksAndUpdates(w, a) ==
  Update(Pull(IF AllApplyBefore(a) THEN w ELSE Update(w, a), a), a)

AdvanceArtboard ==
  \E a \in Artboards :
    /\ Call("artboard", a)
    /\ LET after == JoysticksAndUpdates(Now, a) IN
       /\ Becomes(after)
       /\ Returns(after.updated, Visits("nested", Nested[a]))
    /\ UNCHANGED time

(* The host's calls, between the frames. *)
AdvanceAndApply ==
  /\ todo = <<>>
  /\ \E seconds \in {0, 1} : elapsed' = seconds
  /\ todo' = PlayAll(Root)
  /\ answer' = FALSE
  /\ UNCHANGED <<value, dirty, needs, state, time, reports, owed>>

SetInput ==
  /\ todo = <<>>
  /\ \E p \in HostInputs : Becomes(Apply(Now, [q \in {p} |-> ~value[p]]))
  /\ answer' = TRUE
  /\ UNCHANGED <<todo, elapsed, time>>

FrameInit ==
  /\ value = Begin
  /\ dirty = Artboards
  /\ needs = [m \in Machines |-> FALSE]
  /\ state = Entry
  /\ time = [s \in Simples |-> 0]
  /\ reports = [m \in Machines |-> <<>>]
  /\ todo = PlayAll(Root)
  /\ elapsed = 0
  /\ answer = FALSE
  /\ owed = [l \in Ears |-> 0]

FrameNext == AdvanceMachine \/ AdvanceSimple \/ AdvanceRemap \/ AdvanceNested \/ AdvanceArtboard
               \/ AdvanceAndApply \/ SetInput

FrameSpec == FrameInit /\ [][FrameNext]_frameVars
-----------------------------------------------------------------------------
(***************************************************************************)
(* Properties.                                                             *)
(***************************************************************************)
(* Every listener is told once of every event it is for, at whatever depth it *)
(* is reported, and of no other: between two frames it has still to hear of *)
(* the events that its artboard's, or the nested artboard's, machine is going *)
(* to tell when it is advanced next, and has heard of all others.          *)
HeardOnce ==
  todo = <<>> =>
    \A l \in Ears :
      owed[l] = IF \E m \in Machines : \E e \in ToSet(reports[m]) : IsFor(l, e) THEN 1 ELSE 0

(* Neither it nor what it is nested in is collapsed. *)
Visible(a) == \A n \in ToSet(Path[a]) \ {Root} : ~Collapsed(Now, n)
Shows(pose) == \A p \in DOMAIN pose : value[p] = pose[p]

(* What a frame shows is of one moment at all levels: the state of each     *)
(* machine is applied, each joystick stands where its handle is and has     *)
(* applied what it sets there, a remapped animation that is mixed in is at  *)
(* its time, and a nested artboard has the opacity of where it is.          *)
FrameIsWhole ==
  todo = <<>> =>
    \A a \in Artboards : Visible(a) =>
      /\ \A m \in Machines : In[m] = a => Shows(Pose[m][state[m]])
      /\ \A j \in ToSet(Joysticks[a]) :
           /\ Shows(Pose[j][value[<<"x", j>>]])
           /\ j \in Handled => value[<<"x", j>>] = value[<<"node", a>>]
      /\ \A r \in Remaps : In[r] = a /\ value[<<"mix", r>>] /= 0
                             => Shows(Pose[r][value[<<"time", r>>]])
      /\ a /= Root => value[<<"opacity", a>>] = Rendered(Now, a)

(* A host that stops because advanceAndApply answered false misses nothing  *)
(* that goes on by itself: nothing that is visible plays or has still to be *)
(* updated, and a machine with a transition to take is marked.              *)
StopsAtRest ==
  todo = <<>> /\ ~answer =>
    \A a \in Artboards : Visible(a) =>
      /\ a \notin dirty
      /\ \A s \in Simples : In[s] = a /\ value[<<"playing", s>>] =>
           elapsed > 0 /\ s \notin Loops /\ time[s] = Length[s]
      /\ \A m \in Machines : In[m] = a =>
           state[m] \notin Looping /\ (Open(Now, m) /= {} => needs[m])
=============================================================================
