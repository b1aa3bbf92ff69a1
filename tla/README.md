# A TLA+ model of the Rive runtime

Specifications of the parts of `rive-cpp` that decide *what happens in which
order*: what an artboard updates, what it draws and where, where an animation's
playhead goes, which state a state machine is in, which pointer listener hears
what, which value a data bind writes, what two threads do with a sound, what a
file's objects are attached to, and how a frame runs through nested artboards.
Each module is translated from the source; `PROJECT.json` names the lines every
definition stands for. TLC checks the modules on small instances, TLAPS proves the
most important properties for every value of the constants.

    tlc -config UpdateCycle.cfg MCUpdateCycle      # a run: see "What the runs show"
    tlapm ArtboardProofs.tla                       # a module of proofs

Contents: [the system](#the-system) · [modules and code](#modules-and-code) ·
[what the runs show](#what-the-runs-show) · [fairness](#fairness) ·
[what is proved](#what-is-proved) · [where the code departs from its own
words](#where-the-code-departs-from-its-own-words) · [what is not
modelled](#what-is-not-modelled-and-why) · [plan](#plan)

---

## The system

A host loads a file, makes an instance of an artboard and of a state machine on
it, and then calls, once per frame, `advanceAndApply(seconds)`; in between it
sets inputs and hands on pointer events. Nearly everything runs on the host's
thread, by callbacks: a setter calls its change callback, which marks components
dirty, which marks their dependents; the artboard updates what is dirty when it
is advanced. Only audio has a second thread.

| Component | State it keeps | Operations | Talks to |
|---|---|---|---|
| Dirt and the update cycle (`component.cpp`, `solo.cpp`, `artboard.cpp`) | `m_Dirt` of each component with the Collapsed bit, the active child of each solo, the artboard's Components flag, the depth of the latest dirt | `addDirt`, `collapse`, `activeComponentId`, `updateComponents` | every component's `update`, constraints, the sorter's order |
| Shapes, paths, composers, clips (`shapes/`) | their dirt, deferred paths, cached bounds, `RenderPath`s | `pathChanged`, `pathCollapseChanged`, `update`, `computeBounds` | the update cycle, constraints that follow a path |
| Dependency sorter (`dependency_sorter.cpp`) | `m_Perm`, `m_Temp`, the order so far | `sort`, `visit` | the artboard, for components and for draw targets |
| Draw order (`artboard.cpp`, `draw_rules.cpp`, `draw_target.cpp`) | linked list of drawables, active target of each draw rules, placement of each target, "changed in the last update" | `sortDrawOrder`, `draw`, `drawTargetIdChanged`, `placementValueChanged` | the state machine's hit order |
| Linear animation instance (`linear_animation_instance.cpp`) | time, total and last total time, spilled time, direction, loop kind | `advance`, `time`, `direction`, `loopValue`, `reset`, `clearSpilledTime` | keyed callbacks, which report events; the state that owns it |
| State machine instance (`state_machine_instance.cpp`, `state_transition.cpp`) | inputs, reported events, `m_needsAdvance`, per layer: state, transition, mix, waiting for an exit | `advance`, `value`, `fire`, `notifyEventListeners` | animations, animation resets, listeners, the host, which stops when `advance` answers false |
| Pointer listeners (same file) | per listener: hovered, click phase, consumed | `pointerMove/Down/Up/Exit` | shapes' hit tests, nested state machines |
| Nested artboards, joysticks (`nested_artboard.cpp`, `joystick.cpp`, `animation/nested_*`) | nested animations and machines, their inputs, handle positions | `advanceInternal`, `advance`, `apply`, `notify` | all of the above, one level down; events go one level up |
| Data binding, view models (`data_bind/`, `viewmodel/`) | values, dependents, dirt of binds, cached list items | `dataContext`, `updateDataBinds`, `updateSourceBinding`, value setters | the artboard's and the machine's advance |
| Audio engine (`audio/`) | playing sounds, completed sounds, a lock | `play`, `stop`, `soundCompleted`, disposal | miniaudio's thread |
| Importers and files (`file.cpp`, `importers/`) | the stack of latest importers, what each has been given | `read`, `makeLatest`, `readNullObject`, `resolve` | builds what all others take as given |
| Text, layout, bones, constraints, math, renderers, generated core | geometry | `update`, `draw` | functions of numbers, or calls of libraries |

Behaviours that are hard, and the properties that make each part correct:

* **Update cycle.** An update may dirty components that were already passed or
  are yet to come; hidden components keep their dirt; `collapse` and `addDirt`
  both stop early. Correct when no dirt is forgotten, nothing is computed from
  something stale that is shown, and what is shown at the end is up to date.
* **Shapes.** Work that is put off while a shape is transparent or hidden must be made
  up for when it is shown, in whatever order that happens with the changes. Correct
  when everything that can be seen is current once nothing is dirty.
* **Sorter.** Shared dependents, cycles found in the middle of the walk.
  Correct when the order is topological at any time and complete without a cycle.
* **Draw order.** Groups placed at drawables of other groups, at either end of
  the list; the hit order is only sorted after a change. Correct when nothing is
  lost or doubled, groups are where they belong, and hits follow what is drawn.
* **Animation.** Advances that end exactly on a keyframe or an end, span several
  laps or bounces, with setters in between. Correct when the playhead stays in
  range and does not drift, callbacks fire once per pass, spilled time is part of
  the time given.
* **State machine.** Several changes in one advance, a trigger shared by states
  and layers, mixes that overlap the end of an animation, answers a host relies
  on to stop. Correct when a trigger counts once per layer, a mix completes once
  and completes at all, a quiet machine really has nothing to do.
* **Pointer listeners.** One hover state for several shapes, opaque shapes,
  nested machines, early outs. Correct when each enter, exit, click, move is
  heard once, by the listeners whose shapes are under the pointer.
* **Nested artboards.** Events bubble while their sender advances and change
  machines above it; joysticks move what is nested below; answers of levels are
  combined. Correct when events are heard once by those they are for, all levels show the
  same moment, and an answer of false is true.
* **Data binding.** Binds in both directions on one value, contexts that are
  replaced, lists that are matched with what showed them before. Correct when no change is
  missed, list items keep their instances, and repeated updates come to rest.
* **Audio.** The device's thread takes sounds off a list the host's thread is walking;
  disposing of a sound waits for that thread. Correct when the list stays whole, a sound
  is disposed of once and never in use, and no call waits for ever.
* **Import.** Objects refer to others by index or by being written after them, and objects
  of unknown types leave gaps. Correct when everything ends up with its owner, references
  mean what they meant in the editor, and importers resolve once, after all they are given.

`PROJECT.json` lists the hazards behind these, each at its line, with the
properties that would catch it or the reason why none does.

---

## Modules and code

Each component has a module, an `MC` module with its small instances, a `.cfg` file or
two, and where there are theorems a `Proofs` module that extends it (`ArtboardProofs` two of them: the update cycle of one artboard and the frames of a tree); `Induction` has what several proofs need. Some definitions are
plausible bugs, kept beside the definition they would replace and named for what they
do; no action uses them. They document what the properties can tell apart: with one in
place of the other TLC finds a property violated (`PROJECT.json`, "mutants").

### `UpdateCycle`

A component is its place in `m_DependencyOrder` (component 0 is the artboard), a
constraint targets components earlier in the order, a solo shows one of its
children. `dirt` has three flags: `Transform` (one component), `WorldTransform`
(recursive) and `Paint` (one component, not recursive); the other kinds of dirt
travel in one of these ways. `stale` is a history variable: the components whose
world transform is older than what it derives from.

| Action | Code |
|---|---|
| `SetTransform`, `SetPaint` | a setter's change callback: `markTransformDirty`, `addDirt` |
| `SetActive` | `Solo::activeComponentIdChanged` with the whole recursion of `collapse`, and the marks on constrained components |
| `BeginUpdate`, `SkipComponent`, `UpdateComponent`, `FinishPass` | `Artboard::updateComponents`, one iteration of its loop each |

`Reached` is the least fixed point of the recursive `addDirt`, which stops at a
component that has the flag already. `m_DirtDepth` is written before it is read in
each iteration and so is a local of `UpdateComponent` (`BreaksOut`). What an
update itself dirties is the constant `Feeds`.

### `ShapePaths`

The same dirt one level down, where the order of calls matters: `addDirt`, `collapse`,
`markTransformDirty`, `pathChanged` and the `onDirty` overrides run as a stack of
calls (`Marked`, with `Calls` giving what each call does next), because
they call each other with early returns. `UpdateComponents` is one call of the update,
component by component in the order (`Visit`). A scene is a record: what each
component is, its parent, the shape of a path, the sources of a clip, what a constraint
follows. The history `behind` is the set of computed things (world transforms, points,
composed paths, clips, contours, bounds) that are older than their inputs; it is
kept by `Behind` from what depends on what, independently of any flag.

### `DependencySorter`

`visit`'s recursion is a stack of frames. `Known`, `Cycle`, `Enter`, `Finish` are
the four ways a call goes.

### `DrawOrder` and `DrawTargetOrder`

`DrawOrder` has the linked list as `prev` and `next` functions and `last`
(`m_FirstDrawable`, which is drawn first). `Linked` builds the groups, `Placed` puts
one group into the list, `Sorted` does so for all targets in order. `ChangeTarget`,
`ChangePlacement` are the setters; `AdvanceMachine` and `AdvanceArtboard`
alternate as in `advanceAndApply`; `UpdateComponents` is an update by the host in
between. `Swap`s of `sortHitComponents` are one step (`SortedHits`).

`DrawTargetOrder` composes it with the sorter, as `Artboard::initialize` does: it builds
the dependents of the targets below a local root (`TargetGraph`, from `ComesAfter`), runs the sorter's own
steps (`SortTargets`), gives `DrawOrder` the result without the root (`Initialized`), and
from then on takes `DrawOrder`'s steps (`Draws`).

### `LinearAnimation`

Times are whole frames. An advance is one action per loop kind, but pingPong's
`while` loop has one action per bounce. `Passed` is `reportKeyedCallbacks` with
its search (`ClosestFrameIndex`). History: `asked` (the time given), `reports`
(callbacks fired), `steered` (the host set what the total time does not tell).

### `StateMachine`

A layer is a record: current state and its animation's playhead (`last`,
`total`, `spilled`, `going`), the transition and how far it is mixed (`from`,
`trans`, `mixed`, `full`, `done`), whether a reset snapshot is held, whether it
waits for an exit time. An advance is `BeginAdvance` (listeners hear the events of
the advance before), then for each layer `AdvanceLayer`, any number of
`ChangeState`, `EndLayer`, and at last `FinishAdvance` (triggers are cleared).
A division of 0 by 0 in `updateMix` is modelled by what it yields
(`MixIsFull`). Animations in it are those of `LinearAnimation` at speed 1: a
link by reading, not by `INSTANCE`.

### `PointerPromise` and `PointerListeners`

A call is one action: preparing all hit components, then processing them from
the topmost on. A listener's group is independent of all others, so it has a `Turn` at each of
its own shapes in that order (`Processed`), each of which may be hidden (`CanHit`) or not
tested at all (`EarlyOut`). `over` and `pressed` say what the pointer really is
over and was pressed on, computed from what is drawn above what alone (`Above`, `Visible`); what the
listeners have to do about it is `PointerPromise`, which knows nothing of shapes and their order.

### `NestedAdvance`

A tree of artboards, each with machines, simple animations, remapped ones and joysticks.
A frame is what the host's `advanceAndApply` calls, as a list of calls still to make
(`todo`): each action takes the first call, does what its handler does up to the calls it makes
itself, and puts those in front (`Returns`). All properties that can be
animated are one function `value`, so that an animation of one level may move what
another reads. `Tell` is the listeners of one machine in `notifyEventListeners`, with their actions and the events they report, and `Bubble` the
levels above that these go to. `Path` names an artboard and those it is nested in; what an animation or joystick keys and what a
listener sets belongs to its own artboard or one nested in it (`PropertiesOf`), as ids in the file do. History:
`owed` counts how often each listener has still to hear of what was reported.

### `DataBinding` and `BoundList`

Binds of an artboard, of the artboard nested in it and of a machine, between view model
instances (`source`) and properties (`target`). `SetContext` and `SetMachineContext`
give them their sources, or those of a parent context; setters and `Notified` mark
binds dirty; an update is a queue of binds, taken one per step (`Turn`), once towards
the target and, for those that write back, towards the source. Converters are chains of
operations modulo a small number, with `ReverseConvert` as the code has it, rounding
included, which has no way back. `BoundList` is `DataBindContextValueList`'s matching of a list's items with
the cached instances that show them. History: `writer` (who wrote a property last) and
`unread` (binds that were cleaned before they had a source).

### `SoundLife` and `AudioEngine`

`SoundLife` says what a host relies on: a sound is played, retired and disposed of, in
that order, once each, and not disposed of while the device mixes it. `AudioEngine` has the two
threads. The device's: `Mix`, `ReachEnd` (the sound's end is seen), `SoundCompleted` (which
wants the lock), `LeaveSound`. The host's: each call is an action up to where the other thread
matters, and a program counter (`host`) for the rest, for `play` (dispose of the
completed, make, start, link), `stop(artboard)` (a walk along the list with the lock held) and the
destructor; `lock` says who holds it. miniaudio is not in the repository; it is modelled
from how it is used: `ma_sound_uninit` returns when the device is not at the sound
(`Disposed` waits for `mixing`), and the engine's `stop` when it is at none. Nothing makes a host
stop the engine before it lets go of it (`RuntimeEngine` is a static `rcp`), so the device calls back all
through the destructor, up to `StopDevice` within `ma_engine_uninit`; `todo` is what a loop over the completed sounds
has still to come to, which the device may append to. A sound that cannot be
started is made and disposed of in one step (`PlayFails`). The refinement mapping is `Life == INSTANCE SoundLife WITH life <- ...`.

### `FileImport`

A file is written by an exporter and read in the same step: each action appends an object
the exporter may write there (`Writes`, `Places`: what may follow is given by
the owners that are open) and runs what the reader does with it: `readNullObject`, or `import` with
the importer it asks the stack for, and `makeLatest` for its own. An object may be of a type the
runtime does not know (`ReadUnknown`), refer to nothing, or be the last before the file
breaks off. `Finish` resolves what is left, in reverse order. `Kept`, `Meant` and `Written` are what the
exporter meant, computed from the file alone.

---

## What the runs show

| Run | Instance | Shows |
|---|---|---|
| `update_cycle` | 6 components: a solo (1) with a group (2) and a solo (3) that holds a node (4); a node (5) constrained to 4. The update of 4 may dirty the artboard, that of 2 may dirty 5. 3 passes per call | `CollapseMatchesSolos`, `PendingIsFlagged`, `Fresh`, `ParentsFirst` |
| `shapes` | a group that fades, or a solo, with a shape whose own solo shows a path or nothing, with and without a listener on it; a clip by two shapes, one inside the other's solo; a shape that follows another one inside a solo or around one. Moves, changes of vertices, fades, choices, reads of bounds, updates at any time | `ShownIsCurrent` |
| `draw_order` | every artboard of 5 drawables and 3 draw rules with a target each, wherever the targets are, cycles included; two targets of one rules; and one artboard whose targets and placements change at any time | `DependentsFollow`, `SortIsComplete`, `GroupsInPlace`, `HitsFollowList` |
| `linear` | 5 frames, callbacks on 0, 1 and 5, speed 2, advances of 0, 1, 2 and 7, all loop kinds, all setters | `InRange`, `TimeFollowsTotal`, `ReportsExactly`, `SpillWithinElapsed`, `AdvanceReturns` |
| `machine_character` | 2 layers, 9 states, 8 transitions: any state, exit times, a mix that may exit early, one in percent, a shared trigger, 4 event listeners that report, set and fire | `OneTriggerEach`, `MixIsConsistent`, `QuietLayers` |
| `machine_reel` | animations of 1, 2 and 4 ticks in a row, one state that chooses at random, a mix longer than the animation, one over half of no time, two states that lead to each other | `NoTimeLost`, `MixCompletes` |
| `pointer_stack` | a nested artboard (a shape with press listeners over an opaque one) above a target of two shapes, the second opaque, above one more shape; all calls, all 32 places | `EntersAndExits`, `ClicksComplete`, `EachCallHeard` |
| `nested` | a root with a panel and a toast in a solo and a badge in the panel; 3 machines, 4 nested animations, 3 joysticks, events that go up two levels and inputs that go down two | `HeardOnce`, `FrameIsWhole`, `StopsAtRest` |
| `data_bind` | 7 binds: converted, two-way, to the source, a list, one with the context of a parent, two of a machine; 3 instances of 2 view models; contexts changed at any time | `Delivered`, `ListShown`, `InstancesKept`, `Settles` |
| `audio` | 3 sounds, 2 artboards, both threads, every call | `PlayingList`, `HeldElsewhere`, `NothingLost`, `AllOutlive`, `SoundsLive`, `CallsReturn` |
| `audio_stuck` | the same | `DisposedOutOfCallback` is violated |
| `import` | 8 families of files, each with some kinds of object: nested artboards, assets, timelines, machines, blends, inputs and listeners, layers of an unknown type | `InPlace`, `Linked`, `ResolvedOnce`, `AssetIdsUnique`, `NothingLate` |

A few words on what the less obvious properties say:

* `PendingIsFlagged`: a visible dirty component is ahead of the running pass or
  the artboard's flag is up. This is where clearing the flag before the pass and
  breaking out of it could go wrong.
* `ParentsFirst` (a step property): no component is recomputed while something
  visible that it derives from is out of date.
* `ShownIsCurrent`: when no component that is shown is dirty, nothing that can be seen is
  among `behind`. Flags are how the code keeps track of it; the property does not mention them.
* `GroupsInPlace`: between a moved drawable and its target's drawable there is
  nothing but what moves along with either of them. Where the targets form a cycle
  nothing is claimed.
* `TimeFollowsTotal`: where the playhead is depends on the total time alone, not
  on how it was cut into advances, wraps, bounces and seeks.
* `ReportsExactly`: a callback fires as often as a closed formula says that a
  playhead passes it in so many frames.
* `QuietLayers`: when `advance` answered false and no input changed since, there
  is no transition that would be taken by advancing again.
* `NoTimeLost`: a finished animation hands the next exactly the time it did not
  use.
* `FrameIsWhole`: at the end of a frame everything a machine's state, a joystick or a remapped animation sets has
  the value that belongs to it now, on all levels that are shown.
* `StopsAtRest`: when a frame answered false, nothing that is shown is playing or dirty, and a machine with a
  transition to take is at least marked.
* `Delivered`: a property last written by a bind that is clean holds what the bind's source
  holds, converted; also in the middle of an update.
* `InstancesKept`: an item that is still on a list keeps the instance that shows it.
* `PlayingList`: the links are inverse to each other and lead from the head to every sound that plays,
  whichever thread took one off, the second time too.
* `HeldElsewhere`: the plain pointer the device calls back with is held by the engine, in the destructor too.
* `AllOutlive`: all sounds are disposed of when the engine is gone (`OutlivesEngine`), while other sounds
  end and are taken off beside the destructor's walk, unless the device ever completes the very sound the walk is at or one
  after the walk (`Undercut`, see *Audio* below).
* `Linked`: a reference that the importers resolve by index or by `makeLatest` is to the object the
  exporter meant, or to nothing if that was dropped.

### Bounds, and why they are enough

* **Passes** (`MaxSteps` = 3, 100 in the code): two components that feed each
  other use up any bound; 3 has a first, a middle and a last pass. The proofs hold
  for every bound.
* **Scene**: a solo in a solo is the smallest tree in which `collapse` arrives
  with the value a component already has, and a constraint into it the smallest
  in which a hidden target matters. `CollapseFollowsSolos` is proved for any tree.
* **Shapes**: the histories are unbounded; the scenes have one of each thing that defers or caches,
  with a solo on either side of it. Two shapes are needed for a clip and for a path
  that is followed.
* **Draw order**: three groups are enough for a group that hangs on a group that
  hangs on another, and for two that are placed at the same drawable; a group of two has
  an inner link. Three targets and a root have a diamond's two ways to one target, and cycles
  beside finished parts. All four properties are proved for any graph, rules, targets and drawables, too.
* **Animation**: `MaxTotal` (12 frames) is more than two laps of 5 frames; an advance
  of 7 frames at speed 2 spans nearly three of them. Its safety properties are proved for any length, total and advance.
* **State machine**: `MaxIterations` is 4 or 5 (100 in the code), more than the
  longest chain of changes the machines make unless they go round. `Horizon` stops the
  total of a finished animation where it is beyond every exit time; the
  assumption of the module says so.
* **Pointer**: two shapes make a target with an inner border; opaque, nested and
  press-only shapes all overlap in each of the 32 places.
* **Nested**: three levels, for an event that passes through one; two siblings, for one that is hidden.
* **Data binding**: values modulo 3 (a change, a change back and another); `MaxChanges` = 3 changes by the
  host, listeners and animations in all, with any number of updates between them; lists of 1 to 3 items out of 2, so that an item may be on a list
  twice and everything may be replaced. An empty list is left out (`MinItems` = 1), see below.
* **Audio**: three sounds make a list with a first, an inner and a last, two artboards a
  `stop(artboard)` that passes some by. All but `CallsReturn` is proved for any number.
* **Import**: each family has the kinds that share an importer, two or three of those whose importers are
  replaced; `MaxId` = 2 indexes beyond what there is. `Ids` (256, 2^32 in the code) is where `nextId` goes round; no
  file of the run is long enough to get there. All of it is proved for any length of file, `InPlace` and `Linked` for
  the families named with their proofs.

`CHECK_DEADLOCK FALSE` is said where a system ends: a closed audio engine, a file that was read, and
artboards whose file allows no edits.

---

## Fairness

* `LinearAnimation` and `StateMachine`: weak fairness of a call that has begun, which runs to its end
  on the caller's thread (`AdvanceReturns`, the `while` loop; `Running`). `MixCompletes` also needs a host:
  strong fairness says that a host which is asked again and again to advance
  (`needsAdvance`) does not always do so by no time. Nothing is assumed of a host that is
  not asked; that it need not be is what the property shows.
* `DataBinding`: a host updates its artboard and its machine again and again (strong, since other calls
  come in between), an update that has begun goes on (weak).
* `AudioEngine`: the host's thread goes on with its call (`InCall`), a sound the device is at ends or is left, and
  the device gets a lock that is free for good (weak each). `CallsReturn` claims nothing of the deadlock
  that `audio_stuck` shows: it holds of behaviours in which `DisposedOutOfCallback` does.

The other runs need no fairness.

---

## What is proved

The theorems hold for all constants that meet the assumptions in the modules.

**`ArtboardProofs`**, first of the update cycle — for every tree, all constraints, every feed:

* `TypeCorrect` with `StepsLeft` (a running call has passes left).
* `NoDirtForgotten`: `PendingIsFlagged` is inductive with the types. The step
  through `UpdateComponent` needs that whatever a feed marks newly is either ahead of
  the pass, or makes it break and has raised the flag (`FedOnlyNewly`).
* `CollapseFollowsSolos`: `HiddenBy` is preserved by `SetActive`. The recursion of
  `collapse` is given as a function of requests; a component whose parent did not
  change keeps its request, and the rest follows from the equation for each.
* `FreshWhenSettled`, `ParentsUpdateFirst`: under `NoSoloTarget`, that no constraint
  targets a solo (see the departures below). `Fresh` alone
  is not inductive. `DirtInv` adds: what is stale is marked (`StaleIsMarked`); a marked
  component has marked all it would have to (`Spread`, which under a hidden component is
  only its children, since components constrained to it go on being updated);
  a local mark implies a world mark (`WorldWithLocal`); what the pass went by is clean or
  hidden (`PassedAreClean`).

Then of frames of nested artboards: `EachEventOnce` is `HeardOnce`, for every tree with any machines, listeners,
animations and joysticks, and however often the host changes inputs and goes on. Between two calls each listener is owed one call if
a machine has something in its list that it is for, and none if not (`Balanced`). While a list is told that is broken up: `Fine`
says which listeners have had their turn, whom the list told holds something for, and whom what other machines have reported does. A
turn of a listener keeps it, whether it sets an input, adds to the list being told (its machine's own, `OwnTell`) or to that of its machine, to be told later
(`UpTell`), and the path up meets each machine once, since an artboard's path is longer than its host's (`PathsShrink`, `BubbleCounts`).
All that a frame does is a fold of such operators over a list (listeners, levels, transitions, joysticks), which is recursive and has to be
shown to be defined first (`TellIs`, `BubbleIs`, `LayerIs`, `TellAllKeyedIs`, `PullIs`, by `CountingDefines`).
Two things are assumed of the files, and without either the code does lose an event: `ReportsComeLater`, that no
listener reports to its own machine what one before it in the list is for, which has had its turn by then; and `NoneBesideSimples`, that no machine listens for an event
keyed in an animation beside it, which notifies only the machines above (see the departures). The run's tree meets both.

`HostMayStop` and `ShownTogether` are `StopsAtRest` and `FrameIsWhole`, again for every tree. Both rest on where a frame is. `InOrder` says
what the list of calls still to be made looks like: the animations of at most one artboard, that artboard, and visits to
artboards of which none is nested in another. So the calls of all an artboard is nested in come before its own (`Past`, `Ended`, and what each
kind of call leaves of them: `AnimationPasses`, `ArtboardPasses`, `NestedPasses`), which is by induction over the tree
(`TreeInduction`). The second part is how far a call reaches (`Spreads`): it changes only the properties it keys and the inputs its
events set, marks only its artboard or, when that updates, those nested in it, moves no other machine, and a machine with a transition to take stays
marked. Properties belong to one artboard each (`PropertiesApart`), so that what has ended is not disturbed by what comes later, which is at artboards
it is not nested in. `OrderInv` is inductive by itself; with it `Resting` (a frame that will answer false has left nothing playing) and
`Together` (what is past shows what it sets; joysticks are settled; what follows something is as that, wherever the artboard is clean: `Tied`).

* `HostMayStop` assumes `NoCircles`: with its inputs as they are a machine comes to a state it stays in within as many steps as
  it has transitions. The model says so of its machines; in the code one that goes on is cut off and asks for nothing (`QuietLayers` is about that).
* `ShownTogether` assumes that the file is `Untangled`: no two things of an artboard key the same property, none keys what follows
  something (the opacity of a nested artboard's instance, a joystick with a handle), listeners set what their own machine keys from an event of its own, or else nothing keyed,
  and a joystick moves neither itself nor those before it nor their handle. Without it the last to set something wins, and another no longer shows what it set.

The run's tree meets both.

**`Induction`** — what the others cite. The library's induction theorems take an operator as a parameter, which
no installed prover can instantiate; these say it with sets: a set of numbers that has 0 and with each number
the next has them all (`SetInduction`; `BoundedInduction` up to a limit), a set of numbers that is not empty has a least
(`LeastOf`), and a function defined by what it is at 0 and from one number to the next is what it says it is
(`CountingDefines`), so that a recursive function over `0 .. n` can be reasoned about.

**`DrawTargetOrderProofs`**, first of the sorter — for every graph and any roots: `ParentsComeFirst`,
`EachOnce`, and `SortComplete` (`SortIsComplete`: everything that can be reached is sorted if nothing was reported, and a
reported cycle is there). The invariant relates the stack to the marks: open calls are
for different components, marked and not done, and the dependents each has come
past are done, but for the one that the next call on the stack is at. A cycle is reported at a component
that has an open call: the calls above it are the cycle.
Then of the composition, for every file: it implements the sorter's specification, so its
theorems hold of it; `TargetsInOrder`: whatever is edited and drawn, `sortDrawOrder` has the
targets in an order in which each comes before those placed where it moves something. That
the order was made for the graph of this file is part of the invariant (`GraphIsOfFile`).
`GroupsArePlaced` is `GroupsInPlace`, for any drawables, rules, targets and placements. It looks at the linked list as a
sequence (`Chain`: the links one way are its next, the links the other way its previous elements). Placing a group is
putting a sequence in at a cut of another (`Inserted`): what `Join` does to the four links makes the links of the longer
sequence (`NextsSpliced`, `PrevsSpliced`). The cut is there because the drawable of the group's target is in the list
already, which is what `TargetsInOrder` is for (`Ready`; that the root is the first the sorter gives, so that leaving
out the first leaves out the root, is `RootIsFirst`). That a later group between another group and its drawable is one that
goes along with either (`Near`) is kept because `CarriedBy` is closed: what is placed at a carried drawable is
carried (`CarriedIs`). After the last target the sequence has every drawable, so `Count` of them, and the walks of `draw`
and `sortHitComponents` visit just these (`AlongIs`). `HitsAreInOrder` is `HitsFollowList`: after k visited drawables the hit
components of these are in front, in order, and all others are behind (`Visited`); and the flag of the last update is
clear only while the order the hits were sorted by is the one of the list (`HitsInv`).

**`LinearAnimationProofs`** — for every animation, speed, loop kind and length of
advance: `TypeCorrect`, `StaysInRange`, with `BehindHeading` for the time inside pingPong's
loop (the playhead is only ever beyond the end it is heading for); and
`SpillsNoMoreThanGiven` for all advances but those of a pingPong, whatever the host sets in between. `NeverDrifts`
is `TimeFollowsTotal`: the invariant says by how many laps or bounces the playhead and the total are apart, and that
each wrap takes off whole ones. `ReportsOnce` is `ReportsExactly`: what one advance passes from a time to the next
adds up over the cuts of a lap (`Passed` over adjacent stretches), and so over laps. Both have a condition on the work
area, and for a reason in the code: a seek counts the work area's first frame in other units than the playhead
(`SeekCountsFrames`, see the departures), and a wrap counts callbacks from frame 0 of the animation
(`PlaysAllFrames`). The runs' animation meets both.

**`StateMachineProofs`** — for every machine: `TriggersMoveOnce` (a layer that has
changed state once in an advance takes no transition with a trigger),
`EndsAnnouncedOnce` (`Consistent`: the end events of a layer's transition have fired
once if and only if it is completed, and the snapshot is held until then), and
`QuietMachineIsDone`, that is `QuietLayers`. The last needs two conditions, both of which the code can break:
no layer gives up after its hundredth change (`NeverGivesUp`, which the run's machine never does), and no state
chooses at random (`findRandomTransition` takes none when the random number is the greatest there is).
`ChainsKeepTime` is `NoTimeLost`, by `TimeInv`: while `advance` is at a layer, what its animation spilled is what lies between
its end and its total time, also when the state was entered in this advance. `HorizonIsFar` keeps the bound on total
times, which the code has not, out of the way, and an exit time of a transition of the any state is left out, as
the code does not look at it (`AnyStateHasNoExit`).

Then of the pointer listeners, for any order of shapes, targets, nested artboard and places of the pointer:
`ClicksAreHeard` (`ClicksComplete`), `CallsAreHeard` (`EachCallHeard`) and `ComingAndGoingIsHeard` (`EntersAndExits`). The
group of a target has a turn at each of its shapes, and the heart of it is that all turns of a call are one
(`ProcessedIs`): either the first consumes the group, or what it leaves is left alone by those that follow (`HeardAgain`), because
its shapes are all hidden or none is (`SightIs`). So the outcome follows from whether one of the shapes is at the
pointer and none that is opaque is above, which is what `Visible` says of them; the invariant relates the click phase to
`pressed` and the hover state to `over` (`ClickInv`, `HoverInv`). The hypotheses are where the code departs
from it, see *Pointer* below: `TargetsAreClear`, that no opaque shape (or nested artboard with one) is between two shapes of a target, the
front one of the two included; `NestedIsClear`, that none is above the nested artboard; and for
`EntersAndExits` `ExitIsHeard`, that a nested machine has no such listener if the pointer leaves by `pointerExit`. The run's
instance meets all three.

**`AudioEngineProofs`** — for any sounds and artboards, and no hypothesis about the host: `TypeCorrect`,
`CallbackHolds`, `SoundsKept`, `ListStaysWhole`, `AllDisposed` (`AllOutlive`), and `KeepsPromise`, that
every step of both threads is a step of `SoundLife` or leaves it as it is. `IInv` joins what each thread knows
of the other: who holds the lock at which place of its call (`PhaseInv`), that a sound is not both on the list,
completed and disposed of (`ListInv`), what the loop over the completed sounds has still to come to (`SweepInv`), and that the device
is at a disposed sound only while the host waits for it (`MixInv`). In the destructor, which clears the links one way while the
device joins them the other, less is left of the list (`ClosingLinks`): whatever leads somewhere leads back, but only the sounds `Ahead` of the
walk still have both links; and nothing ahead is disposed of (`WalkAhead`). That the walk reaches every
sound is not a matter of links between neighbours: it rests on
`NoLoop`, that no set of sounds has for each of its sounds the one before it, which is kept by linking at the head and by taking off
any sound, in the destructor too, and on `WalkInv`, that each sound left is behind the walk's or behind another that is left.
`~Undercut` is used at one place, where the device completes a sound in the destructor (`WalkBeside`).

**`DataBindingProofs`** — for any binds, converters, view models and contexts: `NothingMissed`, that is
`Delivered`. It is inductive with `DependInv` (a bind is among the dependents of its source, so that a change is
told to it) and `WriterInv` (who wrote a property last had a source and may write). `ListsShown` (`ListShown`) and
`InstancesStay` (`InstancesKept`, an action property) are about the matching of a list with its cached instances: that the instances
taken from the cache are different ones, and that an item which was shown finds its own again.

**`FileImportProofs`** — for every family of files, of any length: `ImportersStayResolved` (`NothingLate`) and
`ImportersResolveOnce` by `StackInv`, which says that those in `lastAdded` are latest of some type, each once, that two
types have different importers but for the part of a layer, and that no latest has resolved. `EveryImporterResolves`
(`ResolvedOnce`) adds that in a file that was accepted no importer is left: each object that made one is latest or resolved.
`HandedToTheirOwners` says that an object was handed to the owner the exporter meant, the nearest open one of the
right type in the file, at the place in the owner's list that the file gives it, if the runtime knows all types in between. Its
invariant (`FileInv`) relates the stack of latest importers to the owners that are open in the file (`PathInv`): what
is open and known is latest. `AssetsHaveTheirOwnIds` (`AssetIdsUnique`) holds as long as ids are left (`IdsLeft`): `nextId` is
unsigned and counts up from the greatest id in the file, so that with one close to 2^32 it goes round and may meet one that
is used.

`EveryObjectIsInPlace` is `InPlace`, and `EveryObjectIsListed` its first half: each object is in the list of its owner and at the
index the file counts. It rests on `ListsInv`: what an owner was given for a list (`Given`) starts with what the
file has for it (`Owed`), and is no longer than that while the list grows. An owner whose list grows is on the path to
the last object (`StaysOpen`), so by `PathInv` it is the latest that a new object is given to, and a placeholder goes to the
innermost on the path that takes any (`ClosedInv`: inside it are only kinds that do not, or that end it). A condition is
dropped if its input is not there when it is read, which is if it is not in the file, since by then all inputs of its
machine are (`ConditionInputs`). Two things are assumed of the files, and both are the code's. `PlaceholdersFit`: the kinds whose
placeholder would go to a list it is not due in have no types the runtime does not know; that is the "hard
assumption" of `state_machine_importer.cpp:34`, and for what a layer holds it follows from
`state_machine_layer_importer.cpp:48–54`, which takes any unknown object for a state. `NoHeads`, for the second half: an unknown
object owns no known ones, as they would be given to the one before (see the departures). The run has a family outside of both,
a layer of an unknown type: it is its machine's only one, so that what it holds goes to no other and `InPlace` holds as well.

`EveryReferenceResolves` is `Linked`. Its invariant (`LinkInv`) says, while the file is read, of each object that refers to another
when it is bound and to what: `Resolver` is the importer that binds it (the layer, the backboard, the asset; 0 if its own import
does), and once that one has resolved the object is bound to what the file means (`BoundInv`). Three arguments carry it. An importer resolves
only when it is off the path, so that none of the lists its objects are resolved in will grow (`OpenNotDone`,
`RefersStays`); what is bound by then is in those lists at the index the file counts, by `ListsInv` and since what is given of a kind is of
it (`TypedInv`); and what is bound at once, from the latest of a type or from `bindable`, is bound while its owner is on the path, so that
the latest is its owner (`PathArtboard`, `PathAnimation`, `BindableInv`). Which importers remember what their objects need later
is part of it: a layer binds its states in the artboard it was made in and a key frame in its property's animation, whatever
is latest by then, so that `BoundInv` speaks of layers and keyed properties too. `ReferencesFit` is assumed on top of the two above:
assets, their contents, artboards and animations are of known types. These lists are referred to by index and
keep no place for an unknown object (a null goes to the objects of an artboard, the inputs of a machine or the states of a layer, never to them), so that with one every
later index counts one too many: TLC finds an image bound to the wrong asset or to none in a family with assets of an unknown type.

Only model-checked: all liveness (`AdvanceReturns`, `MixCompletes`, `Settles`, `CallsReturn`), which is out of
this prover's reach; `ShownIsCurrent` (`ShapePaths` has a recursive operator).

---

## Where the code departs from its own words

`audio_stuck` ends in a violation, against a line of the repository: sounds are to be disposed of out of the
completed callback (`audio_engine.cpp:247–248`), but `stop(artboard)` puts a sound that has ended
among the completed ones before its callback has got the lock. The next `play`
disposes of it with the lock held: it waits for the device to leave the sound, the device for
the lock.

More of the kind came up while modelling. The models do what the code does and the runs'
instances or properties stay clear of each of them, as the comments in the modules say:

*Update cycle and shapes*

* `Solo::collapse` (`solo.cpp:33`) does not mark components constrained to the solo, as
  `TransformComponent::collapse` (`transform_component.cpp:34`) does for all others: they stay where they
  were when the solo is hidden, moved and shown again. `FreshWhenSettled` has the condition that
  excludes it.
* A component that follows a *path* is not marked when a solo hides the path:
  `FollowPathConstraint::buildDependencies` (`follow_path_constraint.cpp:181–199`) does not call its base's.
  The contours that are followed include those of hidden paths.
* A trim effect keeps its result (`trim_path.cpp:116`, "Previous result hasn't been invalidated, it's still
  good.") when a solo hides a path of the stroked shape (`shape.cpp:232–233`: "Do constraints need to be marked as dirty too? From
  tests it doesn't seem they do.").

*Draw order*

* If the draw targets form a cycle, the root is not in the order and its first target, or the end
  iterator, is stepped over (`artboard.cpp:338`).
* An artboard that is advanced twice before its machine is clears the changed flag unread
  (`artboard.cpp:738`); the hit order then stays the old one.

*Linear animation*

* The pingPong branch of `advance` spills the animation's own time, the others the time that was
  given, as the comment above them explains (`linear_animation_instance.cpp:158` against `:114–119`).
* `advance(0)` of a finished oneShot answers true
  (`linear_animation_instance.cpp:54` against `linear_animation_instance.hpp:21`).
* An animation of no length never leaves pingPong's loop (`:154`).
* A seek multiplies the work area's first frame by fps instead of dividing (`:214`); pingPong drops or
  doubles callbacks at the turn of its starting frame (`:183`).

*State machine*

* Events are heard at the start of the next advance, but reporting one does not make `advance` answer true
  (`state_machine_instance.cpp:1052` against `state_machine_instance.hpp:76`).
* A layer that makes too many changes answers false with a change still allowed
  (`state_machine_instance.cpp:112` against `state_machine_instance.hpp:72`).
* An event that a listener reports is cleared in the advance that reported it
  (`state_machine_instance.cpp:1053` against `state_machine_instance.hpp:130`).
* `stateChangedCount` counts the layers that changed, not the changes
  (`state_machine_instance.cpp:1141` against `state_machine_instance.hpp:93`).
* A transition left by an early exit never fires its end events (`state_machine_instance.cpp:294`).

*Pointer*

* Pressing an opaque shape loses the click if another shape of the same target is behind it in the
  order, wherever that one is (`state_machine_instance.cpp:593` against `test/hittest_test.cpp:301–302`).
* A target entered by its opaque shape is left again by its other shape, so its
  exit is not heard (`state_machine_instance.cpp:561` against `:458`).
* An opaque shape of another target between two shapes of one: a pointer over the back one alone, which is hidden, is
  found to be over the target at the turn of the front one (`state_machine_instance.cpp:567` against `:551–558`).
* A nested artboard behind an opaque shape is sent an exit with the pointer's
  position, which hovers its shapes there (`state_machine_instance.cpp:740`
  against `:553`); an exit of the pointer itself is not handed on to nested machines (`:733`).

*Nested artboards*

* An animation that is nested beside a machine notifies the machines above it but not this one
  (`state_machine_instance.cpp:961–983` adds only those of the artboard around it): a listener for its events there never hears them.
* An event that a listener reports is not heard by the listeners before it (`state_machine_instance.cpp:1223`, the list is cleared after, `:1053`).
* An event's sound is played once for every level it bubbles to (`state_machine_instance.cpp:1263–1270`), and a
  machine that is destroyed stays registered with the nested ones it listened to (`:975`, `:981`).
* An event heard by the host's machine sets its inputs after the machine has advanced
  (`nested_artboard.cpp:141`): they count a frame later, and the answer may be false by then. Events marked two
  or more levels down are not seen in the host's answer.
* A joystick that moves the handle of an earlier one does so a frame late.
* A remapped animation that is mixed always answers true, and so does a simple one advanced by 0.

*Data binding*

* A two-way bind overwrites what the host set at its source at every update of the artboard
  (`artboard.cpp:618`); those of a machine's instance lose their converter (`state_machine_instance.cpp:895`), and binds
  on the artboard object itself are skipped when it is instanced (`artboard.hpp:286`).
* A bind that is given another source is not dirty (`data_bind_context.cpp:29`), its old source goes on telling it, and a
  second context lists all binds twice (`artboard.cpp:1204`). The context of a nested machine has no parent
  (`nested_artboard.cpp:299`).
* A list that becomes empty pops from an empty vector (`context_value_list.cpp:118–120`: an `int` is compared with a
  size of 0 minus 1).
* The way back of modulo answers its operand; a listener that changes a view model without a bind to it
  dereferences null. Conversions without a way back, and two binds that write each other's source, go on
  for ever.

*Audio*

* A sound that is stopped by its own `stop` stays on the list (`audio_sound.cpp:53`); an event whose sound
  cannot be played dereferences null (`audio_event.cpp:39`).
* The destructor walks the list without the lock, beside the device (`audio_engine.cpp:394–403`). When `soundCompleted` takes off the sound
  the walk is at, before the walk has read what comes next, this is null: the walk ends there, and no sound
  behind is disposed of. Two sounds are enough: both play, the later one (the head) has ended and its callback waits; the
  destructor reads the head, the callback takes it off, `dispose`, next is null, and the engine is gone with the other sound undisposed, which a host
  that holds it goes on to stop. A sound that ends after the walk is appended to `m_completedSounds` while the
  second loop runs over it, or later, and is not disposed of either. The tests "audio sound can outlive engine" and "many audio
  sounds can outlive engine" (`audio_test.cpp:106`, `:125`) read the frames themselves, on one thread, so that nothing
  runs beside the destructor. Both are what `Undercut` says, and all that `AllOutlive` leaves out; checked without it, `OutlivesEngine`
  fails in this way.

*Files*

* What is written inside an object of unknown type goes to the one before: a state's transitions
  (`state_machine_layer_importer.cpp:50–54`), an asset's contents (which trips the assertion of `file_asset_importer.cpp:20`), a data bind's target
  (`file.cpp:221`, `:230`, which may be deleted by then). Inside a layer an unknown condition or fired event adds an empty state, which
  shifts the states after it.
* An enum property indexes the enums unchecked (`file.cpp:275`); an unknown property key leaves the reader
  out of step without an error (`file.cpp:113–120`).

---

## What is not modelled, and why

* Floating point: times are whole frames or ticks, rounding is left out (but for the rounding converter).
* What states, blends and listeners of `StateMachine` apply to the artboard: `NestedAdvance` has it, for machines
  of one layer without mixes.
* Draw order: proxies of layouts; what is drawn when the targets form a cycle; rules that take another rules' target.
* State machine: number and view model conditions, which read like bool ones;
  `pauseOnExit`; the state that is mixed out going on to advance; negative speeds.
* Pointer: positions within a shape, hidden shapes and nested artboards, several machines in
  one, the hit test of a shape itself.
* Shapes: geometry, paints and strokes, trim effects, skins, a path's hidden flag.
* Nested artboards: layouts, number and trigger inputs.
* Data binding: converters to strings, the machines of nested artboards, lookup by name, cloning.
* Audio: seeking, fades, start and end times, decoding, the host's own references to sounds. A turn of the destructor's walk
  after its `dispose` is one step, and racing accesses of single pointers do not tear.
* Files: decoding of properties, the header, parents by id within an artboard, view models, enums, converters,
  the host's asset loader.
* Animation resets and blend states: what is in a snapshot, and weights, are numbers; when one is taken and given
  back is in `StateMachine`. The pool's lock is held for one push or pop at a time.
* Layout and text: the decisions are Yoga's and HarfBuzz's, which are not in the repository; what is left is
  arithmetic over their answers.
* Bones, constraints, contours, hit tests: arithmetic over floating point numbers.
* Renderers, decoders, viewer, code generator, generated code: calls of libraries, tools, and accessors by key.

Most lines of the repository are of the last three kinds, so that the map covers a small share of them.

---

## Plan

What the project set out to model is there: thirteen components in fifteen modules. Left, in the order of what it
would add:

1. **Refinement of a layer**: the animation in a layer of `StateMachine` implemented by `LinearAnimation` at speed 1,
   which is a link by reading so far; then a nested machine of `NestedAdvance` as a `StateMachine`.
2. **Proofs**: `ShownIsCurrent` of `ShapePaths`.
3. **Trim effects and strokes** in `ShapePaths`, with the path's hidden flag.
4. **Layouts** with a nondeterministic Yoga: which layouts are marked, the artboard's loop of layout and component updates,
   proxies in the draw order.
