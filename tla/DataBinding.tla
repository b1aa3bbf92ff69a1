---------------------------- MODULE DataBinding ----------------------------
(***************************************************************************)
(* The data binds of an artboard, of one artboard nested in it and of its  *)
(* state machine, between the values of view model instances and the       *)
(* properties of components and bindables.                                 *)
(*                                                                         *)
(* A value that changes makes the binds that depend on it dirty; what they *)
(* do about it they do when the artboard or the machine next updates its   *)
(* binds, one after another.  Only the artboard's update looks whether a   *)
(* target has changed: it writes it to the source before it reads what the *)
(* source has to say.  A bind that reads a list shows its items, BoundList.*)
(***************************************************************************)
EXTENDS Naturals, SequencesExt, BoundList

CONSTANTS
  OwnBinds,      (* the artboard's binds, in order                         *)
  NestedBinds,   (* those of the nested artboard                           *)
  MachineBinds,  (* those of the state machine                             *)
  Lists,         (* the binds that read a list                             *)
  ToSource,      (* the binds whose main direction is to the source        *)
  TwoWay,        (* the binds with that flag                               *)
  Converter,     (* of each bind: the operations of its converter          *)
  Target,        (* of each bind but those of lists: its property          *)
  Animated,      (* the properties that animations or the host set         *)
  Model, Path,   (* of each bind: which value of which view model it reads *)
  Instances,     (* the view model instances                               *)
  ModelOf,       (* of each instance: its view model                       *)
  Roots,         (* the instances the host gives to artboard and machine   *)
  NestedOf,      (* the instance it holds for the nested artboard, or None *)
  None,
  Modulus,       (* numbers are counted modulo this                        *)
  Items,         (* the items there are for lists                          *)
  Given,         (* of each instance: the list it is loaded with           *)
  MaxItems,      (* how long the host makes a list                         *)
  MinItems,      (* how short the host makes a list                        *)
  MaxChanges     (* how much the host and animations change                *)

ArtboardBinds == OwnBinds \o NestedBinds
Binds == Range(ArtboardBinds) \cup Range(MachineBinds)
Values == 0 .. Modulus - 1
Properties == {Target[b] : b \in Binds \ Lists}
Paths == {Path[b] : b \in Binds \ Lists}
PathsOf(i) == {Path[b] : b \in {c \in Binds : Model[c] = ModelOf[i]}}

ASSUME BindingAssumption ==
  /\ Modulus \in Nat \ {0}
  /\ OwnBinds \in Seq(Binds) /\ NestedBinds \in Seq(Binds) /\ MachineBinds \in Seq(Binds)
  /\ NestedOf \in [Instances -> Instances \cup {None}]
  /\ Given \in [Instances -> Seq(Items)]
  /\ Lists \subseteq Binds /\ ToSource \subseteq Binds /\ TwoWay \subseteq Binds
  /\ Range(ArtboardBinds) \cap Range(MachineBinds) = {}
  /\ Roots \subseteq Instances /\ Animated \subseteq Properties
  /\ None \notin Instances \cup Binds
  /\ \A b \in Binds : \A k \in DOMAIN Converter[b] :
       /\ Converter[b][k].op \in {"add", "subtract", "modulo", "round"}
       /\ Converter[b][k].by \in Values

VARIABLES
  source,      (* the values of each instance                              *)
  items,       (* its list                                                 *)
  target,      (* the properties                                           *)
  from,        (* m_Source: the instance each bind reads, or None          *)
  dependents,  (* the binds that depend on values of each instance         *)
  dirty,       (* the binds with dirt                                      *)
  all,         (* m_AllDataBinds of the root artboard                      *)
  cache,       (* m_ListItemsCache of each bind of a list                  *)
  made,        (* how many instances each of them has made                 *)
  crashed,     (* an element was popped from an empty vector               *)
  queue,       (* the binds that are being updated, and from where on      *)
  at,
  unread,      (* history: clean binds given another source to read        *)
  writer,      (* history: the bind that wrote each property last, or None *)
  changes      (* history: how often the host or an animation changed      *)
               (* something                                                *)

lists == <<items, cache, made, crashed>>
vars == <<source, items, target, from, dependents, dirty, all, cache, made, crashed,
          queue, at, unread, writer, changes>>

-----------------------------------------------------------------------------
(* Converters.                                                             *)

(* DataConverterOperation, and DataConverterRounder, counting in halves.   *)
ConvertBy(o, v) ==
  CASE o.op = "add"      -> (v + o.by) % Modulus
    [] o.op = "subtract" -> (v + Modulus - o.by) % Modulus
    [] o.op = "modulo"   -> IF o.by = 0 THEN 0 ELSE v % o.by
    [] o.op = "round"    -> (v + (v % 2)) % Modulus

(* There is no way back from modulo, which answers its operand, nor from   *)
(* rounding, which leaves the value as it is.                              *)
ReverseBy(o, v) ==
  CASE o.op = "add"      -> (v + Modulus - o.by) % Modulus
    [] o.op = "subtract" -> (v + o.by) % Modulus
    [] o.op = "modulo"   -> o.by
    [] o.op = "round"    -> v

(* The binds of a machine are clones that were given no converter.         *)
ConverterOf(b) == IF b \in Range(MachineBinds) THEN <<>> ELSE Converter[b]

Convert(b, v) == FoldLeft(LAMBDA x, o : ConvertBy(o, x), v, ConverterOf(b))
ReverseConvert(b, v) == FoldRight(LAMBDA o, x : ReverseBy(o, x), ConverterOf(b), v)

WritesTarget(b) == b \notin ToSource \/ b \in TwoWay
WritesSource(b) == b \in ToSource \/ b \in TwoWay

(* calculateValue for the target and for the source.                       *)
ForTarget(b, v) == IF b \notin ToSource THEN Convert(b, v) ELSE ReverseConvert(b, v)

(* Mutant: the same conversion both ways.                                  *)
SameForSource(b, v) == Convert(b, v)

ForSource(b, v) == IF b \in ToSource THEN Convert(b, v) ELSE ReverseConvert(b, v)

-----------------------------------------------------------------------------
Init ==
  /\ source \in [Instances -> [Paths -> {0}]]
  /\ items = Given
  /\ target = [p \in Properties |-> 0]
  /\ from = [b \in Binds |-> None]
  /\ dependents = [i \in Instances |-> {}]
  /\ dirty = Binds                    (* ComponentDirt::Filthy             *)
  /\ all = <<>>
  /\ cache = [b \in Lists |-> <<>>] /\ made = [b \in Lists |-> 0]
  /\ crashed = FALSE
  /\ queue = <<>> /\ at = 0
  /\ unread = {} /\ writer = [p \in Properties |-> None]
  /\ changes = 0

Idle == queue = <<>> /\ ~crashed

(* Mutant: the copies of binds that a machine has are not told.            *)
NotifiedOriginals(i, p) ==
  {d \in dependents[i] \ Lists : Path[d] = p /\ d \in Range(ArtboardBinds)}

(* The binds that addDirt reaches when value p of i is changed.            *)
Notified(i, p) == {d \in dependents[i] \ Lists : Path[d] = p}

(* The host sets a value of a view model instance.                         *)
SetValue(i, p, v) ==
  /\ Idle /\ changes < MaxChanges
  /\ v # source[i][p]
  /\ source' = [source EXCEPT ![i][p] = v]
  /\ dirty' = dirty \cup Notified(i, p)
  /\ unread' = unread \ Notified(i, p)
  /\ changes' = changes + 1
  /\ UNCHANGED <<lists, target, from, dependents, all, queue, at, writer>>

(* An animation or the host sets a property.                               *)
SetProperty(p, v) ==
  /\ Idle /\ changes < MaxChanges
  /\ v # target[p]
  /\ target' = [target EXCEPT ![p] = v]
  /\ writer' = [writer EXCEPT ![p] = None]
  /\ changes' = changes + 1
  /\ UNCHANGED <<source, lists, from, dependents, dirty, all, queue, at, unread>>

(* removeItem of an item, wherever it is in the list.                      *)
Without(s, x) ==
  LET upTo[k \in 0 .. Len(s)] ==
        IF k = 0 THEN <<>>
        ELSE IF s[k] = x THEN upTo[k - 1] ELSE Append(upTo[k - 1], s[k])
  IN  upTo[Len(s)]

(* addItem, insertItem, removeItem and swap.                               *)
ListChanges(s) ==
  {t \in {Append(s, x) : x \in Items}
         \cup {InsertAt(s, k, x) : k \in DOMAIN s, x \in Items}
         \cup {RemoveAt(s, k) : k \in DOMAIN s}
         \cup {Without(s, x) : x \in Items}
         \cup {SwapItems(s, j, k) : j, k \in DOMAIN s} : Len(t) \in MinItems .. MaxItems}

ChangeList(i, s) ==
  /\ Idle /\ changes < MaxChanges
  /\ s \in ListChanges(items[i])
  /\ items' = [items EXCEPT ![i] = s]
  /\ dirty' = dirty \cup (dependents[i] \cap Lists)
  /\ unread' = unread \ (dependents[i] \cap Lists)
  /\ changes' = changes + 1
  /\ UNCHANGED <<source, cache, made, crashed, target, from, dependents, all, queue, at, writer>>

-----------------------------------------------------------------------------
(* getViewModelProperty, by the view model the path begins with, in a      *)
(* context alone and in one that has a parent.                             *)
Found(i, b) == IF ModelOf[i] = Model[b] THEN i ELSE None
FoundFrom(i, parent, b) == IF Found(i, b) # None THEN Found(i, b) ELSE Found(parent, b)

(* The nested artboard gets the instance that i holds for it, with i as    *)
(* its parent, or i itself.                                                *)
FoundNested(i, b) ==
  IF NestedOf[i] # None THEN FoundFrom(NestedOf[i], i, b) ELSE Found(i, b)

(* bindFromContext for the binds of S, of which find gives what each one   *)
(* finds.  A bind that finds nothing is left as it is; that of a list      *)
(* shows it at once.  No dirt is added.                                    *)
BindAll(S, find) ==
  LET found == {b \in S : find[b] # None}
      shown == found \cap Lists
  IN  /\ from' = [b \in Binds |-> IF b \in found THEN find[b] ELSE from[b]]
      /\ dependents' = [i \in Instances |-> dependents[i] \cup {b \in found : find[b] = i}]
      /\ unread' = unread \cup {b \in found \ (dirty \cup Lists) : find[b] # from[b]}
      /\ cache' = [b \in Lists |-> IF b \in shown THEN Updated(<<>>, items[find[b]], made[b])
                                   ELSE cache[b]]
      /\ made' = [b \in Lists |-> IF b \in shown THEN made[b] + Len(items[find[b]]) ELSE made[b]]
      /\ crashed' = \E b \in shown : PopsEmpty(items[find[b]])

(* The root artboard's dataContextFromInstance, which adds the binds to    *)
(* those that it updates once more.                                        *)
SetContext(i) ==
  /\ Idle /\ changes < MaxChanges
  /\ BindAll(Range(ArtboardBinds),
             [b \in Binds |-> IF b \in Range(OwnBinds) THEN Found(i, b) ELSE FoundNested(i, b)])
  /\ all' = all \o ArtboardBinds
  /\ changes' = changes + 1
  /\ UNCHANGED <<source, items, target, dirty, queue, at, writer>>

(* The machine's dataContextFromInstance.                                  *)
SetMachineContext(i) ==
  /\ Idle /\ changes < MaxChanges
  /\ BindAll(Range(MachineBinds), [b \in Binds |-> Found(i, b)])
  /\ changes' = changes + 1
  /\ UNCHANGED <<source, items, target, dirty, all, queue, at, writer>>

-----------------------------------------------------------------------------
(* Updating the binds.                                                     *)

UpdateArtboard ==
  /\ Idle
  /\ all # <<>>
  /\ queue' = all /\ at' = 1
  /\ UNCHANGED <<source, lists, target, from, dependents, dirty, all, unread, writer, changes>>

UpdateMachine ==
  /\ Idle
  /\ MachineBinds # <<>>
  /\ queue' = MachineBinds /\ at' = 1
  /\ UNCHANGED <<source, lists, target, from, dependents, dirty, all, unread, writer, changes>>

Current == queue[at]

Onward ==
  /\ queue' = IF at = Len(queue) THEN <<>> ELSE queue
  /\ at' = IF at = Len(queue) THEN 0 ELSE at + 1

(* What bind b, which has a source, makes of it: its target's value if it  *)
(* is to write it back, else what the source has.                          *)
Settled(b, i, back) ==
  IF back THEN ForSource(b, target[Target[b]]) ELSE source[i][Path[b]]

(* updateSourceBinding if back, and update for the dirt there is then.     *)
UpdateValue(b, back) ==
  LET i == from[b]
      v == Settled(b, i, back /\ WritesSource(b))
      told == IF v # source[i][Path[b]] THEN Notified(i, Path[b]) ELSE {}
      applies == b \in dirty \cup told /\ WritesTarget(b)
  IN  /\ source' = [source EXCEPT ![i][Path[b]] = v]
      /\ dirty' = (dirty \cup told) \ {b}
      /\ unread' = unread \ told
      /\ target' = IF applies THEN [target EXCEPT ![Target[b]] = ForTarget(b, v)] ELSE target
      /\ writer' = IF applies THEN [writer EXCEPT ![Target[b]] = b] ELSE writer

(* A bind of a value, when it comes to its turn.                           *)
BindValue ==
  /\ queue # <<>>
  /\ Current \notin Lists
  /\ from[Current] # None
  /\ UpdateValue(Current, Current \in Range(ArtboardBinds))
  /\ Onward
  /\ UNCHANGED <<lists, from, dependents, all, changes>>

(* A bind without a source loses its dirt all the same.                    *)
BindNothing ==
  /\ queue # <<>>
  /\ from[Current] = None
  /\ dirty' = dirty \ {Current}
  /\ Onward
  /\ UNCHANGED <<source, lists, target, from, dependents, all, unread, writer, changes>>

(* A bind of a list.                                                       *)
BindList ==
  /\ queue # <<>> /\ ~crashed
  /\ Current \in Lists
  /\ from[Current] # None
  /\ LET b == Current
         list == items[from[b]]
     IN  IF b \in dirty
         THEN /\ cache' = [cache EXCEPT ![b] = Updated(cache[b], list, made[b])]
              /\ made' = [made EXCEPT ![b] = made[b] + Len(list)]
              /\ crashed' = PopsEmpty(list)
         ELSE UNCHANGED <<cache, made, crashed>>
  /\ dirty' = dirty \ {Current}
  /\ Onward
  /\ UNCHANGED <<source, items, target, from, dependents, all, unread, writer, changes>>

(* bindablePropertyToSource: bind k is the last of the machine's binds to  *)
(* the source, and to it only, that property p has.                        *)
SetsFrom(b, p) == b \in ToSource \ (TwoWay \cup Lists) /\ Target[b] = p
LastFrom(k, p) ==
  /\ SetsFrom(MachineBinds[k], p)
  /\ \A l \in k + 1 .. Len(MachineBinds) : ~SetsFrom(MachineBinds[l], p)

(* A listener of the machine writes its property to the source.            *)
ListenerChange(k) ==
  LET b == MachineBinds[k]
      i == from[b]
      v == ForSource(b, target[Target[b]])
  IN  /\ Idle /\ changes < MaxChanges
      /\ i # None
      /\ v # source[i][Path[b]]
      /\ source' = [source EXCEPT ![i][Path[b]] = v]
      /\ dirty' = dirty \cup Notified(i, Path[b])
      /\ unread' = unread \ Notified(i, Path[b])
      /\ changes' = changes + 1
      /\ UNCHANGED <<lists, target, from, dependents, all, queue, at, writer>>

Turn == BindValue \/ BindNothing \/ BindList

Next ==
  \/ \E i \in Roots : SetContext(i) \/ SetMachineContext(i)
  \/ \E i \in Instances : \/ \E p \in PathsOf(i) \cap Paths, v \in Values : SetValue(i, p, v)
                          \/ /\ PathsOf(i) \ Paths # {}
                             /\ \E s \in ListChanges(items[i]) : ChangeList(i, s)
  \/ \E p \in Properties, k \in DOMAIN MachineBinds : LastFrom(k, p) /\ ListenerChange(k)
  \/ \E p \in Animated, v \in Values : SetProperty(p, v)
  \/ UpdateArtboard \/ UpdateMachine \/ Turn

Spec == Init /\ [][Next]_vars

(* A host advances its artboard and its machine again and again; an update *)
(* that has begun runs to its end.                                         *)
FairSpec ==
  /\ Spec
  /\ SF_vars(UpdateArtboard) /\ SF_vars(UpdateMachine)
  /\ WF_vars(Turn)

-----------------------------------------------------------------------------

(* What a bind has written to a property is what its source holds, until   *)
(* something else writes it or the bind is dirty again: no change of the   *)
(* source is missed, whether the host, a listener or another bind made it, *)
(* also in the middle of an update.  A bind that is given another source   *)
(* when it is clean does not notice, nor one that was cleaned before it    *)
(* had a source.                                                           *)
Delivered ==
  \A b \in Binds \ Lists :
    writer[Target[b]] = b /\ b \notin dirty \cup unread =>
      from[b] # None /\ target[Target[b]] = ForTarget(b, source[from[b]][Path[b]])

(* Once a list's bind is clean it shows the items of its list in their     *)
(* order, whatever was added, removed and swapped since it last did.       *)
ListShown ==
  ~crashed => \A b \in Lists :
    from[b] # None /\ b \notin dirty =>
      [k \in DOMAIN cache[b] |-> cache[b][k].item] = items[from[b]]

Once(c, e) == \A k, l \in DOMAIN c : c[k].item = e.item /\ c[l].item = e.item => k = l

(* An item keeps the instance that shows it, with all the state that has,  *)
(* as long as it is on the list: wherever it is moved and whatever is put  *)
(* before it.                                                              *)
InstancesKept ==
  [][\A b \in Lists : ~crashed' /\ from'[b] = from[b] /\ queue # <<>> =>
       \A e \in Range(cache[b]) :
         Once(cache[b], e) /\ e.item \in Range(items[from[b]]) => e \in Range(cache'[b])]_vars

(* When the host leaves everything alone, repeated updates come to rest:   *)
(* binds do not go on answering each other.                                *)
Settles == crashed \/ <>[][FALSE]_<<source, target, dirty>>

=============================================================================
