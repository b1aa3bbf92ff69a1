----------------------------- MODULE FileImport -----------------------------
(***************************************************************************)
(* How File::read (src/src/file.cpp) builds a file's objects.  A file is    *)
(* the depth-first list of a tree; an object does not name its owner: it    *)
(* asks the import stack for the latest importer of the type that owns it   *)
(* and hands itself over.  An importer that is replaced, or is left at the  *)
(* end of the file, resolves what its object refers to by index.  An object *)
(* of a type this runtime does not know is offered to the importers, the    *)
(* latest first, so that one of them can keep its place in a list.          *)
(*                                                                          *)
(* Objects and importers are numbered by their position in the file.  file  *)
(* is what the exporter wrote, with the owner it meant; added and bound are *)
(* what the runtime made of it.                                             *)
(***************************************************************************)
EXTENDS Integers, SequencesExt, FiniteSetsExt, TLC

CONSTANTS
  Families,  \* what the exporter writes: see Family
  MaxId,     \* the largest index an object refers to another by, or id of an asset
  Ids,       \* how many ids there are: 2^32, they are unsigned
  None

ASSUME FileImportAssumption == None \notin Nat /\ None \notin {"broken", "objects", "input", "state"}
ASSUME IdsAssumption == MaxId \in Nat /\ Ids \in Nat \ {0}

VARIABLES
  file,       \* the objects read so far, each with the owner it was written under
  open,       \* the path from the root to the last object written
  family,     \* the family of files this one is of
  latest,     \* m_latests: the latest importer of each type
  lastAdded,  \* m_lastAdded: the importers in the order they became latest
  bindable,   \* lastBindableObject
  added,      \* what was given to which importer's object, in order
  bound,      \* the references resolved so far
  assetIds,   \* the assetId of each of m_FileAssets
  done,       \* the importers resolved, in order
  result      \* what File::read answers

disk == <<file, open, family>>
stack == <<latest, lastAdded, done, result>>
vars == <<disk, stack, bindable, added, bound, assetIds>>

(***************************************************************************)
(* The exporter.                                                            *)
(***************************************************************************)
(* The kinds an object of each kind is written under. *)
Owners == [asset |-> {"backboard"}, contents |-> {"asset"}, artboard |-> {"backboard"},
           component |-> {"artboard"}, nested |-> {"artboard"}, image |-> {"artboard"},
           bind |-> {"component", "nested", "image"},
           animation |-> {"artboard"}, keyedObject |-> {"animation"},
           keyedProperty |-> {"keyedObject"}, keyFrame |-> {"keyedProperty"},
           machine |-> {"artboard"}, input |-> {"machine"}, layer |-> {"machine"},
           state |-> {"layer"}, fireEvent |-> {"state", "transition"},
           transition |-> {"state"}, condition |-> {"transition"}, blend |-> {"state"},
           listener |-> {"machine"}, action |-> {"listener"}]

Kinds == DOMAIN Owners

ASSUME FamiliesAssumption == \A f \in Families : f.unknown \subseteq Kinds

(* Siblings are written in this order: a machine's inputs before its layers, *)
(* a state's transitions before the animations it blends. *)
Rank == [k \in Kinds \cup {"backboard"} |->
           CASE k \in {"artboard", "animation", "layer", "transition"} -> 2
             [] k \in {"machine", "listener", "blend"} -> 3
             [] OTHER -> 1]

(* The list of its owner an object goes to. *)
ListOf(kind) ==
  CASE kind \in {"component", "nested", "image"} -> "objects"
    [] OTHER -> kind

(* Of a family: most, how many objects of each kind; unknown, the kinds of   *)
(* which some types may be newer than this runtime; heads, those of them     *)
(* that may own objects the runtime does know; faulty, whether an artboard   *)
(* may hold an object that cannot be initialised.                            *)
Family(most, unknown, heads, faulty) ==
  [most |-> most, unknown |-> unknown, heads |-> heads, faulty |-> faulty]

Here == Len(file) + 1

(* The positions in the path an object of the kind can be written under. *)
Places(kind) ==
  {d \in DOMAIN open :
     LET owner == file[open[d]] IN
     /\ owner.kind \in Owners[kind]
     /\ owner.known \/ owner.kind \in family.heads
     /\ d < Len(open) => Rank[file[open[d + 1]].kind] <= Rank[kind]}

(* The exporter writes an object of the kind at depth d; ref is the index it *)
(* refers to another object by. *)
Writes(kind, known, d, ref) ==
  /\ result = "reading"
  /\ Cardinality({p \in DOMAIN file : file[p].kind = kind}) < family.most[kind]
  /\ known \/ kind \in family.unknown
  /\ file' = Append(file, [kind |-> kind, known |-> known, ref |-> ref,
                           under |-> IF d = 0 THEN None ELSE open[d]])
  /\ open' = Append(SubSeq(open, 1, d), Here)
  /\ UNCHANGED family

(* The owner of an object, its owner's owner and so on, up to one of the kind. *)
Within(p, kind) ==
  LET up[q \in DOMAIN file] ==
        IF file[q].kind = kind \/ file[q].under = None THEN q ELSE up[file[q].under]
  IN  up[p]

(* The numbers of 1 .. n that are in a set, the smallest first. *)
InOrder(S, n) ==
  LET upTo[k \in 0 .. n] ==
        IF k = 0 THEN <<>> ELSE IF k \in S THEN Append(upTo[k - 1], k) ELSE upTo[k - 1]
  IN  upTo[n]

(* The objects written under an owner for one of its lists. *)
WrittenIn(owner, list) ==
  {p \in DOMAIN file : file[p].under = owner /\ ListOf(file[p].kind) = list}
Written(owner, list) == InOrder(WrittenIn(owner, list), Len(file))
-----------------------------------------------------------------------------
(***************************************************************************)
(* The import stack.                                                        *)
(***************************************************************************)
(* What an object was given for one of its lists; 0 stands for the          *)
(* placeholder of an unknown object: a null component or input, an empty     *)
(* state.                                                                    *)
GivenIn(owner, list) == {k \in DOMAIN added : added[k].to = owner /\ added[k].list = list}
Given(owner, list) ==
  LET entries == InOrder(GivenIn(owner, list), Len(added))
  IN  [i \in DOMAIN entries |-> added[entries[i]].what]

Gives(type, list, what) ==
  added' = Append(added, [to |-> latest[type], list |-> list, what |-> what])

RefersTo(p, owner, list) ==
  IF file[p].ref < Len(Given(owner, list)) THEN Given(owner, list)[file[p].ref + 1] ELSE None

(* The transitions of a layer, of all its states. *)
TransitionsOf(layer) ==
  {t \in DOMAIN file : \E s \in ToSet(Given(layer, "state")) :
                          s > 0 /\ t \in ToSet(Given(s, "transition"))}

(* What f says, and what g says where f says nothing; a map of one.          *)
Overlay(f, g) ==
  [p \in DOMAIN f \cup DOMAIN g |-> IF p \in DOMAIN f THEN f[p] ELSE g[p]]
Single(p, o) == [q \in {p} |-> o]

(* What an importer's resolve() binds. *)
(* A mutant: the animations of the artboard that is the latest by then. *)
ResolveInLatest(i) ==
  Overlay([t \in TransitionsOf(i) |-> RefersTo(t, i, "state")],
          [s \in {p \in ToSet(Given(i, "state")) \ {0} : file[p].ref /= None} |->
             RefersTo(s, latest.artboard, "animation")])
ResolveLayer(i) ==
  Overlay([t \in TransitionsOf(i) |-> RefersTo(t, i, "state")],
          [s \in {p \in ToSet(Given(i, "state")) \ {0} : file[p].ref /= None} |->
             RefersTo(s, bound[i], "animation")])
ResolveBackboard(i) ==
  Overlay([n \in ToSet(Given(i, "nested")) |-> RefersTo(n, i, "artboard")],
          [r \in ToSet(Given(i, "image")) |-> RefersTo(r, i, "asset")])
ResolveAsset(i) ==
  Single(i, IF Given(i, "contents") = <<>> THEN None ELSE Last(Given(i, "contents")))

Binds(i) ==
  CASE file[i].kind = "layer" -> ResolveLayer(i)
    [] file[i].kind = "backboard" -> ResolveBackboard(i)
    [] file[i].kind = "asset" -> ResolveAsset(i)
    [] OTHER -> <<>>

(* Whether it answers Ok: a layer refuses a transition to a state it does    *)
(* not have, an artboard one of its objects (Artboard::initialize).          *)
Resolves(i) ==
  CASE file[i].kind = "layer" -> \A t \in TransitionsOf(i) : RefersTo(t, i, "state") /= None
    [] file[i].kind = "artboard" -> file[i].ref /= "broken"
    [] OTHER -> TRUE

ImporterTypes ==
  {"backboard", "asset", "artboard", "animation", "keyedObject", "keyedProperty", "machine",
   "layer", "state", "transition", "part", "listener"}

(* m_latests[type] = importer.  A state or a transition is also the latest    *)
(* part of a layer, which takes fire events.                                  *)
Types(type) == {type} \cup (IF type \in {"state", "transition"} THEN {"part"} ELSE {})
(* A mutant: the part of a layer is inserted, which leaves the one there is.  *)
PartInserted(type, importer) ==
  [t \in DOMAIN latest |->
     IF t = type \/ (t \in Types(type) /\ latest[t] = None) THEN importer ELSE latest[t]]
Replaced(type, importer) ==
  [t \in DOMAIN latest |-> IF t \in Types(type) THEN importer ELSE latest[t]]

(* std::find and erase. *)
Erase(s, e) == IF \E k \in DOMAIN s : s[k] = e
               THEN RemoveAt(s, CHOOSE k \in DOMAIN s : s[k] = e) ELSE s

(* makeLatest: the importer of the object at Here replaces the latest of its *)
(* type, which resolves; with is what the import itself has bound.           *)
MakeLatest(type, with) ==
  LET old == latest[type]
      ok == old = None \/ Resolves(old)
      rest == Erase(lastAdded, old)
  IN  /\ latest' = Replaced(type, IF ok THEN Here ELSE None)
      /\ lastAdded' = IF ok THEN Append(rest, Here) ELSE rest
      /\ done' = IF old = None THEN done ELSE Append(done, old)
      /\ bound' = Overlay(with, Overlay(IF old = None THEN <<>> ELSE Binds(old), bound))
      /\ result' = IF ok THEN result ELSE "malformed"

(* resolve(): the importers that are left, the latest first, up to one that  *)
(* fails. *)
(* A mutant: the oldest first. *)
OldestFirst == lastAdded
ResolveOrder == Reverse(lastAdded)
(* What the first n bind; what several do is as the last of them leaves it.   *)
Binders(n, p) == {k \in 1 .. n : p \in DOMAIN Binds(ResolveOrder[k])}
BoundBy(n) ==
  [p \in UNION {DOMAIN Binds(ResolveOrder[k]) : k \in 1 .. n} |->
     Binds(ResolveOrder[Max(Binders(n, p))])[p]]
ResolveAll ==
  \E n \in DOMAIN lastAdded :
    /\ \A k \in 1 .. n - 1 : Resolves(ResolveOrder[k])
    /\ Resolves(ResolveOrder[n]) => n = Len(lastAdded)
    /\ done' = done \o SubSeq(ResolveOrder, 1, n)
    /\ bound' = Overlay(BoundBy(n), bound)
    /\ latest' = [t \in DOMAIN latest |-> None]
    /\ lastAdded' = <<>>
    /\ result' = IF Resolves(ResolveOrder[n]) THEN "success" ELSE "malformed"

(* readNullObject() of the importers that take an unknown object: all but    *)
(* the last keep its place in the list it is referred to from. *)
(* A mutant: the machine takes a null and keeps no place for it. *)
InputsDropped ==
  [artboard |-> "objects", machine |-> None, layer |-> "state", keyedProperty |-> None]
Keeps == [artboard |-> "objects", machine |-> "input", layer |-> "state", keyedProperty |-> None]

Takes(k) == file[lastAdded[k]].kind \in DOMAIN Keeps

ReadNullObject ==
  /\ \/ /\ \A k \in DOMAIN lastAdded : ~Takes(k)
        /\ UNCHANGED added
     \/ \E k \in DOMAIN lastAdded :
          /\ Takes(k)
          /\ \A j \in DOMAIN lastAdded : j > k => ~Takes(j)
          /\ LET list == Keeps[file[lastAdded[k]].kind] IN
             IF list = None THEN UNCHANGED added
             ELSE added' = Append(added, [to |-> lastAdded[k], list |-> list, what |-> 0])
  /\ UNCHANGED <<stack, bindable, bound, assetIds>>
-----------------------------------------------------------------------------
(***************************************************************************)
(* File::read: what it does with each kind of object.                       *)
(***************************************************************************)
(* An object that was imported: it is the one a data bind that follows is    *)
(* for, and it has an importer if others may ask for it.                     *)
NoImporter == bindable' = Here /\ UNCHANGED <<stack, bound>>
Stacks(type, with) == bindable' = Here /\ MakeLatest(type, with)

Known(kind, d, ref, type) == Writes(kind, TRUE, d, ref) /\ latest[type] /= None

ImportBackboard ==
  /\ file = <<>>
  /\ result = "reading"
  /\ file' = <<[kind |-> "backboard", known |-> TRUE, ref |-> None, under |-> None]>>
  /\ open' = <<Here>>
  /\ Stacks("backboard", <<>>)
  /\ UNCHANGED <<family, added, assetIds>>

(* addFileAsset: ids are made unique, in the order of the list.  One more    *)
(* asset with the id, after those past.                                      *)
(* A mutant: the next id does not pass an equal one. *)
AlmostNumber(past, id) ==
  IF id \in past.seen THEN [past EXCEPT !.ids = Append(@, past.next)]
  ELSE [ids |-> Append(past.ids, id), seen |-> past.seen \cup {id},
        next |-> IF id > past.next THEN (id + 1) % Ids ELSE past.next]
Number(past, id) ==
  IF id \in past.seen THEN [past EXCEPT !.ids = Append(@, past.next)]
  ELSE [ids |-> Append(past.ids, id), seen |-> past.seen \cup {id},
        next |-> IF id >= past.next THEN (id + 1) % Ids ELSE past.next]

UniqueIds(ids) ==
  LET past[k \in 0 .. Len(ids)] ==
        IF k = 0 THEN [ids |-> <<>>, seen |-> {}, next |-> 1] ELSE Number(past[k - 1], ids[k])
  IN  past[Len(ids)].ids

ImportFileAsset ==
  \E d \in Places("asset"), id \in 0..MaxId :
    /\ Known("asset", d, id, "backboard")
    /\ Gives("backboard", "asset", Here)
    /\ assetIds' = UniqueIds(Append(assetIds, id))
    /\ Stacks("asset", <<>>)

(* The exporter writes an asset's contents once. *)
ImportFileAssetContents ==
  \E d \in Places("contents") :
    /\ Written(open[d], "contents") = <<>>
    /\ Known("contents", d, None, "asset")
    /\ Gives("asset", "contents", Here)
    /\ NoImporter
    /\ UNCHANGED assetIds

ImportArtboard ==
  \E d \in Places("artboard"), ref \in {None} \cup (IF family.faulty THEN {"broken"} ELSE {}) :
    /\ Known("artboard", d, ref, "backboard")
    /\ Gives("backboard", "artboard", Here)
    /\ Stacks("artboard", <<>>)
    /\ UNCHANGED assetIds

ImportComponent ==
  \E d \in Places("component") :
    /\ Known("component", d, None, "artboard")
    /\ Gives("artboard", "objects", Here)
    /\ NoImporter
    /\ UNCHANGED assetIds

(* A nested artboard and an image leave word with the backboard first. *)
GivesBoth(list) ==
  added' = added \o <<[to |-> latest.backboard, list |-> list, what |-> Here],
                      [to |-> latest.artboard, list |-> "objects", what |-> Here]>>

ImportNestedArtboard ==
  \E d \in Places("nested"), ref \in 0..MaxId :
    /\ Known("nested", d, ref, "artboard")
    /\ GivesBoth("nested")
    /\ NoImporter
    /\ UNCHANGED assetIds

ImportImage ==
  \E d \in Places("image"), ref \in 0..MaxId :
    /\ Known("image", d, ref, "artboard")
    /\ GivesBoth("image")
    /\ NoImporter
    /\ UNCHANGED assetIds

(* A data bind is for the object read before it. *)
ImportDataBind ==
  \E d \in Places("bind") :
    /\ Known("bind", d, None, "artboard")
    /\ Gives("artboard", "bind", Here)
    /\ bound' = Overlay(Single(Here, bindable), bound)
    /\ UNCHANGED <<stack, bindable, assetIds>>

ImportLinearAnimation ==
  \E d \in Places("animation") :
    /\ Known("animation", d, None, "artboard")
    /\ Gives("artboard", "animation", Here)
    /\ Stacks("animation", <<>>)
    /\ UNCHANGED assetIds

ImportKeyedObject ==
  \E d \in Places("keyedObject") :
    /\ Known("keyedObject", d, None, "animation")
    /\ Gives("animation", "keyedObject", Here)
    /\ Stacks("keyedObject", <<>>)
    /\ UNCHANGED assetIds

(* Its importer keeps the animation that is the latest now. *)
ImportKeyedProperty ==
  \E d \in Places("keyedProperty") :
    /\ Known("keyedProperty", d, None, "keyedObject")
    /\ Gives("keyedObject", "keyedProperty", Here)
    /\ Stacks("keyedProperty", Single(Here, latest.animation))
    /\ UNCHANGED assetIds

(* computeSeconds: the frame is timed by the rate of that animation. *)
ImportKeyFrame ==
  \E d \in Places("keyFrame") :
    /\ Known("keyFrame", d, None, "keyedProperty")
    /\ Gives("keyedProperty", "keyFrame", Here)
    /\ bound' = Overlay(Single(Here, bound[latest.keyedProperty]), bound)
    /\ bindable' = Here
    /\ UNCHANGED <<stack, assetIds>>

ImportStateMachine ==
  \E d \in Places("machine") :
    /\ Known("machine", d, None, "artboard")
    /\ Gives("artboard", "machine", Here)
    /\ Stacks("machine", <<>>)
    /\ UNCHANGED assetIds

ImportInput ==
  \E d \in Places("input") :
    /\ Known("input", d, None, "machine")
    /\ Gives("machine", "input", Here)
    /\ NoImporter
    /\ UNCHANGED assetIds

(* Its importer keeps the artboard that is the latest now. *)
ImportLayer ==
  \E d \in Places("layer") :
    /\ Known("layer", d, None, "machine")
    /\ Gives("machine", "layer", Here)
    /\ Stacks("layer", Single(Here, latest.artboard))
    /\ UNCHANGED assetIds

(* The animation a state or a blended animation refers to was written before *)
(* it: an index of the animations of its artboard. *)
Animations(d) == 0 .. Len(Written(Within(open[d], "artboard"), "animation")) - 1

ImportLayerState ==
  \E d \in Places("state") : \E ref \in {None} \cup Animations(d) :
    /\ Known("state", d, ref, "layer")
    /\ Gives("layer", "state", Here)
    /\ Stacks("state", <<>>)
    /\ UNCHANGED assetIds

ImportStateTransition ==
  \E d \in Places("transition"), ref \in 0..MaxId :
    /\ Known("transition", d, ref, "state")
    /\ Gives("state", "transition", Here)
    /\ Stacks("transition", <<>>)
    /\ UNCHANGED assetIds

ImportFireEvent ==
  \E d \in Places("fireEvent") :
    /\ Known("fireEvent", d, None, "part")
    /\ Gives("part", "fireEvent", Here)
    /\ NoImporter
    /\ UNCHANGED assetIds

(* A condition on an input the machine does not have is deleted. *)
ImportTransitionCondition ==
  \E d \in Places("condition"), ref \in 0..MaxId :
    /\ Known("condition", d, ref, "transition")
    /\ IF ref < Len(Given(latest.machine, "input"))
       THEN Gives("transition", "condition", Here) ELSE UNCHANGED added
    /\ NoImporter
    /\ UNCHANGED assetIds

(* Its animation is looked up at once. *)
(* Only a state that blends animations, and so has none of its own, takes one. *)
ImportBlendAnimation ==
  \E d \in Places("blend") : \E ref \in Animations(d) :
    /\ Known("blend", d, ref, "state")
    /\ file[open[d]].ref = None
    /\ Gives("state", "blend", Here)
    /\ bound' = Overlay(Single(Here, IF ref < Len(Given(latest.artboard, "animation"))
                                 THEN Given(latest.artboard, "animation")[ref + 1] ELSE None),
                        bound)
    /\ bindable' = Here
    /\ UNCHANGED <<stack, assetIds>>

ImportListener ==
  \E d \in Places("listener") :
    /\ Known("listener", d, None, "machine")
    /\ Gives("machine", "listener", Here)
    /\ Stacks("listener", <<>>)
    /\ UNCHANGED assetIds

ImportListenerAction ==
  \E d \in Places("action") :
    /\ Known("action", d, None, "listener")
    /\ Gives("listener", "action", Here)
    /\ NoImporter
    /\ UNCHANGED assetIds

(* No importer of the type that owns it: MissingObject, and it is deleted. *)
Asks(kind) == IF kind = "fireEvent" THEN "part" ELSE CHOOSE owner \in Owners[kind] : TRUE

ImportOrphan ==
  \E kind \in Kinds \ {"bind"} : \E d \in Places(kind) :
    /\ Writes(kind, TRUE, d, 0)
    /\ latest[Asks(kind)] = None
    /\ bindable' = Here
    /\ UNCHANGED <<stack, added, bound, assetIds>>

(* An object of a type this runtime does not know. *)
ReadUnknown ==
  \E kind \in family.unknown : \E d \in Places(kind) :
    /\ Writes(kind, FALSE, d, None)
    /\ ReadNullObject

(* The file breaks off within an object: nothing is kept. *)
CutShort ==
  /\ result = "reading" /\ file /= <<>>
  /\ file' = Append(file, [kind |-> "cut", known |-> FALSE, ref |-> None, under |-> None])
  /\ result' = "malformed"
  /\ UNCHANGED <<open, family, latest, lastAdded, done, bindable, added, bound, assetIds>>

Finish ==
  /\ result = "reading" /\ file /= <<>>
  /\ ResolveAll
  /\ UNCHANGED <<disk, bindable, added, assetIds>>

Init ==
  /\ file = <<>> /\ open = <<>> /\ family \in Families
  /\ latest = [t \in ImporterTypes |-> None]
  /\ lastAdded = <<>> /\ bindable = None /\ added = <<>> /\ bound = <<>>
  /\ assetIds = <<>> /\ done = <<>> /\ result = "reading"

Next ==
  \/ ImportBackboard \/ ImportFileAsset \/ ImportFileAssetContents \/ ImportArtboard
  \/ ImportComponent \/ ImportNestedArtboard \/ ImportImage \/ ImportDataBind
  \/ ImportLinearAnimation \/ ImportKeyedObject \/ ImportKeyedProperty \/ ImportKeyFrame
  \/ ImportStateMachine \/ ImportInput \/ ImportLayer \/ ImportLayerState
  \/ ImportStateTransition \/ ImportFireEvent \/ ImportTransitionCondition
  \/ ImportBlendAnimation \/ ImportListener \/ ImportListenerAction
  \/ ImportOrphan \/ ReadUnknown \/ CutShort \/ Finish

Spec == Init /\ [][Next]_vars
-----------------------------------------------------------------------------
(***************************************************************************)
(* Properties.                                                              *)
(***************************************************************************)
(* An object this runtime knows, and whose owners it knows. *)
Whole[p \in DOMAIN file] == file[p].known /\ (file[p].under = None \/ Whole[file[p].under])

Objects == {p \in DOMAIN file : Whole[p] /\ file[p].kind /= "backboard"}

(* All but the conditions on inputs there are not, and the binds, which a    *)
(* list only owns. *)
Kept == {p \in Objects :
           /\ file[p].kind /= "bind"
           /\ file[p].kind = "condition" =>
                file[p].ref < Len(Written(Within(p, "machine"), "input"))}

(* A list that is referred to by index counts the unknown objects, too. *)
Counted(owner, list) ==
  IF list \in {"objects", "input", "state"} THEN Written(owner, list)
  ELSE InOrder(WrittenIn(owner, list) \cap Kept, Len(file))

Listed(p) ==
  LET owner == file[p].under
      list == ListOf(file[p].kind)
  IN  \E i \in DOMAIN Given(owner, list) \cap DOMAIN Counted(owner, list) :
         Given(owner, list)[i] = p /\ Counted(owner, list)[i] = p

(* Every known object is in the list of the owner it was written under, and  *)
(* where other objects refer into that list by index it is at the index the  *)
(* file counts, unknown objects included (Component::import ...,             *)
(* readNullObject).                                                          *)
InPlace ==
  result = "success" =>
    /\ \A p \in Kept : Listed(p)
    /\ \A k \in DOMAIN added :
         added[k].what > 0 /\ added[k].list = ListOf(file[added[k].what].kind)
           /\ added[k].list \notin {"bind", "image", "nested"}
           => added[k].to = file[added[k].what].under

Nth(list, i) == IF i < Len(list) THEN LET o == list[i + 1] IN IF file[o].known THEN o ELSE 0
                ELSE None

(* What an object refers to, as the exporter meant it. *)
Meant(p) ==
  LET o == file[p] IN
  CASE o.kind = "transition" -> Nth(Written(Within(p, "layer"), "state"), o.ref)
    [] o.kind \in {"state", "blend"} -> Nth(Written(Within(p, "artboard"), "animation"), o.ref)
    [] o.kind = "nested" -> Nth(Written(1, "artboard"), o.ref)
    [] o.kind = "image" -> Nth(Written(1, "asset"), o.ref)
    [] o.kind = "keyFrame" -> Within(p, "animation")
    [] o.kind = "bind" -> o.under
    [] o.kind = "asset" -> IF Written(p, "contents") = <<>> THEN None
                           ELSE Written(p, "contents")[1]

(* A file that is accepted has every reference resolved to the object it     *)
(* meant, though many are resolved long after they were read, and some once   *)
(* another artboard, machine or layer is the latest.                         *)
Linked ==
  result = "success" =>
    \A p \in Objects :
      file[p].kind \in {"transition", "blend", "nested", "image", "keyFrame", "bind", "asset"}
        \/ (file[p].kind = "state" /\ file[p].ref /= None)
      => Meant(p) = None \/ bound[p] = Meant(p)

(* No importer resolves twice; at the end every importer has resolved, and    *)
(* the backboard's, which nests artboards in each other, is the last of all,   *)
(* after every artboard has been initialised; a file with an artboard that     *)
(* cannot be initialised is never accepted.                                    *)
OnlyOnce == IsInjective(done)
Accepted ==
  /\ Last(done) = 1
  /\ \A p \in DOMAIN file :
       /\ Whole[p] /\ file[p].kind \in ImporterTypes => p \in ToSet(done)
       /\ ~(file[p].kind = "artboard" /\ file[p].ref = "broken")
ResolvedOnce == OnlyOnce /\ (result = "success" => Accepted)

(* Nothing is given to an importer that has been resolved. *)
NothingLate ==
  [][\A k \in DOMAIN added' : k > Len(added) => added'[k].to \notin ToSet(done')]_vars

(* No two assets share an id, whatever ids the file gives them ("EDITOR BUG  *)
(* 4204"), as long as there are ids left: the next id may wrap.              *)
AssetIdsUnique == IsInjective(assetIds)
=============================================================================
