--------------------------- MODULE MCFileImport ---------------------------
(* Families of files: each writes some of the kinds of object. *)
EXTENDS FileImport

AtMost(few) == [k \in Kinds |-> IF k \in DOMAIN few THEN few[k] ELSE 0]

(* Artboards nested in each other, one of which may not initialise. *)
Scenes == Family(AtMost([artboard |-> 3, component |-> 2, nested |-> 1, bind |-> 1]),
                 {"component"}, {}, TRUE)
(* Assets, with ids that an editor may have given twice, and images of them. *)
Pictures == Family(AtMost([asset |-> 2, contents |-> 2, artboard |-> 1, component |-> 1,
                           image |-> 1]), {"component"}, {}, FALSE)
Editors == Family(AtMost([asset |-> 4, contents |-> 1]), {"asset"}, {}, FALSE)
(* The keyed properties of animations. *)
Timelines == Family(AtMost([artboard |-> 1, animation |-> 2, keyedObject |-> 2,
                            keyedProperty |-> 2, keyFrame |-> 3]),
                    {"keyFrame"}, {}, FALSE)
(* The layers of machines. *)
Machines == Family(AtMost([artboard |-> 2, machine |-> 2, layer |-> 2, state |-> 3,
                           transition |-> 2]), {"state"}, {}, FALSE)
(* States that play and blend animations. *)
Blends == Family(AtMost([artboard |-> 2, animation |-> 2, machine |-> 1, layer |-> 1, state |-> 2,
                         transition |-> 1, blend |-> 1, fireEvent |-> 1]), {}, {}, FALSE)
(* Inputs, the conditions on them, and listeners. *)
Inputs == Family(AtMost([artboard |-> 1, machine |-> 1, input |-> 2, layer |-> 1, state |-> 1,
                         transition |-> 1, condition |-> 2, listener |-> 1, action |-> 1]),
                 {"input", "listener", "action"}, {}, FALSE)
(* A layer of an unknown type: all it holds is deleted. *)
Strangers == Family(AtMost([artboard |-> 1, machine |-> 1, layer |-> 1, state |-> 1,
                            transition |-> 1, condition |-> 1, input |-> 1]),
                    {"layer"}, {"layer"}, FALSE)

All == {Scenes, Pictures, Editors, Timelines, Machines, Blends, Inputs, Strangers}

===========================================================================
