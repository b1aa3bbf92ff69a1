---------------------------- MODULE MCShapePaths ----------------------------
(* Small artboards for the checks of ShapePaths.                           *)
EXTENDS ShapePaths, TLC

Built(order, kind, parent, shape, sources, target, uses) ==
  LET Else(other) == [c \in ToSet(order) |-> other]
  IN  [order |-> order, kind |-> kind, parent |-> parent @@ Else(None),
       shape |-> shape @@ Else(None), sources |-> sources @@ Else({}),
       target |-> target @@ Else(None), hit |-> uses.hit, moves |-> uses.moves,
       reshapes |-> uses.reshapes, fades |-> uses.fades]

(* A group that fades, with a shape whose solo shows a path or nothing;    *)
(* listeners may hit the shape, and the group may itself be a solo.        *)
Masked ==
  LET Group(kind, hit, moves, fades) ==
        Built(<<"group", "shape", "other", "solo", "path", "empty", "composer">>,
          [group |-> kind, shape |-> "shape", other |-> "node", solo |-> "solo",
           path |-> "path", empty |-> "node", composer |-> "composer"],
          [shape |-> "group", other |-> "group", solo |-> "shape", path |-> "solo",
           empty |-> "solo"],
          [path |-> "shape", composer |-> "shape"], << >>, << >>,
          [hit |-> hit, moves |-> moves, reshapes |-> {"path"}, fades |-> fades])
  IN  {Group("node", {}, {"group", "path"}, {"group", "shape"}),
       Group("node", {"shape"}, {"path"}, {"group"}),
       Group("solo", {}, {"path"}, {"shape"})}

(* A clip by a shape whose solo shows another shape or a path of its own.  *)
Clipping ==
  {Built(<<"outer", "solo", "inner", "first", "second", "innerPaths", "outerPaths", "clip">>,
         [outer |-> "shape", solo |-> "solo", inner |-> "shape", first |-> "path",
          second |-> "path", innerPaths |-> "composer", outerPaths |-> "composer",
          clip |-> "clip"],
         [solo |-> "outer", inner |-> "solo", second |-> "solo", first |-> "inner"],
         [first |-> "inner", innerPaths |-> "inner", second |-> "outer",
          outerPaths |-> "outer"],
         [clip |-> {"outer", "inner"}], << >>,
         [hit |-> {}, moves |-> {"solo", "first"}, reshapes |-> {"first", "second"},
          fades |-> {"outer"}])}

(* A shape that follows another one, where a solo shows that or its path,   *)
(* or nothing.                                                             *)
Following ==
  LET kind == [shape |-> "shape", solo |-> "solo", path |-> "path", empty |-> "node",
               composer |-> "composer", follow |-> "follow", rider |-> "shape",
               wheel |-> "path", riderPaths |-> "composer"]
      shape == [path |-> "shape", composer |-> "shape", wheel |-> "rider",
                riderPaths |-> "rider"]
      Artboard(above, order) ==
        Built(order, kind, above, shape, << >>, [follow |-> "shape"],
              [hit |-> {}, moves |-> {"path"}, reshapes |-> {"path"}, fades |-> {"shape"}])
      rest == <<"path", "empty", "composer", "follow", "rider", "wheel", "riderPaths">>
  IN  {Artboard([solo |-> "shape", path |-> "solo", empty |-> "solo", follow |-> "rider",
                 wheel |-> "rider"], <<"shape", "solo">> \o rest),
       Artboard([shape |-> "solo", path |-> "shape", empty |-> "solo", follow |-> "rider",
                 wheel |-> "rider"], <<"solo", "shape">> \o rest)}

AllScenes == Masked \cup Clipping \cup Following
=============================================================================
