------------------------- MODULE MCLinearAnimation -------------------------
(***************************************************************************)
(* An animation of five frames with a keyed callback on its first frame,   *)
(* on one inside and on its last frame.                                    *)
(***************************************************************************)
EXTENDS LinearAnimation

Keyed == <<0, 1, 5>>
=============================================================================
