------------------------------ MODULE SoundLife ------------------------------
(***************************************************************************)
(* What an audio engine promises about the sounds it plays, without its    *)
(* lists, its lock and its threads.  A sound is started once and retired   *)
(* once: it has ended, or its artboard or the engine does away with it; or *)
(* it cannot be started, and is disposed of at once.                       *)
(* Only a retired sound is disposed of, and not while the device mixes it. *)
(***************************************************************************)
CONSTANTS Sounds, None

VARIABLES
  life,   (* of each sound: "new", "playing", "retired" or "disposed"      *)
  mixing  (* the sound the device reads from, or None                      *)

vars == <<life, mixing>>

Init ==
  /\ life = [s \in Sounds |-> "new"]
  /\ mixing = None

Becomes(s, from, to) ==
  /\ life[s] = from
  /\ life' = [life EXCEPT ![s] = to]
  /\ UNCHANGED mixing

Start(s)  == Becomes(s, "new", "playing")
Fail(s)   == Becomes(s, "new", "disposed")
Retire(s) == Becomes(s, "playing", "retired")

(* A sound that is retired may be mixed for the last time as it is.        *)
Dispose(s) == mixing # s /\ Becomes(s, "retired", "disposed")

(* The device is done with a sound and may have gone on to the next one.   *)
Mix(s) ==
  /\ mixing = None
  /\ life[s] \in {"playing", "retired"}
  /\ mixing' = s
  /\ UNCHANGED life

Leave ==
  /\ mixing # None
  /\ mixing' = None
  /\ UNCHANGED life

Next == Leave \/ \E s \in Sounds : Start(s) \/ Fail(s) \/ Retire(s) \/ Dispose(s) \/ Mix(s)

Spec == Init /\ [][Next]_vars
=============================================================================
