-------------------------- MODULE LinearAnimation --------------------------
(***************************************************************************)
(* One LinearAnimationInstance: the playhead of an animation, how advance  *)
(* moves it, wraps it or bounces it, which keyed callbacks it reports on   *)
(* the way, and the time it hands on as spilled.                           *)
(*                                                                         *)
(* A time is a whole number of frames (m_time * fps in the code): the code *)
(* works in floats, whose rounding is left out.  An advance is one action, *)
(* except that of a pingPong animation, whose while loop bounces off one   *)
(* end per action.                                                         *)
(***************************************************************************)
EXTENDS Integers, Sequences

CONSTANTS
  Start,     (* the first frame played: workStart, or 0                    *)
  End,       (* the last frame played: workEnd, or duration                *)
  Fps,       (* frames per second                                          *)
  Speed,     (* the animation's speed                                      *)
  Frames,    (* the frames of one keyed callback property, in order        *)
  Loops,     (* the loop kinds the animation is created with               *)
  Elapsed,   (* the lengths of an advance, in frames at speed 1            *)
  Controls,  (* which setters the host calls                               *)
  MaxTotal   (* bound: no advance once the total time has reached it       *)

ASSUME PlaybackAssumption ==
  /\ Start \in Nat /\ End \in Nat /\ Start < End
  /\ Fps \in Nat \ {0}
  /\ Speed \in Int
  /\ Frames \in Seq(Nat) /\ Frames # <<>>
  /\ \A k \in 1 .. Len(Frames) - 1 : Frames[k] < Frames[k + 1]
  /\ Loops \subseteq {"oneShot", "loop", "pingPong"}
  /\ Elapsed \subseteq Nat
  /\ MaxTotal \in Nat

VARIABLES
  loop,       (* loop(): the animation's kind or the instance's override   *)
  sense,      (* m_speedDirection: the sign of the speed multiplier        *)
  time,       (* m_time                                                    *)
  direction,  (* m_direction                                               *)
  total,      (* m_totalTime                                               *)
  lastTotal,  (* m_lastTotalTime                                           *)
  spilled,    (* m_spilledTime, times the absolute value of Speed          *)
  didLoop,    (* m_didLoop                                                 *)
  result,     (* what the last advance returned                            *)
  pc,         (* "idle", or "bounce" inside pingPong's while loop          *)
  heading,    (* advance's local direction                                 *)
  fromPong,   (* advance's local fromPong                                  *)
  asked,      (* history: the elapsed time the last advance was given      *)
  steered,    (* history: the host set what the total time does not tell   *)
  past,       (* history: "plain" while it plays once, or loops by less    *)
              (* than a lap, and none but advances; "bounced" after one of *)
              (* a pingPong; "mixed" otherwise                             *)
  reports     (* history: how often each keyframe was reported while plain *)

vars == <<loop, sense, time, direction, total, lastTotal, spilled, didLoop,
          result, pc, heading, fromPong, asked, steered, past, reports>>

range == End - Start
Abs(x) == IF x < 0 THEN -x ELSE x
Low(x, y) == IF x < y THEN x ELSE y

(* startTime(multiplier).                                                  *)
StartTime(multiplier) == IF Speed * multiplier >= 0 THEN Start ELSE End

(* m_time of the constructor and of reset.                                 *)
FirstTime(multiplier) ==
  IF multiplier >= 0 THEN StartTime(1) ELSE Start + End - StartTime(1)

-----------------------------------------------------------------------------
(* Keyed callbacks.                                                        *)

(* closestFrameIndex: where t belongs among the keyframes, by bisection;   *)
(* the index counts from 0, and a keyframe hit exactly adds exactOffset.   *)
ClosestFrameIndex(t, exactOffset) ==
  LET n == Len(Frames)
      search[p \in (0 .. n) \X (-1 .. n - 1)] ==
        LET lo  == p[1]
            hi  == p[2]
            mid == (lo + hi) \div 2
        IN  IF lo > hi THEN lo
            ELSE IF Frames[mid + 1] < t THEN search[<<mid + 1, hi>>]
            ELSE IF Frames[mid + 1] > t THEN search[<<lo, mid - 1>>]
            ELSE mid + exactOffset
  IN  IF t > Frames[n] THEN n ELSE search[<<0, n - 1>>]

(* The keyframes KeyedProperty::reportKeyedCallbacks reports, from 1.      *)
Passed(from, to) ==
  LET forward == from <= to
      atStart == from = StartTime(sense)
      idx     == ClosestFrameIndex(from, IF forward # atStart THEN 1 ELSE 0)
      idxTo   == ClosestFrameIndex(to, IF forward THEN 1 ELSE 0)
  IN  IF from = to THEN {}
      ELSE {k \in 1 .. Len(Frames) : Low(idx, idxTo) < k /\ k <= idx + idxTo - Low(idx, idxTo)}

(* LinearAnimation::reportKeyedCallbacks, which is silent when it comes    *)
(* from a pong at the frame the animation starts on.                       *)
Reported(from, to, pong) ==
  IF pong /\ from = StartTime(sense) THEN {} ELSE Passed(from, to)

Counted(S) == [k \in DOMAIN Frames |-> IF k \in S THEN 1 ELSE 0]

(* reports, after one or two calls of reportKeyedCallbacks.                *)
Count(S, T) ==
  IF past' = "plain" THEN [k \in DOMAIN Frames |-> reports[k] + Counted(S)[k] + Counted(T)[k]]
  ELSE reports

-----------------------------------------------------------------------------
KeepGoing(multiplier, t, dir) ==
  \/ loop # "oneShot"
  \/ dir * Speed * multiplier > 0 /\ t < End
  \/ dir * Speed * multiplier < 0 /\ t > Start

Init ==
  /\ loop \in Loops
  /\ sense \in {1, -1}
  /\ time = FirstTime(sense)
  /\ direction = 1
  /\ total = 0 /\ lastTotal = 0 /\ spilled = 0
  /\ didLoop \in BOOLEAN       (* the constructor leaves it unset          *)
  /\ result = TRUE
  /\ pc = "idle" /\ heading = 1 /\ fromPong = TRUE
  /\ asked = 0 /\ steered = FALSE /\ past = "plain"
  /\ reports = [k \in DOMAIN Frames |-> 0]

(* advance's direction: the sign of deltaSeconds.                          *)
Heading == IF sense * Speed * direction < 0 THEN -1 ELSE 1

(* What advance does before it looks at the loop kind, e being positive.   *)
Move(e) ==
  /\ pc = "idle"
  /\ total <= MaxTotal
  /\ lastTotal' = total
  /\ total' = total + e * Abs(Speed)
  /\ asked' = e
  /\ heading' = Heading
  /\ past' = IF loop = "pingPong" THEN "bounced"
             ELSE IF past = "plain" /\ (loop = "loop" => e * Abs(Speed) < range) THEN "plain"
             ELSE "mixed"
  /\ UNCHANGED <<loop, sense, steered>>

(* m_time once deltaSeconds is added to it.                                *)
Moved(e) == time + e * sense * Speed * direction

(* advance by nothing: it neither moves nor looks at the loop kind.        *)
AdvanceByNothing(e) ==
  /\ pc = "idle"
  /\ e * Speed = 0
  /\ spilled' = 0
  /\ didLoop' = FALSE
  /\ result' = TRUE
  /\ asked' = e
  /\ UNCHANGED <<loop, sense, time, direction, total, lastTotal, pc, heading,
                 fromPong, steered, past, reports>>

(* Mutant: the excess is not brought back from the animation's own time.   *)
LocalSpill(excess) == sense * excess * Abs(Speed)

(* spilledFramesRatio * elapsedSeconds, for so many frames of excess.      *)
Spill(excess) == sense * excess

(* killSpilledTime: a oneShot that had finished before spills nothing.     *)
KillSpilledTime(e) == ~KeepGoing(sense * e, time, direction)

(* Mutant: the playhead is not put back on the last frame.                 *)
OneShotRunsOver(e) ==
  /\ loop = "oneShot"
  /\ e * Speed # 0
  /\ Move(e)
  /\ didLoop' = (Moved(e) > End \/ Moved(e) < Start)
  /\ time' = Moved(e)
  /\ spilled' = 0
  /\ reports' = Count(Reported(time, Moved(e), FALSE), {})
  /\ result' = KeepGoing(sense * e, time', direction)
  /\ UNCHANGED <<direction, pc, fromPong>>

AdvanceOneShot(e) ==
  /\ loop = "oneShot"
  /\ e * Speed # 0
  /\ Move(e)
  /\ LET t      == Moved(e)
         over   == heading' = 1 /\ t > End
         under  == heading' = -1 /\ t < Start
     IN  /\ didLoop' = (over \/ under)
         /\ time' = IF over THEN End ELSE IF under THEN Start ELSE t
         /\ spilled' = IF KillSpilledTime(e) THEN 0 ELSE Spill(Abs(t - time'))
         /\ reports' = Count(Reported(time, t, FALSE), {})
  /\ result' = KeepGoing(sense * e, time', direction)
  /\ UNCHANGED <<direction, pc, fromPong>>

(* Mutant: the wrapped part of the advance reports nothing.                *)
LaterPart(from, to) == {}

(* The callbacks reported once the playhead has wrapped.                   *)
AfterWrap(from, to) == Reported(from, to, FALSE)

(* std::fmod of how far past its starting edge the playhead went.          *)
Remainder(x) == x % range

AdvanceLoop(e) ==
  /\ loop = "loop"
  /\ e * Speed # 0
  /\ Move(e)
  /\ LET t    == Moved(e)
         over == heading' = 1 /\ t >= End
         under == heading' = -1 /\ t <= Start
         remainder == IF over THEN Remainder(t - Start) ELSE Remainder(Start - t)
         first == Reported(time, t, FALSE)
     IN  /\ \/ /\ over
               /\ time' = Start + remainder
               /\ spilled' = Spill(remainder)
               /\ reports' = Count(first, AfterWrap(0, time'))
            \/ /\ under
               /\ time' = End - remainder
               /\ spilled' = Spill(remainder)
               /\ reports' = Count(first, AfterWrap(End, time'))
            \/ /\ ~over /\ ~under
               /\ time' = t
               /\ spilled' = 0
               /\ reports' = Count(first, {})
         /\ didLoop' = (over \/ under)
  /\ result' = TRUE
  /\ UNCHANGED <<direction, pc, fromPong>>

(* advance of a pingPong animation, up to its while loop.                  *)
AdvancePingPong(e) ==
  /\ loop = "pingPong"
  /\ e * Speed # 0
  /\ Move(e)
  /\ time' = Moved(e)
  /\ spilled' = 0
  /\ didLoop' = FALSE
  /\ reports' = Count(Reported(time, Moved(e), FALSE), {})
  /\ pc' = "bounce"
  /\ fromPong' = TRUE
  /\ UNCHANGED <<direction, result>>

(* Mutant: any direction bounces off an end.                               *)
PastAnEnd == time >= End \/ time < Start

(* The guards of pingPong's while loop.                                    *)
Bounces ==
  \/ heading = 1 /\ time >= End
  \/ heading = -1 /\ time < Start

(* Mutant: what the playhead went too far is lost at the turn.             *)
StopsAtEdge(edge, t) == edge

Reflect(edge, t) == edge + (edge - t)

(* One iteration of the while loop.                                        *)
Bounce ==
  /\ pc = "bounce"
  /\ Bounces
  /\ UNCHANGED <<loop, sense, total, lastTotal, result, pc, asked, steered, past>>
  /\ LET edge == IF time >= End THEN End ELSE Start
     IN  /\ spilled' = Abs(time - edge) * Abs(Speed)
         /\ time' = Reflect(edge, time)
         /\ reports' = Count(Reported(edge, time', fromPong), {})
  /\ direction' = -direction
  /\ heading' = -heading
  /\ didLoop' = TRUE
  /\ fromPong' = ~fromPong

(* The while loop is left and advance returns.                             *)
Settle ==
  /\ pc = "bounce"
  /\ ~Bounces
  /\ pc' = "idle"
  /\ result' = TRUE
  /\ UNCHANGED <<loop, sense, time, direction, total, lastTotal, spilled,
                 didLoop, heading, fromPong, asked, steered, past, reports>>

-----------------------------------------------------------------------------
(* The setters.                                                            *)

Mixed == IF past = "plain" THEN "mixed" ELSE past

(* time(value).  The first frame is multiplied by fps, not divided by it.  *)
Seek(value) ==
  /\ pc = "idle" /\ "seek" \in Controls
  /\ value # time
  /\ time' = value
  /\ total' = value - Start * Fps * Fps
  /\ lastTotal' = total' - (total - lastTotal)
  /\ direction' = 1
  /\ steered' = (steered \/ FirstTime(sense) # Start)
  /\ past' = Mixed
  /\ UNCHANGED <<loop, sense, spilled, didLoop, result, pc, heading, fromPong,
                 asked, reports>>

(* direction(d).                                                           *)
SetDirection(d) ==
  /\ pc = "idle" /\ "direction" \in Controls
  /\ direction' = d
  /\ steered' = TRUE /\ past' = Mixed
  /\ UNCHANGED <<loop, sense, time, total, lastTotal, spilled, didLoop, result,
                 pc, heading, fromPong, asked, reports>>

(* loopValue(value).                                                       *)
SetLoop(value) ==
  /\ pc = "idle" /\ "loop" \in Controls
  /\ loop' = value
  /\ steered' = TRUE /\ past' = Mixed
  /\ UNCHANGED <<sense, time, direction, total, lastTotal, spilled, didLoop,
                 result, pc, heading, fromPong, asked, reports>>

(* reset(multiplier), which leaves the totals and the direction alone.     *)
Reset(multiplier) ==
  /\ pc = "idle" /\ "reset" \in Controls
  /\ time' = FirstTime(multiplier)
  /\ steered' = TRUE /\ past' = Mixed
  /\ UNCHANGED <<loop, sense, direction, total, lastTotal, spilled, didLoop,
                 result, pc, heading, fromPong, asked, reports>>

(* clearSpilledTime.                                                       *)
ClearSpilledTime ==
  /\ pc = "idle" /\ "clear" \in Controls
  /\ spilled' = 0
  /\ UNCHANGED <<loop, sense, time, direction, total, lastTotal, didLoop,
                 result, pc, heading, fromPong, asked, steered, past, reports>>

WhileLoop == Bounce \/ Settle

Next ==
  \/ \E e \in Elapsed : \/ AdvanceByNothing(e)
                        \/ AdvanceOneShot(e)
                        \/ AdvanceLoop(e)
                        \/ AdvancePingPong(e)
  \/ WhileLoop
  \/ \E value \in Start .. End : Seek(value)
  \/ \E d \in {1, -1} : SetDirection(d)
  \/ \E value \in {"oneShot", "loop", "pingPong"} : SetLoop(value)
  \/ \E multiplier \in {1, -1} : Reset(multiplier)
  \/ ClearSpilledTime

Spec == Init /\ [][Next]_vars

(* An advance that has begun runs to its end on the caller's thread.       *)
FairSpec == Spec /\ WF_vars(WhileLoop)

-----------------------------------------------------------------------------
TypeOK ==
  /\ loop \in {"oneShot", "loop", "pingPong"}
  /\ sense \in {1, -1}
  /\ time \in Int
  /\ direction \in {1, -1}
  /\ total \in Int /\ lastTotal \in Int /\ spilled \in Int
  /\ didLoop \in BOOLEAN /\ result \in BOOLEAN
  /\ pc \in {"idle", "bounce"}
  /\ heading \in {1, -1} /\ fromPong \in BOOLEAN
  /\ asked \in Nat /\ steered \in BOOLEAN /\ past \in {"plain", "mixed", "bounced"}
  /\ reports \in [DOMAIN Frames -> Nat]

(* Between calls the playhead is on a frame that is played, whatever the   *)
(* length of the advances, the number of laps or bounces they take, and    *)
(* however the loop kind and the direction are changed in between.         *)
InRange == pc = "idle" => time \in Start .. End

(* The frames from the starting edge that the total time stands for.       *)
LocalOf(t) ==
  CASE loop = "oneShot"  -> Low(t, range)
    [] loop = "loop"     -> t % range
    [] loop = "pingPong" -> LET m == t % (2 * range) IN Low(m, 2 * range - m)

(* Frames between the starting edge and t.                                 *)
Offset(t) == IF FirstTime(sense) = Start THEN t - Start ELSE End - t

(* The playhead does not drift: where it is depends only on the total time *)
(* played, not on how it was cut into advances, wraps, bounces and seeks.  *)
(* The end of a lap and the start of the next are one place on a loop.     *)
(* A seek counts the total from the first frame, so only forward playback  *)
(* keeps to it then; a change of loop kind or direction and a reset leave  *)
(* the total time as it is.                                                *)
TimeFollowsTotal ==
  pc = "idle" /\ ~steered =>
    \/ Offset(time) = LocalOf(total)
    \/ loop = "loop" /\ Offset(time) = range /\ LocalOf(total) = 0

(* How often a oneShot or a loop has passed keyframe k after d frames: the *)
(* keyframe it starts on counts as soon as it moves.                       *)
Visits(k, d) ==
  LET o == Offset(Frames[k])
      out == IF o = 0 THEN (d + range - 1) \div range
             ELSE IF d < o THEN 0 ELSE (d - o) \div range + 1
  IN  IF loop = "oneShot" THEN Low(out, 1) ELSE out

(* Every keyed callback fires once for each time the playhead passes it:   *)
(* none is lost or doubled where an advance ends on a keyframe, starts on  *)
(* one, or wraps.                                                          *)
ReportsExactly ==
  pc = "idle" /\ past = "plain" => \A k \in DOMAIN Frames : reports[k] = Visits(k, total)

(* The time an animation did not use, which a state machine hands to the   *)
(* next state, is a part of the time it was given.  A pingPong spills in   *)
(* another unit.                                                           *)
SpillWithinElapsed ==
  pc = "idle" /\ past # "bounced" => sense * spilled \in 0 .. asked * Abs(Speed)

(* advance returns: the bounces of one advance come to an end.             *)
AdvanceReturns == pc = "bounce" ~> pc = "idle"
=============================================================================
