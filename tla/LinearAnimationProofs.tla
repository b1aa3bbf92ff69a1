----------------------- MODULE LinearAnimationProofs -----------------------
(***************************************************************************)
(* The playhead keeps its type and stays on the frames that are played,    *)
(* for every animation, speed, loop kind and length of advance.            *)
(* It never drifts from the total time, and every keyed callback fires     *)
(* once each time it is passed.                                            *)
(***************************************************************************)
EXTENDS LinearAnimation, Induction, TLAPS

(* What pingPong's loop keeps while the playhead is out of range: it is    *)
(* only ever beyond the end it is heading for.                             *)
BehindHeading ==
  pc = "bounce" => /\ heading = 1 => time >= Start
                   /\ heading = -1 => time <= End

IInv == TypeOK /\ InRange /\ BehindHeading

-----------------------------------------------------------------------------
(* The sign of a move is that of the speed, the multiplier and the         *)
(* direction together.                                                     *)
LEMMA SignOfMove ==
  ASSUME NEW e \in Nat, NEW x \in Int
  PROVE  /\ e * x \in Int
         /\ x < 0 => e * x <= 0
         /\ x >= 0 => e * x >= 0
OBVIOUS

(* What an advance adds to the playhead, as one product.                   *)
LEMMA MovedBy ==
  ASSUME TypeOK, NEW e \in Nat
  PROVE  /\ sense * Speed * direction \in Int
         /\ Moved(e) = time + e * (sense * Speed * direction)
         /\ e * (sense * Speed * direction) \in Int
<1>1. Speed \in Int /\ e * Speed \in Int
  BY PlaybackAssumption
<1>2. CASE sense = 1 /\ direction = 1
  BY <1>1, <1>2, PlaybackAssumption DEF Moved, TypeOK
<1>3. CASE sense = -1 /\ direction = 1
  BY <1>1, <1>3, PlaybackAssumption DEF Moved, TypeOK
<1>4. CASE sense = 1 /\ direction = -1
  BY <1>1, <1>4, PlaybackAssumption DEF Moved, TypeOK
<1>5. CASE sense = -1 /\ direction = -1
  BY <1>1, <1>5, PlaybackAssumption DEF Moved, TypeOK
<1> QED
  BY <1>2, <1>3, <1>4, <1>5 DEF TypeOK

(* An advance moves the playhead the way it is heading.                    *)
LEMMA MoveGoesAhead ==
  ASSUME TypeOK, NEW e \in Elapsed, Move(e)
  PROVE  /\ e \in Nat
         /\ Moved(e) \in Int
         /\ heading' \in {1, -1}
         /\ heading' = 1 => Moved(e) >= time
         /\ heading' = -1 => Moved(e) <= time
<1>1. e \in Nat
  BY PlaybackAssumption
<1> DEFINE x == sense * Speed * direction
<1>2. x \in Int /\ Moved(e) = time + e * x /\ e * x \in Int
  BY <1>1, MovedBy
<1>3. heading' = IF x < 0 THEN -1 ELSE 1
  BY DEF Move, Heading
<1> HIDE DEF x
<1>4. (x < 0 => e * x <= 0) /\ (x >= 0 => e * x >= 0)
  BY <1>1, <1>2, SignOfMove
<1> QED
  BY <1>1, <1>2, <1>3, <1>4 DEF TypeOK

(* What Move sets keeps its type.                                          *)
LEMMA MoveKeepsTypes ==
  ASSUME TypeOK, NEW e \in Elapsed, Move(e)
  PROVE  /\ total' \in Int /\ lastTotal' \in Int /\ asked' \in Nat
         /\ loop' = loop /\ sense' = sense /\ steered' = steered
         /\ past' \in {"plain", "mixed", "bounced"}
<1>1. e \in Nat /\ Speed \in Int
  BY PlaybackAssumption
<1>2. Abs(Speed) \in Int
  BY <1>1 DEF Abs
<1>3. e * Abs(Speed) \in Int
  BY <1>1, <1>2
<1> QED
  BY <1>1, <1>3 DEF Move, TypeOK

(* Counting reports keeps their type.                                      *)
LEMMA CountKeepsType ==
  ASSUME TypeOK, NEW S, NEW T
  PROVE  Count(S, T) \in [DOMAIN Frames -> Nat]
BY DEF TypeOK, Count, Counted

(* What a lap leaves over is less than a lap.                              *)
LEMMA RemainderIsWithin ==
  ASSUME NEW x \in Int
  PROVE  Remainder(x) \in 0 .. range - 1 /\ range \in Int /\ range > 0
<1>1. range \in Int /\ range > 0
  BY PlaybackAssumption DEF range
<1> QED
  BY <1>1 DEF Remainder

LEMMA SpillIsInt ==
  ASSUME TypeOK, NEW x \in Int
  PROVE  Spill(x) \in Int
BY DEF TypeOK, Spill

-----------------------------------------------------------------------------
LEMMA InitHolds == Init => IInv
<1> SUFFICES ASSUME Init PROVE IInv
  OBVIOUS
<1>1. Start \in Int /\ End \in Int /\ Start < End /\ Speed \in Int
  BY PlaybackAssumption
<1>2. FirstTime(sense) \in {Start, End}
  BY <1>1 DEF FirstTime, StartTime, Init
<1>3. loop \in {"oneShot", "loop", "pingPong"}
  BY PlaybackAssumption DEF Init
<1>4. reports \in [DOMAIN Frames -> Nat] /\ steered \in BOOLEAN /\ past = "plain"
  BY DEF Init
<1> QED
  BY <1>1, <1>2, <1>3, <1>4 DEF Init, IInv, TypeOK, InRange, BehindHeading

LEMMA StepHolds == IInv /\ [Next]_vars => IInv'
<1> SUFFICES ASSUME IInv, [Next]_vars PROVE IInv'
  OBVIOUS
<1> USE DEF IInv
<1>0. Start \in Int /\ End \in Int /\ Start < End
  BY PlaybackAssumption
<1>1. ASSUME NEW e \in Elapsed, AdvanceByNothing(e) PROVE IInv'
  <2>1. e \in Nat
    BY PlaybackAssumption
  <2>2. /\ spilled' = 0 /\ didLoop' \in BOOLEAN /\ result' = TRUE /\ asked' = e
        /\ UNCHANGED <<loop, sense, time, direction, total, lastTotal, pc, heading,
                       fromPong, steered, past, reports>>
    BY <1>1 DEF AdvanceByNothing
  <2> QED
    BY <2>1, <2>2 DEF TypeOK, InRange, BehindHeading
<1>2. ASSUME NEW e \in Elapsed, AdvanceOneShot(e) PROVE IInv'
  <2> DEFINE t == Moved(e)
  <2>1. Move(e)
    BY <1>2 DEF AdvanceOneShot
  <2>2. /\ e \in Nat /\ t \in Int /\ heading' \in {1, -1}
        /\ heading' = 1 => t >= time
        /\ heading' = -1 => t <= time
    BY <2>1, MoveGoesAhead
  <2>3. time \in Start .. End /\ pc = "idle"
    BY <2>1 DEF Move, InRange
  <2>4. /\ time' = IF heading' = 1 /\ t > End THEN End
                   ELSE IF heading' = -1 /\ t < Start THEN Start ELSE t
        /\ spilled' = IF KillSpilledTime(e) THEN 0 ELSE Spill(Abs(t - time'))
        /\ didLoop' \in BOOLEAN
        /\ reports' = Count(Reported(time, t, FALSE), {})
        /\ direction' = direction /\ pc' = pc /\ fromPong' = fromPong
    BY <1>2 DEF AdvanceOneShot
  <2>5. result' \in BOOLEAN
    BY <1>2 DEF AdvanceOneShot, KeepGoing
  <2> HIDE DEF t
  <2>6. time' \in Start .. End
    BY <1>0, <2>2, <2>3, <2>4
  <2>7. Abs(t - time') \in Int
    <3>1. time' \in Int /\ t \in Int
      BY <1>0, <2>2, <2>6
    <3>2. t - time' \in Int
      BY <3>1
    <3> QED
      BY <3>2 DEF Abs
  <2>8. spilled' \in Int
    BY <2>4, <2>7, SpillIsInt
  <2>9. reports' \in [DOMAIN Frames -> Nat]
    BY <2>4, CountKeepsType
  <2> QED
    BY <1>0, <2>1, <2>2, <2>3, <2>4, <2>5, <2>6, <2>8, <2>9, MoveKeepsTypes
       DEF TypeOK, InRange, BehindHeading
<1>3. ASSUME NEW e \in Elapsed, AdvanceLoop(e) PROVE IInv'
  <2> DEFINE t == Moved(e)
             over == heading' = 1 /\ t >= End
             under == heading' = -1 /\ t <= Start
             rest == IF over THEN Remainder(t - Start) ELSE Remainder(Start - t)
             first == Reported(time, t, FALSE)
  <2>1. Move(e)
    BY <1>3 DEF AdvanceLoop
  <2>2. /\ e \in Nat /\ t \in Int /\ heading' \in {1, -1}
        /\ heading' = 1 => t >= time
        /\ heading' = -1 => t <= time
    BY <2>1, MoveGoesAhead
  <2>3. time \in Start .. End /\ pc = "idle"
    BY <2>1 DEF Move, InRange
  <2>4. rest \in 0 .. End - Start - 1
    <3>1. t - Start \in Int /\ Start - t \in Int
      BY <1>0, <2>2
    <3> HIDE DEF t, over
    <3>2. Remainder(t - Start) \in 0 .. range - 1 /\ Remainder(Start - t) \in 0 .. range - 1
      BY <3>1, RemainderIsWithin
    <3> QED
      BY <3>2 DEF range
  <2>5. /\ \/ over /\ time' = Start + rest /\ spilled' = Spill(rest)
           \/ under /\ time' = End - rest /\ spilled' = Spill(rest)
           \/ ~over /\ ~under /\ time' = t /\ spilled' = 0
        /\ didLoop' \in BOOLEAN /\ result' \in BOOLEAN
        /\ direction' = direction /\ pc' = pc /\ fromPong' = fromPong
    BY <1>3 DEF AdvanceLoop
  <2>6. reports' \in [DOMAIN Frames -> Nat]
    <3>1. \/ reports' = Count(first, AfterWrap(0, time'))
          \/ reports' = Count(first, AfterWrap(End, time'))
          \/ reports' = Count(first, {})
      BY <1>3 DEF AdvanceLoop
    <3> QED
      BY <3>1, CountKeepsType
  <2> HIDE DEF t, rest
  <2>7. time' \in Start .. End /\ spilled' \in Int
    BY <1>0, <2>2, <2>3, <2>4, <2>5, SpillIsInt
  <2> HIDE DEF over, under
  <2> QED
    BY <1>0, <2>1, <2>2, <2>3, <2>5, <2>6, <2>7, MoveKeepsTypes
       DEF TypeOK, InRange, BehindHeading
<1>4. ASSUME NEW e \in Elapsed, AdvancePingPong(e) PROVE IInv'
  <2>1. Move(e)
    BY <1>4 DEF AdvancePingPong
  <2>2. /\ e \in Nat /\ Moved(e) \in Int /\ heading' \in {1, -1}
        /\ heading' = 1 => Moved(e) >= time
        /\ heading' = -1 => Moved(e) <= time
    BY <2>1, MoveGoesAhead
  <2>3. time \in Start .. End
    BY <2>1 DEF Move, InRange
  <2>4. reports' \in [DOMAIN Frames -> Nat]
    BY <1>4, CountKeepsType DEF AdvancePingPong
  <2>5. /\ time' = Moved(e) /\ spilled' = 0 /\ didLoop' \in BOOLEAN /\ pc' = "bounce"
        /\ fromPong' = TRUE /\ direction' = direction /\ result' = result
    BY <1>4 DEF AdvancePingPong
  <2>6. TypeOK'
    <3>1. result' \in BOOLEAN
      BY <2>5 DEF TypeOK
    <3> QED
      BY <2>1, <2>2, <2>4, <2>5, <3>1, MoveKeepsTypes DEF TypeOK
  <2>7. BehindHeading'
    BY <1>0, <2>2, <2>3, <2>5 DEF BehindHeading
  <2> QED
    BY <2>5, <2>6, <2>7 DEF InRange
<1>5. CASE Bounce
  <2> DEFINE edge == IF time >= End THEN End ELSE Start
  <2>1. /\ pc = "bounce"
        /\ \/ heading = 1 /\ time >= End
           \/ heading = -1 /\ time < Start
        /\ time' = Reflect(edge, time)
        /\ spilled' = Abs(time - edge) * Abs(Speed)
        /\ direction' = -direction /\ heading' = -heading
        /\ didLoop' = TRUE /\ fromPong' = ~fromPong
        /\ UNCHANGED <<loop, sense, total, lastTotal, result, pc, asked, steered, past>>
    BY <1>5 DEF Bounce, Bounces
  <2>2. reports' \in [DOMAIN Frames -> Nat]
    BY <1>5, CountKeepsType DEF Bounce
  <2>3. Abs(time - edge) \in Int /\ Abs(Speed) \in Int
    BY <1>0, PlaybackAssumption DEF TypeOK, Abs
  <2>4. spilled' \in Int
    BY <2>1, <2>3
  <2>5. /\ time' \in Int
        /\ heading' = 1 => time' >= Start
        /\ heading' = -1 => time' <= End
    BY <1>0, <2>1 DEF TypeOK, Reflect
  <2>6. direction' \in {1, -1} /\ heading' \in {1, -1}
    BY <2>1 DEF TypeOK
  <2>7. fromPong' \in BOOLEAN
    BY <2>1 DEF TypeOK
  <2> QED
    BY <2>1, <2>2, <2>4, <2>5, <2>6, <2>7 DEF TypeOK, InRange, BehindHeading
<1>6. CASE Settle
  <2>1. time \in Start .. End
    BY <1>0, <1>6 DEF Settle, Bounces, BehindHeading, TypeOK
  <2> QED
    BY <1>6, <2>1 DEF Settle, TypeOK, InRange, BehindHeading
<1>7. ASSUME NEW value \in Start .. End, Seek(value) PROVE IInv'
  <2>1. value - Start * Fps * Fps \in Int
    BY PlaybackAssumption
  <2>2. total' \in Int /\ lastTotal' \in Int
    BY <1>7, <2>1 DEF Seek, TypeOK
  <2>3. steered' \in BOOLEAN /\ past' \in {"plain", "mixed", "bounced"}
    BY <1>7 DEF Seek, Mixed, TypeOK
  <2> QED
    BY <1>0, <1>7, <2>2, <2>3 DEF Seek, TypeOK, InRange, BehindHeading
<1>8. ASSUME NEW d \in {1, -1}, SetDirection(d) PROVE IInv'
  BY <1>8 DEF SetDirection, Mixed, TypeOK, InRange, BehindHeading
<1>9. ASSUME NEW value \in {"oneShot", "loop", "pingPong"}, SetLoop(value) PROVE IInv'
  BY <1>9 DEF SetLoop, Mixed, TypeOK, InRange, BehindHeading
<1>10. ASSUME NEW multiplier \in {1, -1}, Reset(multiplier) PROVE IInv'
  <2>1. FirstTime(multiplier) \in {Start, End}
    BY <1>0, PlaybackAssumption DEF FirstTime, StartTime
  <2> QED
    BY <1>0, <1>10, <2>1 DEF Reset, Mixed, TypeOK, InRange, BehindHeading
<1>11. CASE ClearSpilledTime
  BY <1>11 DEF ClearSpilledTime, TypeOK, InRange, BehindHeading
<1>12. CASE UNCHANGED vars
  BY <1>12 DEF vars, TypeOK, InRange, BehindHeading
<1> QED
  BY <1>1, <1>2, <1>3, <1>4, <1>5, <1>6, <1>7, <1>8, <1>9, <1>10, <1>11, <1>12
     DEF Next, WhileLoop

(* Every variable keeps its type, whatever the host calls.                 *)
THEOREM TypeCorrect == Spec => []TypeOK
<1>1. Spec => []IInv
  BY InitHolds, StepHolds, PTL DEF Spec
<1>2. IInv => TypeOK
  BY DEF IInv
<1> QED
  BY <1>1, <1>2, PTL

(* When advance returns, the playhead is on a frame that is played: no     *)
(* advance, however long, leaves it outside, in any loop kind, and neither *)
(* does changing the kind or the direction between two advances.           *)
THEOREM StaysInRange == Spec => []InRange
<1>1. Spec => []IInv
  BY InitHolds, StepHolds, PTL DEF Spec
<1>2. IInv => InRange
  BY DEF IInv
<1> QED
  BY <1>1, <1>2, PTL

-----------------------------------------------------------------------------
(* The spilled time.                                                       *)

(* Between the calls, whatever the host calls; and an advance is under way *)
(* only if it is one of a pingPong.                                        *)
SpillInv == IInv /\ (past # "bounced" => pc = "idle") /\ SpillWithinElapsed

(* A remainder is no more than what it is taken of, and once a lap is       *)
(* complete it is no more than what lies beyond that lap.                  *)
LEMMA RemainderIsLess ==
  ASSUME NEW x \in Int, x >= 0
  PROVE  /\ x % range <= x
         /\ x >= range => x % range <= x - range
<1>1. range \in Int /\ range > 0
  BY PlaybackAssumption DEF range
<1> QED
  BY <1>1

(* The length of a move is the elapsed time at the animation's speed.      *)
LEMMA LengthOfMove ==
  ASSUME TypeOK, NEW e \in Nat
  PROVE  /\ e * Abs(Speed) \in Nat
         /\ Moved(e) - time \in {e * Abs(Speed), -(e * Abs(Speed))}
<1>1. Speed \in Int
  BY PlaybackAssumption
<1>2. Abs(Speed) \in Nat /\ Abs(Speed) \in {Speed, -Speed}
  BY <1>1 DEF Abs
<1>3. sense * Speed * direction \in {Abs(Speed), -Abs(Speed)}
  BY <1>1, <1>2 DEF TypeOK
<1>4. Moved(e) = time + e * (sense * Speed * direction)
  BY MovedBy
<1> DEFINE x == sense * Speed * direction
           a == Abs(Speed)
<1>5. x \in {a, -a} /\ a \in Nat /\ Moved(e) = time + e * x
  BY <1>2, <1>3, <1>4
<1> HIDE DEF x, a
<1>6. e * a \in Nat
  BY <1>5
<1>7. e * (-a) = -(e * a)
  BY <1>5
<1>8. Moved(e) - time \in {e * a, -(e * a)}
  BY <1>5, <1>6, <1>7 DEF TypeOK
<1> QED
  BY <1>6, <1>8 DEF a

LEMMA SpillInit == Init => SpillInv
<1> SUFFICES ASSUME Init PROVE SpillInv
  OBVIOUS
<1>1. IInv
  BY InitHolds
<1>2. pc = "idle"
  BY DEF Init
<1>3. sense * spilled \in 0 .. asked * Abs(Speed)
  <2>1. spilled = 0 /\ asked = 0 /\ sense \in {1, -1}
    BY DEF Init
  <2>2. Abs(Speed) \in Int
    BY PlaybackAssumption DEF Abs
  <2> QED
    BY <2>1, <2>2
<1> QED
  BY <1>1, <1>2, <1>3 DEF SpillInv, SpillWithinElapsed

LEMMA SpillStep == SpillInv /\ [Next]_vars => SpillInv'
<1> SUFFICES ASSUME SpillInv, [Next]_vars PROVE SpillInv'
  OBVIOUS
<1>0. /\ Start \in Int /\ End \in Int /\ Start < End
      /\ TypeOK /\ IInv /\ IInv' /\ (pc = "idle" => time \in Start .. End)
      /\ past # "bounced" => pc = "idle" /\ sense * spilled \in 0 .. asked * Abs(Speed)
  BY StepHolds, PlaybackAssumption DEF SpillInv, IInv, InRange, SpillWithinElapsed
<1> DEFINE Goal == past' # "bounced" => pc' = "idle" /\ sense' * spilled' \in 0 .. asked' * Abs(Speed)
<1>1. ASSUME NEW e \in Elapsed, AdvanceByNothing(e) PROVE Goal
  <2>1. e \in Nat /\ e * Abs(Speed) \in Nat
    BY <1>0, PlaybackAssumption, LengthOfMove
  <2>2. spilled' = 0 /\ asked' = e /\ sense' = sense /\ pc' = "idle"
    BY <1>1 DEF AdvanceByNothing
  <2> QED
    BY <1>0, <2>1, <2>2 DEF TypeOK
<1>2. ASSUME NEW e \in Elapsed, Move(e), pc' = pc,
             NEW x \in Int, 0 <= x, x <= e * Abs(Speed),
             spilled' = 0 \/ spilled' = sense * x
      PROVE  Goal
  <2>1. e \in Nat /\ e * Abs(Speed) \in Nat
    BY <1>0, PlaybackAssumption, LengthOfMove
  <2>2. asked' = e /\ sense' = sense /\ pc = "idle"
    BY <1>2 DEF Move
  <2>3. sense * 0 = 0 /\ sense * (sense * x) = x
    BY <1>0, <1>2 DEF TypeOK
  <2> QED
    BY <1>0, <1>2, <2>1, <2>2, <2>3
<1>3. ASSUME NEW e \in Elapsed, AdvanceOneShot(e) PROVE Goal
  <2> DEFINE t == Moved(e)
             d == e * Abs(Speed)
             x == Abs(t - time')
  <2>1. Move(e) /\ pc' = pc
    BY <1>3 DEF AdvanceOneShot
  <2>2. /\ e \in Nat /\ t \in Int /\ time \in Start .. End
        /\ heading' = 1 => t >= time
        /\ heading' = -1 => t <= time
    BY <1>0, <2>1, MoveGoesAhead DEF Move
  <2>3. d \in Nat /\ t - time \in {d, -d}
    BY <1>0, <2>2, LengthOfMove
  <2>4. /\ time' = IF heading' = 1 /\ t > End THEN End
                   ELSE IF heading' = -1 /\ t < Start THEN Start ELSE t
        /\ spilled' = 0 \/ spilled' = sense * x
    BY <1>3 DEF AdvanceOneShot, Spill
  <2> HIDE DEF t, d
  <2>5. x \in Int /\ 0 <= x /\ x <= d
    BY <1>0, <2>2, <2>3, <2>4 DEF Abs
  <2> HIDE DEF x
  <2> QED
    BY <1>2, <2>1, <2>4, <2>5 DEF d
<1>4. ASSUME NEW e \in Elapsed, AdvanceLoop(e) PROVE Goal
  <2> DEFINE t == Moved(e)
             d == e * Abs(Speed)
             over == heading' = 1 /\ t >= End
             under == heading' = -1 /\ t <= Start
             rest == IF over THEN Remainder(t - Start) ELSE Remainder(Start - t)
  <2>1. Move(e) /\ pc' = pc
    BY <1>4 DEF AdvanceLoop
  <2>2. /\ e \in Nat /\ t \in Int /\ time \in Start .. End
        /\ heading' = 1 => t >= time
        /\ heading' = -1 => t <= time
    BY <1>0, <2>1, MoveGoesAhead DEF Move
  <2>3. d \in Nat /\ t - time \in {d, -d}
    BY <1>0, <2>2, LengthOfMove
  <2>4. \/ over /\ spilled' = sense * rest
        \/ under /\ spilled' = sense * rest
        \/ spilled' = 0
    BY <1>4 DEF AdvanceLoop, Spill
  <2> HIDE DEF t, d
  <2>5. CASE over
    <3>1. rest = Remainder(t - Start)
      BY <2>5
    <3>2. t - Start \in Int /\ t - Start >= range
      BY <1>0, <2>2, <2>5 DEF range
    <3>3. rest \in 0 .. range - 1 /\ range > 0 /\ range \in Int
      BY <3>1, <3>2, RemainderIsWithin
    <3>4. rest <= t - Start - range
      BY <3>1, <3>2, <3>3, RemainderIsLess DEF Remainder
    <3>5. rest \in Int /\ 0 <= rest /\ rest <= d
      BY <1>0, <2>2, <2>3, <2>5, <3>3, <3>4 DEF range
    <3> HIDE DEF rest
    <3> QED
      BY <1>2, <2>1, <2>4, <2>5, <3>5 DEF d
  <2>6. CASE ~over /\ under
    <3>1. rest = Remainder(Start - t)
      BY <2>6
    <3>2. Start - t \in Int /\ Start - t >= 0
      BY <1>0, <2>2, <2>6
    <3>3. rest \in 0 .. range - 1 /\ range > 0 /\ range \in Int
      BY <3>1, <3>2, RemainderIsWithin
    <3>4. rest <= Start - t
      BY <3>1, <3>2, RemainderIsLess DEF Remainder
    <3>5. rest \in Int /\ 0 <= rest /\ rest <= d
      BY <1>0, <2>2, <2>3, <2>6, <3>3, <3>4 DEF range
    <3> HIDE DEF rest
    <3> QED
      BY <1>2, <2>1, <2>4, <2>6, <3>5 DEF d
  <2>7. CASE ~over /\ ~under
    <3>1. spilled' = 0 /\ 0 \in Int /\ 0 <= 0 /\ 0 <= d
      BY <2>3, <2>4, <2>7
    <3> QED
      BY <1>2, <2>1, <3>1 DEF d
  <2> QED
    BY <2>5, <2>6, <2>7
<1>5. ASSUME NEW e \in Elapsed, AdvancePingPong(e) PROVE Goal
  BY <1>5 DEF AdvancePingPong, Move
<1>6. ASSUME WhileLoop PROVE Goal
  BY <1>0, <1>6 DEF WhileLoop, Bounce, Settle
<1>7. ASSUME ClearSpilledTime PROVE Goal
  <2>1. asked * Abs(Speed) \in Nat
    BY <1>0, LengthOfMove DEF TypeOK
  <2>2. spilled' = 0 /\ asked' = asked /\ sense' = sense /\ pc' = "idle"
    BY <1>7 DEF ClearSpilledTime
  <2> QED
    BY <1>0, <2>1, <2>2 DEF TypeOK
<1>8. ASSUME \/ \E value \in Start .. End : Seek(value)
             \/ \E dir \in {1, -1} : SetDirection(dir)
             \/ \E value \in {"oneShot", "loop", "pingPong"} : SetLoop(value)
             \/ \E multiplier \in {1, -1} : Reset(multiplier)
             \/ UNCHANGED vars
      PROVE  Goal
  <2>1. /\ pc' = pc /\ sense' = sense /\ spilled' = spilled /\ asked' = asked
        /\ past' # "bounced" => past # "bounced"
    BY <1>8 DEF Seek, SetDirection, SetLoop, Reset, Mixed, vars
  <2> QED
    BY <1>0, <2>1
<1>10. Goal
  BY <1>1, <1>3, <1>4, <1>5, <1>6, <1>7, <1>8 DEF Next
<1> QED
  BY <1>0, <1>10 DEF SpillInv, SpillWithinElapsed

(* But for the advances of a pingPong, no advance spills more time than it *)
(* was given, for every speed, loop and length of advance and whatever the *)
(* host calls between: a state machine that hands spilled time on does not *)
(* make time up.                                                           *)
THEOREM SpillsNoMoreThanGiven == Spec => []SpillWithinElapsed
<1>1. Init => SpillInv
  BY SpillInit
<1>2. SpillInv /\ [Next]_vars => SpillInv'
  BY SpillStep
<1>3. SpillInv => SpillWithinElapsed
  BY DEF SpillInv
<1> QED
  BY <1>1, <1>2, <1>3, PTL DEF Spec

-----------------------------------------------------------------------------
(* The total time.                                                         *)

(* A seek counts frames: there is no work area, or one frame per second.   *)
SeekCountsFrames == "seek" \in Controls => Start * Fps * Fps = Start

Multiple(x, m) == \E k \in Int : x = k * m

(* How the place of the playhead, as an offset, goes with the total time.  *)
(* Inside pingPong's loop it may be beyond an edge.                        *)
Follows ==
  \/ loop = "oneShot" /\ direction = 1 /\ total \in Nat /\ Offset(time) = Low(total, range)
  \/ loop = "loop" /\ direction = 1 /\ Multiple(total - Offset(time), range)
  \/ loop = "pingPong" /\ Multiple(total - direction * Offset(time), 2 * range)

FollowInv ==
  /\ IInv
  /\ pc = "bounce" => loop = "pingPong"
  /\ ~steered => Follows

LEMMA MultiplesAdd ==
  ASSUME NEW m \in Int, NEW x, NEW y, Multiple(x, m), Multiple(y, m)
  PROVE  Multiple(x + y, m) /\ Multiple(-x, m) /\ Multiple(x - y, m)
<1>1. PICK k \in Int : x = k * m
  BY DEF Multiple
<1>2. PICK l \in Int : y = l * m
  BY DEF Multiple
<1>3. x + y = (k + l) * m /\ -x = (-k) * m /\ x - y = (k - l) * m
  BY <1>1, <1>2
<1>4. k + l \in Int /\ -k \in Int /\ k - l \in Int
  OBVIOUS
<1> QED
  BY <1>3, <1>4 DEF Multiple

(* Modulo m a number is the one below m that differs by a multiple.        *)
LEMMA RestOf ==
  ASSUME NEW m \in Int, m > 0, NEW x \in Int
  PROVE  /\ x % m \in 0 .. m - 1
         /\ Multiple(x - (x % m), m)
         /\ \A y \in 0 .. m - 1 : Multiple(x - y, m) => x % m = y
<1>1. x % m \in 0 .. m - 1
  OBVIOUS
<1>2. x = m * (x \div m) + (x % m) /\ x \div m \in Int
  OBVIOUS
<1>3. Multiple(x - (x % m), m)
  <2>1. x - (x % m) = (x \div m) * m
    BY <1>1, <1>2
  <2> QED
    BY <1>2, <2>1 DEF Multiple
<1>4. ASSUME NEW y \in 0 .. m - 1, Multiple(x - y, m)
      PROVE  x % m = y
  <2>1. Multiple((x - (x % m)) - (x - y), m)
    BY <1>3, <1>4, MultiplesAdd
  <2>2. (x - (x % m)) - (x - y) = y - (x % m)
    BY <1>1
  <2>3. PICK k \in Int : y - (x % m) = k * m
    BY <2>1, <2>2 DEF Multiple
  <2>4. y - (x % m) < m /\ y - (x % m) > -m
    BY <1>1
  <2>5. k = 0 \/ k >= 1 \/ k <= -1
    OBVIOUS
  <2>6. k >= 1 => k * m >= m
    BY <2>3
  <2>7. k <= -1 => k * m <= -m
    BY <2>3
  <2>8. k = 0
    BY <2>3, <2>4, <2>5, <2>6, <2>7
  <2> QED
    BY <1>1, <2>3, <2>8
<1> QED
  BY <1>1, <1>3, <1>4

LEMMA NoRest ==
  ASSUME NEW m \in Int, m > 0, NEW x \in Int, Multiple(x, m)
  PROVE  x % m = 0
<1>1. \A y \in 0 .. m - 1 : Multiple(x - y, m) => x % m = y
  BY RestOf
<1>2. 0 \in 0 .. m - 1 /\ x - 0 = x
  OBVIOUS
<1>3. Multiple(x - 0, m) => x % m = 0
  BY <1>1, <1>2
<1> QED
  BY <1>2, <1>3

LEMMA Lap == range \in Nat /\ range > 0 /\ Start \in Int /\ End \in Int /\ End = Start + range
BY PlaybackAssumption DEF range

(* The playhead starts at the edge it moves away from.                     *)
LEMMA FirstEdge ==
  ASSUME TypeOK
  PROVE  /\ FirstTime(sense) \in {Start, End}
         /\ FirstTime(sense) = Start => sense * Speed = Abs(Speed)
         /\ FirstTime(sense) # Start => sense * Speed = -Abs(Speed)
<1>1. Speed \in Int /\ Start \in Int /\ End \in Int /\ Start < End
  BY PlaybackAssumption
<1>2. CASE Speed >= 0
  BY <1>1, <1>2 DEF TypeOK, FirstTime, StartTime, Abs
<1>3. CASE Speed < 0
  BY <1>1, <1>3 DEF TypeOK, FirstTime, StartTime, Abs
<1> QED
  BY <1>1, <1>2, <1>3

LEMMA OffsetIs ==
  ASSUME NEW t \in Int
  PROVE  /\ Offset(t) \in Int
         /\ t \in Start .. End <=> Offset(t) \in 0 .. range
         /\ FirstTime(sense) = Start => Offset(t) = t - Start
         /\ FirstTime(sense) # Start => Offset(t) = End - t
BY Lap DEF Offset

(* In offsets an advance goes forward by the time it is given, or back.    *)
LEMMA OffsetMoves ==
  ASSUME TypeOK, NEW e \in Nat
  PROVE  /\ e * Abs(Speed) \in Nat
         /\ Moved(e) \in Int
         /\ Offset(Moved(e)) = Offset(time) + direction * (e * Abs(Speed))
         /\ Speed # 0 => Heading = IF FirstTime(sense) = Start THEN direction ELSE -direction
<1> DEFINE a == Abs(Speed)
           x == sense * Speed * direction
<1>1. Speed \in Int /\ a \in Nat /\ (Speed # 0 => a > 0)
  BY PlaybackAssumption DEF Abs
<1>2. time \in Int /\ sense \in {1, -1} /\ direction \in {1, -1}
  BY DEF TypeOK
<1>3. x = IF FirstTime(sense) = Start THEN direction * a ELSE -(direction * a)
  BY <1>1, <1>2, FirstEdge
<1>4. Moved(e) = time + e * x /\ e * x \in Int
  BY MovedBy
<1>5. e * a \in Nat
  BY <1>1
<1>6. e * x = IF FirstTime(sense) = Start THEN direction * (e * a) ELSE -(direction * (e * a))
  <2> HIDE DEF a, x
  <2>1. direction = 1 => e * (direction * a) = e * a
    BY <1>1, <1>5
  <2>2. direction = -1 => e * (direction * a) = -(e * a)
    BY <1>1, <1>5
  <2>3. e * (direction * a) = direction * (e * a) /\ e * (-(direction * a)) = -(direction * (e * a))
    BY <1>1, <1>2, <1>5, <2>1, <2>2
  <2> QED
    BY <1>3, <2>3
<1>7. Heading = IF x < 0 THEN -1 ELSE 1
  BY DEF Heading
<1> HIDE DEF a, x
<1>8. Speed # 0 => Heading = IF FirstTime(sense) = Start THEN direction ELSE -direction
  BY <1>1, <1>2, <1>3, <1>7
<1>9. Moved(e) \in Int
  BY <1>2, <1>4
<1>10. Offset(Moved(e)) = Offset(time) + direction * (e * a)
  <2>1. CASE FirstTime(sense) = Start
    BY <1>2, <1>4, <1>5, <1>6, <1>9, <2>1, Lap, OffsetIs
  <2>2. CASE FirstTime(sense) # Start
    BY <1>2, <1>4, <1>5, <1>6, <1>9, <2>2, Lap, OffsetIs
  <2> QED
    BY <2>1, <2>2
<1> QED
  BY <1>5, <1>8, <1>9, <1>10 DEF a

LEMMA FollowInit == Init => FollowInv
<1> SUFFICES ASSUME Init PROVE FollowInv
  OBVIOUS
<1>1. IInv /\ TypeOK
  BY InitHolds DEF IInv
<1>2. /\ time = FirstTime(sense) /\ direction = 1 /\ total = 0 /\ pc = "idle"
      /\ loop \in {"oneShot", "loop", "pingPong"}
  BY PlaybackAssumption DEF Init
<1>3. Offset(time) = 0
  BY <1>1, <1>2, FirstEdge, Lap DEF Offset
<1>4. Multiple(0, range) /\ Multiple(0, 2 * range)
  <2>1. 0 \in Int /\ 0 = 0 * range /\ 0 = 0 * (2 * range)
    BY Lap
  <2> QED
    BY <2>1 DEF Multiple
<1>5. Follows
  BY <1>2, <1>3, <1>4, Lap DEF Follows, Low
<1> QED
  BY <1>1, <1>2, <1>5 DEF FollowInv

(* A oneShot goes on to its last edge and stops there.                     *)
LEMMA OneShotFollows ==
  ASSUME FollowInv, Follows, NEW e \in Elapsed, AdvanceOneShot(e)
  PROVE  Follows'
<1> DEFINE d == e * Abs(Speed)
           t == Moved(e)
<1>1. TypeOK /\ e \in Nat /\ Move(e) /\ Speed # 0 /\ time \in Start .. End
  <2>1. Speed \in Int /\ e \in Nat
    BY PlaybackAssumption
  <2>2. e * Speed # 0 /\ Move(e) /\ pc = "idle"
    BY DEF AdvanceOneShot, Move
  <2>3. Speed # 0
    BY <2>1, <2>2
  <2> QED
    BY <2>1, <2>2, <2>3 DEF FollowInv, IInv, InRange
<1>2. loop = "oneShot" /\ direction = 1 /\ total \in Nat /\ Offset(time) = Low(total, range)
  BY DEF AdvanceOneShot, Follows
<1>3. /\ d \in Nat /\ t \in Int
      /\ Offset(t) = Offset(time) + d
      /\ Heading = IF FirstTime(sense) = Start THEN 1 ELSE -1
  BY <1>1, <1>2, OffsetMoves
<1>4. /\ loop' = loop /\ direction' = direction /\ sense' = sense /\ heading' = Heading
      /\ total' = total + d
      /\ time' = IF heading' = 1 /\ t > End THEN End ELSE IF heading' = -1 /\ t < Start THEN Start ELSE t
  BY DEF AdvanceOneShot, Move
<1> HIDE DEF d, t
<1>5. time' \in Int
  BY <1>3, <1>4, Lap
<1>6. Offset(time)' = Offset(time')
  BY <1>4 DEF Offset
<1>7. Offset(time') = Low(total + d, range)
  <2>1. Offset(time) \in 0 .. range
    BY <1>1, <1>2, Lap, OffsetIs DEF TypeOK
  <2>2. CASE FirstTime(sense) = Start
    <3>1. Offset(t) = t - Start /\ Offset(time') = time' - Start
      BY <1>3, <1>5, <2>2, OffsetIs
    <3> QED
      BY <1>2, <1>3, <1>4, <2>1, <2>2, <3>1, Lap DEF Low
  <2>3. CASE FirstTime(sense) # Start
    <3>1. Offset(t) = End - t /\ Offset(time') = End - time'
      BY <1>3, <1>5, <2>3, OffsetIs
    <3> QED
      BY <1>2, <1>3, <1>4, <2>1, <2>3, <3>1, Lap DEF Low
  <2> QED
    BY <2>2, <2>3
<1> QED
  BY <1>2, <1>3, <1>4, <1>6, <1>7 DEF Follows

(* A loop drops whole laps.                                                *)
LEMMA LoopFollows ==
  ASSUME FollowInv, Follows, NEW e \in Elapsed, AdvanceLoop(e)
  PROVE  /\ Follows'
         /\ Offset(time') \in 0 .. range - 1
<1> DEFINE d == e * Abs(Speed)
           t == Moved(e)
           over == heading' = 1 /\ t >= End
           under == heading' = -1 /\ t <= Start
<1>1. TypeOK /\ e \in Nat /\ Move(e) /\ Speed # 0 /\ time \in Start .. End
  <2>1. Speed \in Int /\ e \in Nat
    BY PlaybackAssumption
  <2>2. e * Speed # 0 /\ Move(e) /\ pc = "idle"
    BY DEF AdvanceLoop, Move
  <2>3. Speed # 0
    BY <2>1, <2>2
  <2> QED
    BY <2>1, <2>2, <2>3 DEF FollowInv, IInv, InRange
<1>2. loop = "loop" /\ direction = 1 /\ total \in Int /\ Multiple(total - Offset(time), range)
  BY <1>1 DEF AdvanceLoop, Follows, TypeOK
<1>3. /\ d \in Nat /\ t \in Int
      /\ Offset(t) = Offset(time) + d
      /\ Heading = IF FirstTime(sense) = Start THEN 1 ELSE -1
  BY <1>1, <1>2, OffsetMoves
<1>4. /\ loop' = loop /\ direction' = direction /\ sense' = sense /\ heading' = Heading
      /\ total' = total + d
      /\ \/ over /\ time' = Start + Remainder(t - Start)
         \/ ~over /\ under /\ time' = End - Remainder(Start - t)
         \/ ~over /\ ~under /\ time' = t
  <2>1. /\ loop' = loop /\ direction' = direction /\ sense' = sense /\ heading' = Heading
        /\ total' = total + d
    BY DEF AdvanceLoop, Move
  <2>2. \/ over /\ time' = Start + Remainder(t - Start)
        \/ under /\ time' = End - (IF over THEN Remainder(t - Start) ELSE Remainder(Start - t))
        \/ ~over /\ ~under /\ time' = t
    BY DEF AdvanceLoop
  <2>3. over => ~under
    OBVIOUS
  <2> HIDE DEF d, t, over, under
  <2> QED
    BY <2>1, <2>2, <2>3
<1>5. Offset(time)' = Offset(time')
  BY <1>4 DEF Offset
<1> HIDE DEF d, t
<1>6. Offset(time) \in 0 .. range
  BY <1>1, Lap, OffsetIs DEF TypeOK
<1>7. /\ time' \in Int
      /\ Offset(time') \in 0 .. range - 1
      /\ Multiple(Offset(t) - Offset(time'), range)
  <2>1. CASE FirstTime(sense) = Start
    <3>1. heading' = 1 /\ Offset(t) = t - Start
      BY <1>3, <1>4, <2>1, OffsetIs
    <3>2. CASE over
      <4>1. t - Start \in Int /\ time' = Start + ((t - Start) % range)
        BY <1>3, <1>4, <3>2, Lap DEF Remainder
      <4>2. (t - Start) % range \in 0 .. range - 1 /\ Multiple((t - Start) - ((t - Start) % range), range)
        BY <4>1, Lap, RestOf
      <4>3. time' \in Int
        BY <4>1, <4>2, Lap
      <4>4. Offset(time') = (t - Start) % range
        BY <2>1, <4>1, <4>2, <4>3, OffsetIs, Lap
      <4> QED
        BY <3>1, <4>2, <4>3, <4>4
    <3>3. CASE ~over
      <4>1. time' = t /\ t < End
        BY <1>3, <1>4, <3>1, <3>3, Lap
      <4>2. Offset(t) \in 0 .. range - 1
        BY <1>3, <1>6, <3>1, <4>1, Lap
      <4>3. Offset(t) - Offset(time') = 0 * range
        BY <4>1, <4>2, Lap
      <4> QED
        BY <1>3, <4>1, <4>2, <4>3 DEF Multiple
    <3> QED
      BY <3>2, <3>3
  <2>2. CASE FirstTime(sense) # Start
    <3>1. heading' = -1 /\ Offset(t) = End - t
      BY <1>3, <1>4, <2>2, OffsetIs
    <3>2. CASE under
      <4>1. Start - t \in Int /\ time' = End - ((Start - t) % range)
        BY <1>3, <1>4, <3>1, <3>2, Lap DEF Remainder
      <4>2. (Start - t) % range \in 0 .. range - 1 /\ Multiple((Start - t) - ((Start - t) % range), range)
        BY <4>1, Lap, RestOf
      <4>3. time' \in Int
        BY <4>1, <4>2, Lap
      <4>4. Offset(time') = (Start - t) % range
        BY <2>2, <4>1, <4>2, <4>3, OffsetIs, Lap
      <4>5. Multiple(range, range)
        <5>1. 1 \in Int /\ range = 1 * range
          BY Lap
        <5> QED
          BY <5>1 DEF Multiple
      <4>6. Multiple(((Start - t) - ((Start - t) % range)) + range, range)
        BY <4>2, <4>5, Lap, MultiplesAdd
      <4>7. ((Start - t) - ((Start - t) % range)) + range = Offset(t) - Offset(time')
        BY <1>3, <3>1, <4>2, <4>4, Lap
      <4> QED
        BY <4>2, <4>3, <4>4, <4>6, <4>7
    <3>3. CASE ~under
      <4>1. time' = t /\ t > Start
        BY <1>3, <1>4, <3>1, <3>3, Lap
      <4>2. Offset(t) \in 0 .. range - 1
        BY <1>3, <1>6, <3>1, <4>1, Lap
      <4>3. Offset(t) - Offset(time') = 0 * range
        BY <4>1, <4>2, Lap
      <4> QED
        BY <1>3, <4>1, <4>2, <4>3 DEF Multiple
    <3> QED
      BY <3>2, <3>3
  <2> QED
    BY <2>1, <2>2
<1>8. Multiple(total' - Offset(time'), range)
  <2>1. Multiple((total - Offset(time)) + (Offset(t) - Offset(time')), range)
    BY <1>2, <1>7, Lap, MultiplesAdd
  <2>2. (total - Offset(time)) + (Offset(t) - Offset(time')) = total' - Offset(time')
    BY <1>2, <1>3, <1>4, <1>6, <1>7
  <2> QED
    BY <2>1, <2>2
<1> QED
  BY <1>2, <1>4, <1>5, <1>7, <1>8 DEF Follows

(* A pingPong goes on beyond the edge,                                     *)
LEMMA PingPongFollows ==
  ASSUME FollowInv, Follows, NEW e \in Elapsed, AdvancePingPong(e)
  PROVE  Follows'
<1> DEFINE d == e * Abs(Speed)
           t == Moved(e)
<1>1. TypeOK /\ e \in Nat /\ Move(e)
  BY PlaybackAssumption DEF AdvancePingPong, FollowInv, IInv
<1>2. loop = "pingPong" /\ Multiple(total - direction * Offset(time), 2 * range)
  BY DEF AdvancePingPong, Follows
<1>3. direction \in {1, -1} /\ total \in Int /\ Offset(time) \in Int
  BY <1>1, OffsetIs DEF TypeOK
<1>4. d \in Nat /\ t \in Int /\ Offset(t) = Offset(time) + direction * d
  BY <1>1, OffsetMoves
<1>5. /\ loop' = loop /\ direction' = direction /\ sense' = sense
      /\ total' = total + d /\ time' = t
  BY DEF AdvancePingPong, Move
<1>6. Offset(time)' = Offset(t)
  BY <1>5 DEF Offset
<1> HIDE DEF d, t
<1>7. total' - direction * Offset(t) = total - direction * Offset(time)
  BY <1>3, <1>4, <1>5
<1> QED
  BY <1>2, <1>5, <1>6, <1>7 DEF Follows

(* and is turned back at it.                                               *)
LEMMA BounceFollows ==
  ASSUME FollowInv, Follows, Bounce
  PROVE  Follows'
<1> DEFINE edge == IF time >= End THEN End ELSE Start
<1>1. TypeOK /\ loop = "pingPong" /\ Multiple(total - direction * Offset(time), 2 * range)
  BY DEF Bounce, Follows, FollowInv, IInv
<1>2. direction \in {1, -1} /\ total \in Int /\ time \in Int /\ Offset(time) \in Int
  BY <1>1, OffsetIs DEF TypeOK
<1>3. /\ loop' = loop /\ sense' = sense /\ total' = total
      /\ direction' = -direction /\ time' = edge + (edge - time)
  BY DEF Bounce, Reflect
<1>4. time' \in Int /\ Offset(time)' = Offset(time')
  BY <1>2, <1>3, Lap DEF Offset
<1>5. Offset(time') \in {-Offset(time), 2 * range - Offset(time)}
  BY <1>2, <1>3, <1>4, Lap, OffsetIs
<1>6. Multiple(2 * range, 2 * range) /\ 2 * range \in Int
  <2>1. 1 \in Int /\ 2 * range = 1 * (2 * range) /\ 2 * range \in Int
    BY Lap
  <2> QED
    BY <2>1 DEF Multiple
<1> DEFINE x == total - direction * Offset(time)
           y == total' - direction' * Offset(time')
<1>7. y \in {x, x + 2 * range, x - 2 * range}
  BY <1>2, <1>3, <1>5, Lap
<1>8. Multiple(x, 2 * range)
  BY <1>1
<1> HIDE DEF x, y
<1>9. Multiple(y, 2 * range)
  BY <1>6, <1>7, <1>8, MultiplesAdd
<1> QED
  BY <1>1, <1>3, <1>4, <1>9 DEF Follows, y

(* A seek counts the total from the first frame.                           *)
LEMMA SeekFollows ==
  ASSUME SeekCountsFrames, FollowInv, NEW value \in Start .. End, Seek(value), ~steered'
  PROVE  Follows'
<1>1. /\ TypeOK /\ FirstTime(sense) = Start /\ loop' = loop /\ sense' = sense
      /\ time' = value /\ direction' = 1 /\ total' = value - Start
  BY DEF Seek, FollowInv, IInv, SeekCountsFrames
<1>2. Offset(time)' = total' /\ total' \in 0 .. range
  BY <1>1, Lap DEF Offset
<1>3. total' - Offset(time)' = 0 * range /\ total' - direction' * Offset(time)' = 0 * (2 * range)
  BY <1>1, <1>2, Lap
<1>4. Multiple(total' - Offset(time)', range)
      /\ Multiple(total' - direction' * Offset(time)', 2 * range)
  BY <1>3 DEF Multiple
<1>5. total' \in Nat /\ Offset(time)' = Low(total', range)
  BY <1>2, Lap DEF Low
<1> QED
  BY <1>1, <1>4, <1>5 DEF Follows, TypeOK

LEMMA FollowStep ==
  ASSUME SeekCountsFrames, FollowInv, [Next]_vars
  PROVE  FollowInv'
<1>1. IInv'
  BY StepHolds DEF FollowInv
<1>2. pc' = "bounce" => loop' = "pingPong"
  BY DEF FollowInv, Next, WhileLoop, AdvanceByNothing, AdvanceOneShot, AdvanceLoop,
         AdvancePingPong, Move, Bounce, Settle, Seek, SetDirection, SetLoop, Reset,
         ClearSpilledTime, vars
<1>3. ASSUME ~steered' PROVE Follows'
  <2> USE <1>3
  <2>1. ASSUME UNCHANGED <<loop, sense, time, direction, total, steered>> PROVE Follows'
    <3>1. Follows /\ Offset(time)' = Offset(time)
      BY <2>1 DEF FollowInv, Offset
    <3> QED
      BY <2>1, <3>1 DEF Follows
  <2>2. ASSUME NEW e \in Elapsed, AdvanceByNothing(e) PROVE Follows'
    BY <2>1, <2>2 DEF AdvanceByNothing
  <2>3. ASSUME NEW e \in Elapsed, AdvanceOneShot(e) PROVE Follows'
    <3>1. Follows
      BY <2>3 DEF AdvanceOneShot, Move, FollowInv
    <3> QED
      BY <2>3, <3>1, OneShotFollows
  <2>4. ASSUME NEW e \in Elapsed, AdvanceLoop(e) PROVE Follows'
    <3>1. Follows
      BY <2>4 DEF AdvanceLoop, Move, FollowInv
    <3> QED
      BY <2>4, <3>1, LoopFollows
  <2>5. ASSUME NEW e \in Elapsed, AdvancePingPong(e) PROVE Follows'
    <3>1. Follows
      BY <2>5 DEF AdvancePingPong, Move, FollowInv
    <3> QED
      BY <2>5, <3>1, PingPongFollows
  <2>6. CASE Bounce
    <3>1. Follows
      BY <2>6 DEF Bounce, FollowInv
    <3> QED
      BY <2>6, <3>1, BounceFollows
  <2>7. CASE Settle \/ ClearSpilledTime \/ UNCHANGED vars
    BY <2>1, <2>7 DEF Settle, ClearSpilledTime, vars
  <2>8. ASSUME NEW value \in Start .. End, Seek(value) PROVE Follows'
    BY <2>8, SeekFollows
  <2>9. CASE \/ \E d \in {1, -1} : SetDirection(d)
             \/ \E value \in {"oneShot", "loop", "pingPong"} : SetLoop(value)
             \/ \E multiplier \in {1, -1} : Reset(multiplier)
    BY <2>9 DEF SetDirection, SetLoop, Reset
  <2> QED
    BY <2>2, <2>3, <2>4, <2>5, <2>6, <2>7, <2>8, <2>9 DEF Next, WhileLoop
<1> QED
  BY <1>1, <1>2, <1>3 DEF FollowInv

(* Between calls, what follows the total is where the total says.          *)
LEMMA FollowsIsLocal ==
  ASSUME FollowInv, Follows, pc = "idle"
  PROVE  \/ Offset(time) = LocalOf(total)
         \/ loop = "loop" /\ Offset(time) = range /\ LocalOf(total) = 0
<1> DEFINE o == Offset(time)
<1>1. TypeOK /\ total \in Int /\ direction \in {1, -1} /\ o \in 0 .. range
  BY Lap, OffsetIs DEF FollowInv, IInv, InRange, TypeOK
<1> HIDE DEF o
<1>2. CASE loop = "oneShot"
  BY <1>2 DEF Follows, LocalOf, o
<1>3. CASE loop = "loop"
  <2>1. Multiple(total - o, range) /\ LocalOf(total) = total % range
    BY <1>3 DEF Follows, LocalOf, o
  <2>2. CASE o # range
    <3>1. o \in 0 .. range - 1
      BY <1>1, <2>2, Lap
    <3>2. total % range = o
      BY <1>1, <2>1, <3>1, Lap, RestOf
    <3> QED
      BY <2>1, <3>2 DEF o
  <2>3. CASE o = range
    <3>1. Multiple(range, range)
      <4>1. 1 \in Int /\ range = 1 * range
        BY Lap
      <4> QED
        BY <4>1 DEF Multiple
    <3>2. Multiple((total - o) + range, range)
      BY <2>1, <3>1, Lap, MultiplesAdd
    <3>3. (total - o) + range = total
      BY <1>1, <2>3, Lap
    <3>4. Multiple(total, range) /\ total % range \in 0 .. range - 1
      BY <1>1, <3>2, <3>3, Lap, RestOf
    <3>5. total % range = 0
      BY <1>1, <3>4, Lap, NoRest
    <3> QED
      BY <1>3, <2>1, <2>3, <3>5 DEF o
  <2> QED
    BY <2>2, <2>3
<1>4. CASE loop = "pingPong"
  <2> DEFINE m == total % (2 * range)
  <2>1. Multiple(total - direction * o, 2 * range) /\ LocalOf(total) = Low(m, 2 * range - m)
    BY <1>4 DEF Follows, LocalOf, o
  <2>2. 2 * range \in Int /\ 2 * range > 0
    BY Lap
  <2>3. CASE direction = 1 \/ o = 0
    <3>1. direction * o = o /\ o \in 0 .. 2 * range - 1
      BY <1>1, <2>3, Lap
    <3>2. m = o
      BY <1>1, <2>1, <2>2, <3>1, RestOf
    <3> HIDE DEF m
    <3> QED
      BY <1>1, <2>1, <3>2, Lap DEF Low, o
  <2>4. CASE direction = -1 /\ o # 0
    <3>1. Multiple(2 * range, 2 * range)
      <4>1. 1 \in Int /\ 2 * range = 1 * (2 * range)
        BY Lap
      <4> QED
        BY <4>1 DEF Multiple
    <3>2. Multiple((total - direction * o) - 2 * range, 2 * range)
      BY <2>1, <2>2, <3>1, MultiplesAdd
    <3>3. (total - direction * o) - 2 * range = total - (2 * range - o) /\ 2 * range - o \in 0 .. 2 * range - 1
      BY <1>1, <2>4, Lap
    <3>4. m = 2 * range - o
      BY <1>1, <2>2, <3>2, <3>3, RestOf
    <3> HIDE DEF m
    <3> QED
      BY <1>1, <2>1, <3>4, Lap DEF Low, o
  <2> QED
    BY <1>1, <2>3, <2>4
<1> QED
  BY <1>1, <1>2, <1>3, <1>4 DEF TypeOK

(* The playhead never drifts, for any animation, speed and lengths of      *)
(* advances.  With a work area and more than one frame per second a seek   *)
(* counts the total wrongly, so the theorem is about the others.           *)
THEOREM NeverDrifts == ASSUME SeekCountsFrames PROVE Spec => []TimeFollowsTotal
<1>1. FollowInv => TimeFollowsTotal
  BY FollowsIsLocal DEF TimeFollowsTotal, FollowInv
<1>2. FollowInv /\ [Next]_vars => FollowInv'
  BY FollowStep
<1> QED
  BY <1>1, <1>2, FollowInit, PTL DEF Spec

-----------------------------------------------------------------------------
(* Keyed callbacks.                                                        *)

LEMMA FramesAre ==
  /\ Len(Frames) \in Nat /\ Len(Frames) > 0 /\ DOMAIN Frames = 1 .. Len(Frames)
  /\ \A k \in 1 .. Len(Frames) : Frames[k] \in Nat
BY PlaybackAssumption

(* Keyframes are in order.                                                 *)
LEMMA FramesIncrease ==
  ASSUME NEW j \in DOMAIN Frames, NEW k \in DOMAIN Frames, j < k
  PROVE  Frames[j] < Frames[k]
<1> DEFINE n == Len(Frames)
           N == n - j
           M == {m \in 0 .. N : m = 0 \/ Frames[j] < Frames[j + m]}
<1>0. n \in Nat /\ j \in 1 .. n /\ k \in 1 .. n /\ \A l \in 1 .. n : Frames[l] \in Nat
  BY FramesAre
<1> HIDE DEF n
<1>1. N \in Nat /\ k - j \in 0 .. N /\ k - j # 0 /\ j + (k - j) = k
  BY <1>0
<1>2. 0 \in M
  BY <1>1
<1>3. ASSUME NEW m \in 0 .. N - 1, m \in M
      PROVE  m + 1 \in M
  <2>1. j + m \in 1 .. n - 1 /\ (j + m) + 1 = j + (m + 1) /\ m + 1 \in 0 .. N
        /\ j + m \in 1 .. n /\ j + (m + 1) \in 1 .. n
    BY <1>0
  <2>2. Frames[j + m] < Frames[j + (m + 1)]
    <3>1. \A l \in 1 .. n - 1 : Frames[l] < Frames[l + 1]
      BY PlaybackAssumption DEF n
    <3> QED
      BY <2>1, <3>1
  <2>3. Frames[j] \in Nat /\ Frames[j + m] \in Nat /\ Frames[j + (m + 1)] \in Nat
    BY <1>0, <2>1
  <2>4. Frames[j] <= Frames[j + m]
    <3>1. CASE m = 0
      <4>1. j + m = j
        BY <1>0, <3>1
      <4> QED
        BY <2>3, <4>1
    <3>2. CASE m # 0
      BY <1>3, <2>3, <3>2
    <3> QED
      BY <3>1, <3>2
  <2>5. Frames[j] < Frames[j + (m + 1)]
    BY <2>1, <2>2, <2>3, <2>4
  <2> QED
    BY <2>1, <2>5
<1>4. 0 .. N \subseteq M
  <2> HIDE DEF M, N
  <2> QED
    BY <1>1, <1>2, <1>3, BoundedInduction
<1>5. k - j \in M
  BY <1>1, <1>4
<1> QED
  BY <1>1, <1>5

(* So many keyframes are before t.                                         *)
Before(t, r) == r \in 0 .. Len(Frames) /\ \A k \in DOMAIN Frames : k <= r <=> Frames[k] < t

LEMMA RankOf ==
  ASSUME NEW t \in Int
  PROVE  \E r : Before(t, r)
<1> DEFINE n == Len(Frames)
           I == {r \in 0 .. n : r = n \/ ~(Frames[r + 1] < t)}
<1>1. n \in Nat /\ n > 0 /\ DOMAIN Frames = 1 .. n /\ \A k \in 1 .. n : Frames[k] \in Nat
  BY FramesAre
<1> HIDE DEF n
<1>2. I \in SUBSET Nat /\ I # {}
  BY <1>1
<1>3. PICK r \in I : \A s \in I : r <= s
  BY <1>2, LeastOf
<1>4. ASSUME NEW k \in 1 .. n, k <= r
      PROVE  Frames[k] < t
  <2>1. k - 1 \in 0 .. n /\ k - 1 < r /\ k - 1 # n /\ (k - 1) + 1 = k
    BY <1>1, <1>2, <1>3, <1>4
  <2>2. k - 1 \notin I
    BY <1>2, <1>3, <2>1
  <2> QED
    BY <2>1, <2>2
<1>5. ASSUME NEW k \in 1 .. n, ~(k <= r)
      PROVE  ~(Frames[k] < t)
  <2>1. r + 1 \in 1 .. n /\ r + 1 <= k /\ ~(Frames[r + 1] < t)
    BY <1>1, <1>2, <1>3, <1>5
  <2>2. Frames[r + 1] <= Frames[k] /\ Frames[k] \in Int /\ Frames[r + 1] \in Int
    BY <1>1, <2>1, FramesIncrease
  <2> QED
    BY <2>1, <2>2
<1>6. r \in 0 .. n
  BY <1>3
<1> HIDE DEF I
<1> QED
  BY <1>1, <1>4, <1>5, <1>6 DEF Before, n

(* The bisection finds it, and one more if a keyframe is hit and that is   *)
(* to count.                                                               *)
LEMMA SearchFinds ==
  ASSUME NEW t \in Int, NEW x \in {0, 1}, NEW r, Before(t, r)
  PROVE  ClosestFrameIndex(t, x) =
           IF r < Len(Frames) /\ Frames[r + 1] = t THEN r + x ELSE r
<1> DEFINE n == Len(Frames)
           P == (0 .. n) \X (-1 .. n - 1)
           hit == r < n /\ Frames[r + 1] = t
           half(p) == (p[1] + p[2]) \div 2
           next(f, p) == LET lo  == p[1]
                             hi  == p[2]
                             mid == (lo + hi) \div 2
                         IN  IF lo > hi THEN lo
                             ELSE IF Frames[mid + 1] < t THEN f[<<mid + 1, hi>>]
                             ELSE IF Frames[mid + 1] > t THEN f[<<lo, mid - 1>>]
                             ELSE mid + x
           Is(f) == f = [p \in P |-> next(f, p)]
           g == CHOOSE f : Is(f)
           found(lo, hi) == IF lo > hi THEN lo
                            ELSE IF hit /\ lo <= r /\ r <= hi THEN r + x
                            ELSE IF r < lo THEN lo
                            ELSE IF r > hi THEN hi + 1
                            ELSE r
           h == [p \in P |-> found(p[1], p[2])]
<1>1. /\ n \in Nat /\ n > 0 /\ DOMAIN Frames = 1 .. n /\ \A k \in 1 .. n : Frames[k] \in Nat
      /\ r \in 0 .. n /\ \A k \in 1 .. n : k <= r <=> Frames[k] < t
  BY FramesAre DEF Before
<1> HIDE DEF n
<1>2. ASSUME NEW p \in P, p[1] <= p[2]
      PROVE  /\ half(p) \in p[1] .. p[2] /\ half(p) + 1 \in 1 .. n
             /\ <<half(p) + 1, p[2]>> \in P /\ <<p[1], half(p) - 1>> \in P
  <2>1. p[1] \in 0 .. n /\ p[2] \in -1 .. n - 1
    OBVIOUS
  <2>2. half(p) \in p[1] .. p[2]
    BY <1>1, <1>2, <2>1
  <2> HIDE DEF half
  <2>3. half(p) + 1 \in 1 .. n /\ half(p) + 1 \in 0 .. n /\ half(p) - 1 \in -1 .. n - 1
    BY <1>1, <2>1, <2>2
  <2> QED
    BY <2>1, <2>2, <2>3
<1>3. ASSUME NEW k \in 1 .. n
      PROVE  /\ Frames[k] < t <=> k <= r
             /\ Frames[k] > t <=> k > r /\ ~(hit /\ k = r + 1)
  <2>1. Frames[k] < t <=> k <= r
    BY <1>1
  <2>2. CASE k <= r
    BY <1>1, <2>1, <2>2
  <2>3. CASE k = r + 1
    BY <1>1, <2>1, <2>3
  <2>4. CASE k > r + 1
    <3> DEFINE j == r + 1
    <3>1. j \in 1 .. n /\ j < k /\ j \in DOMAIN Frames /\ k \in DOMAIN Frames /\ ~(j <= r)
      BY <1>1, <2>4
    <3> HIDE DEF j
    <3>2. Frames[j] < Frames[k] /\ ~(Frames[j] < t)
      BY <1>1, <3>1, FramesIncrease
    <3>3. ~(hit /\ k = r + 1)
      BY <1>1, <2>4
    <3> QED
      BY <1>1, <2>1, <2>4, <3>1, <3>2, <3>3
  <2> QED
    BY <1>1, <2>1, <2>2, <2>3, <2>4
<1>4. ASSUME NEW lo \in 0 .. n, NEW hi \in -1 .. n - 1
      PROVE  <<lo, hi>> \in P /\ h[<<lo, hi>>] = found(lo, hi)
  OBVIOUS
<1> HIDE DEF h, hit
<1>5. ASSUME NEW p \in P
      PROVE  h[p] = next(h, p)
  <2> DEFINE lo == p[1]
             hi == p[2]
             mid == half(p)
  <2>0. lo \in 0 .. n /\ hi \in -1 .. n - 1 /\ p = <<lo, hi>>
    OBVIOUS
  <2>1. h[p] = found(lo, hi)
    BY <1>4, <2>0
  <2>2. CASE lo > hi
    BY <2>1, <2>2
  <2>3. CASE lo <= hi
    <3>1. mid \in lo .. hi /\ mid + 1 \in 0 .. n /\ mid - 1 \in -1 .. n - 1 /\ mid + 1 \in 1 .. n
      <4>1. mid \in lo .. hi /\ mid + 1 \in 1 .. n
        BY <1>2, <2>3
      <4> HIDE DEF mid, lo, hi
      <4> QED
        BY <1>1, <2>0, <4>1
    <3>2. /\ Frames[mid + 1] < t <=> mid + 1 <= r
          /\ Frames[mid + 1] > t <=> mid + 1 > r /\ ~(hit /\ mid + 1 = r + 1)
      BY <1>3, <3>1
    <3>3. h[<<mid + 1, hi>>] = found(mid + 1, hi) /\ h[<<lo, mid - 1>>] = found(lo, mid - 1)
      BY <1>4, <2>0, <3>1
    <3>4. next(h, p) = IF Frames[mid + 1] < t THEN h[<<mid + 1, hi>>]
                       ELSE IF Frames[mid + 1] > t THEN h[<<lo, mid - 1>>]
                       ELSE mid + x
      BY <2>0, <2>3
    <3> HIDE DEF mid, lo, hi
    <3>5. found(lo, hi) = IF mid + 1 <= r THEN found(mid + 1, hi)
                          ELSE IF mid + 1 > r /\ ~(hit /\ mid + 1 = r + 1) THEN found(lo, mid - 1)
                          ELSE mid + x
      BY <1>1, <2>0, <2>3, <3>1
    <3> HIDE DEF found, next
    <3> QED
      BY <2>1, <3>2, <3>3, <3>4, <3>5
  <2> QED
    BY <2>0, <2>2, <2>3
<1> HIDE DEF found
<1>6. \E f : Is(f)
  <2> HIDE DEF next
  <2>1. h = [p \in P |-> h[p]]
    BY DEF h
  <2>2. Is(h)
    BY <1>5, <2>1
  <2> HIDE DEF Is
  <2> QED
    BY <2>2
<1>7. Is(g)
  <2> HIDE DEF Is
  <2> QED
    BY <1>6
<1> HIDE DEF g
<1>8. ASSUME NEW p \in P
      PROVE  g[p] = next(g, p)
  <2> HIDE DEF next
  <2> QED
    BY <1>7
<1> HIDE DEF Is
<1> DEFINE size(p) == p[2] - p[1]
           M == {m \in 0 .. n : \A p \in P : size(p) < m => g[p] = h[p]}
<1>9. 0 \in M
  <2>1. ASSUME NEW p \in P, size(p) < 0
        PROVE  g[p] = h[p]
    <3>1. p[1] > p[2]
      BY <1>1, <2>1
    <3>2. next(g, p) = p[1] /\ next(h, p) = p[1]
      BY <3>1
    <3> QED
      BY <1>5, <1>8, <3>2
  <2> HIDE DEF P, size
  <2> QED
    BY <1>1, <2>1
<1>10. ASSUME NEW m \in 0 .. n - 1, m \in M
       PROVE  m + 1 \in M
  <2>1. ASSUME NEW p \in P, size(p) < m + 1
        PROVE  g[p] = h[p]
    <3>1. CASE p[1] > p[2]
      <4>1. next(g, p) = p[1] /\ next(h, p) = p[1]
        BY <3>1
      <4> QED
        BY <1>5, <1>8, <4>1
    <3>2. CASE p[1] <= p[2]
      <4> DEFINE after == <<half(p) + 1, p[2]>>
                 before == <<p[1], half(p) - 1>>
      <4>1. p[1] \in 0 .. n /\ p[2] \in -1 .. n - 1
        OBVIOUS
      <4>2. after \in P /\ before \in P /\ half(p) \in p[1] .. p[2]
        BY <1>2, <3>2
      <4>3. size(after) < m /\ size(before) < m
        <5>1. size(after) = p[2] - (half(p) + 1) /\ size(before) = (half(p) - 1) - p[1]
          OBVIOUS
        <5>2. p[2] - p[1] < m + 1
          BY <2>1
        <5> DEFINE mid == half(p)
                   lo == p[1]
                   hi == p[2]
        <5>3. lo \in Int /\ hi \in Int /\ mid \in lo .. hi /\ hi - lo < m + 1 /\ m \in Int
          BY <1>1, <4>1, <4>2, <5>2
        <5> HIDE DEF mid, lo, hi
        <5>4. hi - (mid + 1) < m /\ (mid - 1) - lo < m
          BY <5>3
        <5> QED
          BY <5>1, <5>4 DEF mid, lo, hi
      <4>4. g[after] = h[after] /\ g[before] = h[before]
        BY <1>10, <4>2, <4>3
      <4>5. \A f : next(f, p) = IF p[1] > p[2] THEN p[1]
                                ELSE IF Frames[half(p) + 1] < t THEN f[after]
                                ELSE IF Frames[half(p) + 1] > t THEN f[before]
                                ELSE half(p) + x
        OBVIOUS
      <4> HIDE DEF next, half, after, before
      <4> QED
        BY <1>5, <1>8, <4>4, <4>5
    <3>3. p[1] \in Int /\ p[2] \in Int
      BY <1>1
    <3> QED
      BY <3>1, <3>2, <3>3
  <2>2. m + 1 \in 0 .. n
    BY <1>1
  <2> HIDE DEF P, size
  <2> QED
    BY <2>1, <2>2
<1>11. <<0, n - 1>> \in P /\ g[<<0, n - 1>>] = h[<<0, n - 1>>]
  <2>1. 0 .. n \subseteq M
    <3> HIDE DEF M
    <3> QED
      BY <1>1, <1>9, <1>10, BoundedInduction
  <2>2. n \in M /\ 0 \in 0 .. n /\ n - 1 \in -1 .. n - 1
    BY <1>1, <2>1
  <2>3. <<0, n - 1>> \in P /\ size(<<0, n - 1>>) < n
    BY <1>1, <2>2
  <2> HIDE DEF P, size
  <2> QED
    BY <2>2, <2>3
<1>12. ClosestFrameIndex(t, x) = IF t > Frames[n] THEN n ELSE g[<<0, n - 1>>]
  BY DEF ClosestFrameIndex, g, Is, n
<1>13. h[<<0, n - 1>>] = found(0, n - 1)
  BY <1>1, <1>4
<1>14. found(0, n - 1) = IF hit THEN r + x ELSE r
  BY <1>1 DEF found, hit
<1>15. t > Frames[n] => r = n /\ ~hit
  BY <1>1 DEF hit
<1> QED
  BY <1>11, <1>12, <1>13, <1>14, <1>15 DEF hit, n

(* The index is the number of keyframes before t, with the one at t if     *)
(* that is to count.                                                       *)
LEMMA ClosestIs ==
  ASSUME NEW t \in Int, NEW x \in {0, 1}
  PROVE  /\ ClosestFrameIndex(t, x) \in 0 .. Len(Frames)
         /\ \A k \in DOMAIN Frames :
              k <= ClosestFrameIndex(t, x) <=> Frames[k] < t \/ (x = 1 /\ Frames[k] = t)
<1> DEFINE n == Len(Frames)
           c == ClosestFrameIndex(t, x)
<1>1. PICK r : Before(t, r)
  BY RankOf
<1>2. /\ n \in Nat /\ DOMAIN Frames = 1 .. n /\ r \in 0 .. n
      /\ \A k \in 1 .. n : Frames[k] \in Nat /\ (k <= r <=> Frames[k] < t)
  BY <1>1, FramesAre DEF Before
<1>3. c = IF r < n /\ Frames[r + 1] = t THEN r + x ELSE r
  BY <1>1, SearchFinds
<1> HIDE DEF n, c
<1>4. c \in 0 .. n
  BY <1>2, <1>3
<1>5. ASSUME NEW k \in 1 .. n
      PROVE  k <= c <=> Frames[k] < t \/ (x = 1 /\ Frames[k] = t)
  <2>1. CASE k <= r
    BY <1>2, <1>3, <2>1
  <2>2. CASE k = r + 1
    BY <1>2, <1>3, <2>2
  <2>3. CASE k > r + 1
    <3> DEFINE j == r + 1
    <3>1. j \in 1 .. n /\ j < k /\ j \in DOMAIN Frames /\ k \in DOMAIN Frames /\ ~(j <= r)
      BY <1>2, <2>3
    <3>2. ~(k <= c)
      BY <1>2, <1>3, <2>3
    <3> HIDE DEF j
    <3>3. Frames[j] < Frames[k] /\ ~(Frames[j] < t) /\ Frames[j] \in Nat /\ Frames[k] \in Nat
      BY <1>2, <3>1, FramesIncrease
    <3> QED
      BY <3>2, <3>3
  <2> QED
    BY <1>2, <2>1, <2>2, <2>3
<1> QED
  BY <1>2, <1>4, <1>5 DEF n, c

(* An advance reports what lies between where it starts and where it ends, *)
(* the latter included, the former only at the animation's own start.      *)
LEMMA PassedIs ==
  ASSUME NEW from \in Int, NEW to \in Int, NEW k \in DOMAIN Frames
  PROVE  k \in Passed(from, to) <=>
           \/ /\ from < to /\ Frames[k] <= to
              /\ Frames[k] > from \/ (from = StartTime(sense) /\ Frames[k] = from)
           \/ /\ to < from /\ to <= Frames[k]
              /\ Frames[k] < from \/ (from = StartTime(sense) /\ Frames[k] = from)
<1> DEFINE n == Len(Frames)
           atStart == from = StartTime(sense)
           x == IF (from <= to) # atStart THEN 1 ELSE 0
           y == IF from <= to THEN 1 ELSE 0
           c == ClosestFrameIndex(from, x)
           d == ClosestFrameIndex(to, y)
<1>1. /\ n \in Nat /\ DOMAIN Frames = 1 .. n /\ k \in 1 .. n
      /\ \A l \in 1 .. n : Frames[l] \in Nat
  BY FramesAre
<1>2. x \in {0, 1} /\ y \in {0, 1}
  OBVIOUS
<1>3. /\ c \in 0 .. n /\ \A l \in 1 .. n : l <= c <=> Frames[l] < from \/ (x = 1 /\ Frames[l] = from)
      /\ d \in 0 .. n /\ \A l \in 1 .. n : l <= d <=> Frames[l] < to \/ (y = 1 /\ Frames[l] = to)
  <2> HIDE DEF x, y
  <2> QED
    BY <1>1, <1>2, ClosestIs
<1>4. Passed(from, to) = IF from = to THEN {}
                         ELSE {l \in 1 .. n : Low(c, d) < l /\ l <= c + d - Low(c, d)}
  BY DEF Passed
<1>5. /\ x = 1 <=> (from <= to /\ ~atStart) \/ (~(from <= to) /\ atStart)
      /\ y = 1 <=> from <= to
  OBVIOUS
<1> HIDE DEF n, x, y, c, d, atStart
<1>6. CASE from < to
  <2>1. y = 1 /\ (x = 1 <=> ~atStart)
    BY <1>5, <1>6
  <2>2. c <= d
    <3>1. CASE c = 0
      BY <1>3, <3>1
    <3>2. CASE c # 0
      <4>1. c \in 1 .. n
        BY <1>1, <1>3, <3>2
      <4>2. Frames[c] <= from /\ Frames[c] \in Nat
        BY <1>1, <1>3, <4>1
      <4>3. Frames[c] < to
        BY <1>6, <4>2
      <4> QED
        BY <1>3, <4>1, <4>3
    <3> QED
      BY <3>1, <3>2
  <2>3. k \in Passed(from, to) <=> ~(k <= c) /\ k <= d
    BY <1>1, <1>3, <1>4, <1>6, <2>2 DEF Low
  <2>4. k <= c <=> Frames[k] < from \/ (~atStart /\ Frames[k] = from)
    BY <1>1, <1>3, <2>1
  <2>5. k <= d <=> Frames[k] <= to
    BY <1>1, <1>3, <2>1
  <2>6. Frames[k] \in Nat
    BY <1>1
  <2> QED
    BY <1>6, <2>3, <2>4, <2>5, <2>6 DEF atStart
<1>7. CASE to < from
  <2>1. y # 1 /\ (x = 1 <=> atStart)
    BY <1>5, <1>7
  <2>2. d <= c
    <3>1. CASE d = 0
      BY <1>3, <3>1
    <3>2. CASE d # 0
      <4>1. d \in 1 .. n
        BY <1>1, <1>3, <3>2
      <4>2. Frames[d] <= to /\ Frames[d] \in Nat
        BY <1>1, <1>3, <4>1
      <4>3. Frames[d] < from
        BY <1>7, <4>2
      <4> QED
        BY <1>3, <4>1, <4>3
    <3> QED
      BY <3>1, <3>2
  <2>3. k \in Passed(from, to) <=> ~(k <= d) /\ k <= c
    BY <1>1, <1>3, <1>4, <1>7, <2>2 DEF Low
  <2>4. k <= c <=> Frames[k] < from \/ (atStart /\ Frames[k] = from)
    BY <1>1, <1>3, <2>1
  <2>5. k <= d <=> Frames[k] < to
    BY <1>1, <1>3, <2>1
  <2>6. Frames[k] \in Nat
    BY <1>1
  <2> QED
    BY <1>7, <2>3, <2>4, <2>5, <2>6 DEF atStart
<1>8. CASE from = to
  BY <1>4, <1>8
<1> QED
  BY <1>6, <1>7, <1>8

(* No work area, in which an animation that wraps starts to count from     *)
(* frame 0, and no keyframe beyond the end.                                *)
PlaysAllFrames == Start = 0 /\ \A k \in DOMAIN Frames : Frames[k] <= End

(* How far it has to play until the keyframe counts for the first time.    *)
Reach(k) == IF Offset(Frames[k]) = 0 THEN 1 ELSE Offset(Frames[k])

LEMMA ReachIs ==
  ASSUME PlaysAllFrames, NEW k \in DOMAIN Frames
  PROVE  /\ Frames[k] \in Int
         /\ Offset(Frames[k]) \in 0 .. range
         /\ Reach(k) \in 1 .. range
<1>1. Frames[k] \in Start .. End /\ Frames[k] \in Int
  BY FramesAre, Lap DEF PlaysAllFrames
<1>2. Offset(Frames[k]) \in 0 .. range
  BY <1>1, OffsetIs
<1> QED
  BY <1>1, <1>2, Lap DEF Reach

LEMMA ReportedIs ==
  ASSUME PlaysAllFrames, TypeOK, Speed # 0, NEW from \in Int, NEW to \in Int,
         0 <= Offset(from), Offset(from) <= Offset(to), NEW k \in DOMAIN Frames
  PROVE  k \in Reported(from, to, FALSE) <=> Offset(from) < Reach(k) /\ Reach(k) <= Offset(to)
<1> DEFINE f == Frames[k]
           o == Offset(f)
           a == Offset(from)
           b == Offset(to)
<1>1. k \in Reported(from, to, FALSE) <=> k \in Passed(from, to)
  BY DEF Reported
<1>2. f \in Int /\ o \in 0 .. range /\ a \in Int /\ b \in Int /\ 0 <= a /\ a <= b
  BY ReachIs, OffsetIs
<1>3. StartTime(sense) = FirstTime(sense) /\ FirstTime(sense) \in {Start, End}
  <2>1. Speed \in Int /\ sense \in {1, -1}
    BY PlaybackAssumption DEF TypeOK
  <2>2. CASE Speed > 0
    BY <2>1, <2>2, Lap DEF StartTime, FirstTime
  <2>3. CASE Speed < 0
    BY <2>1, <2>3, Lap DEF StartTime, FirstTime
  <2> QED
    BY <2>1, <2>2, <2>3
<1>4. k \in Passed(from, to) <=> a < b /\ o <= b /\ (o > a \/ (a = 0 /\ o = a))
  <2>1. CASE FirstTime(sense) = Start
    <3>1. o = f - Start /\ a = from - Start /\ b = to - Start
      BY <1>2, <2>1, OffsetIs
    <3> HIDE DEF o, a, b, f
    <3> QED
      BY <1>2, <1>3, <2>1, <3>1, Lap, PassedIs DEF f
  <2>2. CASE FirstTime(sense) # Start
    <3>1. o = End - f /\ a = End - from /\ b = End - to
      BY <1>2, <2>2, OffsetIs
    <3> HIDE DEF o, a, b, f
    <3> QED
      BY <1>2, <1>3, <2>2, <3>1, Lap, PassedIs DEF f
  <2> QED
    BY <2>1, <2>2
<1>5. Reach(k) = IF o = 0 THEN 1 ELSE o
  BY DEF Reach
<1> HIDE DEF o, a, b, f
<1>6. a < b /\ o <= b /\ (o > a \/ (a = 0 /\ o = a)) <=> a < Reach(k) /\ Reach(k) <= b
  BY <1>2, <1>5, Lap
<1> QED
  BY <1>1, <1>4, <1>6 DEF a, b

LEMMA QuotientIs ==
  ASSUME NEW m \in Int, m > 0, NEW x \in Int, NEW q \in Int, NEW r \in 0 .. m - 1, x = q * m + r
  PROVE  x \div m = q
<1> DEFINE p == x \div m
<1>1. p \in Int /\ x = p * m + (x % m) /\ x % m \in 0 .. m - 1
  OBVIOUS
<1> HIDE DEF p
<1>2. (q - p) * m = (x % m) - r
  BY <1>1
<1>3. (q - p) * m < m /\ (q - p) * m > -m
  BY <1>1, <1>2
<1>4. q - p >= 1 => (q - p) * m >= m
  BY <1>1
<1>5. q - p <= -1 => (q - p) * m <= -m
  BY <1>1
<1>6. p = q
  BY <1>1, <1>3, <1>4, <1>5
<1> QED
  BY <1>6 DEF p

(* What Visits counts, for a total of q laps and o frames.                 *)
LEMMA VisitsIs ==
  ASSUME PlaysAllFrames, loop \in {"oneShot", "loop"}, NEW k \in DOMAIN Frames,
         NEW q \in Nat, NEW o \in 0 .. range - 1, NEW d \in Nat, d = q * range + o
  PROVE  Visits(k, d) = IF loop = "oneShot" THEN (IF Reach(k) <= d THEN 1 ELSE 0)
                        ELSE (IF Reach(k) <= o THEN q + 1 ELSE q)
<1> DEFINE w == Reach(k)
           p == Offset(Frames[k])
           out == IF p = 0 THEN (d + range - 1) \div range
                  ELSE IF d < p THEN 0 ELSE (d - p) \div range + 1
<1>1. p \in 0 .. range /\ w \in 1 .. range /\ w = (IF p = 0 THEN 1 ELSE p)
  BY ReachIs DEF Reach
<1>2. Visits(k, d) = IF loop = "oneShot" THEN Low(out, 1) ELSE out
  BY DEF Visits
<1>3. range \in Nat /\ range > 0 /\ range \in Int
  BY Lap
<1> HIDE DEF w, p
<1>4. o <= d /\ (q >= 1 => range <= d) /\ (q = 0 => d = o) /\ (d < range => q = 0)
  <2>1. q * range \in Nat
    BY <1>3
  <2>2. q >= 1 => q * range >= range
    BY <1>3
  <2>3. q = 0 => q * range = 0
    BY <1>3
  <2>4. q = 0 \/ q >= 1
    OBVIOUS
  <2> QED
    BY <1>3, <2>1, <2>2, <2>3, <2>4
<1>5. out = IF w <= o THEN q + 1 ELSE q
  <2>1. CASE p = 0 /\ o # 0
    <3>1. d + range - 1 = (q + 1) * range + (o - 1)
      BY <1>3
    <3>2. (d + range - 1) \div range = q + 1
      BY <1>3, <2>1, <3>1, QuotientIs
    <3> QED
      BY <1>1, <2>1, <3>2
  <2>2. CASE p = 0 /\ o = 0
    <3>1. d + range - 1 = q * range + (range - 1)
      BY <1>3, <2>2
    <3>2. (d + range - 1) \div range = q
      BY <1>3, <3>1, QuotientIs
    <3> QED
      BY <1>1, <2>2, <3>2
  <2>3. CASE p # 0 /\ w <= o
    <3>1. d - p = q * range + (o - p) /\ o - p \in 0 .. range - 1 /\ ~(d < p) /\ d - p \in Int
      BY <1>1, <1>3, <1>4, <2>3
    <3>2. (d - p) \div range = q
      BY <1>3, <3>1, QuotientIs
    <3> QED
      BY <2>3, <3>1, <3>2
  <2>4. CASE p # 0 /\ ~(w <= o) /\ ~(d < p)
    <3>1. d - p = (q - 1) * range + (range + o - p) /\ range + o - p \in 0 .. range - 1
          /\ d - p \in Int /\ q - 1 \in Int
      BY <1>1, <1>3, <2>4
    <3>2. (d - p) \div range = q - 1
      BY <1>3, <3>1, QuotientIs
    <3> QED
      BY <2>4, <3>2
  <2>5. CASE p # 0 /\ ~(w <= o) /\ d < p
    <3>1. q = 0
      BY <1>1, <1>3, <1>4, <2>5
    <3> QED
      BY <2>5, <3>1
  <2> QED
    BY <1>1, <2>1, <2>2, <2>3, <2>4, <2>5
<1> HIDE DEF out
<1>6. Low(out, 1) = IF w <= d THEN 1 ELSE 0
  BY <1>1, <1>3, <1>4, <1>5 DEF Low
<1> QED
  BY <1>2, <1>5, <1>6 DEF w

LEMMA LapsOf ==
  ASSUME NEW d \in Nat
  PROVE  \E q \in Nat : \E o \in 0 .. range - 1 : d = q * range + o
<1> DEFINE q == d \div range
           o == d % range
<1>1. range \in Nat /\ range > 0
  BY Lap
<1> HIDE DEF range
<1>2. q \in Int /\ o \in 0 .. range - 1 /\ d = q * range + o
  BY <1>1
<1> HIDE DEF q, o
<1>3. q <= -1 => q * range <= -range
  BY <1>1, <1>2
<1>4. q \in Nat
  BY <1>1, <1>2, <1>3
<1> QED
  BY <1>2, <1>4

(* While it only plays, each keyframe was reported as often as it was      *)
(* passed, and a loop is never left standing on its last edge.             *)
PlainInv ==
  past = "plain" =>
    /\ pc = "idle" /\ ~steered /\ total \in Nat
    /\ loop = "loop" => Offset(time) \in 0 .. range - 1
    /\ loop = "pingPong" => total = 0
    /\ \A k \in DOMAIN Frames : reports[k] = Visits(k, total)

ReportInv == FollowInv /\ PlainInv

LEMMA ReportInit ==
  ASSUME PlaysAllFrames, Init
  PROVE  ReportInv
<1>1. FollowInv
  BY FollowInit
<1>2. /\ TypeOK /\ pc = "idle" /\ ~steered /\ total = 0 /\ time = FirstTime(sense)
      /\ \A k \in DOMAIN Frames : reports[k] = 0
  BY InitHolds DEF Init, IInv
<1>3. Offset(time) = 0 /\ 0 \in 0 .. range - 1
  BY <1>2, FirstEdge, Lap DEF Offset
<1>4. ASSUME NEW k \in DOMAIN Frames
      PROVE  Visits(k, 0) = 0
  <2> DEFINE o == Offset(Frames[k])
  <2>1. o \in 0 .. range
    BY ReachIs
  <2>2. Visits(k, 0) = LET out == IF o = 0 THEN (0 + range - 1) \div range
                                  ELSE IF 0 < o THEN 0 ELSE (0 - o) \div range + 1
                       IN  IF loop = "oneShot" THEN Low(out, 1) ELSE out
    BY DEF Visits
  <2>3. (0 + range - 1) \div range = 0
    <3>1. 0 + range - 1 = 0 * range + (range - 1) /\ range - 1 \in 0 .. range - 1
          /\ 0 + range - 1 \in Int /\ range \in Int /\ range > 0
      BY Lap
    <3> QED
      BY <3>1, QuotientIs
  <2> HIDE DEF o
  <2> QED
    BY <2>1, <2>2, <2>3 DEF Low
<1> QED
  BY <1>1, <1>2, <1>3, <1>4 DEF ReportInv, PlainInv

(* A oneShot passes every keyframe once.                                   *)
LEMMA OneShotReports ==
  ASSUME PlaysAllFrames, ReportInv, NEW e \in Elapsed, AdvanceOneShot(e), past' = "plain"
  PROVE  PlainInv'
<1> DEFINE d == e * Abs(Speed)
           t == Moved(e)
           a == Offset(time)
           b == Offset(t)
<1>1. Speed \in Int /\ e \in Nat /\ e * Speed # 0 /\ loop = "oneShot" /\ Move(e)
  BY PlaybackAssumption DEF AdvanceOneShot
<1>2. TypeOK /\ Speed # 0 /\ past = "plain" /\ pc = "idle" /\ ~steered /\ total \in Nat
      /\ \A k \in DOMAIN Frames : reports[k] = Visits(k, total)
  <2>1. past = "plain"
    BY <1>1 DEF Move
  <2>2. Speed # 0
    BY <1>1
  <2> QED
    BY <2>1, <2>2 DEF ReportInv, PlainInv, FollowInv, IInv
<1>3. direction = 1 /\ a = Low(total, range)
  BY <1>1, <1>2 DEF ReportInv, FollowInv, Follows
<1>4. d \in Nat /\ t \in Int /\ time \in Int /\ b = a + 1 * d
  BY <1>1, <1>2, <1>3, OffsetMoves DEF TypeOK
<1>5. /\ pc' = "idle" /\ ~steered' /\ total' = total + d /\ loop' = loop /\ sense' = sense
      /\ reports' = Count(Reported(time, t, FALSE), {})
  BY <1>1, <1>2 DEF AdvanceOneShot, Move
<1> HIDE DEF d, t, a, b
<1>6. total + d \in Nat /\ a \in 0 .. range /\ b = a + d
  BY <1>2, <1>3, <1>4, Lap DEF Low
<1>7. ASSUME NEW k \in DOMAIN Frames, NEW x \in Nat
      PROVE  Visits(k, x)' = Visits(k, x) /\ Visits(k, x) = IF Reach(k) <= x THEN 1 ELSE 0
  <2>1. Visits(k, x)' = Visits(k, x)
    BY <1>5 DEF Visits, Offset
  <2>2. PICK q \in Nat, o \in 0 .. range - 1 : x = q * range + o
    BY LapsOf
  <2>3. Visits(k, x) = IF Reach(k) <= x THEN 1 ELSE 0
    BY <1>1, <2>2, VisitsIs
  <2> QED
    BY <2>1, <2>3
<1>8. ASSUME NEW k \in DOMAIN Frames
      PROVE  reports'[k] = Visits(k, total)'
  <2> DEFINE w == Reach(k)
  <2>1. k \in Reported(time, t, FALSE) <=> a < w /\ w <= b
    <3>1. 0 <= Offset(time) /\ Offset(time) <= Offset(t)
      BY <1>4, <1>6, Lap DEF a, b
    <3>2. k \in Reported(time, t, FALSE) <=> Offset(time) < Reach(k) /\ Reach(k) <= Offset(t)
      BY <1>2, <1>4, <3>1, ReportedIs
    <3> QED
      BY <3>2 DEF a, b
  <2>2. reports'[k] = reports[k] + (IF k \in Reported(time, t, FALSE) THEN 1 ELSE 0) + 0
    BY <1>5 DEF Count, Counted
  <2>3. reports[k] = IF w <= total THEN 1 ELSE 0
    BY <1>2, <1>7
  <2>4. Visits(k, total + d) = IF w <= total + d THEN 1 ELSE 0
    BY <1>6, <1>7
  <2>5. w \in 1 .. range
    BY ReachIs
  <2> HIDE DEF w
  <2>6. reports'[k] = Visits(k, total + d)
    <3>1. (w <= total + d <=> w <= total \/ (a < w /\ w <= b)) /\ ~(w <= total /\ a < w)
      BY <1>2, <1>3, <1>4, <1>6, <2>5, Lap DEF Low
    <3> DEFINE new == k \in Reported(time, t, FALSE)
               before == w <= total
               after == w <= total + d
    <3>2. (new <=> a < w /\ w <= b) /\ (after <=> before \/ new) /\ ~(before /\ new)
      BY <2>1, <3>1
    <3>3. reports'[k] = (IF before THEN 1 ELSE 0) + (IF new THEN 1 ELSE 0) + 0
          /\ Visits(k, total + d) = IF after THEN 1 ELSE 0
      BY <2>2, <2>3, <2>4
    <3> HIDE DEF new, before, after
    <3> QED
      BY <3>2, <3>3
  <2>7. Visits(k, total)' = Visits(k, total + d)
    BY <1>5 DEF Visits, Offset
  <2> QED
    BY <2>6, <2>7
<1> QED
  BY <1>1, <1>5, <1>6, <1>8 DEF PlainInv

(* A loop passes every keyframe once a lap: when it wraps, those left of   *)
(* the lap and those of the next.                                          *)
LEMMA LoopReports ==
  ASSUME PlaysAllFrames, ReportInv, NEW e \in Elapsed, AdvanceLoop(e), past' = "plain"
  PROVE  PlainInv'
<1> DEFINE d == e * Abs(Speed)
           t == Moved(e)
           a == Offset(time)
           b == Offset(t)
           c == Offset(time')
           over == heading' = 1 /\ t >= End
           under == heading' = -1 /\ t <= Start
           first == Reported(time, t, FALSE)
<1>1. Speed \in Int /\ e \in Nat /\ e * Speed # 0 /\ loop = "loop" /\ Move(e)
  BY PlaybackAssumption DEF AdvanceLoop
<1>2. TypeOK /\ IInv /\ Speed # 0 /\ past = "plain" /\ pc = "idle" /\ ~steered /\ total \in Nat
      /\ a \in 0 .. range - 1 /\ d < range
      /\ \A k \in DOMAIN Frames : reports[k] = Visits(k, total)
  <2>1. past = "plain" /\ d < range
    BY <1>1 DEF Move
  <2>2. Speed # 0
    BY <1>1
  <2> QED
    BY <1>1, <2>1, <2>2 DEF ReportInv, PlainInv, FollowInv, IInv
<1>3. direction = 1 /\ Multiple(total - a, range) /\ Follows
  BY <1>1, <1>2 DEF ReportInv, FollowInv, Follows
<1>4. d \in Nat /\ t \in Int /\ time \in Int /\ b = a + 1 * d
      /\ Heading = IF FirstTime(sense) = Start THEN 1 ELSE -1
  BY <1>1, <1>2, <1>3, OffsetMoves DEF TypeOK
<1>5. /\ pc' = "idle" /\ ~steered' /\ total' = total + d /\ loop' = loop /\ sense' = sense
      /\ heading' = Heading
  BY <1>1, <1>2 DEF AdvanceLoop, Move
<1>6. c \in 0 .. range - 1 /\ Multiple(total' - c, range) /\ time' \in Int
  <2>1. FollowInv
    BY DEF ReportInv
  <2>2. Follows' /\ c \in 0 .. range - 1
    BY <1>3, <2>1, LoopFollows
  <2>3. Multiple(total' - c, range)
    BY <1>1, <1>5, <2>2 DEF Follows, Offset
  <2>4. time' \in Int
    <3>1. Next
      BY DEF Next
    <3>2. IInv'
      BY <1>2, <3>1, StepHolds
    <3> QED
      BY <3>2 DEF IInv, TypeOK
  <2> QED
    BY <2>2, <2>3, <2>4
<1>7. \/ over /\ reports' = Count(first, AfterWrap(0, time'))
      \/ under /\ reports' = Count(first, AfterWrap(End, time'))
      \/ ~over /\ ~under /\ time' = t /\ reports' = Count(first, {})
  BY DEF AdvanceLoop
<1>8. FirstTime(sense) = Start => b = t - Start /\ c = time' - Start
  BY <1>4, <1>6, OffsetIs
<1>9. FirstTime(sense) # Start => b = End - t /\ c = End - time'
  BY <1>4, <1>6, OffsetIs
<1> HIDE DEF d, t, a, b, c, first
<1>10. over \/ under <=> b >= range
  BY <1>4, <1>5, <1>8, <1>9, Lap
<1>11. PICK q \in Nat : total = q * range + a
  <2>1. PICK q \in Int : total - a = q * range
    BY <1>3 DEF Multiple
  <2>2. q <= -1 => q * range <= -range
    BY Lap
  <2>3. q \in Nat /\ total = q * range + a
    BY <1>2, <2>1, <2>2, Lap
  <2> QED
    BY <2>3
<1>12. c = IF b >= range THEN b - range ELSE b
  <2>1. PICK p \in Int : total' - c = p * range
    BY <1>6 DEF Multiple
  <2>2. b - c = (p - q) * range
    BY <1>2, <1>4, <1>5, <1>6, <1>11, <2>1, Lap
  <2>3. b - c < 2 * range /\ b - c > -range
    BY <1>2, <1>4, <1>6, Lap
  <2>4. p - q >= 2 => (p - q) * range >= 2 * range
    BY <1>11, <2>1, Lap
  <2>5. p - q <= -1 => (p - q) * range <= -range
    BY <1>11, <2>1, Lap
  <2> DEFINE j == p - q
  <2>6. j \in Int
    BY <1>11, <2>1
  <2>7. b - c = j * range /\ (j >= 2 => j * range >= 2 * range) /\ (j <= -1 => j * range <= -range)
    BY <2>2, <2>4, <2>5
  <2> HIDE DEF j
  <2>8. j = 0 \/ j = 1
    <3>1. b - c \in Int /\ range \in Int
      BY <1>2, <1>4, <1>6, Lap
    <3> DEFINE x == b - c
               y == j * range
               z == range
    <3>2. x \in Int /\ z \in Int /\ x < 2 * z /\ x > -z /\ x = y
          /\ (j >= 2 => y >= 2 * z) /\ (j <= -1 => y <= -z)
      BY <2>3, <2>7, <3>1
    <3> HIDE DEF x, y, z
    <3> QED
      BY <2>6, <3>2
  <2>9. b - c = 0 \/ b - c = range
    BY <2>7, <2>8, Lap
  <2> QED
    BY <1>2, <1>4, <1>6, <2>9, Lap
<1>13. ASSUME b >= range
       PROVE  \E from \in Int : Offset(from) = 0 /\ reports' = Count(first, Reported(from, time', FALSE))
  <2>1. CASE over
    <3>1. FirstTime(sense) = Start /\ ~under
      BY <1>4, <1>5, <2>1
    <3>2. 0 \in Int /\ Offset(0) = 0
      BY <3>1, OffsetIs, Lap DEF PlaysAllFrames
    <3>3. reports' = Count(first, Reported(0, time', FALSE))
      BY <1>7, <2>1, <3>1 DEF AfterWrap
    <3> QED
      BY <3>2, <3>3
  <2>2. CASE under
    <3>1. FirstTime(sense) # Start /\ ~over
      BY <1>4, <1>5, <2>2
    <3>2. End \in Int /\ Offset(End) = 0
      BY <3>1, OffsetIs, Lap
    <3>3. reports' = Count(first, Reported(End, time', FALSE))
      BY <1>7, <2>2, <3>1 DEF AfterWrap
    <3> QED
      BY <3>2, <3>3
  <2> QED
    BY <1>10, <1>13, <2>1, <2>2
<1>14. b < range => reports' = Count(first, {})
  BY <1>2, <1>4, <1>7, <1>10, Lap
<1> HIDE DEF over, under
<1>15. ASSUME NEW k \in DOMAIN Frames
       PROVE  reports'[k] = Visits(k, total + d)
  <2> DEFINE w == Reach(k)
  <2>1. w \in 1 .. range
    BY ReachIs
  <2>2. k \in first <=> a < w /\ w <= b
    <3>1. 0 <= Offset(time) /\ Offset(time) <= Offset(t)
      BY <1>2, <1>4, Lap DEF a, b
    <3>2. k \in Reported(time, t, FALSE) <=> Offset(time) < Reach(k) /\ Reach(k) <= Offset(t)
      BY <1>2, <1>4, <3>1, ReportedIs
    <3> QED
      BY <3>2 DEF a, b, first
  <2>3. reports[k] = IF w <= a THEN q + 1 ELSE q
    BY <1>1, <1>2, <1>11, VisitsIs
  <2>4. CASE b < range
    <3>1. reports'[k] = reports[k] + (IF k \in first THEN 1 ELSE 0) + 0
      BY <1>14, <2>4 DEF Count, Counted
    <3>2. total + d \in Nat /\ b \in 0 .. range - 1 /\ total + d = q * range + b
      BY <1>2, <1>4, <1>11, <2>4, Lap
    <3>3. Visits(k, total + d) = IF w <= b THEN q + 1 ELSE q
      BY <1>1, <3>2, VisitsIs
    <3> HIDE DEF w
    <3> QED
      BY <1>2, <1>4, <2>1, <2>2, <2>3, <3>1, <3>3, Lap
  <2>5. CASE b >= range
    <3>1. PICK from \in Int : Offset(from) = 0 /\ reports' = Count(first, Reported(from, time', FALSE))
      BY <1>13, <2>5
    <3>2. k \in Reported(from, time', FALSE) <=> 0 < w /\ w <= c
      <4>1. 0 <= Offset(from) /\ Offset(from) <= Offset(time')
        BY <1>6, <3>1, Lap DEF c
      <4>2. k \in Reported(from, time', FALSE) <=> Offset(from) < Reach(k) /\ Reach(k) <= Offset(time')
        BY <1>2, <1>6, <3>1, <4>1, ReportedIs
      <4> QED
        BY <3>1, <4>2 DEF c
    <3>3. reports'[k] = reports[k] + (IF k \in first THEN 1 ELSE 0)
                        + (IF k \in Reported(from, time', FALSE) THEN 1 ELSE 0)
      BY <3>1 DEF Count, Counted
    <3>4. total + d \in Nat /\ q + 1 \in Nat /\ total + d = (q + 1) * range + c
      BY <1>2, <1>4, <1>11, <1>12, <2>5, Lap
    <3>5. Visits(k, total + d) = IF w <= c THEN (q + 1) + 1 ELSE q + 1
      BY <1>1, <1>6, <3>4, VisitsIs
    <3> HIDE DEF w
    <3> QED
      <4>1. (k \in first <=> ~(w <= a)) /\ (k \in Reported(from, time', FALSE) <=> w <= c)
        <5>1. range \in Int /\ a < range /\ a \in Int /\ c \in Int /\ b \in Int /\ w \in Int
              /\ w <= range /\ w > 0
          BY <1>2, <1>4, <1>6, <2>1, Lap
        <5>2. w <= b
          BY <2>5, <5>1
        <5>3. (a < w <=> ~(w <= a)) /\ 0 < w
          BY <5>1
        <5>4. k \in first <=> ~(w <= a)
          BY <2>2, <5>2, <5>3, Zenon
        <5>5. k \in Reported(from, time', FALSE) <=> w <= c
          BY <3>2, <5>3, Zenon
        <5> QED
          BY <5>4, <5>5
      <4> DEFINE new == k \in first
                 next == k \in Reported(from, time', FALSE)
                 before == w <= a
                 after == w <= c
      <4>2. (new <=> ~before) /\ (next <=> after)
        BY <4>1
      <4>3. reports'[k] = (IF before THEN q + 1 ELSE q) + (IF new THEN 1 ELSE 0)
                          + (IF next THEN 1 ELSE 0)
            /\ Visits(k, total + d) = IF after THEN (q + 1) + 1 ELSE q + 1
        BY <2>3, <3>3, <3>5
      <4> HIDE DEF new, next, before, after
      <4> QED
        BY <4>2, <4>3
  <2> QED
    BY <1>2, <1>4, <2>4, <2>5, Lap
<1>16. ASSUME NEW k \in DOMAIN Frames
       PROVE  reports'[k] = Visits(k, total)'
  <2>1. Visits(k, total)' = Visits(k, total + d)
    BY <1>5 DEF Visits, Offset
  <2> QED
    BY <1>15, <2>1
<1>17. Offset(time)' \in 0 .. range - 1 /\ total' \in Nat
  <2>1. Offset(time)' = c
    BY <1>5 DEF Offset, c
  <2> QED
    BY <1>2, <1>4, <1>5, <1>6, <2>1
<1> QED
  BY <1>1, <1>5, <1>16, <1>17 DEF PlainInv

LEMMA ReportStep ==
  ASSUME PlaysAllFrames, SeekCountsFrames, ReportInv, [Next]_vars
  PROVE  ReportInv'
<1>1. FollowInv'
  BY FollowStep DEF ReportInv
<1>2. ASSUME past' = "plain"
      PROVE  PlainInv'
  <2> USE <1>2
  <2>1. ASSUME UNCHANGED <<loop, sense, time, total, pc, steered, past, reports>>
        PROVE  PlainInv'
    <3>1. PlainInv /\ past = "plain"
      BY <2>1 DEF ReportInv
    <3>2. Offset(time)' = Offset(time) /\ \A k \in DOMAIN Frames : Visits(k, total)' = Visits(k, total)
      BY <2>1 DEF Offset, Visits
    <3> QED
      BY <2>1, <3>1, <3>2 DEF PlainInv
  <2>2. ASSUME NEW e \in Elapsed, AdvanceByNothing(e) PROVE PlainInv'
    BY <2>1, <2>2 DEF AdvanceByNothing
  <2>3. ASSUME NEW e \in Elapsed, AdvanceOneShot(e) PROVE PlainInv'
    BY <2>3, OneShotReports
  <2>4. ASSUME NEW e \in Elapsed, AdvanceLoop(e) PROVE PlainInv'
    BY <2>4, LoopReports
  <2>5. ASSUME NEW e \in Elapsed, AdvancePingPong(e) PROVE FALSE
    BY <2>5 DEF AdvancePingPong, Move
  <2>6. CASE WhileLoop
    <3>1. past = "plain" /\ pc # "idle"
      BY <2>6 DEF WhileLoop, Bounce, Settle
    <3> QED
      BY <3>1 DEF ReportInv, PlainInv
  <2>7. CASE ClearSpilledTime \/ UNCHANGED vars
    BY <2>1, <2>7 DEF ClearSpilledTime, vars
  <2>8. CASE \/ \E value \in Start .. End : Seek(value)
             \/ \E d \in {1, -1} : SetDirection(d)
             \/ \E value \in {"oneShot", "loop", "pingPong"} : SetLoop(value)
             \/ \E multiplier \in {1, -1} : Reset(multiplier)
    BY <2>8 DEF Seek, SetDirection, SetLoop, Reset, Mixed
  <2> QED
    BY <2>2, <2>3, <2>4, <2>5, <2>6, <2>7, <2>8 DEF Next
<1> QED
  BY <1>1, <1>2 DEF ReportInv, PlainInv

(* Every keyed callback fires once each time the playhead passes it, for   *)
(* every list of keyframes, speed and lengths of advances, in an animation *)
(* without a work area.                                                    *)
THEOREM ReportsOnce == ASSUME PlaysAllFrames PROVE Spec => []ReportsExactly
<1>1. SeekCountsFrames
  BY PlaybackAssumption DEF SeekCountsFrames, PlaysAllFrames
<1>2. Init => ReportInv
  BY ReportInit
<1>3. ReportInv /\ [Next]_vars => ReportInv'
  BY <1>1, ReportStep
<1>4. ReportInv => ReportsExactly
  BY DEF ReportInv, PlainInv, ReportsExactly
<1> QED
  BY <1>2, <1>3, <1>4, PTL DEF Spec
=============================================================================
