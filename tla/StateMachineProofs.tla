------------------------- MODULE StateMachineProofs -------------------------
(***************************************************************************)
(* What holds of every state machine, with any number of layers, states    *)
(* and transitions: a trigger moves a layer once per advance, the end of a *)
(* transition is announced once, a machine that does not ask for an        *)
(* advance has nothing left to do, and animations played one after another *)
(* lose no time.  And what holds of its pointer listeners, whatever the    *)
(* stack of shapes they are attached to.                                   *)
(***************************************************************************)
EXTENDS StateMachine, PointerPromise, Induction, TLAPS

(* What each layer and the bookkeeping of the properties hold.             *)
Shape ==
  /\ layers \in [Layer -> LayerRecord]
  /\ pc \in {"idle", "layer", "update"}
  /\ at \in Nat \ {0}
  /\ pc = "update" => at \in Layer
  /\ iteration \in Nat
  /\ pc = "layer" => iteration = 0
  /\ elapsed \in Nat \cup {-1}
  /\ pc # "idle" => elapsed \in Nat
  /\ history \in [triggered : [Layer -> Nat], ends : [Layer -> Nat]]

(* Layers that advance has not come to have used no trigger, nor has the   *)
(* one it is at until it changed state.                                    *)
TriggerInv ==
  \A l \in Layer :
    /\ history.triggered[l] <= 1
    /\ pc # "idle" /\ (l > at \/ (l = at /\ iteration = 0)) => history.triggered[l] = 0

(* One layer's mix: a transition that has begun has a state it came from,  *)
(* and one without a duration is completed.                                *)
Consistent(r, ends) ==
  r.trans # None =>
    /\ r.from # None
    /\ Arc[r.trans].mix = 0 => r.done
    /\ ends = IF r.done THEN 1 ELSE 0
    /\ r.reset <=> ~r.done
    /\ r.full => r.done

MixInv == \A l \in Layer : Consistent(layers[l], history.ends[l])

-----------------------------------------------------------------------------
LEMMA LowType == \A x, y \in Nat : Low(x, y) \in Nat /\ Low(x, y) <= y
  BY DEF Low

LEMMA RemainderType == \A x, y \in Nat : y > 0 => x % y \in Nat
  OBVIOUS

(* r with its animation somewhere else.                                    *)
Moved(r, last, total, spilled, going) ==
  [r EXCEPT !.last = last, !.total = total, !.spilled = spilled, !.going = going]

(* It is a layer still, in the same mix.                                   *)
MovedAlike(r, last, total, spilled, going) ==
  LET q == Moved(r, last, total, spilled, going)
  IN  /\ q \in LayerRecord
      /\ q.trans = r.trans /\ q.from = r.from /\ q.done = r.done
      /\ q.full = r.full /\ q.reset = r.reset

LEMMA MovedType ==
  \A r \in LayerRecord : \A a, b, c \in Nat : \A d \in BOOLEAN : MovedAlike(r, a, b, c, d)
<1> TAKE r \in LayerRecord
<1> TAKE a, b, c \in Nat
<1> TAKE d \in BOOLEAN
<1>1. Moved(r, a, b, c, d) \in LayerRecord
  BY DEF LayerRecord, Moved
<1> QED BY <1>1 DEF LayerRecord, Moved, MovedAlike

(* A state's advance leaves what concerns the transition alone.            *)
LEMMA AdvancedType ==
  ASSUME NEW r \in LayerRecord, NEW s \in Nat
  PROVE  /\ Advanced(r, s) \in LayerRecord
         /\ Advanced(r, s).trans = r.trans /\ Advanced(r, s).from = r.from
         /\ Advanced(r, s).done = r.done /\ Advanced(r, s).full = r.full
         /\ Advanced(r, s).reset = r.reset
<1> DEFINE len == Length[r.cur]
           pos == r.total % len
           sum == r.total + s
<1>1. len \in Nat /\ r.total \in Nat /\ Horizon \in Nat /\ sum \in Nat
  BY MachineAssumption DEF LayerRecord
<1>2. CASE len = 0 \/ s = 0
  BY <1>1, <1>2 DEF Advanced, LayerRecord
<1>3. CASE len # 0 /\ s # 0 /\ r.cur \in OneShots
  <2> DEFINE c == IF r.total < len /\ r.total + s > len THEN r.total + s - len ELSE 0
             d == r.total + s < len
  <2>1. Low(r.total + s, Horizon) \in Nat
    <3> HIDE DEF sum
    <3>1. Low(sum, Horizon) \in Nat
      BY <1>1, LowType
    <3> QED BY <3>1 DEF sum
  <2>2. c \in Nat /\ d \in BOOLEAN
    BY <1>1
  <2>3. Advanced(r, s) = Moved(r, r.total, Low(r.total + s, Horizon), c, d)
    BY <1>3 DEF Advanced, Moved
  <2> HIDE DEF len, c, d
  <2>4. MovedAlike(r, r.total, Low(r.total + s, Horizon), c, d)
    BY <1>1, <2>1, <2>2, MovedType
  <2> QED BY <2>3, <2>4 DEF MovedAlike
<1>4. CASE len # 0 /\ s # 0 /\ r.cur \notin OneShots
  <2> DEFINE b == pos + s
             c == IF pos + s >= len THEN (pos + s) % len ELSE 0
  <2>1. pos \in Nat
    BY <1>1, <1>4, RemainderType
  <2>2. b \in Nat /\ c \in Nat
    <3> HIDE DEF pos
    <3>1. pos + s \in Nat
      BY <2>1
    <3> QED BY <1>1, <1>4, <3>1, RemainderType
  <2>3. Advanced(r, s) = Moved(r, pos, b, c, TRUE)
    BY <1>4 DEF Advanced, Moved
  <2> HIDE DEF len, pos, b, c
  <2>4. MovedAlike(r, pos, b, c, TRUE)
    BY <2>1, <2>2, MovedType
  <2> QED BY <2>3, <2>4 DEF MovedAlike
<1> QED BY <1>2, <1>3, <1>4


LEMMA MixTimeType ==
  ASSUME NEW t \in Transitions, NEW s \in States
  PROVE  MixTime(t, s) \in Nat
<1>1. Arc[t].mix \in Nat /\ Length[s] \in Nat
  BY MachineAssumption
<1>2. \A m, n \in Nat : (m * n) \div 100 \in Nat
  OBVIOUS
<1> QED BY <1>1, <1>2 DEF MixTime

(* What updateMix(s) does to the mix of a layer.                           *)
LEMMA UpdateMixType ==
  ASSUME NEW r \in LayerRecord, NEW s \in Nat
  PROVE  /\ UpdateMix(r, s) \in LayerRecord
         /\ UpdateMix(r, s).trans = r.trans /\ UpdateMix(r, s).from = r.from
         /\ ~Mixes(r) => /\ UpdateMix(r, s).done = r.done
                         /\ UpdateMix(r, s).reset = r.reset
                         /\ UpdateMix(r, s).full
         /\ Mixes(r) => /\ UpdateMix(r, s).full = MixIsFull(r, s)
                        /\ UpdateMix(r, s).done = (r.done \/ MixIsFull(r, s))
                        /\ UpdateMix(r, s).reset = (r.reset /\ ~MixCompletesNow(r, s))
<1>1. CASE ~Mixes(r)
  BY <1>1 DEF UpdateMix, LayerRecord
<1>2. CASE Mixes(r)
  <2> DEFINE m == Low(r.mixed + s, MixTime(r.trans, r.from))
             f == MixIsFull(r, s)
             d == r.done \/ MixIsFull(r, s)
             e == r.reset /\ ~MixCompletesNow(r, s)
  <2>1. r.trans \in Transitions /\ r.from \in States /\ r.mixed \in Nat
    BY <1>2 DEF Mixes, LayerRecord
  <2>2. MixTime(r.trans, r.from) \in Nat /\ r.mixed + s \in Nat
    BY <2>1, MixTimeType
  <2>3. m \in Nat
    <3> DEFINE x == r.mixed + s
               y == MixTime(r.trans, r.from)
    <3>1. x \in Nat /\ y \in Nat
      BY <2>2
    <3> HIDE DEF x, y
    <3>2. Low(x, y) \in Nat
      BY <3>1, LowType
    <3> QED BY <3>2 DEF x, y
  <2>4. f \in BOOLEAN /\ d \in BOOLEAN /\ e \in BOOLEAN
    <3>1. (s > 0) \in BOOLEAN
      OBVIOUS
    <3>2. (r.mixed + s >= MixTime(r.trans, r.from)) \in BOOLEAN
      OBVIOUS
    <3>3. MixIsFull(r, s) = (s > 0) \/ MixIsFull(r, s) = (r.mixed + s >= MixTime(r.trans, r.from))
      BY DEF MixIsFull
    <3>4. f \in BOOLEAN
      BY <3>1, <3>2, <3>3, Zenon
    <3>5. d \in BOOLEAN /\ e \in BOOLEAN
      BY Zenon
    <3> QED BY <3>4, <3>5
  <2>5. UpdateMix(r, s) = [r EXCEPT !.mixed = m, !.full = f, !.done = d, !.reset = e]
    BY <1>2 DEF UpdateMix
  <2>6. f = MixIsFull(r, s) /\ d = (r.done \/ MixIsFull(r, s))
        /\ e = (r.reset /\ ~MixCompletesNow(r, s))
    OBVIOUS
  <2> HIDE DEF m, f, d, e
  <2>7. UpdateMix(r, s) \in LayerRecord
    BY <2>3, <2>4, <2>5 DEF LayerRecord
  <2>8. /\ UpdateMix(r, s).trans = r.trans /\ UpdateMix(r, s).from = r.from
        /\ UpdateMix(r, s).full = f /\ UpdateMix(r, s).done = d
        /\ UpdateMix(r, s).reset = e
    BY <2>5 DEF LayerRecord
  <2> QED BY <1>2, <2>6, <2>7, <2>8
<1> QED BY <1>1, <1>2

LEMMA HandedOnType ==
  ASSUME NEW r \in LayerRecord
  PROVE  HandedOn(r) \in Nat
  BY DEF HandedOn, LayerRecord

(* What a state change does to a layer.                                    *)
LEMMA TakenType ==
  ASSUME NEW r \in LayerRecord, NEW t \in Transitions
  PROVE  /\ Taken(r, t) \in LayerRecord
         /\ Taken(r, t).trans = t /\ Taken(r, t).from \in States
         /\ Taken(r, t).done = (Arc[t].mix = 0)
         /\ Taken(r, t).full = (Arc[t].mix = 0)
         /\ Taken(r, t).reset = (Arc[t].mix # 0)
<1> DEFINE new == Instance(r, Arc[t].to)
           run == Advanced(new, HandedOn(r))
           instant == Arc[t].mix = 0
           later == ~(Arc[t].mix = 0)
           mid == [run EXCEPT !.from = r.cur, !.trans = t, !.mixed = 0,
                              !.waiting = FALSE]
<1>1. Arc[t].to \in States
  BY MachineAssumption
<1>2. new \in LayerRecord
  BY <1>1 DEF Instance, LayerRecord
<1>3. run \in LayerRecord
  <2> HIDE DEF new
  <2> QED BY <1>2, HandedOnType, AdvancedType
<1>4. instant \in BOOLEAN /\ later \in BOOLEAN
  BY Zenon
<1>5. r.cur \in States
  BY DEF LayerRecord
<1>6. Taken(r, t) = [mid EXCEPT !.done = instant, !.full = instant, !.reset = later]
  BY DEF Taken
<1>7. instant = (Arc[t].mix = 0) /\ later = (Arc[t].mix # 0)
  BY Zenon
<1> HIDE DEF run, instant, later
<1>8. mid \in LayerRecord /\ mid.trans = t /\ mid.from \in States
  BY <1>3, <1>5 DEF LayerRecord
<1> HIDE DEF mid
<1>9. Taken(r, t) \in LayerRecord
  BY <1>4, <1>6, <1>8 DEF LayerRecord
<1>10. /\ Taken(r, t).trans = t /\ Taken(r, t).from \in States
       /\ Taken(r, t).done = instant /\ Taken(r, t).full = instant
       /\ Taken(r, t).reset = later
  BY <1>6, <1>8 DEF LayerRecord
<1> QED BY <1>7, <1>9, <1>10

-----------------------------------------------------------------------------
(* Once a layer has changed state, triggers are ignored.                   *)
LEMMA FoundConditions ==
  ASSUME NEW r, NEW s, NEW ignoreTriggers, NEW t \in Found(r, s, ignoreTriggers), t # None
  PROVE  ConditionsHold(t, ignoreTriggers)
<1>1. PICK k \in Allowed(r, s, ignoreTriggers) : t = Out[s][k]
  BY DEF Found
<1> QED BY <1>1 DEF Allowed

LEMMA ChoiceConditions ==
  ASSUME NEW r, NEW any, NEW ignoreTriggers,
         NEW t \in Choices(r, any, ignoreTriggers), t # None
  PROVE  ConditionsHold(t, ignoreTriggers)
<1>1. t \in Found(r, any, ignoreTriggers) \/ t \in Found(r, r.cur, ignoreTriggers)
  BY DEF Choices
<1> QED BY <1>1, FoundConditions

-----------------------------------------------------------------------------
LEMMA ShapeInit == Init => Shape
<1> SUFFICES ASSUME Init PROVE Shape
  OBVIOUS
<1>1. layers \in [Layer -> LayerRecord]
  <2>1. \A l \in Layer : Entry[l] \in States
    BY MachineAssumption
  <2> QED BY <2>1 DEF Init, LayerRecord
<1>2. history \in [triggered : [Layer -> Nat], ends : [Layer -> Nat]]
  BY DEF Init
<1> QED BY <1>1, <1>2 DEF Init, Shape

LEMMA ShapeNext == Shape /\ [Next]_vars => Shape'
<1> SUFFICES ASSUME Shape, [Next]_vars PROVE Shape'
  OBVIOUS
<1> USE DEF Shape
<1>1. ASSUME NEW b \in Bools, NEW v \in BOOLEAN, SetBool(b, v) PROVE Shape'
  BY <1>1 DEF SetBool
<1>2. ASSUME NEW g \in Triggers, Fire(g) PROVE Shape'
  BY <1>2 DEF Fire
<1>3. ASSUME NEW s \in Steps, BeginAdvance(s) PROVE Shape'
  <2>1. s \in Nat
    BY MachineAssumption
  <2>2. history' \in [triggered : [Layer -> Nat], ends : [Layer -> Nat]]
    BY <1>3 DEF BeginAdvance
  <2>3. /\ pc' = "layer" /\ at' = 1 /\ iteration' = 0 /\ elapsed' = s
        /\ layers' = layers
    BY <1>3 DEF BeginAdvance
  <2> QED BY <2>1, <2>2, <2>3
<1>4. ASSUME AdvanceLayer PROVE Shape'
  <2>1. at \in Layer /\ elapsed \in Nat
    BY <1>4, MachineAssumption DEF AdvanceLayer, Layer
  <2> DEFINE r == Advanced(layers[at], elapsed)
             completes == MixCompletesNow(r, elapsed)
  <2>2. layers[at] \in LayerRecord
    BY <2>1
  <2>3. r \in LayerRecord
    BY <2>1, <2>2, AdvancedType
  <2>4. UpdateMix(r, elapsed) \in LayerRecord
    <3> HIDE DEF r
    <3> QED BY <2>1, <2>3, UpdateMixType
  <2>5. layers' = [layers EXCEPT ![at] = UpdateMix(r, elapsed)]
    BY <1>4 DEF AdvanceLayer
  <2>6. PICK n \in Nat : history' = [history EXCEPT !.ends[at] = n]
    <3> DEFINE n == history.ends[at] + (IF completes THEN 1 ELSE 0)
    <3>1. history' = [history EXCEPT !.ends[at] = n]
      BY <1>4 DEF AdvanceLayer
    <3>2. n \in Nat
      <4> HIDE DEF completes
      <4> QED BY <2>1
    <3> HIDE DEF n
    <3> QED BY <3>1, <3>2
  <2>7. history' \in [triggered : [Layer -> Nat], ends : [Layer -> Nat]]
    BY <2>1, <2>6
  <2>8. layers' \in [Layer -> LayerRecord]
    <3> HIDE DEF r
    <3> QED BY <2>1, <2>4, <2>5
  <2> QED BY <1>4, <2>1, <2>7, <2>8 DEF AdvanceLayer
<1>5. ASSUME NEW t \in Transitions, ChangeState(t) PROVE Shape'
  <2>1. at \in Layer /\ layers[at] \in LayerRecord
    BY <1>5 DEF ChangeState
  <2>2. layers' = [layers EXCEPT ![at] = Taken(layers[at], t)]
    BY <1>5 DEF ChangeState
  <2>3. layers' \in [Layer -> LayerRecord]
    BY <2>1, <2>2, TakenType
  <2>4. history' \in [triggered : [Layer -> Nat], ends : [Layer -> Nat]]
    <3>1. PICK m, n \in Nat : history' = [history EXCEPT !.triggered[at] = m, !.ends[at] = n]
      <4> DEFINE m == IF Arc[t].triggers # {} THEN Low(history.triggered[at] + 1, 2)
                      ELSE history.triggered[at]
                 n == IF Arc[t].mix = 0 THEN 1 ELSE 0
      <4>1. m \in Nat /\ n \in Nat
        BY <2>1, MachineAssumption DEF Low
      <4>2. history' = [history EXCEPT !.triggered[at] = m, !.ends[at] = n]
        BY <1>5 DEF ChangeState
      <4> HIDE DEF m, n
      <4> QED BY <4>1, <4>2
    <3> QED BY <2>1, <3>1
  <2>5. at' \in Nat \ {0} /\ iteration' \in Nat /\ (pc' = "layer" => iteration' = 0)
        /\ pc' \in {"layer", "update"} /\ (pc' = "update" => at' \in Layer)
    BY <1>5, <2>1 DEF ChangeState, Counted
  <2>6. elapsed' = elapsed /\ elapsed \in Nat
    BY <1>5 DEF ChangeState
  <2> QED BY <2>3, <2>4, <2>5, <2>6
<1>6. ASSUME EndLayer PROVE Shape'
  <2>1. at \in Layer /\ layers[at] \in LayerRecord
    BY <1>6 DEF EndLayer
  <2> DEFINE w == Waiting(layers[at], iteration # 0)
  <2>2. w \in BOOLEAN
    BY <2>1 DEF Waiting, LayerRecord
  <2>3. layers' = [layers EXCEPT ![at] = [layers[at] EXCEPT !.waiting = w, !.spilled = 0]]
    BY <1>6 DEF EndLayer
  <2> HIDE DEF w
  <2>4. layers' \in [Layer -> LayerRecord]
    BY <2>1, <2>2, <2>3 DEF LayerRecord
  <2> QED BY <1>6, <2>1, <2>4 DEF EndLayer, Layer
<1>7. ASSUME FinishAdvance PROVE Shape'
  BY <1>7 DEF FinishAdvance
<1>8. CASE UNCHANGED vars
  BY <1>8 DEF vars
<1> QED BY <1>1, <1>2, <1>3, <1>4, <1>5, <1>6, <1>7, <1>8 DEF Next, Running


LEMMA AlwaysShape == Spec => []Shape
  BY ShapeInit, ShapeNext, PTL DEF Spec

-----------------------------------------------------------------------------
LEMMA TriggerInit == Init => TriggerInv
  BY DEF Init, TriggerInv

LEMMA TriggerNext == Shape /\ TriggerInv /\ [Next]_vars => TriggerInv'
<1> SUFFICES ASSUME Shape, TriggerInv, [Next]_vars PROVE TriggerInv'
  OBVIOUS
<1> USE DEF Shape, TriggerInv
<1>1. ASSUME NEW b \in Bools, NEW v \in BOOLEAN, SetBool(b, v) PROVE TriggerInv'
  BY <1>1 DEF SetBool
<1>2. ASSUME NEW g \in Triggers, Fire(g) PROVE TriggerInv'
  BY <1>2 DEF Fire
<1>3. ASSUME NEW s \in Steps, BeginAdvance(s) PROVE TriggerInv'
  <2>1. \A l \in Layer : history'.triggered[l] = 0
    BY <1>3 DEF BeginAdvance
  <2> QED BY <2>1
<1>4. ASSUME AdvanceLayer PROVE TriggerInv'
  <2>1. history'.triggered = history.triggered
    BY <1>4 DEF AdvanceLayer
  <2> QED BY <1>4, <2>1 DEF AdvanceLayer, Layer
<1>5. ASSUME NEW t \in Transitions, ChangeState(t) PROVE TriggerInv'
  <2>1. pc = "update" /\ at \in Layer
    BY <1>5 DEF ChangeState
  <2>2. history'.triggered = [history.triggered EXCEPT ![at] =
                                IF Arc[t].triggers # {} THEN Low(@ + 1, 2) ELSE @]
    BY <1>5 DEF ChangeState
  <2>3. iteration # 0 => Arc[t].triggers = {}
    <3>1. t \in Choices(layers[at], AnyState[at], iteration # 0) /\ t # None
      BY <1>5 DEF ChangeState
    <3>2. ConditionsHold(t, iteration # 0)
      BY <3>1, ChoiceConditions
    <3> QED BY <3>2 DEF ConditionsHold
  <2>4. history'.triggered[at] <= 1
    BY <2>1, <2>2, <2>3 DEF Low
  <2>5. \A l \in Layer : l # at => history'.triggered[l] = history.triggered[l]
    BY <2>1, <2>2
  <2>6. /\ at' = at /\ iteration' # 0
        \/ at' = at + 1
    BY <1>5 DEF ChangeState, Counted
  <2>7. \A l \in Layer : l > at => history.triggered[l] = 0
    BY <2>1
  <2> QED BY <2>1, <2>4, <2>5, <2>6, <2>7 DEF Layer
<1>6. ASSUME EndLayer PROVE TriggerInv'
  BY <1>6 DEF EndLayer, Layer
<1>7. ASSUME FinishAdvance PROVE TriggerInv'
  BY <1>7 DEF FinishAdvance
<1>8. CASE UNCHANGED vars
  BY <1>8 DEF vars
<1> QED BY <1>1, <1>2, <1>3, <1>4, <1>5, <1>6, <1>7, <1>8 DEF Next, Running

(* However many states in a row wait for a trigger, firing it moves each   *)
(* layer at most once per advance: updateState ignores the triggers as     *)
(* soon as it has changed the state.                                       *)
THEOREM TriggersMoveOnce == Spec => []OneTriggerEach
<1>1. TriggerInv => OneTriggerEach
  BY DEF TriggerInv, OneTriggerEach
<1> QED BY <1>1, AlwaysShape, TriggerInit, TriggerNext, PTL DEF Spec

-----------------------------------------------------------------------------
LEMMA MixInit == Init => MixInv
  BY DEF Init, MixInv, Consistent

(* One layer advances its mix.                                             *)
LEMMA AdvancedConsistent ==
  ASSUME NEW r \in LayerRecord, NEW s \in Nat, NEW ends \in Nat, Consistent(r, ends)
  PROVE  Consistent(UpdateMix(r, s), ends + (IF MixCompletesNow(r, s) THEN 1 ELSE 0))
<1> DEFINE u == UpdateMix(r, s)
           n == ends + (IF MixCompletesNow(r, s) THEN 1 ELSE 0)
<1> SUFFICES Consistent(u, n)
  OBVIOUS
<1>1. u.trans = r.trans /\ u.from = r.from /\ u \in LayerRecord
  BY UpdateMixType
<1>2. u.done \in BOOLEAN /\ u.full \in BOOLEAN /\ u.reset \in BOOLEAN
      /\ r.done \in BOOLEAN /\ r.full \in BOOLEAN /\ r.reset \in BOOLEAN
  BY <1>1 DEF LayerRecord
<1>3. CASE Mixes(r) /\ MixIsFull(r, s)
  <2>1. u.full = TRUE /\ u.done = TRUE /\ u.reset = (r.reset /\ r.done)
    BY <1>3, UpdateMixType, Zenon DEF MixCompletesNow
  <2>2. r.trans # None /\ r.from # None
    BY <1>3 DEF Mixes
  <2>3. ~u.reset
    BY <1>2, <2>1, <2>2, Zenon DEF Consistent
  <2>4. n = ends + (IF r.done THEN 0 ELSE 1)
    BY <1>3 DEF MixCompletesNow
  <2>5. ends = IF r.done THEN 1 ELSE 0
    BY <2>2 DEF Consistent
  <2>6. n = 1
    BY <2>4, <2>5
  <2> HIDE DEF u, n
  <2> QED BY <1>1, <2>1, <2>2, <2>3, <2>6 DEF Consistent
<1>4. CASE Mixes(r) /\ ~MixIsFull(r, s)
  <2>1. u.full = MixIsFull(r, s)
    BY <1>4, UpdateMixType, Zenon
  <2>2. ~u.full
    BY <1>4, <2>1, Zenon
  <2>3. u.done = (r.done \/ MixIsFull(r, s)) /\ u.reset = (r.reset /\ ~MixCompletesNow(r, s))
    BY <1>4, UpdateMixType, Zenon
  <2>4. ~MixCompletesNow(r, s)
    BY <1>4 DEF MixCompletesNow
  <2>5. u.done = r.done /\ u.reset = r.reset
    BY <1>2, <1>4, <2>3, <2>4, Zenon
  <2>6. n = ends
    BY <2>4
  <2> HIDE DEF u, n
  <2> QED BY <1>1, <2>2, <2>5, <2>6 DEF Consistent
<1>5. CASE ~Mixes(r)
  <2>1. u.done = r.done /\ u.reset = r.reset /\ u.full
    BY <1>5, UpdateMixType
  <2>2. r.trans # None => r.done
    BY <1>5 DEF Mixes, Consistent
  <2>3. n = ends
    BY <1>5 DEF MixCompletesNow
  <2> HIDE DEF u, n
  <2> QED BY <1>1, <2>1, <2>2, <2>3 DEF Consistent
<1> QED BY <1>3, <1>4, <1>5

LEMMA MixNext == Shape /\ MixInv /\ [Next]_vars => MixInv'
<1> SUFFICES ASSUME Shape, MixInv, [Next]_vars PROVE MixInv'
  OBVIOUS
<1> USE DEF Shape, MixInv
<1>1. ASSUME NEW b \in Bools, NEW v \in BOOLEAN, SetBool(b, v) PROVE MixInv'
  BY <1>1 DEF SetBool
<1>2. ASSUME NEW g \in Triggers, Fire(g) PROVE MixInv'
  BY <1>2 DEF Fire
<1>3. ASSUME NEW s \in Steps, BeginAdvance(s) PROVE MixInv'
  BY <1>3 DEF BeginAdvance
<1>4. ASSUME AdvanceLayer PROVE MixInv'
  <2>1. at \in Layer /\ elapsed \in Nat
    BY <1>4, MachineAssumption DEF AdvanceLayer, Layer
  <2> DEFINE r == Advanced(layers[at], elapsed)
             ends == history.ends[at]
             fires == IF MixCompletesNow(r, elapsed) THEN 1 ELSE 0
  <2>2. layers[at] \in LayerRecord /\ ends \in Nat /\ Consistent(layers[at], ends)
    BY <2>1
  <2>3. r \in LayerRecord
    BY <2>1, <2>2, AdvancedType
  <2>4. Consistent(r, ends)
    <3>1. /\ r.trans = layers[at].trans /\ r.from = layers[at].from
          /\ r.done = layers[at].done /\ r.full = layers[at].full
          /\ r.reset = layers[at].reset
      BY <2>1, <2>2, AdvancedType
    <3> HIDE DEF r
    <3> QED BY <2>2, <3>1 DEF Consistent
  <2>5. Consistent(UpdateMix(r, elapsed), ends + fires)
    <3> HIDE DEF r, ends
    <3> QED BY <2>1, <2>2, <2>3, <2>4, AdvancedConsistent
  <2>6. /\ layers' = [layers EXCEPT ![at] = UpdateMix(r, elapsed)]
        /\ history'.ends = [history.ends EXCEPT ![at] = ends + fires]
    BY <1>4 DEF AdvanceLayer
  <2> HIDE DEF r, ends, fires
  <2> QED BY <2>1, <2>5, <2>6
<1>5. ASSUME NEW t \in Transitions, ChangeState(t) PROVE MixInv'
  <2>1. at \in Layer /\ layers[at] \in LayerRecord
    BY <1>5 DEF ChangeState
  <2> DEFINE r == Taken(layers[at], t)
             n == IF Arc[t].mix = 0 THEN 1 ELSE 0
  <2>2. /\ layers' = [layers EXCEPT ![at] = r]
        /\ history'.ends = [history.ends EXCEPT ![at] = n]
    BY <1>5 DEF ChangeState
  <2>3. /\ r.trans = t /\ r.from # None
        /\ r.done = (Arc[t].mix = 0) /\ r.full = (Arc[t].mix = 0)
        /\ r.reset = (Arc[t].mix # 0)
    BY <2>1, TakenType, MachineAssumption
  <2>4. Consistent(r, n)
    <3> HIDE DEF r
    <3> QED BY <2>3 DEF Consistent
  <2> HIDE DEF r, n
  <2> QED BY <2>1, <2>2, <2>4
<1>6. ASSUME EndLayer PROVE MixInv'
  <2>1. at \in Layer /\ layers[at] \in LayerRecord
    BY <1>6 DEF EndLayer
  <2> DEFINE r == [layers[at] EXCEPT !.waiting = Waiting(layers[at], iteration # 0),
                                     !.spilled = 0]
  <2>2. layers' = [layers EXCEPT ![at] = r] /\ history' = history
    BY <1>6 DEF EndLayer
  <2>3. Consistent(r, history.ends[at])
    BY <2>1 DEF Consistent, LayerRecord
  <2> HIDE DEF r
  <2> QED BY <2>1, <2>2, <2>3
<1>7. ASSUME FinishAdvance PROVE MixInv'
  BY <1>7 DEF FinishAdvance
<1>8. CASE UNCHANGED vars
  BY <1>8 DEF vars
<1> QED BY <1>1, <1>2, <1>3, <1>4, <1>5, <1>6, <1>7, <1>8 DEF Next, Running

(* The end of a transition is announced exactly once, when its mix         *)
(* completes and never again, and until then, and no longer, updateMix     *)
(* holds the snapshot it resets the animated properties from.              *)
THEOREM EndsAnnouncedOnce == Spec => []MixIsConsistent
<1>1. MixInv => MixIsConsistent
  BY DEF MixInv, MixIsConsistent, Consistent
<1> QED BY <1>1, AlwaysShape, MixInit, MixNext, PTL DEF Spec

-----------------------------------------------------------------------------
(* No layer makes so many changes in one advance that it gives up.         *)
NeverGivesUp == pc = "update" => ~GivesUp(iteration)

(* While nobody has asked for an advance, the layers that are done with    *)
(* this one have nothing left to do.                                       *)
QuietInv ==
  elapsed >= 0 /\ ~needsAdvance =>
    \A l \in Layer : pc = "idle" \/ l < at => ~Pending(l)

(* A state without a transition to take has only such as wait for an exit. *)
LEMMA NoneFound ==
  ASSUME Randoms = {}, NEW r, NEW s \in States, NEW ignore, None \in Found(r, s, ignore),
         NEW k \in DOMAIN Out[s], ConditionsHold(Out[s][k], ignore), Arc[Out[s][k]].to # r.cur
  PROVE  WaitsForExit(r, s, Out[s][k])
<1> SUFFICES ASSUME ~WaitsForExit(r, s, Out[s][k]) PROVE FALSE
  OBVIOUS
<1>1. k \in Allowed(r, s, ignore)
  BY DEF Allowed
<1>2. PICK i \in Allowed(r, s, ignore) : None = Out[s][i]
  BY <1>1 DEF Found
<1>3. i \in DOMAIN Out[s] /\ Out[s] \in Seq(Transitions)
  BY <1>2, MachineAssumption DEF Allowed
<1>4. Out[s][i] \in Transitions
  BY <1>3
<1> QED BY <1>2, <1>4, MachineAssumption

(* A layer that is done and does not ask to go on has no transition left.  *)
LEMMA DoneIsQuiet ==
  ASSUME Randoms = {}, Shape, EndLayer, ~needsAdvance', NEW l \in Layer, l = at
  PROVE  ~Pending(l)'
<1> DEFINE r == layers[at]
           ignore == iteration # 0
           q == [r EXCEPT !.waiting = Waiting(r, ignore), !.spilled = 0]
<1>1. at \in Layer /\ r \in LayerRecord /\ AnyState[at] \in States
  BY MachineAssumption DEF EndLayer, Shape
<1>2. layers'[at] = q /\ ~GoesOn(q) /\ bools' = bools /\ fired' = fired
  BY <1>1 DEF EndLayer, Shape
<1>3. q.full = r.full /\ q.cur = r.cur /\ q.waiting = Waiting(r, ignore)
  BY <1>1 DEF LayerRecord
<1>4. r.full /\ ~Waiting(r, ignore) /\ r.cur \in States
  <2> HIDE DEF q
  <2> QED BY <1>1, <1>2, <1>3 DEF GoesOn, LayerRecord
<1> HIDE DEF q, ignore
<1>5. ~IsTransitioning(r)
  BY <1>4 DEF IsTransitioning
<1>6. None \in Found(r, AnyState[at], ignore) /\ None \in Found(r, r.cur, ignore)
  BY <1>5 DEF EndLayer, Choices, ignore
<1>7. ASSUME NEW s \in {AnyState[at], r.cur}, NEW k \in DOMAIN Out[s],
             ConditionsHold(Out[s][k], TRUE), Arc[Out[s][k]].to # r.cur
      PROVE  FALSE
  <2>1. s \in States
    BY <1>1, <1>4
  <2>2. ConditionsHold(Out[s][k], ignore)
    BY <1>7 DEF ConditionsHold
  <2>3. WaitsForExit(r, s, Out[s][k])
    BY <1>6, <1>7, <2>1, <2>2, NoneFound
  <2>4. s = r.cur
    BY <2>3 DEF WaitsForExit
  <2> QED BY <1>4, <1>5, <2>2, <2>3, <2>4 DEF Waiting
<1>8. \A t : ConditionsHold(t, TRUE)' <=> ConditionsHold(t, TRUE)
  BY <1>2 DEF ConditionsHold
<1>9. layers'[l].cur = r.cur
  BY <1>2, <1>3
<1> QED BY <1>7, <1>8, <1>9 DEF Pending

LEMMA PendingStays ==
  ASSUME NEW l \in Layer, UNCHANGED <<bools, fired>>, layers'[l].cur = layers[l].cur
  PROVE  Pending(l)' <=> Pending(l)
  BY DEF Pending, ConditionsHold
LEMMA QuietInit == Init => QuietInv
  BY DEF Init, QuietInv

LEMMA QuietNext ==
  ASSUME Randoms = {}, Shape, QuietInv, NeverGivesUp, [Next]_vars
  PROVE  QuietInv'
<1>1. ASSUME NEW b \in Bools, NEW v \in BOOLEAN, SetBool(b, v) PROVE QuietInv'
  BY <1>1 DEF SetBool, QuietInv
<1>2. ASSUME NEW g \in Triggers, Fire(g) PROVE QuietInv'
  BY <1>2 DEF Fire, QuietInv
<1>3. ASSUME NEW s \in Steps, BeginAdvance(s) PROVE QuietInv'
  BY <1>3, MachineAssumption DEF BeginAdvance, QuietInv, Layer
<1>4. ASSUME AdvanceLayer \/ \E t \in Transitions : ChangeState(t) PROVE QuietInv'
  <2>1. /\ pc # "idle" /\ pc' # "idle" /\ at' = at /\ UNCHANGED <<bools, fired, needsAdvance, elapsed>>
        /\ \A l \in Layer : l # at => layers'[l] = layers[l]
    BY <1>4 DEF AdvanceLayer, ChangeState, NeverGivesUp, Shape
  <2>2. ASSUME NEW l \in Layer, l < at, ~Pending(l) PROVE ~Pending(l)'
    BY <2>1, <2>2, PendingStays DEF Layer
  <2> QED BY <2>1, <2>2 DEF QuietInv
<1>5. ASSUME EndLayer PROVE QuietInv'
  <2> SUFFICES ASSUME elapsed' >= 0, ~needsAdvance', NEW l \in Layer, pc' = "idle" \/ l < at'
               PROVE  ~Pending(l)'
    BY DEF QuietInv
  <2>1. /\ at' = at + 1 /\ pc' # "idle" /\ UNCHANGED <<bools, fired, elapsed>> /\ at \in Nat
        /\ \A k \in Layer : k # at => layers'[k] = layers[k]
        /\ ~needsAdvance
    BY <1>5 DEF EndLayer, Shape
  <2>2. CASE l = at
    BY <1>5, <2>2, DoneIsQuiet
  <2>3. CASE l # at
    <3>1. l < at
      BY <2>1, <2>3 DEF Layer
    <3>2. ~Pending(l)
      BY <2>1, <3>1 DEF QuietInv
    <3> QED BY <2>1, <2>3, <3>2, PendingStays
  <2> QED BY <2>2, <2>3
<1>6. ASSUME FinishAdvance PROVE QuietInv'
  <2>1. /\ UNCHANGED <<bools, layers, needsAdvance, elapsed>>
        /\ \A l \in Layer : l < at
    BY <1>6, MachineAssumption DEF FinishAdvance, Shape, Layer
  <2>2. fired' = {}
    BY <1>6 DEF FinishAdvance
  <2>3. ASSUME NEW l \in Layer, ~Pending(l) PROVE ~Pending(l)'
    BY <2>1, <2>2, <2>3 DEF Pending, ConditionsHold
  <2> QED BY <2>1, <2>3 DEF QuietInv
<1>7. CASE UNCHANGED vars
  <2>1. \A l \in Layer : Pending(l)' <=> Pending(l)
    BY <1>7, PendingStays DEF vars
  <2> QED BY <1>7, <2>1 DEF vars, QuietInv
<1> QED BY <1>1, <1>2, <1>3, <1>4, <1>5, <1>6, <1>7 DEF Next, Running

(* Where no layer gives up and no state chooses at random, a machine that  *)
(* answers that it needs no advance has no state change left to make.      *)
THEOREM QuietMachineIsDone ==
  Randoms = {} => (Spec /\ []NeverGivesUp => []QuietLayers)
<1> SUFFICES ASSUME Randoms = {} PROVE Spec /\ []NeverGivesUp => []QuietLayers
  OBVIOUS
<1>1. Shape /\ QuietInv /\ NeverGivesUp /\ [Next]_vars => QuietInv'
  BY QuietNext
<1>2. QuietInv => QuietLayers
  BY DEF QuietInv, QuietLayers
<1> QED BY <1>1, <1>2, AlwaysShape, QuietInit, PTL DEF Spec
-----------------------------------------------------------------------------
(* The code does not bound a total time: Horizon must be beyond what an    *)
(* animation that has not ended yet can reach.                             *)
HorizonIsFar == \A d \in Steps : d <= Horizon /\ \A s \in OneShots : Length[s] + d <= Horizon

(* The any state plays nothing, so that an exit time of its transitions is *)
(* not looked at (exitTimeAnimationInstance): let them have none.          *)
AnyStateHasNoExit ==
  \A l \in Layer : \A k \in DOMAIN Out[AnyState[l]] : Arc[Out[AnyState[l]][k]].exit = NoExit

(* What a layer has left over when the advance ended its animation.        *)
Rest(r) == IF r.total > Length[r.cur] THEN r.total - Length[r.cur] ELSE 0

Whole(r) == r.cur \in OneShots /\ r.last < Length[r.cur] => r.spilled = Rest(r)

Near(r) == r.spilled <= Horizon

(* While advance is at a layer, the time its animation did not use is what *)
(* the layer would hand on.                                                *)
TimeInv ==
  /\ pc # "idle" => elapsed \in Steps
  /\ \A l \in Layer : Near(layers[l])
  /\ pc = "update" /\ elapsed # 0 => Whole(layers[at])

(* An animation that is advanced spills what lies beyond its end.          *)
LEMMA AdvancedTimes ==
  ASSUME NEW r \in LayerRecord, NEW s \in Nat, s # 0, s <= Horizon, Near(r),
         r.cur \in OneShots /\ r.total < Length[r.cur] => r.total + s <= Horizon
  PROVE  Whole(Advanced(r, s)) /\ Near(Advanced(r, s))
<1> DEFINE len == Length[r.cur]
           pos == r.total % len
<1>1. len \in Nat /\ r.total \in Nat /\ Horizon \in Nat /\ r.last \in Nat /\ len < Horizon
  BY MachineAssumption DEF LayerRecord
<1>2. CASE len = 0
  <2>1. Advanced(r, s) = r
    BY <1>2 DEF Advanced
  <2> QED BY <1>1, <1>2, <2>1 DEF Whole
<1>3. CASE len # 0 /\ r.cur \in OneShots
  <2> DEFINE a == Low(r.total + s, Horizon)
             c == IF r.total < len /\ r.total + s > len THEN r.total + s - len ELSE 0
             d == r.total + s < len
             q == [r EXCEPT !.last = r.total, !.total = a, !.spilled = c, !.going = d]
  <2>1. Advanced(r, s) = q
    BY <1>3 DEF Advanced
  <2>2. q.cur = r.cur /\ q.last = r.total /\ q.total = a /\ q.spilled = c
    BY DEF LayerRecord
  <2>3. c <= Horizon
    BY <1>1, <1>3
  <2>4. r.total < len => c = IF a > len THEN a - len ELSE 0
    BY <1>1, <1>3 DEF Low
  <2> HIDE DEF a, c, d, len
  <2>5. Near(q)
    BY <2>2, <2>3 DEF Near
  <2>6. Whole(q)
    BY <2>2, <2>4 DEF Whole, Rest, len
  <2> QED BY <2>1, <2>5, <2>6
<1>4. CASE len # 0 /\ r.cur \notin OneShots
  <2> DEFINE b == pos + s
             c == IF pos + s >= len THEN (pos + s) % len ELSE 0
             q == [r EXCEPT !.last = pos, !.total = b, !.spilled = c, !.going = TRUE]
  <2>1. Advanced(r, s) = q
    BY <1>4 DEF Advanced
  <2>2. q.cur = r.cur /\ q.spilled = c
    BY DEF LayerRecord
  <2>3. pos \in Nat
    BY <1>1, <1>4, RemainderType
  <2>4. c <= Horizon
    <3> HIDE DEF pos, len
    <3>1. \A x, y \in Nat : y > 0 => x % y < y
      OBVIOUS
    <3>2. pos + s \in Nat
      BY <2>3
    <3> QED BY <1>1, <1>4, <3>1, <3>2
  <2> HIDE DEF b, c, pos, len
  <2> QED BY <1>4, <2>1, <2>2, <2>4 DEF Near, Whole
<1> QED BY <1>2, <1>3, <1>4

(* A state that is entered has played what was handed on to it.            *)
LEMMA TakenTimes ==
  ASSUME NEW r \in LayerRecord, NEW t \in Transitions, Near(r)
  PROVE  /\ Whole(Taken(r, t)) /\ Near(Taken(r, t))
         /\ Taken(r, t).cur = Arc[t].to
         /\ Length[Arc[t].to] > 0 => Taken(r, t).total = HandedOn(r)
<1> DEFINE new == Instance(r, Arc[t].to)
           s == HandedOn(r)
           run == Advanced(new, s)
           len == Length[Arc[t].to]
<1>1. Arc[t].to \in States /\ len \in Nat /\ Horizon \in Nat
  BY MachineAssumption
<1>2. /\ new \in LayerRecord /\ new.cur = Arc[t].to /\ new.last = 0
      /\ new.total = 0 /\ new.spilled = 0
  <2>1. new \in LayerRecord
    BY <1>1 DEF Instance, LayerRecord
  <2>2. new.cur = Arc[t].to /\ new.last = 0 /\ new.total = 0 /\ new.spilled = 0
    BY DEF Instance, LayerRecord
  <2> QED BY <2>1, <2>2
<1>3. s \in Nat /\ s <= Horizon
  BY <1>1 DEF HandedOn, Near, LayerRecord
<1> HIDE DEF new, s
<1>4. run.cur = Arc[t].to /\ run \in LayerRecord
  <2>1. run \in LayerRecord
    BY <1>2, <1>3, AdvancedType
  <2> QED BY <1>2, <2>1 DEF Advanced, LayerRecord
<1>5. Whole(run) /\ Near(run)
  <2>1. CASE s # 0
    BY <1>1, <1>2, <1>3, <2>1, AdvancedTimes DEF Near
  <2>2. CASE s = 0
    <3>1. run.spilled = 0 /\ run.total = 0 /\ run.cur = Arc[t].to
      BY <1>2, <1>4, <2>2 DEF Advanced, LayerRecord
    <3> HIDE DEF run
    <3> QED BY <1>1, <3>1 DEF Whole, Near, Rest
  <2> QED BY <2>1, <2>2
<1>6. ASSUME len > 0 PROVE run.total = s
  <2>1. CASE s = 0
    BY <1>2, <2>1 DEF Advanced, LayerRecord
  <2>2. CASE s # 0 /\ new.cur \in OneShots
    <3>1. Low(0 + s, Horizon) = s
      BY <1>1, <1>3 DEF Low
    <3>2. run.total = Low(0 + s, Horizon)
      BY <1>2, <1>6, <2>2 DEF Advanced, LayerRecord
    <3> QED BY <3>1, <3>2
  <2>3. CASE s # 0 /\ new.cur \notin OneShots
    <3>1. 0 % len = 0
      BY <1>1, <1>6
    <3>2. run.total = (0 % len) + s
      BY <1>2, <1>6, <2>3 DEF Advanced, LayerRecord
    <3> QED BY <1>3, <3>1, <3>2
  <2> QED BY <2>1, <2>2, <2>3
<1>7. /\ Taken(r, t).cur = run.cur /\ Taken(r, t).last = run.last
      /\ Taken(r, t).total = run.total /\ Taken(r, t).spilled = run.spilled
  <2>1. Taken(r, t) = [run EXCEPT !.from = r.cur, !.trans = t, !.mixed = 0,
                         !.waiting = FALSE, !.done = Arc[t].mix = 0,
                         !.full = Arc[t].mix = 0, !.reset = ~(Arc[t].mix = 0)]
    BY DEF Taken, new, s
  <2> HIDE DEF run
  <2> QED BY <1>4, <2>1 DEF LayerRecord
<1> HIDE DEF run, len
<1>8. Whole(Taken(r, t)) /\ Near(Taken(r, t))
  BY <1>5, <1>7 DEF Whole, Near, Rest
<1> QED BY <1>4, <1>6, <1>7, <1>8 DEF s, len

(* A mix does not change what an animation played.                         *)
LEMMA UpdateMixTimes ==
  ASSUME NEW r \in LayerRecord, NEW s \in Nat
  PROVE  /\ UpdateMix(r, s).cur = r.cur /\ UpdateMix(r, s).last = r.last
         /\ UpdateMix(r, s).total = r.total /\ UpdateMix(r, s).spilled = r.spilled
<1>1. CASE ~Mixes(r)
  BY <1>1 DEF UpdateMix, LayerRecord
<1>2. CASE Mixes(r)
  <2> DEFINE m == Low(r.mixed + s, MixTime(r.trans, r.from))
             f == MixIsFull(r, s)
             d == r.done \/ MixIsFull(r, s)
             e == r.reset /\ ~MixCompletesNow(r, s)
  <2>1. UpdateMix(r, s) = [r EXCEPT !.mixed = m, !.full = f, !.done = d, !.reset = e]
    BY <1>2 DEF UpdateMix
  <2> HIDE DEF m, f, d, e
  <2> QED BY <2>1 DEF LayerRecord
<1> QED BY <1>1, <1>2

LEMMA TimeInit == Init => TimeInv
  BY MachineAssumption DEF Init, TimeInv, Near

LEMMA TimeNext ==
  ASSUME HorizonIsFar, Shape, TimeInv, [Next]_vars
  PROVE  TimeInv'
<1>1. ASSUME NEW b \in Bools, NEW v \in BOOLEAN, SetBool(b, v) PROVE TimeInv'
  BY <1>1 DEF SetBool, TimeInv, Near
<1>2. ASSUME NEW g \in Triggers, Fire(g) PROVE TimeInv'
  BY <1>2 DEF Fire, TimeInv, Near
<1>3. ASSUME NEW s \in Steps, BeginAdvance(s) PROVE TimeInv'
  BY <1>3 DEF BeginAdvance, TimeInv, Near
<1>4. ASSUME AdvanceLayer PROVE TimeInv'
  <2>1. at \in Layer /\ elapsed \in Steps /\ elapsed \in Nat
    BY <1>4, MachineAssumption DEF AdvanceLayer, Layer, Shape, TimeInv
  <2> DEFINE old == layers[at]
             r == Advanced(old, elapsed)
             q == UpdateMix(r, elapsed)
  <2>2. old \in LayerRecord /\ Near(old)
    BY <2>1 DEF Shape, TimeInv
  <2>3. r \in LayerRecord
    BY <2>1, <2>2, AdvancedType
  <2>4. elapsed <= Horizon /\ (old.cur \in OneShots /\ old.total < Length[old.cur]
                                 => old.total + elapsed <= Horizon)
    <3>1. old.total \in Nat /\ Length[old.cur] \in Nat /\ Horizon \in Nat
      BY <2>2, MachineAssumption DEF LayerRecord
    <3>2. elapsed <= Horizon /\ (old.cur \in OneShots => Length[old.cur] + elapsed <= Horizon)
      BY <2>1 DEF HorizonIsFar
    <3> HIDE DEF old
    <3> QED BY <2>1, <3>1, <3>2
  <2>5. Near(r) /\ (elapsed # 0 => Whole(r))
    <3>1. CASE elapsed # 0
      <4> HIDE DEF old
      <4> QED BY <2>1, <2>2, <2>4, <3>1, AdvancedTimes
    <3>2. CASE elapsed = 0
      <4>1. r.spilled = 0 \/ r = old
        BY <2>2, <3>2 DEF Advanced, LayerRecord
      <4> HIDE DEF r
      <4> QED BY <2>2, <3>2, <4>1, MachineAssumption DEF Near
    <3> QED BY <3>1, <3>2
  <2>6. q.cur = r.cur /\ q.last = r.last /\ q.total = r.total /\ q.spilled = r.spilled
    <3> HIDE DEF r
    <3> QED BY <2>1, <2>3, UpdateMixTimes
  <2>7. /\ layers' = [layers EXCEPT ![at] = q]
        /\ pc' = "update" /\ at' = at /\ elapsed' = elapsed
    BY <1>4 DEF AdvanceLayer
  <2> HIDE DEF q, r
  <2>8. Near(q) /\ (elapsed # 0 => Whole(q))
    BY <2>5, <2>6 DEF Near, Whole, Rest
  <2>9. layers'[at] = q /\ \A l \in Layer : l # at => layers'[l] = layers[l]
    BY <2>1, <2>7 DEF Shape
  <2> QED BY <2>1, <2>7, <2>8, <2>9 DEF TimeInv, Near, Whole, Rest
<1>5. ASSUME NEW t \in Transitions, ChangeState(t) PROVE TimeInv'
  <2>1. at \in Layer /\ layers[at] \in LayerRecord /\ Near(layers[at]) /\ elapsed \in Steps
    BY <1>5 DEF ChangeState, Shape, TimeInv
  <2> DEFINE q == Taken(layers[at], t)
  <2>2. Whole(q) /\ Near(q)
    BY <2>1, TakenTimes
  <2>3. /\ layers' = [layers EXCEPT ![at] = q] /\ elapsed' = elapsed
        /\ pc' = "update" => at' = at
    BY <1>5 DEF ChangeState
  <2> HIDE DEF q
  <2>4. layers'[at] = q /\ \A l \in Layer : l # at => layers'[l] = layers[l]
    BY <2>1, <2>3 DEF Shape
  <2> QED BY <2>1, <2>2, <2>3, <2>4 DEF TimeInv, Near, Whole, Rest
<1>6. ASSUME EndLayer PROVE TimeInv'
  <2>1. at \in Layer /\ layers[at] \in LayerRecord /\ elapsed \in Steps
    BY <1>6 DEF EndLayer, Shape, TimeInv
  <2> DEFINE q == [layers[at] EXCEPT !.waiting = Waiting(layers[at], iteration # 0),
                                     !.spilled = 0]
  <2>2. q.spilled = 0
    BY <2>1 DEF LayerRecord
  <2>3. layers' = [layers EXCEPT ![at] = q] /\ pc' = "layer" /\ elapsed' = elapsed
    BY <1>6 DEF EndLayer
  <2> HIDE DEF q
  <2>4. layers'[at] = q /\ \A l \in Layer : l # at => layers'[l] = layers[l]
    BY <2>1, <2>3 DEF Shape
  <2> QED BY <2>1, <2>2, <2>3, <2>4, MachineAssumption DEF TimeInv, Near
<1>7. ASSUME FinishAdvance PROVE TimeInv'
  BY <1>7 DEF FinishAdvance, TimeInv, Near
<1>8. CASE UNCHANGED vars
  BY <1>8 DEF vars, TimeInv, Near, Whole, Rest
<1> QED BY <1>1, <1>2, <1>3, <1>4, <1>5, <1>6, <1>7, <1>8 DEF Next, Running

(* A transition of an exit time is only taken once that time has come.     *)
LEMMA ExitHasCome ==
  ASSUME AnyStateHasNoExit, NEW l \in Layer, NEW r, NEW ignore,
         NEW t \in Choices(r, AnyState[l], ignore), t # None,
         Arc[t].exit = Length[r.cur], Length[r.cur] \in Nat, Length[r.cur] > 0
  PROVE  ~(r.total < Length[r.cur])
<1>1. t \in Found(r, AnyState[l], ignore) \/ t \in Found(r, r.cur, ignore)
  BY DEF Choices
<1>2. PICK s \in {AnyState[l], r.cur} : t \in Found(r, s, ignore)
  BY <1>1
<1>3. PICK k \in Allowed(r, s, ignore) : t = Out[s][k]
  BY <1>2 DEF Found
<1>4. k \in DOMAIN Out[s] /\ ~WaitsForExit(r, s, t)
  BY <1>3 DEF Allowed
<1>5. Arc[t].exit # NoExit
  BY DEF NoExit
<1>6. s = r.cur
  BY <1>2, <1>3, <1>4, <1>5 DEF AnyStateHasNoExit
<1> QED BY <1>4, <1>5, <1>6 DEF WaitsForExit

(* What NoTimeLost says of one step.                                       *)
HandsOnTheRest ==
  \A l \in Layer :
    LET r == layers[l]
    IN  /\ layers'[l].cur # r.cur
        /\ r.cur \in OneShots /\ Length[layers'[l].cur] > 0
        /\ Arc[layers'[l].trans].exit = Length[r.cur]
        /\ r.last < Length[r.cur] /\ elapsed # 0
        => layers'[l].total = r.total - Length[r.cur]

LEMMA RestIsHandedOn ==
  ASSUME AnyStateHasNoExit, Shape, TimeInv, [Next]_vars
  PROVE  HandsOnTheRest
<1> SUFFICES ASSUME NEW l \in Layer, layers'[l].cur # layers[l].cur,
                    layers[l].cur \in OneShots, Length[layers'[l].cur] > 0,
                    Arc[layers'[l].trans].exit = Length[layers[l].cur],
                    layers[l].last < Length[layers[l].cur], elapsed # 0
             PROVE  layers'[l].total = layers[l].total - Length[layers[l].cur]
  BY DEF HandsOnTheRest
<1>1. layers[l] \in LayerRecord
  BY DEF Shape
<1>2. ASSUME layers'[l] = layers[l] PROVE FALSE
  BY <1>2
<1>3. ASSUME AdvanceLayer PROVE FALSE
  <2>1. CASE l = at
    <3> DEFINE r == Advanced(layers[at], elapsed)
    <3>1. elapsed \in Nat /\ layers'[l] = UpdateMix(r, elapsed)
      BY <1>3, <2>1 DEF AdvanceLayer, Shape
    <3>2. r \in LayerRecord /\ r.cur = layers[l].cur
      <4>1. r \in LayerRecord
        BY <1>1, <2>1, <3>1, AdvancedType
      <4> QED BY <1>1, <2>1, <4>1 DEF Advanced, LayerRecord
    <3> HIDE DEF r
    <3>3. layers'[l].cur = r.cur
      BY <3>1, <3>2, UpdateMixTimes
    <3> QED BY <3>2, <3>3
  <2>2. CASE l # at
    BY <1>2, <1>3, <2>2 DEF AdvanceLayer, Shape
  <2> QED BY <2>1, <2>2
<1>4. ASSUME EndLayer PROVE FALSE
  <2>1. CASE l = at
    <3>1. layers'[l] = [layers[l] EXCEPT !.waiting = Waiting(layers[at], iteration # 0),
                                         !.spilled = 0]
      BY <1>4, <2>1 DEF EndLayer, Shape
    <3> QED BY <1>1, <3>1 DEF LayerRecord
  <2>2. CASE l # at
    BY <1>2, <1>4, <2>2 DEF EndLayer, Shape
  <2> QED BY <2>1, <2>2
<1>5. ASSUME NEW t \in Transitions, ChangeState(t)
      PROVE  layers'[l].total = layers[l].total - Length[layers[l].cur]
  <2>1. CASE l = at
    <3> DEFINE r == layers[l]
               len == Length[r.cur]
    <3>1. /\ layers'[l] = Taken(r, t)
          /\ t \in Choices(r, AnyState[l], iteration # 0) /\ t # None
          /\ Whole(r) /\ Near(r)
      BY <1>5, <2>1 DEF ChangeState, Shape, TimeInv
    <3>2. layers'[l].trans = t /\ layers'[l].cur = Arc[t].to
          /\ layers'[l].total = HandedOn(r)
      BY <1>1, <3>1, TakenTimes, TakenType
    <3>3. len \in Nat /\ r.total \in Nat /\ r.last \in Nat /\ len > 0
      BY <1>1, MachineAssumption DEF LayerRecord
    <3>4. ~(r.total < len)
      BY <3>1, <3>2, <3>3, ExitHasCome
    <3>5. HandedOn(r) = Rest(r)
      BY <3>1, <3>3 DEF Whole, HandedOn
    <3> QED BY <3>2, <3>3, <3>4, <3>5 DEF Rest
  <2>2. CASE l # at
    BY <1>2, <1>5, <2>2 DEF ChangeState, Shape
  <2> QED BY <2>1, <2>2
<1>6. CASE UNCHANGED layers
  BY <1>2, <1>6
<1> QED BY <1>3, <1>4, <1>5, <1>6
        DEF Next, Running, SetBool, Fire, BeginAdvance, FinishAdvance, vars

(* However an animation ends within an advance, and however many of its    *)
(* successors end in that advance too, tryChangeState starts the next one  *)
(* with exactly the time that was left over.                               *)
THEOREM ChainsKeepTime == HorizonIsFar /\ AnyStateHasNoExit => (Spec => NoTimeLost)
<1> SUFFICES ASSUME HorizonIsFar, AnyStateHasNoExit PROVE Spec => NoTimeLost
  OBVIOUS
<1>1. Shape /\ TimeInv /\ [Next]_vars => TimeInv'
  BY TimeNext
<1>2. Shape /\ TimeInv /\ [Next]_vars => [HandsOnTheRest]_vars
  BY RestIsHandedOn
<1>3. Spec => [][HandsOnTheRest]_vars
  BY <1>1, <1>2, AlwaysShape, TimeInit, PTL DEF Spec
<1> QED BY <1>3 DEF NoTimeLost, HandsOnTheRest
-----------------------------------------------------------------------------
(***************************************************************************)
(* The pointer listeners of the machine, and of one nested in its          *)
(* artboard: each hears every call that is for it, once.                   *)
(***************************************************************************)
(* Its constants and variables.                                            *)
CONSTANTS Nested, Order, NestedOrder, Opaque, Calls, Positions

Touch == INSTANCE PointerListeners

Phases == {"out", "down", "clicked"}
GroupState == [hovered : BOOLEAN, phase : Phases, performed : Nat]

(* What a hit component hides at some place of the pointer.                *)
Hides(h) ==
  IF h = Nested THEN Touch!ToSet(NestedOrder) \cap Opaque # {} ELSE h \in Opaque

(* No shape of a target is behind an opaque one that is not behind all of  *)
(* its shapes.                                                             *)
TargetsAreClear ==
  \A g \in Groups : \A order \in {Order, NestedOrder} : \A i, j, k \in DOMAIN order :
    i <= k /\ k < j /\ order[i] \in Listener[g].shapes /\ order[j] \in Listener[g].shapes
      => ~Hides(order[k])

(* The nested artboard is behind no opaque shape.                          *)
NestedIsClear ==
  \A i, j \in DOMAIN Order : i < j /\ Order[j] = Nested => Order[i] \notin Opaque

Clear == Touch!PointerAssumption /\ TargetsAreClear /\ NestedIsClear

Types == {"move", "down", "up", "exit"}

-----------------------------------------------------------------------------
(* What one turn does to a group.                                          *)
LEMMA ClickPhaseType ==
  ASSUME NEW p \in Phases, NEW type, NEW isOver \in BOOLEAN
  PROVE  Touch!ClickPhase(p, type, isOver) \in Phases
  BY DEF Touch!ClickPhase, Phases

LEMMA ClickPhaseStays ==
  ASSUME NEW p \in Phases, NEW type \in Types, NEW isOver \in BOOLEAN
  PROVE  LET q == Touch!ClickPhase(p, type, isOver)
         IN  Touch!ClickPhase(q, type, isOver) = q
  BY DEF Touch!ClickPhase, Phases, Types

(* What a group that has been heard is.                                    *)
LEMMA HeardIs ==
  ASSUME NEW group \in GroupState, NEW g \in Groups, NEW type \in Types, NEW c \in BOOLEAN
  PROVE  LET v == c /\ group.hovered
             p == Touch!ClickPhase(group.phase, type, v)
             q == Touch!Heard(group, g, type, c)
         IN  /\ q \in GroupState
             /\ q.hovered = v /\ q.phase = p
             /\ q.performed = group.performed +
                  (IF Touch!Performs(Listener[g].kind, type, v, hovered[g], p) THEN 1 ELSE 0)
<1> DEFINE v == c /\ group.hovered
           p == Touch!ClickPhase(group.phase, type, v)
           n == IF Touch!Performs(Listener[g].kind, type, v, hovered[g], p)
                THEN group.performed + 1 ELSE group.performed
           q == Touch!Heard(group, g, type, c)
<1>1. v \in BOOLEAN /\ group.phase \in Phases /\ group.performed \in Nat
  BY DEF GroupState
<1>2. p \in Phases
  <2> HIDE DEF v
  <2> QED BY <1>1, ClickPhaseType
<1>3. n \in Nat
  BY <1>1
<1>4. n = group.performed +
           (IF Touch!Performs(Listener[g].kind, type, v, hovered[g], p) THEN 1 ELSE 0)
  BY <1>1
<1>5. q = [hovered |-> v, phase |-> p, performed |-> n]
  BY DEF Touch!Heard, Touch!SeesPointer
<1> HIDE DEF v, p, n, q
<1>6. q \in GroupState /\ q.hovered = v /\ q.phase = p /\ q.performed = n
  BY <1>1, <1>2, <1>3, <1>5 DEF GroupState
<1> QED BY <1>4, <1>6 DEF v, p, q

(* A second turn in the same call changes nothing.                         *)
LEMMA HeardAgain ==
  ASSUME NEW group \in GroupState, NEW g \in Groups, NEW type \in Types, NEW c \in BOOLEAN,
         group.performed = 0, ~Touch!IsConsumed(Touch!Heard(group, g, type, c))
  PROVE  Touch!Heard(Touch!Heard(group, g, type, c), g, type, c) = Touch!Heard(group, g, type, c)
<1> DEFINE q == Touch!Heard(group, g, type, c)
           r == Touch!Heard(q, g, type, c)
           v == c /\ group.hovered
           p == Touch!ClickPhase(group.phase, type, v)
<1>1. /\ q \in GroupState /\ q.hovered = v /\ q.phase = p
      /\ q.performed = group.performed +
                  (IF Touch!Performs(Listener[g].kind, type, v, hovered[g], p) THEN 1 ELSE 0)
  BY HeardIs
<1>2. q.performed = 0 /\ ~Touch!Performs(Listener[g].kind, type, v, hovered[g], p)
  <2>1. ~(q.performed > 0)
    BY DEF Touch!IsConsumed
  <2> HIDE DEF q, v, p
  <2> QED BY <1>1, <2>1
<1>3. v \in BOOLEAN /\ group.phase \in Phases
  BY DEF GroupState
<1>4. (c /\ q.hovered) = v
  <2> HIDE DEF q
  <2> QED BY <1>1
<1>5. Touch!ClickPhase(p, type, v) = p
  <2> HIDE DEF v
  <2> QED BY <1>3, ClickPhaseStays
<1> HIDE DEF q
<1>6. /\ r.hovered = (c /\ q.hovered) /\ r.phase = Touch!ClickPhase(q.phase, type, c /\ q.hovered)
      /\ r.performed = q.performed +
           (IF Touch!Performs(Listener[g].kind, type, c /\ q.hovered, hovered[g],
                          Touch!ClickPhase(q.phase, type, c /\ q.hovered)) THEN 1 ELSE 0)
      /\ r \in GroupState
  BY <1>1, HeardIs
<1> HIDE DEF r, v, p
<1>7. Touch!ClickPhase(q.phase, type, c /\ q.hovered) = p
  BY <1>1, <1>4, <1>5
<1>8. r.hovered = q.hovered /\ r.phase = q.phase /\ r.performed = q.performed
  BY <1>1, <1>2, <1>4, <1>6, <1>7
<1>9. q \in GroupState /\ r \in GroupState
  BY <1>1, <1>6
<1>10. r = q
  BY <1>8, <1>9 DEF GroupState
<1> QED BY <1>10 DEF q, r
-----------------------------------------------------------------------------
(* The types of what a group keeps.                                        *)
GroupsShape ==
  /\ hovered \in [Groups -> BOOLEAN] /\ phase \in [Groups -> Phases]

(* The first of a group's shapes is no more hidden than the last.          *)
LEMMA SameSight ==
  ASSUME Clear, NEW g \in Groups, NEW order \in {Order, NestedOrder}, NEW under,
         NEW i \in DOMAIN order, NEW j \in DOMAIN order,
         order[i] \in Listener[g].shapes, order[j] \in Listener[g].shapes
  PROVE  Touch!CanHit(order, order[i], under) => Touch!CanHit(order, order[j], under)
<1> SUFFICES ASSUME Touch!CanHit(order, order[i], under), NEW k \in DOMAIN order,
                    NEW m \in DOMAIN order, k < m, order[m] = order[j],
                    Touch!Blocks(order[k], under)
             PROVE  FALSE
  BY DEF Touch!CanHit
<1>1. /\ DOMAIN order \subseteq Nat /\ m = j
  <2>1. Touch!IsInjective(order) /\ order \in Seq(Touch!Shapes \cup {Nested})
    BY DEF Clear, Touch!PointerAssumption
  <2> QED BY <2>1 DEF Touch!IsInjective
<1>2. Hides(order[k])
  BY DEF Touch!Blocks, Hides
<1>3. i \in Nat /\ j \in Nat /\ k \in Nat /\ k < j
  BY <1>1
<1>4. CASE k < i
  BY <1>4 DEF Touch!CanHit
<1>5. CASE i <= k
  BY <1>2, <1>3, <1>5 DEF Clear, TargetsAreClear
<1> QED BY <1>3, <1>4, <1>5

(* A group of these shapes is in sight.                                    *)
Sees(g, order, under) ==
  \E i \in DOMAIN order :
    order[i] \in Listener[g].shapes /\ Touch!CanHit(order, order[i], under)

LEMMA SightIs ==
  ASSUME Clear, NEW g \in Groups, NEW order \in {Order, NestedOrder}, NEW under,
         NEW i \in DOMAIN order, order[i] \in Listener[g].shapes
  PROVE  Touch!CanHit(order, order[i], under) = Sees(g, order, under)
<1>1. Touch!CanHit(order, order[i], under) => Sees(g, order, under)
  BY DEF Sees
<1>2. Sees(g, order, under) => Touch!CanHit(order, order[i], under)
  <2> SUFFICES ASSUME NEW j \in DOMAIN order, order[j] \in Listener[g].shapes,
                      Touch!CanHit(order, order[j], under)
               PROVE  Touch!CanHit(order, order[i], under)
    BY DEF Sees
  <2> QED BY SameSight
<1>3. Touch!CanHit(order, order[i], under) \in BOOLEAN /\ Sees(g, order, under) \in BOOLEAN
  BY DEF Touch!CanHit, Sees
<1> QED BY <1>1, <1>2, <1>3

LEMMA PreparedIs ==
  ASSUME GroupsShape, NEW g \in Groups, NEW type, NEW under
  PROVE  LET start == Touch!Prepared(g, type, under)
         IN  /\ start \in GroupState /\ start.performed = 0
             /\ start.phase = Touch!AfterClick(phase[g])
             /\ start.hovered = (\E s \in Listener[g].shapes \cap under : ~Touch!EarlyOut(s, type))
<1>1. Touch!AfterClick(phase[g]) \in Phases
  BY DEF GroupsShape, Touch!AfterClick, Phases
<1>2. (\E s \in Listener[g].shapes \cap under : ~Touch!EarlyOut(s, type)) \in BOOLEAN
  OBVIOUS
<1> QED BY <1>1, <1>2 DEF Touch!Prepared, GroupState

-----------------------------------------------------------------------------
(* The place of one of the group's shapes that is tested.                  *)
Own(g, order, type, i) == order[i] \in Listener[g].shapes /\ ~Touch!EarlyOut(order[i], type)

(* A turn at a shape: the first makes the group, and none after it.        *)
LEMMA TurnIs ==
  ASSUME Clear, GroupsShape, NEW g \in Groups, NEW order \in {Order, NestedOrder},
         NEW type \in Types, NEW under, NEW i \in DOMAIN order, NEW group,
         NEW start, start = Touch!Prepared(g, type, under),
         NEW heard, heard = Touch!Heard(start, g, type, Sees(g, order, under)),
         group \in {start, heard}
  PROVE  Touch!Turn(group, order[i], g, order, type, under) =
           IF Own(g, order, type, i) THEN heard ELSE group
<1> DEFINE c == Sees(g, order, under)
<1>1. CASE ~Own(g, order, type, i)
  BY <1>1 DEF Touch!Turn, Own
<1>2. CASE Own(g, order, type, i)
  <2>1. Touch!CanHit(order, order[i], under) = c
    BY <1>2, SightIs DEF Own
  <2>2. start \in GroupState /\ start.performed = 0
    BY PreparedIs
  <2>3. c \in BOOLEAN
    BY DEF Sees
  <2>4. Touch!Turn(group, order[i], g, order, type, under) =
          IF Touch!IsConsumed(group) THEN group ELSE Touch!Heard(group, g, type, c)
    <3>1. Touch!Turn(group, order[i], g, order, type, under) =
            IF Touch!IsConsumed(group) THEN group
            ELSE Touch!Heard(group, g, type, Touch!CanHit(order, order[i], under))
      BY <1>2 DEF Touch!Turn, Own
    <3> HIDE DEF c
    <3> QED BY <2>1, <3>1
  <2>5. heard = Touch!Heard(start, g, type, c)
    OBVIOUS
  <2> HIDE DEF c
  <2>6. CASE group = start
    <3>1. ~Touch!IsConsumed(start)
      BY <2>2 DEF Touch!IsConsumed
    <3> QED BY <1>2, <2>4, <2>5, <2>6, <3>1
  <2>7. CASE group = heard
    <3>1. ~Touch!IsConsumed(heard) => Touch!Heard(heard, g, type, c) = heard
      BY <2>2, <2>3, <2>5, HeardAgain
    <3> QED BY <1>2, <2>4, <2>7, <3>1
  <2> QED BY <2>6, <2>7
<1> QED BY <1>1, <1>2

(* All turns of a call together are one turn, if the group has any.        *)
LEMMA ProcessedIs ==
  ASSUME Clear, GroupsShape, NEW g \in Groups, NEW order \in {Order, NestedOrder},
         NEW type \in Types, NEW under
  PROVE  Touch!Processed(g, order, type, under) =
           IF \E i \in DOMAIN order : Own(g, order, type, i)
           THEN Touch!Heard(Touch!Prepared(g, type, under), g, type, Sees(g, order, under))
           ELSE Touch!Prepared(g, type, under)
<1> DEFINE N == Len(order)
           start == Touch!Prepared(g, type, under)
           heard == Touch!Heard(start, g, type, Sees(g, order, under))
           V == {start, heard}
           Go(v, k) == Touch!Turn(v, order[k], g, order, type, under)
           Step == [q \in V \X (1 .. N) |-> Go(q[1], q[2])]
           Is(f) == f = [k \in 0 .. N |-> IF k = 0 THEN start ELSE Go(f[k - 1], k)]
           G == CHOOSE f : Is(f)
<1>1. Touch!Processed(g, order, type, under) = G[N]
  BY DEF Touch!Processed
<1>2. N \in Nat /\ DOMAIN order = 1 .. N
  <2>1. order \in Seq(Touch!Shapes \cup {Nested})
    BY DEF Clear, Touch!PointerAssumption
  <2> QED BY <2>1
<1>3. ASSUME NEW v \in V, NEW k \in 1 .. N
      PROVE  Go(v, k) = IF Own(g, order, type, k) THEN heard ELSE v
  <2>1. k \in DOMAIN order
    BY <1>2
  <2>2. PICK a, b : a = start /\ b = heard
    OBVIOUS
  <2> HIDE DEF start, heard
  <2>3. /\ v \in {a, b} /\ a = Touch!Prepared(g, type, under)
        /\ b = Touch!Heard(a, g, type, Sees(g, order, under))
    BY <2>2 DEF start, heard
  <2>4. Go(v, k) = IF Own(g, order, type, k) THEN b ELSE v
    BY <2>1, <2>3, TurnIs
  <2> QED BY <2>2, <2>4
<1> HIDE DEF Go, N, G, start, heard
<1>4. Step \in StepsOf(V, N)
  <2>1. ASSUME NEW v \in V, NEW k \in 1 .. N PROVE Go(v, k) \in V
    BY <1>3
  <2> HIDE DEF V
  <2> QED BY <2>1 DEF StepsOf
<1>5. start \in V
  OBVIOUS
<1> HIDE DEF Step, V
<1>6. PICK f : CountsUp(f, N, V, start, Step)
  BY <1>2, <1>4, <1>5, CountingDefines
<1>7. /\ f \in [0 .. N -> V] /\ f[0] = start
      /\ \A k \in 1 .. N : f[k] = Step[<<f[k - 1], k>>]
  BY <1>6 DEF CountsUp
<1>8. ASSUME NEW k \in 1 .. N
      PROVE  f[k] = Go(f[k - 1], k) /\ f[k - 1] \in V
  <2>1. k - 1 \in 0 .. N
    BY <1>2
  <2>2. f[k - 1] \in V
    BY <1>7, <2>1
  <2>3. Step[<<f[k - 1], k>>] = Go(f[k - 1], k)
    BY <2>2 DEF Step
  <2> QED BY <1>7, <2>2, <2>3
<1>9. Is(f)
  <2>1. f = [k \in 0 .. N |-> f[k]]
    BY <1>7
  <2>2. \A k \in 0 .. N : f[k] = IF k = 0 THEN start ELSE Go(f[k - 1], k)
    <3> TAKE k \in 0 .. N
    <3>1. k = 0 \/ (k \in 1 .. N /\ k # 0)
      BY <1>2
    <3> QED BY <1>7, <1>8, <3>1
  <2> QED BY <2>1, <2>2
<1>10. Is(G)
  <2> HIDE DEF Is
  <2> QED BY <1>9 DEF G
<1>11. G[0] = start /\ \A k \in 1 .. N : G[k] = Go(G[k - 1], k)
  <2>1. \A k \in 0 .. N : G[k] = IF k = 0 THEN start ELSE Go(G[k - 1], k)
    BY <1>10
  <2>2. 0 \in 0 .. N /\ \A k \in 1 .. N : k \in 0 .. N /\ k # 0
    BY <1>2
  <2> HIDE DEF Is
  <2> QED BY <2>1, <2>2
<1> HIDE DEF Is
<1> DEFINE Seen(n) == \E i \in 1 .. n : Own(g, order, type, i)
           M == {n \in 0 .. N : G[n] = IF Seen(n) THEN heard ELSE start}
<1>12. 0 \in M
  <2>1. ~Seen(0)
    OBVIOUS
  <2> HIDE DEF Seen
  <2> QED BY <1>2, <1>11, <2>1
<1>13. ASSUME NEW n \in 0 .. N - 1, n \in M
       PROVE  n + 1 \in M
  <2>1. n + 1 \in 1 .. N /\ n + 1 \in 0 .. N /\ (n + 1) - 1 = n
    BY <1>2
  <2>2. Seen(n + 1) <=> Seen(n) \/ Own(g, order, type, n + 1)
    BY <1>2
  <2>3. G[n] = IF Seen(n) THEN heard ELSE start
    BY <1>13
  <2>4. G[n + 1] = Go(G[n], n + 1)
    BY <1>11, <2>1
  <2> HIDE DEF Seen
  <2>5. G[n] \in V
    BY <2>3 DEF V
  <2>6. G[n + 1] = IF Own(g, order, type, n + 1) THEN heard ELSE G[n]
    BY <1>3, <2>1, <2>4, <2>5
  <2>7. G[n + 1] = IF Seen(n + 1) THEN heard ELSE start
    BY <2>2, <2>3, <2>6
  <2> QED BY <2>1, <2>7
<1>14. N \in M
  <2>1. N \in 0 .. N
    BY <1>2
  <2> HIDE DEF M
  <2>2. 0 .. N \subseteq M
    BY <1>2, <1>12, <1>13, BoundedInduction
  <2> QED BY <2>1, <2>2
<1>15. Seen(N) <=> \E i \in DOMAIN order : Own(g, order, type, i)
  BY <1>2
<1> HIDE DEF Seen
<1>16. G[N] = IF Seen(N) THEN heard ELSE start
  BY <1>14
<1> QED BY <1>1, <1>15, <1>16 DEF start, heard
-----------------------------------------------------------------------------
(* What the call makes of the stack is what is really to be seen there.    *)

(* A shape of the artboard itself.                                         *)
LEMMA OuterSight ==
  ASSUME Clear, NEW under, NEW t \in Opaque \cup Touch!Shapes, NEW n \in DOMAIN Order,
         Order[n] = t, t \notin Touch!ToSet(NestedOrder), t # Nested
  PROVE  Touch!CanHit(Order, t, under) <=> Touch!Hiding[t] \cap under = {}
<1> DEFINE inner == Touch!ToSet(NestedOrder)
<1>1. /\ Opaque \subseteq Touch!Shapes /\ Touch!IsInjective(Order)
      /\ inner \cap Touch!ToSet(Order) = {} /\ Nested \notin Touch!Shapes
      /\ Touch!Shapes = inner \cup (Touch!ToSet(Order) \ {Nested})
  BY DEF Clear, Touch!PointerAssumption, Touch!Shapes
<1>2. t \in Touch!Shapes
  BY <1>1
<1>3. \A m \in DOMAIN Order : Order[m] = t => m = n
  BY <1>1 DEF Touch!IsInjective
<1>4. \A m \in DOMAIN Order : Order[m] \in Touch!ToSet(Order)
  BY DEF Touch!ToSet
<1>5. Touch!Hiding[t] = {s \in Opaque : Touch!Above(s, t)}
  BY <1>2 DEF Touch!Hiding
<1>6. \A m \in DOMAIN NestedOrder : NestedOrder[m] # t
  BY DEF Touch!ToSet
<1>7. ASSUME NEW s \in Opaque
      PROVE  Touch!Above(s, t) <=>
               \E m \in DOMAIN Order : m < n /\ IF s \in inner THEN Order[m] = Nested ELSE Order[m] = s
  BY <1>3, <1>6 DEF Touch!Above
<1>8. Touch!CanHit(Order, t, under) <=> \A m \in DOMAIN Order : m < n => ~Touch!Blocks(Order[m], under)
  BY <1>3 DEF Touch!CanHit
<1>9. ASSUME NEW m \in DOMAIN Order
      PROVE  Touch!Blocks(Order[m], under) <=>
               \E s \in Opaque \cap under : IF s \in inner THEN Order[m] = Nested ELSE Order[m] = s
  <2>1. CASE Order[m] = Nested
    <3>1. \A s \in Opaque : s # Nested
      BY <1>1
    <3> QED BY <2>1, <3>1 DEF Touch!Blocks
  <2>2. CASE Order[m] # Nested
    <3>1. Order[m] \notin inner
      BY <1>1, <1>4
    <3> QED BY <2>2, <3>1 DEF Touch!Blocks
  <2> QED BY <2>1, <2>2
<1> HIDE DEF inner
<1> QED BY <1>5, <1>7, <1>8, <1>9

(* A shape of the nested artboard.                                         *)
LEMMA InnerSight ==
  ASSUME Clear, NEW under, NEW t, NEW n \in DOMAIN NestedOrder, NestedOrder[n] = t
  PROVE  Touch!CanHit(NestedOrder, t, under) <=> Touch!Hiding[t] \cap under = {}
<1> DEFINE inner == Touch!ToSet(NestedOrder)
<1>1. /\ Opaque \subseteq Touch!Shapes /\ Touch!IsInjective(Order) /\ Touch!IsInjective(NestedOrder)
      /\ Nested \notin inner /\ NestedIsClear /\ DOMAIN Order \subseteq Nat
  BY DEF Clear, Touch!PointerAssumption
<1>2. t \in inner /\ t \in Touch!Shapes /\ \A m \in DOMAIN NestedOrder : NestedOrder[m] \in inner
  BY DEF Touch!ToSet, Touch!Shapes
<1>3. \A m \in DOMAIN NestedOrder : NestedOrder[m] = t => m = n
  BY <1>1 DEF Touch!IsInjective
<1>4. Touch!Hiding[t] = {s \in Opaque : Touch!Above(s, t)}
  BY <1>2 DEF Touch!Hiding
<1>5. ASSUME NEW s \in Opaque, NEW i \in DOMAIN Order, NEW j \in DOMAIN Order, i < j,
             IF s \in inner THEN Order[i] = Nested ELSE Order[i] = s, Order[j] = Nested
      PROVE  FALSE
  <2>1. CASE s \in inner
    <3>1. i = j
      BY <1>1, <1>5, <2>1 DEF Touch!IsInjective
    <3> QED BY <1>1, <1>5, <3>1
  <2>2. CASE s \notin inner
    BY <1>1, <1>5, <2>2 DEF NestedIsClear
  <2> QED BY <2>1, <2>2
<1>6. ASSUME NEW s \in Opaque
      PROVE  Touch!Above(s, t) <=> \E m \in DOMAIN NestedOrder : m < n /\ NestedOrder[m] = s
  BY <1>2, <1>3, <1>5 DEF Touch!Above
<1>7. Touch!CanHit(NestedOrder, t, under) <=>
        \A m \in DOMAIN NestedOrder : m < n => ~Touch!Blocks(NestedOrder[m], under)
  BY <1>3 DEF Touch!CanHit
<1>8. ASSUME NEW m \in DOMAIN NestedOrder
      PROVE  Touch!Blocks(NestedOrder[m], under) <=> NestedOrder[m] \in Opaque \cap under
  BY <1>1, <1>2 DEF Touch!Blocks
<1> HIDE DEF inner
<1> QED BY <1>4, <1>6, <1>7, <1>8

(* The hit components a group's shapes are among.                          *)
OrderOf(g) == IF Touch!IsNested(g) THEN NestedOrder ELSE Order

LEMMA OrderOfGroup ==
  ASSUME Clear, NEW g \in Groups
  PROVE  /\ OrderOf(g) \in {Order, NestedOrder}
         /\ \A s \in Listener[g].shapes : s \in Touch!Shapes /\ \E n \in DOMAIN OrderOf(g) : OrderOf(g)[n] = s
<1>1. Listener[g].shapes \subseteq Touch!Shapes
  BY DEF Clear, Touch!PointerAssumption
<1>2. Listener[g].shapes \subseteq Touch!ToSet(OrderOf(g))
  BY DEF Clear, Touch!PointerAssumption, OrderOf, Touch!IsNested
<1> QED BY <1>1, <1>2 DEF OrderOf, Touch!ToSet

(* Which groups the pointer is over.                                       *)
LEMMA OverIs ==
  ASSUME Clear, NEW g \in Groups, NEW under
  PROVE  g \in Touch!Over(under) <=>
           Sees(g, OrderOf(g), under) /\ \E s \in Listener[g].shapes : s \in under
<1> DEFINE order == OrderOf(g)
           own == Listener[g].shapes
<1>1. order \in {Order, NestedOrder}
  BY OrderOfGroup
<1>2. ASSUME NEW s \in own
      PROVE  Touch!CanHit(order, s, under) <=> Touch!Hiding[s] \cap under = {}
  <2>1. PICK n \in DOMAIN order : order[n] = s
    BY <1>2, OrderOfGroup
  <2>2. s \in Touch!Shapes
    BY <1>2, OrderOfGroup
  <2>3. CASE Touch!IsNested(g)
    BY <2>1, <2>3, InnerSight DEF OrderOf
  <2>4. CASE ~Touch!IsNested(g)
    <3>1. own \subseteq Touch!ToSet(Order)
      BY <2>4 DEF Clear, Touch!PointerAssumption, Touch!IsNested
    <3>2. s \notin Touch!ToSet(NestedOrder) /\ s # Nested
      BY <1>2, <2>2, <3>1 DEF Clear, Touch!PointerAssumption, Touch!Shapes
    <3> QED BY <2>1, <2>2, <2>4, <3>2, OuterSight DEF OrderOf
  <2> QED BY <2>3, <2>4
<1>3. ASSUME NEW s \in own
      PROVE  Touch!CanHit(order, s, under) = Sees(g, order, under)
  <2>1. PICK n \in DOMAIN order : order[n] = s
    BY <1>3, OrderOfGroup
  <2> QED BY <1>1, <1>3, <2>1, SightIs
<1>4. g \in Touch!Over(under) <=> \E s \in own \cap under : Touch!Hiding[s] \cap under = {}
  BY DEF Touch!Over, Touch!Visible
<1> HIDE DEF order
<1>5. g \in Touch!Over(under) <=> \E s \in own \cap under : Touch!CanHit(order, s, under)
  BY <1>2, <1>4
<1>6. g \in Touch!Over(under) <=> \E s \in own \cap under : Sees(g, order, under)
  BY <1>3, <1>5
<1> QED BY <1>6 DEF order

-----------------------------------------------------------------------------
(* What a call leaves of a group.                                          *)

(* A call in which all shapes of a group are tested.                       *)
Tested(g, type) ==
  \/ Listener[g].kind \in {"enter", "exit", "move"}
  \/ type = "down" /\ Listener[g].kind \in {"down", "click"}
  \/ type = "up" /\ Listener[g].kind \in {"up", "click"}

LEMMA TestedIsNotOut ==
  ASSUME NEW g \in Groups, NEW type, Tested(g, type), NEW s \in Listener[g].shapes
  PROVE  ~Touch!EarlyOut(s, type)
<1>1. g \in Touch!GroupsOf(s)
  BY DEF Touch!GroupsOf
<1> QED BY <1>1 DEF Touch!EarlyOut, Tested

(* The nested machine has the same call, as nothing hides it.              *)
LEMMA SameCall ==
  ASSUME Clear, NEW g \in Groups, NEW type, NEW under, ~(Touch!IsNested(g) /\ type = "exit")
  PROVE  Touch!AfterCall(g, type, under) = Touch!Processed(g, OrderOf(g), type, under)
<1>1. Touch!CanHit(Order, Nested, under)
  <2> SUFFICES ASSUME NEW i \in DOMAIN Order, NEW j \in DOMAIN Order, i < j, Order[j] = Nested,
                      Touch!Blocks(Order[i], under)
               PROVE  FALSE
    BY DEF Touch!CanHit
  <2>1. Order[i] \notin Opaque /\ DOMAIN Order \subseteq Nat
    BY DEF Clear, NestedIsClear, Touch!PointerAssumption
  <2>2. Order[i] # Nested
    BY <2>1 DEF Clear, Touch!PointerAssumption, Touch!IsInjective
  <2> QED BY <2>1, <2>2 DEF Touch!Blocks
<1> QED BY <1>1 DEF Touch!AfterCall, OrderOf

(* One of its shapes is there: the group has its turn.                     *)
LEMMA TestedIs ==
  ASSUME Clear, GroupsShape, NEW g \in Groups, NEW type \in Types, NEW under,
         Tested(g, type), Listener[g].shapes # {}, ~(Touch!IsNested(g) /\ type = "exit")
  PROVE  LET q == Touch!AfterCall(g, type, under)
             v == g \in Touch!Over(under)
             p == Touch!ClickPhase(Touch!AfterClick(phase[g]), type, v)
         IN  /\ q.hovered = v /\ q.phase = p
             /\ q.performed = IF Touch!Performs(Listener[g].kind, type, v, hovered[g], p) THEN 1 ELSE 0
<1> DEFINE order == OrderOf(g)
           start == Touch!Prepared(g, type, under)
           c == Sees(g, order, under)
<1>1. order \in {Order, NestedOrder} /\ \E i \in DOMAIN order : Own(g, order, type, i)
  <2>1. PICK s \in Listener[g].shapes : TRUE
    OBVIOUS
  <2>2. PICK n \in DOMAIN order : order[n] = s
    BY <2>1, OrderOfGroup
  <2>3. ~Touch!EarlyOut(s, type)
    BY <2>1, TestedIsNotOut
  <2> QED BY <2>1, <2>2, <2>3, OrderOfGroup DEF Own
<1>2. Touch!AfterCall(g, type, under) = Touch!Heard(start, g, type, c)
  <2>1. Touch!AfterCall(g, type, under) = Touch!Processed(g, order, type, under)
    BY SameCall
  <2> HIDE DEF order
  <2>2. Touch!Processed(g, order, type, under) =
           IF \E i \in DOMAIN order : Own(g, order, type, i)
           THEN Touch!Heard(start, g, type, c) ELSE start
    BY <1>1, ProcessedIs
  <2> QED BY <1>1, <2>1, <2>2
<1>3. /\ start \in GroupState /\ start.performed = 0 /\ start.phase = Touch!AfterClick(phase[g])
      /\ start.hovered = (\E s \in Listener[g].shapes \cap under : ~Touch!EarlyOut(s, type))
  BY PreparedIs
<1>4. (c /\ start.hovered) = (g \in Touch!Over(under))
  <2>1. start.hovered <=> \E s \in Listener[g].shapes : s \in under
    BY <1>3, TestedIsNotOut
  <2>2. g \in Touch!Over(under) <=> c /\ \E s \in Listener[g].shapes : s \in under
    BY OverIs
  <2>3. start.hovered \in BOOLEAN /\ (c \in BOOLEAN)
    BY <1>3 DEF Sees, GroupState
  <2> HIDE DEF c, start
  <2> QED BY <2>1, <2>2, <2>3
<1>5. c \in BOOLEAN
  BY DEF Sees
<1> DEFINE v == g \in Touch!Over(under)
           p == Touch!ClickPhase(Touch!AfterClick(phase[g]), type, v)
           q == Touch!Heard(start, g, type, c)
           does(x, y) == Touch!Performs(Listener[g].kind, type, x, hovered[g], y)
<1> HIDE DEF start, c
<1>6. /\ q.hovered = (c /\ start.hovered)
      /\ q.phase = Touch!ClickPhase(start.phase, type, c /\ start.hovered)
      /\ q.performed = start.performed +
           (IF does(c /\ start.hovered, Touch!ClickPhase(start.phase, type, c /\ start.hovered)) THEN 1 ELSE 0)
  BY <1>3, <1>5, HeardIs
<1> HIDE DEF q, does
<1>7. q.hovered = v /\ q.phase = p /\ q.performed = IF does(v, p) THEN 1 ELSE 0
  BY <1>3, <1>4, <1>6
<1> QED BY <1>2, <1>7 DEF q, does

(* In other calls it may have its turn, and see anything or nothing.       *)
LEMMA UntestedIs ==
  ASSUME Clear, GroupsShape, NEW g \in Groups, NEW type \in Types, NEW under,
         Listener[g].kind \in {"down", "up", "click"}, ~Tested(g, type)
  PROVE  LET q == Touch!AfterCall(g, type, under)
         IN  /\ q.performed = 0
             /\ Listener[g].kind = "click" =>
                  q.phase = phase[g] \/ q.phase = Touch!AfterClick(phase[g])
<1> DEFINE order == OrderOf(g)
           start == Touch!Prepared(g, type, under)
           c == Sees(g, order, under)
           q == Touch!AfterCall(g, type, under)
<1>1. CASE Touch!IsNested(g) /\ type = "exit"
  BY <1>1 DEF Touch!AfterCall
<1>2. CASE ~(Touch!IsNested(g) /\ type = "exit")
  <2>1. q = Touch!Processed(g, order, type, under)
    BY <1>2, SameCall
  <2>2. order \in {Order, NestedOrder}
    BY OrderOfGroup
  <2>3. q = Touch!Heard(start, g, type, c) \/ q = start
    <3> HIDE DEF order, q
    <3> QED BY <2>1, <2>2, ProcessedIs
  <2>4. start \in GroupState /\ start.performed = 0 /\ start.phase = Touch!AfterClick(phase[g])
    BY PreparedIs
  <2>5. CASE q = start
    BY <2>4, <2>5
  <2>6. CASE q = Touch!Heard(start, g, type, c)
    <3>1. c \in BOOLEAN
      BY DEF Sees
    <3> DEFINE v == c /\ start.hovered
               p == Touch!ClickPhase(start.phase, type, v)
    <3> HIDE DEF c, start, q
    <3>2. /\ q.phase = p
          /\ q.performed = start.performed +
               (IF Touch!Performs(Listener[g].kind, type, v, hovered[g], p) THEN 1 ELSE 0)
      BY <2>4, <2>6, <3>1, HeardIs
    <3>3. v \in BOOLEAN /\ start.phase \in {"out", "down"}
      <4>1. phase[g] \in Phases
        BY DEF GroupsShape
      <4> QED BY <2>4, <3>1, <4>1 DEF GroupState, Touch!AfterClick, Phases
    <3> HIDE DEF v
    <3>4. Listener[g].kind = "click" => type \in {"move", "exit"} /\ p = start.phase
      <4>1. ASSUME Listener[g].kind = "click" PROVE type \in {"move", "exit"}
        BY <4>1 DEF Tested, Types
      <4>2. type \in {"move", "exit"} => p = start.phase
        BY <3>3 DEF Touch!ClickPhase
      <4> QED BY <4>1, <4>2
    <3>5. ~Touch!Performs(Listener[g].kind, type, v, hovered[g], p)
      <4>1. Listener[g].kind # type
        BY DEF Tested, Types
      <4>2. Listener[g].kind = "click" => p # "clicked"
        BY <3>3, <3>4
      <4> HIDE DEF p
      <4> QED BY <4>1, <4>2 DEF Touch!Performs
    <3>6. q.performed = 0
      BY <2>4, <3>2, <3>5
    <3> QED BY <2>4, <3>2, <3>4, <3>6 DEF q
  <2> QED BY <2>3, <2>5, <2>6
<1> QED BY <1>1, <1>2
(* A group of no shapes hears nothing.                                     *)
LEMMA EmptyIs ==
  ASSUME Clear, GroupsShape, NEW g \in Groups, NEW type \in Types, NEW under,
         Listener[g].shapes = {}
  PROVE  LET q == Touch!AfterCall(g, type, under)
         IN  /\ q.performed = 0 /\ (q.hovered => hovered[g])
             /\ q.phase = phase[g] \/ q.phase = Touch!AfterClick(phase[g])
             /\ g \notin Touch!Over(under)
<1> DEFINE order == OrderOf(g)
           start == Touch!Prepared(g, type, under)
           q == Touch!AfterCall(g, type, under)
<1>1. CASE Touch!IsNested(g) /\ type = "exit"
  BY <1>1 DEF Touch!AfterCall, Touch!Over
<1>2. CASE ~(Touch!IsNested(g) /\ type = "exit")
  <2>1. q = Touch!Processed(g, order, type, under)
    BY <1>2, SameCall
  <2>2. order \in {Order, NestedOrder}
    BY OrderOfGroup
  <2>3. q = start
    <3>1. ~\E i \in DOMAIN order : Own(g, order, type, i)
      BY DEF Own
    <3> HIDE DEF order, q
    <3> QED BY <2>1, <2>2, <3>1, ProcessedIs
  <2>4. /\ start.performed = 0 /\ start.phase = Touch!AfterClick(phase[g])
        /\ start.hovered = (\E s \in Listener[g].shapes \cap under : ~Touch!EarlyOut(s, type))
    BY PreparedIs
  <2>5. ~start.hovered
    <3> HIDE DEF start
    <3> QED BY <2>4
  <2> HIDE DEF start
  <2> QED BY <2>3, <2>4, <2>5 DEF Touch!Over
<1> QED BY <1>1, <1>2

LEMMA AfterCallType ==
  ASSUME Clear, GroupsShape, NEW g \in Groups, NEW type \in Types, NEW under
  PROVE  Touch!AfterCall(g, type, under).hovered \in BOOLEAN
         /\ Touch!AfterCall(g, type, under).phase \in Phases
<1> DEFINE order == OrderOf(g)
           start == Touch!Prepared(g, type, under)
           c == Sees(g, order, under)
           q == Touch!AfterCall(g, type, under)
<1>1. CASE Touch!IsNested(g) /\ type = "exit"
  BY <1>1 DEF Touch!AfterCall, GroupsShape
<1>2. CASE ~(Touch!IsNested(g) /\ type = "exit")
  <2>1. q = Touch!Processed(g, order, type, under)
    BY <1>2, SameCall
  <2>2. order \in {Order, NestedOrder}
    BY OrderOfGroup
  <2>3. q = Touch!Heard(start, g, type, c) \/ q = start
    <3> HIDE DEF order, q
    <3> QED BY <2>1, <2>2, ProcessedIs
  <2>4. start \in GroupState
    BY PreparedIs
  <2>5. Touch!Heard(start, g, type, c) \in GroupState
    <3>1. c \in BOOLEAN
      BY DEF Sees
    <3> HIDE DEF c, start
    <3> QED BY <2>4, <3>1, HeardIs
  <2>6. q \in GroupState
    <3> HIDE DEF q, start
    <3> QED BY <2>3, <2>4, <2>5
  <2> HIDE DEF q
  <2> QED BY <2>6 DEF GroupState, q
<1> QED BY <1>1, <1>2

-----------------------------------------------------------------------------
(* What the phase of a listener for clicks says: it was pressed on.        *)
ClickInv ==
  /\ over \cup pressed \subseteq {g \in Groups : Listener[g].shapes # {}}
  /\ \A g \in Groups : Listener[g].kind = "click" => (phase[g] = "down" <=> g \in pressed)

(* And that a group is hovered: the pointer is over it.                    *)
HoverInv ==
  \A g \in Groups : Listener[g].kind \in {"enter", "exit"} => (hovered[g] <=> g \in over)

LEMMA PointerIs ==
  ASSUME Clear, NEW type \in Calls, NEW under, Touch!Pointer(type, under)
  PROVE  /\ type \in Types /\ call' = type /\ over' = Touch!Over(under)
         /\ pressed' = IF type = "down" THEN Touch!Over(under)
                       ELSE IF type = "up" THEN {} ELSE pressed
         /\ type = "exit" => under = {}
         /\ hovered' = [g \in Groups |-> Touch!AfterCall(g, type, under).hovered]
         /\ phase' = [g \in Groups |-> Touch!AfterCall(g, type, under).phase]
         /\ performed' = [g \in Groups |-> Touch!AfterCall(g, type, under).performed]
<1>1. type \in Types
  BY DEF Clear, Touch!PointerAssumption, Types
<1> QED BY <1>1 DEF Touch!Pointer

LEMMA GroupsNext ==
  ASSUME Clear, GroupsShape, NEW type \in Calls, NEW under, Touch!Pointer(type, under)
  PROVE  GroupsShape'
<1>1. type \in Types
  BY PointerIs
<1>2. \A g \in Groups : /\ Touch!AfterCall(g, type, under).hovered \in BOOLEAN
                        /\ Touch!AfterCall(g, type, under).phase \in Phases
  BY <1>1, AfterCallType
<1>3. /\ hovered' = [g \in Groups |-> Touch!AfterCall(g, type, under).hovered]
      /\ phase' = [g \in Groups |-> Touch!AfterCall(g, type, under).phase]
  BY PointerIs
<1> QED BY <1>2, <1>3 DEF GroupsShape

(* One call, for a listener of clicks.                                     *)
LEMMA ClickStep ==
  ASSUME Clear, GroupsShape, ClickInv, NEW type \in Calls, NEW under, Touch!Pointer(type, under),
         NEW g \in Groups, Listener[g].kind = "click"
  PROVE  /\ performed'[g] = Once(call' = "up" /\ g \in over' \cap pressed)
         /\ phase'[g] = "down" <=> g \in pressed'
<1> DEFINE q == Touch!AfterCall(g, type, under)
           v == g \in Touch!Over(under)
<1>1. /\ type \in Types /\ call' = type /\ over' = Touch!Over(under)
      /\ pressed' = IF type = "down" THEN Touch!Over(under) ELSE IF type = "up" THEN {} ELSE pressed
      /\ phase'[g] = q.phase /\ performed'[g] = q.performed
  BY PointerIs
<1>2. phase[g] \in Phases /\ (phase[g] = "down" <=> g \in pressed)
  BY DEF GroupsShape, ClickInv
<1>3. CASE Listener[g].shapes = {}
  <2>1. q.performed = 0 /\ (q.phase = phase[g] \/ q.phase = Touch!AfterClick(phase[g])) /\ ~v
    BY <1>1, <1>3, EmptyIs
  <2>2. g \notin pressed
    BY <1>3 DEF ClickInv
  <2> HIDE DEF q
  <2> QED BY <1>1, <1>2, <2>1, <2>2 DEF Once, Touch!AfterClick, Phases
<1>4. CASE Listener[g].shapes # {} /\ type \in {"down", "up"}
  <2> DEFINE p == Touch!ClickPhase(Touch!AfterClick(phase[g]), type, v)
  <2>1. Tested(g, type) /\ ~(Touch!IsNested(g) /\ type = "exit")
    BY <1>4 DEF Tested
  <2>2. /\ q.phase = p
        /\ q.performed = IF Touch!Performs("click", type, v, hovered[g], p) THEN 1 ELSE 0
    BY <1>1, <1>4, <2>1, TestedIs
  <2>3. v \in BOOLEAN
    OBVIOUS
  <2> HIDE DEF q, v
  <2>4. Touch!Performs("click", type, v, hovered[g], p) <=> p = "clicked"
    <3> HIDE DEF p
    <3> QED BY <1>4 DEF Touch!Performs
  <2>5. Touch!AfterClick(phase[g]) = IF phase[g] = "clicked" THEN "out" ELSE phase[g]
    BY DEF Touch!AfterClick
  <2>6. p = IF type = "down" THEN (IF v THEN "down" ELSE "out")
            ELSE IF v /\ phase[g] = "down" THEN "clicked" ELSE "out"
    BY <1>2, <1>4, <2>3, <2>5 DEF Touch!ClickPhase, Phases
  <2> HIDE DEF p
  <2>7. q.performed = IF type = "up" /\ v /\ g \in pressed THEN 1 ELSE 0
    BY <1>2, <1>4, <2>2, <2>4, <2>6
  <2>8. q.phase = "down" <=> type = "down" /\ v
    BY <1>4, <2>2, <2>6
  <2> QED BY <1>1, <1>4, <2>7, <2>8 DEF Once, v
<1>5. CASE Listener[g].shapes # {} /\ type \notin {"down", "up"}
  <2>1. ~Tested(g, type)
    BY <1>5 DEF Tested
  <2>2. q.performed = 0 /\ (q.phase = phase[g] \/ q.phase = Touch!AfterClick(phase[g]))
    BY <1>1, <2>1, UntestedIs
  <2> HIDE DEF q
  <2> QED BY <1>1, <1>2, <1>5, <2>2 DEF Once, Touch!AfterClick, Phases
<1> QED BY <1>3, <1>4, <1>5

(* For one of presses, releases or moves.                                  *)
LEMMA PressStep ==
  ASSUME Clear, GroupsShape, NEW type \in Calls, NEW under, Touch!Pointer(type, under),
         NEW g \in Groups, Listener[g].kind \in {"move", "down", "up"}
  PROVE  performed'[g] = Once(call' = Listener[g].kind /\ g \in over')
<1> DEFINE q == Touch!AfterCall(g, type, under)
           v == g \in Touch!Over(under)
<1>1. /\ type \in Types /\ call' = type /\ over' = Touch!Over(under)
      /\ performed'[g] = q.performed
  BY PointerIs
<1>2. CASE Listener[g].shapes = {}
  <2>1. q.performed = 0 /\ ~v
    BY <1>1, <1>2, EmptyIs
  <2> HIDE DEF q
  <2> QED BY <1>1, <2>1 DEF Once
<1>3. CASE Listener[g].shapes # {} /\ Tested(g, type) /\ ~(Touch!IsNested(g) /\ type = "exit")
  <2> DEFINE p == Touch!ClickPhase(Touch!AfterClick(phase[g]), type, v)
  <2>1. q.performed = IF Touch!Performs(Listener[g].kind, type, v, hovered[g], p) THEN 1 ELSE 0
    BY <1>1, <1>3, TestedIs
  <2> HIDE DEF q, v, p
  <2>2. Touch!Performs(Listener[g].kind, type, v, hovered[g], p) <=> v /\ Listener[g].kind = type
    BY DEF Touch!Performs
  <2>3. q.performed = IF v /\ Listener[g].kind = type THEN 1 ELSE 0
    BY <2>1, <2>2
  <2> QED BY <1>1, <2>3 DEF Once, v
<1>4. CASE ~Tested(g, type)
  <2>1. q.performed = 0 /\ Listener[g].kind # type
    BY <1>1, <1>4, UntestedIs DEF Tested
  <2> HIDE DEF q
  <2> QED BY <1>1, <2>1 DEF Once
<1>5. CASE Touch!IsNested(g) /\ type = "exit"
  <2>1. q.performed = 0 /\ Listener[g].kind # type
    BY <1>5 DEF Touch!AfterCall
  <2> HIDE DEF q
  <2> QED BY <1>1, <2>1 DEF Once
<1> QED BY <1>2, <1>3, <1>4, <1>5

(* A listener of a nested machine that waits for the pointer to come or go *)
(* is not told of its exit.                                                *)
ExitIsHeard ==
  "exit" \in Calls => \A g \in Groups : Touch!IsNested(g) => Listener[g].kind \notin {"enter", "exit"}

LEMMA HoverStep ==
  ASSUME Clear, ExitIsHeard, GroupsShape, ClickInv, HoverInv,
         NEW type \in Calls, NEW under, Touch!Pointer(type, under),
         NEW g \in Groups, Listener[g].kind \in {"enter", "exit"}
  PROVE  /\ Listener[g].kind = "enter" => performed'[g] = Once(g \in over' \ over)
         /\ Listener[g].kind = "exit" => performed'[g] = Once(g \in over \ over')
         /\ hovered'[g] <=> g \in over'
<1> DEFINE q == Touch!AfterCall(g, type, under)
           v == g \in Touch!Over(under)
<1>1. /\ type \in Types /\ over' = Touch!Over(under) /\ (type = "exit" => under = {})
      /\ hovered'[g] = q.hovered /\ performed'[g] = q.performed
  BY PointerIs
<1>2. hovered[g] \in BOOLEAN /\ (hovered[g] <=> g \in over)
  BY DEF GroupsShape, HoverInv
<1>3. CASE Listener[g].shapes = {}
  <2>1. q.performed = 0 /\ (q.hovered => hovered[g]) /\ ~v
    BY <1>1, <1>3, EmptyIs
  <2>2. g \notin over
    BY <1>3 DEF ClickInv
  <2> HIDE DEF q
  <2> QED BY <1>1, <1>2, <2>1, <2>2 DEF Once
<1>4. CASE Listener[g].shapes # {}
  <2> DEFINE p == Touch!ClickPhase(Touch!AfterClick(phase[g]), type, v)
  <2>1. Tested(g, type) /\ ~(Touch!IsNested(g) /\ type = "exit")
    BY DEF Tested, ExitIsHeard
  <2>2. /\ q.hovered = v
        /\ q.performed = IF Touch!Performs(Listener[g].kind, type, v, hovered[g], p) THEN 1 ELSE 0
    BY <1>1, <1>4, <2>1, TestedIs
  <2>3. type = "exit" => ~v
    BY <1>1 DEF Touch!Over, Touch!Visible
  <2>4. v \in BOOLEAN
    OBVIOUS
  <2> HIDE DEF q, v, p
  <2>5. CASE Listener[g].kind = "enter"
    <3>1. Touch!Performs("enter", type, v, hovered[g], p) <=> v /\ ~hovered[g]
      BY <1>1, <1>2, <2>4 DEF Touch!Performs, Types
    <3>2. q.performed = IF v /\ ~hovered[g] THEN 1 ELSE 0
      BY <2>2, <2>5, <3>1
    <3> QED BY <1>1, <1>2, <2>2, <2>5, <3>2 DEF Once, v
  <2>6. CASE Listener[g].kind = "exit"
    <3>1. Touch!Performs("exit", type, v, hovered[g], p) <=> ~v /\ hovered[g]
      BY <1>1, <1>2, <2>3, <2>4 DEF Touch!Performs, Types
    <3>2. q.performed = IF ~v /\ hovered[g] THEN 1 ELSE 0
      BY <2>2, <2>6, <3>1
    <3> QED BY <1>1, <1>2, <2>2, <2>6, <3>2 DEF Once, v
  <2> QED BY <2>5, <2>6
<1> QED BY <1>3, <1>4

-----------------------------------------------------------------------------
ListenInv == GroupsShape /\ ClickInv

LEMMA ListenInit == Touch!Init => ListenInv /\ HoverInv
<1> SUFFICES ASSUME Touch!Init PROVE ListenInv /\ HoverInv
  OBVIOUS
<1>1. "out" \in Phases
  BY DEF Phases
<1> QED BY <1>1 DEF Touch!Init, ListenInv, GroupsShape, ClickInv, HoverInv

LEMMA ListenNext == Clear /\ ListenInv /\ [Touch!Next]_Touch!listening => ListenInv'
<1> SUFFICES ASSUME Clear, ListenInv, [Touch!Next]_Touch!listening PROVE ListenInv'
  OBVIOUS
<1>1. CASE UNCHANGED Touch!listening
  BY <1>1 DEF Touch!listening, ListenInv, GroupsShape, ClickInv
<1>2. ASSUME NEW type \in Calls, NEW under, Touch!Pointer(type, under) PROVE ListenInv'
  <2>1. GroupsShape'
    BY <1>2, GroupsNext DEF ListenInv
  <2>2. \A g \in Groups : Listener[g].kind = "click" => (phase'[g] = "down" <=> g \in pressed')
    BY <1>2, ClickStep DEF ListenInv
  <2>3. over' = Touch!Over(under) /\ pressed' \subseteq Touch!Over(under) \cup pressed
    BY <1>2, PointerIs
  <2>4. Touch!Over(under) \subseteq {g \in Groups : Listener[g].shapes # {}}
    BY DEF Touch!Over
  <2> QED BY <2>1, <2>2, <2>3, <2>4 DEF ListenInv, ClickInv
<1> QED BY <1>1, <1>2 DEF Touch!Next

LEMMA HoverNext == Clear /\ ExitIsHeard /\ ListenInv /\ HoverInv /\ [Touch!Next]_Touch!listening => HoverInv'
<1> SUFFICES ASSUME Clear, ExitIsHeard, ListenInv, HoverInv, [Touch!Next]_Touch!listening PROVE HoverInv'
  OBVIOUS
<1>1. CASE UNCHANGED Touch!listening
  BY <1>1 DEF Touch!listening, HoverInv
<1>2. ASSUME NEW type \in Calls, NEW under, Touch!Pointer(type, under) PROVE HoverInv'
  BY <1>2, HoverStep DEF ListenInv, HoverInv
<1> QED BY <1>1, <1>2 DEF Touch!Next

(* What the three properties say of one step.                              *)
ClickHeard ==
  \A g \in Groups : Listener[g].kind = "click" =>
    performed'[g] = Once(call' = "up" /\ g \in over' \cap pressed)
PressHeard ==
  \A g \in Groups : Listener[g].kind \in {"move", "down", "up"} =>
    performed'[g] = Once(call' = Listener[g].kind /\ g \in over')
HoverHeard ==
  \A g \in Groups :
    /\ Listener[g].kind = "enter" => performed'[g] = Once(g \in over' \ over)
    /\ Listener[g].kind = "exit"  => performed'[g] = Once(g \in over \ over')

(* However many shapes a target has, a click on it is performed once, when *)
(* the pointer goes up over any of them after it went down over any.       *)
THEOREM ClicksAreHeard == Clear => (Touch!Spec => ClicksComplete)
<1> SUFFICES ASSUME Clear PROVE Touch!Spec => ClicksComplete
  OBVIOUS
<1>1. ListenInv /\ [Touch!Next]_Touch!listening => [ClickHeard]_Touch!listening
  BY ClickStep DEF Touch!Next, ListenInv, ClickHeard
<1>2. Touch!Spec => [][ClickHeard]_Touch!listening
  BY <1>1, ListenInit, ListenNext, PTL DEF Touch!Spec
<1> QED BY <1>2 DEF ClicksComplete, ClickHeard, Touch!listening, listening

(* A listener for moves, presses or releases performs once in each such    *)
(* call over its target, whatever the shapes that are tested in it.        *)
THEOREM CallsAreHeard == Clear => (Touch!Spec => EachCallHeard)
<1> SUFFICES ASSUME Clear PROVE Touch!Spec => EachCallHeard
  OBVIOUS
<1>1. ListenInv /\ [Touch!Next]_Touch!listening => [PressHeard]_Touch!listening
  BY PressStep DEF Touch!Next, ListenInv, PressHeard
<1>2. Touch!Spec => [][PressHeard]_Touch!listening
  BY <1>1, ListenInit, ListenNext, PTL DEF Touch!Spec
<1> QED BY <1>2 DEF EachCallHeard, PressHeard, Touch!listening, listening

(* A listener for enter or exit performs once when the pointer comes to    *)
(* its target or leaves it, whichever of its shapes it passes.             *)
THEOREM ComingAndGoingIsHeard == Clear /\ ExitIsHeard => (Touch!Spec => EntersAndExits)
<1> SUFFICES ASSUME Clear, ExitIsHeard PROVE Touch!Spec => EntersAndExits
  OBVIOUS
<1>1. ListenInv /\ HoverInv /\ [Touch!Next]_Touch!listening => [HoverHeard]_Touch!listening
  BY HoverStep DEF Touch!Next, ListenInv, HoverHeard
<1>2. Touch!Spec => [][HoverHeard]_Touch!listening
  BY <1>1, ListenInit, ListenNext, HoverNext, PTL DEF Touch!Spec
<1> QED BY <1>2 DEF EntersAndExits, HoverHeard, Touch!listening, listening
=============================================================================
