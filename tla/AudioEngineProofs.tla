------------------------- MODULE AudioEngineProofs -------------------------
(***************************************************************************)
(* For any number of sounds and artboards, and a device that may run all   *)
(* through the destructor: it is never called back with a sound that only  *)
(* it holds, no sound is lost before it is disposed of, the list of        *)
(* playing sounds stays whole, the engine keeps the promise SoundLife      *)
(* states, and all sounds are disposed of by the end unless the device     *)
(* undercuts the destructor.                                               *)
(***************************************************************************)
EXTENDS AudioEngine, TLAPS

(* The links are inverse to each other, and only the head and the sounds   *)
(* behind it have one.                                                     *)
LinksInv ==
  /\ \A s, t \in Sounds : next[s] = t <=> prev[t] = s
  /\ head # None => prev[head] = None
  /\ \A s \in Sounds \ Playing : next[s] = None

LinksType ==
  head \in Maybe /\ next \in [Sounds -> Maybe] /\ prev \in [Sounds -> Maybe]

InLock == {"sweep", "wait", "start", "link", "stop"}

(* Which calls go with which phase, and who holds the lock in them.        *)
PhaseInv ==
  /\ phase = "open" => host \notin {"close", "closeWait", "uninit"}
  /\ phase = "open" => (lock = "host" <=> host \in InLock)
  /\ phase = "closing" => host \in {"close", "closeWait", "sweep", "wait", "uninit"}
  /\ phase = "closing" /\ host \notin {"close", "closeWait"} => at = None
  /\ phase = "closed" => host = "idle" /\ mixing = None /\ ~running
  /\ phase # "open" => lock = None
  /\ mixing = None => device = "leave"
  /\ host = "closeWait" => at # None

(* Playing, completed and disposed of are different things for a sound     *)
(* while the engine is open.                                               *)
ListInv ==
  phase = "open" =>
    /\ LinksInv
    /\ Playing \subseteq made \ disposed
    /\ Members(completed) \cap Playing = {}
    /\ host = "stop" => at \in made \cup {None}
    /\ host = "link" => at \in made \ disposed /\ at \notin Playing \cup Members(completed)

(* The completed sounds the loop has been through are disposed of; what    *)
(* the device adds to them beside the destructor's loop is not come to,    *)
(* but the device has called back for it.                                  *)
SweepInv ==
  /\ Members(completed) \subseteq made
  /\ Members(todo) \subseteq Members(completed)
  /\ host \in {"sweep", "wait"} =>
       \A s \in Members(completed) :
         \/ s \in disposed \cup Members(todo)
         \/ phase = "closing" /\ s \notin started /\ (mixing = s => device = "leave")
  /\ host = "wait" => todo # <<>> /\ Head(todo) \in disposed
  /\ host \notin {"sweep", "wait"} => todo = <<>>

(* The device mixes a sound that is disposed of only while the host waits  *)
(* for it to stop, and one that is completed not again.                    *)
MixInv ==
  /\ started \subseteq made \ disposed /\ disposed \subseteq made
  /\ started \cap Members(completed) = {}
  /\ mixing # None => mixing \in made
  /\ mixing # None /\ device # "mix" => mixing \notin started
  /\ mixing \in disposed => \/ host = "wait" /\ mixing = Head(todo)
                            \/ host = "closeWait" /\ mixing = at

(* The destructor is not past s.                                           *)
Ahead(s) == s \notin disposed \/ (host = "closeWait" /\ at = s)

(* What is left of the links while the destructor clears them and the      *)
(* device joins them: whatever one leads to leads back, those of a sound   *)
(* ahead are as they were on the list, and a completed sound has none.     *)
ClosingLinks ==
  /\ \A s, t \in Sounds : next[s] = t => prev[t] = s
  /\ \A s, t \in Sounds : prev[t] = s /\ Ahead(s) => next[s] = t
  /\ \A s \in Sounds \ Playing : Ahead(s) => next[s] = None
  /\ head # None => prev[head] = None
  /\ \A s \in Members(completed) : next[s] = None /\ \A t \in Sounds : prev[t] # s

(* The destructor's walk: nothing leads back to where it is, and what lies *)
(* ahead is not disposed of.                                               *)
WalkAhead ==
  host \in {"close", "closeWait"} =>
    /\ at \in made \cup {None}
    /\ at # None => \A s \in Sounds : next[s] # at
    /\ host = "close" => at \notin disposed
    /\ host = "closeWait" => at \in disposed
    /\ \A s \in Sounds : next[s] \in (made \ disposed) \cup {None}

(* No completed sound is on what is left of the list, and after the loops  *)
(* the device has only sounds of the list to mix.                          *)
CloseInv ==
  phase = "closing" =>
    /\ ClosingLinks /\ WalkAhead
    /\ Members(completed) \cap Playing = {}
    /\ host = "uninit" => started \subseteq Playing

IInv ==
  /\ TypeOK /\ PhaseInv /\ ListInv /\ SweepInv /\ MixInv /\ CloseInv
  /\ HeldElsewhere /\ NothingLost

-----------------------------------------------------------------------------
(* Taking a sound off the list, also one that is not on it, leaves a list  *)
(* of the others.                                                          *)
LEMMA UnlinkTakesOff ==
  ASSUME NEW s \in Sounds, LinksType, LinksInv, Unlink(s)
  PROVE  LinksType' /\ LinksInv' /\ Playing' = Playing \ {s}
<1> USE AudioAssumption
<1>1. LinksType'
  BY DEF LinksType, Unlink, Maybe
<1>2. Playing' = Playing \ {s}
  <2>1. ASSUME NEW t \in Sounds, t \in Playing' PROVE t \in Playing /\ t # s
    BY <2>1 DEF Playing, Unlink, LinksInv, LinksType, Maybe
  <2>2. ASSUME NEW t \in Sounds, t \in Playing, t # s PROVE t \in Playing'
    BY <2>2 DEF Playing, Unlink, LinksInv, LinksType, Maybe
  <2> QED BY <2>1, <2>2 DEF Playing
<1>3. \A t, u \in Sounds : next'[t] = u <=> prev'[u] = t
  BY DEF Unlink, LinksInv, LinksType, Maybe
<1>4. head' # None => prev'[head'] = None
  BY DEF Unlink, LinksInv, LinksType, Maybe
<1>5. \A t \in Sounds \ Playing' : next'[t] = None
  BY <1>2 DEF Unlink, LinksInv, LinksType, Maybe, Playing
<1> QED BY <1>1, <1>2, <1>3, <1>4, <1>5 DEF LinksInv

(* A new sound becomes the head of the list.                               *)
LEMMA LinkPutsOn ==
  ASSUME NEW s \in Sounds, s \notin Playing, LinksType, LinksInv, Link(s)
  PROVE  LinksType' /\ LinksInv' /\ Playing' = Playing \cup {s}
<1> USE AudioAssumption
<1>1. LinksType'
  BY DEF LinksType, Link, Maybe
<1>2. Playing' = Playing \cup {s}
  BY DEF Playing, Link, LinksInv, LinksType, Maybe
<1>3. \A t, u \in Sounds : next'[t] = u <=> prev'[u] = t
  BY DEF Link, LinksInv, LinksType, Maybe, Playing
<1>4. head' # None => prev'[head'] = None
  BY DEF Link, LinksInv, LinksType, Maybe, Playing
<1>5. \A t \in Sounds \ Playing' : next'[t] = None
  BY <1>2 DEF Link, LinksInv, LinksType, Maybe, Playing
<1> QED BY <1>1, <1>2, <1>3, <1>4, <1>5 DEF LinksInv

(* What one more completed sound makes of the vector.                      *)
LEMMA AppendMembers ==
  ASSUME NEW q \in Seq(Sounds), NEW s \in Sounds
  PROVE  /\ Append(q, s) \in Seq(Sounds)
         /\ Len(Append(q, s)) = Len(q) + 1
         /\ \A k \in 1 .. Len(q) : Append(q, s)[k] = q[k]
         /\ Members(Append(q, s)) = Members(q) \cup {s}
<1>1. Append(q, s) \in Seq(Sounds) /\ Len(Append(q, s)) = Len(q) + 1
  OBVIOUS
<1>2. \A k \in 1 .. Len(q) : Append(q, s)[k] = q[k]
  OBVIOUS
<1>3. Append(q, s)[Len(q) + 1] = s
  OBVIOUS
<1>4. Members(Append(q, s)) = Members(q) \cup {s}
  <2>1. DOMAIN q = 1 .. Len(q) /\ DOMAIN Append(q, s) = 1 .. Len(q) + 1 /\ Len(q) \in Nat
    BY <1>1
  <2>2. ASSUME NEW x \in Members(Append(q, s)) PROVE x \in Members(q) \cup {s}
    BY <1>2, <1>3, <2>1 DEF Members
  <2>3. ASSUME NEW x \in Members(q) PROVE x \in Members(Append(q, s))
    <3>1. PICK k \in 1 .. Len(q) : x = q[k]
      BY <2>1 DEF Members
    <3> QED BY <1>2, <2>1, <3>1 DEF Members
  <2>4. s \in Members(Append(q, s))
    BY <1>3, <2>1 DEF Members
  <2> QED BY <2>2, <2>3, <2>4
<1> QED BY <1>1, <1>2, <1>4

LEMMA EmptyMembers == Members(<<>>) = {}
BY DEF Members

(* The loop over the completed sounds: the next one, and those after it.   *)
LEMMA HeadMembers ==
  ASSUME NEW q \in Seq(Sounds), q # <<>>
  PROVE  /\ Head(q) \in Sounds /\ Tail(q) \in Seq(Sounds)
         /\ Members(q) = Members(Tail(q)) \cup {Head(q)}
<1>1. Head(q) \in Sounds /\ Tail(q) \in Seq(Sounds) /\ Head(q) = q[1] /\ 1 <= Len(q)
  OBVIOUS
<1>2. Len(Tail(q)) = Len(q) - 1 /\ \A k \in 1 .. Len(q) - 1 : Tail(q)[k] = q[k + 1]
  OBVIOUS
<1>3. DOMAIN q = 1 .. Len(q) /\ DOMAIN Tail(q) = 1 .. Len(q) - 1 /\ Len(q) \in Nat
  BY <1>1, <1>2
<1>4. ASSUME NEW x \in Members(q), x # Head(q) PROVE x \in Members(Tail(q))
  <2>1. PICK k \in 1 .. Len(q) : x = q[k]
    BY <1>3 DEF Members
  <2>2. k - 1 \in 1 .. Len(q) - 1 /\ Tail(q)[k - 1] = x
    <3>1. k # 1
      BY <1>1, <1>4, <2>1
    <3>2. k - 1 \in 1 .. Len(q) - 1 /\ (k - 1) + 1 = k
      BY <1>3, <3>1
    <3> QED BY <1>2, <2>1, <3>2
  <2> QED BY <1>3, <2>2 DEF Members
<1>5. ASSUME NEW x \in Members(Tail(q)) PROVE x \in Members(q)
  <2>1. PICK k \in 1 .. Len(q) - 1 : x = Tail(q)[k]
    BY <1>3 DEF Members
  <2>2. k + 1 \in 1 .. Len(q) /\ q[k + 1] = x
    BY <1>2, <1>3, <2>1
  <2> QED BY <1>3, <2>2 DEF Members
<1>6. Head(q) \in Members(q)
  BY <1>1, <1>3 DEF Members
<1> QED BY <1>1, <1>4, <1>5, <1>6

(* Taking a sound off what is left of the list while the destructor is at  *)
(* work takes off no other.                                                *)
LEMMA ClosingTakesOff ==
  ASSUME NEW s \in Sounds, LinksType, ClosingLinks, Unlink(s), Ahead(s) \/ s \in Members(completed),
         UNCHANGED <<disposed, host, at>>, Members(completed') = Members(completed) \cup {s},
         Members(completed) \subseteq Sounds
  PROVE  ClosingLinks' /\ Playing' = Playing \ {s}
<1> USE AudioAssumption
<1> USE DEF LinksType, Maybe
<1>0. \A t \in Sounds : Ahead(t)' <=> Ahead(t)
  BY DEF Ahead
<1>1. /\ \A t \in Sounds : next'[t] = IF t = s THEN None ELSE IF t = prev[s] THEN next[s] ELSE next[t]
      /\ \A t \in Sounds : prev'[t] = IF t = s THEN None ELSE IF t = next[s] THEN prev[s] ELSE prev[t]
      /\ head' = IF head = s THEN next[s] ELSE head
  BY DEF Unlink
<1>2. /\ \A t, u \in Sounds : next[t] = u => prev[u] = t
      /\ \A t, u \in Sounds : prev[u] = t /\ Ahead(t) => next[t] = u
      /\ \A t \in Sounds \ Playing : Ahead(t) => next[t] = None
      /\ head # None => prev[head] = None
      /\ \A t \in Members(completed) : next[t] = None /\ \A u \in Sounds : prev[u] # t
  BY DEF ClosingLinks
<1>3. \A t \in Sounds : (prev[t] = s => next[s] = t) /\ (t = next[s] => prev[t] = s)
  BY <1>2
<1>4. next[s] # None => s = head \/ prev[s] # None
  BY <1>2 DEF Playing
<1>5. Playing' = Playing \ {s}
  <2>1. ASSUME NEW t \in Sounds, t = head' \/ prev'[t] # None PROVE t # s /\ (t = head \/ prev[t] # None)
    BY <1>1, <1>2, <1>3, <2>1
  <2>2. ASSUME NEW t \in Sounds, t # s, t = head \/ prev[t] # None PROVE t = head' \/ prev'[t] # None
    BY <1>1, <1>2, <1>3, <1>4, <2>2
  <2> QED BY <2>1, <2>2 DEF Playing
<1>6. \A t, u \in Sounds : next'[t] = u => prev'[u] = t
  BY <1>1, <1>2, <1>3
<1>7. \A t, u \in Sounds : prev'[u] = t /\ Ahead(t) => next'[t] = u
  BY <1>1, <1>2, <1>3
<1>8. \A t \in Sounds \ Playing' : Ahead(t) => next'[t] = None
  BY <1>1, <1>2, <1>3, <1>5
<1>9. head' # None => prev'[head'] = None
  BY <1>1, <1>2, <1>3
<1>10. \A t \in Members(completed) \cup {s} : next'[t] = None /\ \A u \in Sounds : prev'[u] # t
  BY <1>1, <1>2, <1>3
<1> QED BY <1>0, <1>5, <1>6, <1>7, <1>8, <1>9, <1>10 DEF ClosingLinks

(* So does the device in either phase when it completes a sound.           *)
LEMMA CompletedTakesOff ==
  ASSUME TypeOK, PhaseInv, ListInv, SweepInv, MixInv, CloseInv, SoundCompleted, phase # "closed"
  PROVE  /\ phase = "closing" => ClosingLinks'
         /\ Playing' = Playing \ {mixing}
<1> USE AudioAssumption
<1>1. /\ mixing \in Sounds /\ completed' = Append(completed, mixing) /\ Unlink(mixing)
      /\ UNCHANGED <<disposed, host, at>>
  BY DEF SoundCompleted, Kept, PhaseInv, TypeOK, Maybe, calls
<1>2. LinksType /\ Members(completed) \subseteq Sounds
  BY DEF TypeOK, LinksType, SweepInv
<1>3. CASE phase = "open"
  BY <1>1, <1>2, <1>3, UnlinkTakesOff DEF ListInv
<1>4. CASE phase = "closing"
  <2>1. Ahead(mixing) \/ mixing \in Members(completed)
    <3>1. CASE mixing \notin disposed \/ (host = "closeWait" /\ mixing = at)
      BY <3>1 DEF Ahead
    <3>2. CASE host = "wait" /\ mixing = Head(todo)
      BY <3>2, HeadMembers DEF SweepInv, TypeOK
    <3> QED BY <3>1, <3>2 DEF MixInv
  <2>2. Members(completed') = Members(completed) \cup {mixing}
    BY <1>1, AppendMembers DEF TypeOK
  <2> QED BY <1>1, <1>2, <1>4, <2>1, <2>2, ClosingTakesOff DEF CloseInv
<1> QED BY <1>3, <1>4 DEF TypeOK

-----------------------------------------------------------------------------
LEMMA InitIInv == Init => IInv
<1> SUFFICES ASSUME Init PROVE IInv
  OBVIOUS
<1> USE AudioAssumption DEF Init
<1>1. Playing = {} /\ Members(completed) = {}
  BY DEF Playing, Members
<1>2. TypeOK
  BY DEF TypeOK, Maybe
<1>3. PhaseInv
  BY DEF PhaseInv, InLock
<1>4. ListInv
  BY <1>1 DEF ListInv, LinksInv
<1>5. SweepInv /\ MixInv /\ CloseInv /\ HeldElsewhere /\ NothingLost
  BY <1>1 DEF SweepInv, MixInv, CloseInv, HeldElsewhere, NothingLost
<1> QED BY <1>2, <1>3, <1>4, <1>5 DEF IInv

LEMMA TypeStep == TypeOK /\ PhaseInv /\ ListInv /\ SweepInv /\ [Next]_vars => TypeOK'
<1> SUFFICES ASSUME TypeOK, PhaseInv, ListInv, SweepInv, [Next]_vars PROVE TypeOK'
  OBVIOUS
<1> USE AudioAssumption DEF TypeOK, Maybe
<1>0. LinksType
  BY DEF LinksType
<1>1. ASSUME NEW s \in Sounds, Mix(s) PROVE TypeOK'
  BY <1>1 DEF Mix, list, calls
<1>2. CASE ReachEnd
  BY <1>2 DEF ReachEnd, list, calls
<1>3. CASE SoundCompleted
  <2>1. mixing \in Sounds
    BY <1>3 DEF SoundCompleted, PhaseInv
  <2>2. completed' \in Seq(Sounds)
    BY <1>3, <2>1, AppendMembers DEF SoundCompleted, Kept
  <2>3. head' \in Maybe /\ next' \in [Sounds -> Maybe] /\ prev' \in [Sounds -> Maybe]
    BY <1>3, <2>1 DEF SoundCompleted, Unlink
  <2> QED BY <1>3, <2>2, <2>3 DEF SoundCompleted, calls
<1>4. CASE LeaveSound
  BY <1>4 DEF LeaveSound, list, calls
<1>5. CASE DisposeNext
  BY <1>5, HeadMembers DEF DisposeNext, Detached, list
<1>6. CASE Disposed
  <2>1. todo # <<>>
    BY <1>6 DEF Disposed, SweepInv
  <2> QED BY <1>6, <2>1, HeadMembers DEF Disposed, list
<1>7. CASE ClearCompleted
  <2>1. <<>> \in Seq(Sounds)
    OBVIOUS
  <2> QED BY <1>7, <2>1 DEF ClearCompleted, list
<1>8. ASSUME NEW s \in Sounds, PlayFails(s) PROVE TypeOK'
  BY <1>8 DEF PlayFails, list
<1>9. ASSUME NEW s \in Sounds, StartSound(s) PROVE TypeOK'
  BY <1>9 DEF StartSound, list
<1>10. CASE LinkSound
  <2>1. at \in Sounds
    BY <1>10 DEF LinkSound, PhaseInv, InLock, ListInv
  <2> QED BY <1>10, <2>1 DEF LinkSound, Link
<1>11. CASE StopNext
  <2>1. at \in Sounds /\ at' = next[at]
    BY <1>11 DEF StopNext, After
  <2>2. completed' \in Seq(Sounds)
    <3>1. completed' \in {completed, Append(completed, at)}
      BY <1>11 DEF StopNext
    <3> QED BY <2>1, <3>1, AppendMembers
  <2>3. head' \in Maybe /\ next' \in [Sounds -> Maybe] /\ prev' \in [Sounds -> Maybe]
    BY <1>11, <2>1 DEF StopNext, Unlink, list
  <2> QED BY <1>11, <2>1, <2>2, <2>3 DEF StopNext
<1>12. CASE StopReturns
  BY <1>12 DEF StopReturns, list
<1>13. CASE CloseNext
  BY <1>13 DEF CloseNext, Detached, list
<1>14. CASE CloseUnlink
  BY <1>14 DEF CloseUnlink, PhaseInv
<1>15. CASE CloseCompleted
  BY <1>15 DEF CloseCompleted, AsTheyAre, list
<1>16. CASE Closed
  BY <1>16 DEF Closed, list
<1>17. ASSUME NEW a \in Artboards, Play(a) PROVE TypeOK'
  BY <1>17 DEF Play, list
<1>18. ASSUME NEW a \in Artboards, StopArtboard(a) PROVE TypeOK'
  BY <1>18 DEF StopArtboard, list
<1>19. ASSUME NEW s \in Sounds, StopSound(s) PROVE TypeOK'
  BY <1>19 DEF StopSound, list, calls
<1>20. CASE StopEngine
  BY <1>20 DEF StopEngine, list, calls
<1>21. CASE StartEngine
  BY <1>21 DEF StartEngine, list, calls
<1>22. CASE Close
  BY <1>22 DEF Close, list
<1>24. CASE StopDevice
  BY <1>24 DEF StopDevice, list, calls
<1>23. CASE UNCHANGED vars
  BY <1>23 DEF vars
<1> QED BY <1>1, <1>2, <1>3, <1>4, <1>5, <1>6, <1>7, <1>8, <1>9, <1>10, <1>11, <1>12,
           <1>13, <1>14, <1>15, <1>16, <1>17, <1>18, <1>19, <1>20, <1>21, <1>22, <1>23, <1>24
        DEF Next, Device, InCall

LEMMA PhaseStep ==
  ASSUME TypeOK, PhaseInv, [Next]_vars
  PROVE  PhaseInv'
<1> USE AudioAssumption DEF TypeOK, Maybe, PhaseInv, InLock
<1>1. ASSUME NEW s \in Sounds, Mix(s) PROVE PhaseInv'
  BY <1>1 DEF Mix, list, calls
<1>2. CASE ReachEnd
  BY <1>2 DEF ReachEnd, list, calls
<1>3. CASE SoundCompleted
  BY <1>3 DEF SoundCompleted, list, calls
<1>4. CASE LeaveSound
  BY <1>4 DEF LeaveSound, list, calls
<1>5. CASE DisposeNext
  BY <1>5 DEF DisposeNext, Detached, list, calls
<1>6. CASE Disposed
  BY <1>6 DEF Disposed, LetGo, list, calls
<1>7. CASE ClearCompleted
  BY <1>7 DEF ClearCompleted, list, calls
<1>8. ASSUME NEW s \in Sounds, PlayFails(s) PROVE PhaseInv'
  BY <1>8 DEF PlayFails, list, calls
<1>9. ASSUME NEW s \in Sounds, StartSound(s) PROVE PhaseInv'
  BY <1>9 DEF StartSound, list, calls
<1>10. CASE LinkSound
  BY <1>10 DEF LinkSound, list, calls
<1>11. CASE StopNext
  BY <1>11 DEF StopNext, After, list, calls
<1>12. CASE StopReturns
  BY <1>12 DEF StopReturns, list, calls
<1>13. CASE CloseNext
  BY <1>13 DEF CloseNext, Detached, list, calls
<1>14. CASE CloseUnlink
  BY <1>14 DEF CloseUnlink, LetGo, list, calls
<1>15. CASE CloseCompleted
  BY <1>15 DEF CloseCompleted, AsTheyAre, list, calls
<1>16. CASE Closed
  BY <1>16 DEF Closed, list, calls
<1>17. ASSUME NEW a \in Artboards, Play(a) PROVE PhaseInv'
  BY <1>17 DEF Play, list, calls
<1>18. ASSUME NEW a \in Artboards, StopArtboard(a) PROVE PhaseInv'
  BY <1>18 DEF StopArtboard, list, calls
<1>19. ASSUME NEW s \in Sounds, StopSound(s) PROVE PhaseInv'
  BY <1>19 DEF StopSound, list, calls
<1>20. CASE StopEngine
  BY <1>20 DEF StopEngine, list, calls
<1>21. CASE StartEngine
  BY <1>21 DEF StartEngine, list, calls
<1>22. CASE Close
  BY <1>22 DEF Close, list, calls
<1>24. CASE StopDevice
  BY <1>24 DEF StopDevice, list, calls
<1>23. CASE UNCHANGED vars
  BY <1>23 DEF vars, list, calls
<1> QED BY <1>1, <1>2, <1>3, <1>4, <1>5, <1>6, <1>7, <1>8, <1>9, <1>10, <1>11, <1>12,
           <1>13, <1>14, <1>15, <1>16, <1>17, <1>18, <1>19, <1>20, <1>21, <1>22, <1>23, <1>24
        DEF Next, Device, InCall

LEMMA SweepStep ==
  ASSUME TypeOK, PhaseInv, ListInv, MixInv, SweepInv, [Next]_vars
  PROVE  SweepInv'
<1> USE AudioAssumption DEF TypeOK, Maybe, PhaseInv, InLock, SweepInv
<1>1. ASSUME NEW s \in Sounds, Mix(s) PROVE SweepInv'
  BY <1>1 DEF Mix, list, calls
<1>2. CASE ReachEnd
  BY <1>2 DEF ReachEnd, list, calls
<1>3. CASE SoundCompleted
  <2>1. mixing \in Sounds /\ mixing \in made /\ completed' = Append(completed, mixing)
    BY <1>3 DEF SoundCompleted, Kept, PhaseInv, MixInv
  <2>2. /\ Members(completed') = Members(completed) \cup {mixing}
        /\ Len(completed') = Len(completed) + 1
        /\ \A k \in 1 .. Len(completed) : completed'[k] = completed[k]
    BY <2>1, AppendMembers
  <2>3. mixing \notin started /\ (phase = "open" => host \notin {"sweep", "wait"})
    BY <1>3 DEF SoundCompleted, MixInv
  <2> QED BY <1>3, <2>1, <2>2, <2>3 DEF SoundCompleted, calls
<1>4. CASE LeaveSound
  BY <1>4 DEF LeaveSound, list, calls
<1>5. CASE DisposeNext
  <2>1. Members(todo) = Members(Tail(todo)) \cup {Head(todo)}
    BY <1>5, HeadMembers DEF DisposeNext
  <2>2. UNCHANGED <<phase, made, completed, mixing, device>> /\ host = "sweep" /\ started' \subseteq started
    BY <1>5 DEF DisposeNext, Detached
  <2>3. CASE Head(todo) \in disposed
    <3>1. todo' = Tail(todo) /\ disposed' = disposed /\ host' = "sweep"
      BY <1>5, <2>3 DEF DisposeNext
    <3> QED BY <2>1, <2>2, <2>3, <3>1
  <2>4. CASE Head(todo) \notin disposed
    <3>1. todo' = todo /\ disposed' = disposed \cup {Head(todo)} /\ host' = "wait" /\ todo # <<>>
      BY <1>5, <2>4 DEF DisposeNext
    <3> QED BY <2>2, <3>1
  <2> QED BY <2>3, <2>4
<1>6. CASE Disposed
  <2>1. Members(todo) = Members(Tail(todo)) \cup {Head(todo)}
    BY <1>6, HeadMembers DEF Disposed
  <2> QED BY <1>6, <2>1 DEF Disposed, LetGo, list, calls
<1>7. CASE ClearCompleted
  BY <1>7, EmptyMembers DEF ClearCompleted, list
<1>8. ASSUME NEW s \in Sounds, PlayFails(s) PROVE SweepInv'
  BY <1>8 DEF PlayFails, list, calls
<1>9. ASSUME NEW s \in Sounds, StartSound(s) PROVE SweepInv'
  BY <1>9 DEF StartSound, list, calls
<1>10. CASE LinkSound
  BY <1>10 DEF LinkSound, list, calls
<1>11. CASE StopNext
  <2>1. at \in made /\ at \in Sounds
    BY <1>11 DEF StopNext, ListInv
  <2>2. Members(completed') = Members(completed) \/ Members(completed') = Members(completed) \cup {at}
    BY <1>11, <2>1, AppendMembers DEF StopNext
  <2> QED BY <1>11, <2>1, <2>2 DEF StopNext
<1>12. CASE StopReturns
  BY <1>12 DEF StopReturns, list, calls
<1>13. CASE CloseNext
  BY <1>13 DEF CloseNext, Detached, list, calls
<1>14. CASE CloseUnlink
  BY <1>14 DEF CloseUnlink, LetGo, list, calls
<1>15. CASE CloseCompleted
  BY <1>15 DEF CloseCompleted, AsTheyAre, list, calls
<1>16. CASE Closed
  BY <1>16 DEF Closed, list
<1>17. ASSUME NEW a \in Artboards, Play(a) PROVE SweepInv'
  BY <1>17 DEF Play, list, calls
<1>18. ASSUME NEW a \in Artboards, StopArtboard(a) PROVE SweepInv'
  BY <1>18 DEF StopArtboard, list, calls
<1>19. ASSUME NEW s \in Sounds, StopSound(s) PROVE SweepInv'
  BY <1>19 DEF StopSound, list, calls
<1>20. CASE StopEngine
  BY <1>20 DEF StopEngine, list, calls
<1>21. CASE StartEngine
  BY <1>21 DEF StartEngine, list, calls
<1>22. CASE Close
  BY <1>22 DEF Close, list, calls
<1>24. CASE StopDevice
  BY <1>24 DEF StopDevice, list, calls
<1>23. CASE UNCHANGED vars
  BY <1>23 DEF vars, list, calls
<1> QED BY <1>1, <1>2, <1>3, <1>4, <1>5, <1>6, <1>7, <1>8, <1>9, <1>10, <1>11, <1>12,
           <1>13, <1>14, <1>15, <1>16, <1>17, <1>18, <1>19, <1>20, <1>21, <1>22, <1>23, <1>24
        DEF Next, Device, InCall

LEMMA MixStep ==
  ASSUME TypeOK, PhaseInv, SweepInv, ListInv, CloseInv, MixInv, [Next]_vars
  PROVE  MixInv'
<1> USE AudioAssumption DEF TypeOK, Maybe, PhaseInv, InLock, MixInv
<1>1. ASSUME NEW s \in Sounds, Mix(s) PROVE MixInv'
  BY <1>1 DEF Mix, list, calls
<1>2. CASE ReachEnd
  BY <1>2 DEF ReachEnd, list, calls
<1>3. CASE SoundCompleted
  <2>1. mixing \in Sounds /\ completed' = Append(completed, mixing) /\ mixing \notin started
    BY <1>3 DEF SoundCompleted, Kept
  <2>2. Members(completed') = Members(completed) \cup {mixing}
    BY <2>1, AppendMembers
  <2> QED BY <1>3, <2>1, <2>2 DEF SoundCompleted, calls
<1>4. CASE LeaveSound
  BY <1>4 DEF LeaveSound, list, calls
<1>5. CASE DisposeNext
  <2>1. Head(todo) \in made
    BY <1>5, HeadMembers DEF DisposeNext, SweepInv
  <2> QED BY <1>5, <2>1 DEF DisposeNext, Detached, list
<1>6. CASE Disposed
  BY <1>6 DEF Disposed, LetGo, list
<1>7. CASE ClearCompleted
  BY <1>7, EmptyMembers DEF ClearCompleted, list
<1>8. ASSUME NEW s \in Sounds, PlayFails(s) PROVE MixInv'
  BY <1>8 DEF PlayFails, list, calls
<1>9. ASSUME NEW s \in Sounds, StartSound(s) PROVE MixInv'
  <2>1. s \notin disposed /\ s \notin Members(completed) /\ s # mixing
    BY <1>9 DEF StartSound, SweepInv
  <2> QED BY <1>9, <2>1 DEF StartSound, list
<1>10. CASE LinkSound
  BY <1>10 DEF LinkSound, list, calls
<1>11. CASE StopNext
  <2>1. at \in Sounds
    BY <1>11 DEF StopNext
  <2>2. CASE artboard[at] = client
    <3>1. Members(completed') = Members(completed) \cup {at}
      BY <1>11, <2>1, <2>2, AppendMembers DEF StopNext
    <3> QED BY <1>11, <2>1, <2>2, <3>1 DEF StopNext
  <2>3. CASE artboard[at] # client
    BY <1>11, <2>3 DEF StopNext, list
  <2> QED BY <2>2, <2>3
<1>12. CASE StopReturns
  BY <1>12 DEF StopReturns, list, calls
<1>13. CASE CloseNext
  <2>1. at \in made /\ at \notin disposed
    BY <1>13 DEF CloseNext, CloseInv, WalkAhead
  <2> QED BY <1>13, <2>1 DEF CloseNext, Detached, list
<1>14. CASE CloseUnlink
  BY <1>14 DEF CloseUnlink, LetGo, list, calls
<1>15. CASE CloseCompleted
  BY <1>15 DEF CloseCompleted, AsTheyAre, list, calls
<1>16. CASE Closed
  BY <1>16 DEF Closed, list, calls
<1>17. ASSUME NEW a \in Artboards, Play(a) PROVE MixInv'
  BY <1>17 DEF Play, list, calls
<1>18. ASSUME NEW a \in Artboards, StopArtboard(a) PROVE MixInv'
  BY <1>18 DEF StopArtboard, list, calls
<1>19. ASSUME NEW s \in Sounds, StopSound(s) PROVE MixInv'
  BY <1>19 DEF StopSound, list, calls
<1>20. CASE StopEngine
  BY <1>20 DEF StopEngine, list, calls
<1>21. CASE StartEngine
  BY <1>21 DEF StartEngine, list, calls
<1>22. CASE Close
  BY <1>22 DEF Close, list, calls
<1>24. CASE StopDevice
  BY <1>24 DEF StopDevice, list, calls
<1>23. CASE UNCHANGED vars
  BY <1>23 DEF vars, list, calls
<1> QED BY <1>1, <1>2, <1>3, <1>4, <1>5, <1>6, <1>7, <1>8, <1>9, <1>10, <1>11, <1>12,
           <1>13, <1>14, <1>15, <1>16, <1>17, <1>18, <1>19, <1>20, <1>21, <1>22, <1>23, <1>24
        DEF Next, Device, InCall

LEMMA ListStep ==
  ASSUME TypeOK, PhaseInv, SweepInv, MixInv, ListInv, [Next]_vars
  PROVE  ListInv'
<1> USE AudioAssumption DEF TypeOK, Maybe, PhaseInv, InLock, ListInv
<1>1. ASSUME NEW s \in Sounds, Mix(s) PROVE ListInv'
  BY <1>1 DEF Mix, list, calls, Playing, LinksInv
<1>2. CASE ReachEnd
  BY <1>2 DEF ReachEnd, list, calls, Playing, LinksInv
<1>3. CASE SoundCompleted
  <2>1. mixing \in made /\ mixing \in Sounds /\ completed' = Append(completed, mixing) /\ Unlink(mixing)
    BY <1>3 DEF SoundCompleted, Kept, MixInv
  <2>2. Members(completed') = Members(completed) \cup {mixing}
    BY <2>1, AppendMembers
  <2>3. CASE phase = "open"
    <3>1. LinksInv' /\ Playing' = Playing \ {mixing}
      BY <2>1, <2>3, UnlinkTakesOff DEF LinksType
    <3>2. host # "link"
      BY <1>3, <2>3 DEF SoundCompleted
    <3> QED BY <1>3, <2>2, <2>3, <3>1, <3>2 DEF SoundCompleted, calls
  <2> QED BY <1>3, <2>3 DEF SoundCompleted
<1>4. CASE LeaveSound
  BY <1>4 DEF LeaveSound, list, calls, Playing, LinksInv
<1>5. CASE DisposeNext
  <2>1. phase = "open" => Head(todo) \notin Playing
    BY <1>5, HeadMembers DEF DisposeNext, SweepInv
  <2> QED BY <1>5, <2>1 DEF DisposeNext, Detached, list, Playing, LinksInv
<1>6. CASE Disposed
  BY <1>6 DEF Disposed, list, Playing, LinksInv
<1>7. CASE ClearCompleted
  BY <1>7, EmptyMembers DEF ClearCompleted, list, Playing, LinksInv
<1>8. ASSUME NEW s \in Sounds, PlayFails(s) PROVE ListInv'
  <2>1. s \notin Playing \cup Members(completed)
    BY <1>8 DEF PlayFails, SweepInv
  <2>2. UNCHANGED <<phase, head, next, prev, completed, at>>
        /\ made' = made \cup {s} /\ disposed' = disposed \cup {s} /\ host' = "idle"
    BY <1>8 DEF PlayFails, list
  <2>3. (phase = "open" => LinksInv') /\ Playing' = Playing
    BY <2>2 DEF LinksInv, Playing
  <2> QED BY <2>1, <2>2, <2>3
<1>9. ASSUME NEW s \in Sounds, StartSound(s) PROVE ListInv'
  <2>1. phase = "open" => s \notin Playing \cup Members(completed)
    BY <1>9 DEF StartSound, SweepInv
  <2>2. UNCHANGED <<phase, head, next, prev, completed, disposed>> /\ made \subseteq made'
    BY <1>9 DEF StartSound, list
  <2>3. (phase = "open" => LinksInv') /\ Playing' = Playing
    BY <2>2 DEF LinksInv, Playing
  <2>4. at' = s /\ host' = "link" /\ s \in made' \ disposed'
    BY <1>9 DEF StartSound, MixInv
  <2> QED BY <2>1, <2>2, <2>3, <2>4
<1>10. CASE LinkSound
  <2>1. phase = "open" /\ at \in made \ disposed /\ at \in Sounds /\ at \notin Playing \cup Members(completed)
    BY <1>10 DEF LinkSound
  <2>2. LinksInv' /\ Playing' = Playing \cup {at}
    BY <1>10, <2>1, LinkPutsOn DEF LinkSound, LinksType
  <2> QED BY <1>10, <2>1, <2>2 DEF LinkSound
<1>11. CASE StopNext
  <2>1. at \in made /\ at \in Sounds /\ phase = "open" /\ at' = next[at]
    BY <1>11 DEF StopNext, After
  <2>2. at' \in made \cup {None}
    <3>1. CASE next[at] = None
      BY <2>1, <3>1
    <3>2. CASE next[at] # None
      <4>1. next[at] \in Sounds /\ prev[next[at]] = at
        BY <2>1, <3>2 DEF LinksInv
      <4> QED BY <2>1, <4>1 DEF Playing
    <3> QED BY <3>1, <3>2
  <2>3. CASE artboard[at] = client
    <3>1. LinksInv' /\ Playing' = Playing \ {at}
      BY <1>11, <2>1, <2>3, UnlinkTakesOff DEF StopNext, LinksType
    <3>2. Members(completed') = Members(completed) \cup {at}
      BY <1>11, <2>1, <2>3, AppendMembers DEF StopNext
    <3> QED BY <1>11, <2>1, <2>2, <3>1, <3>2 DEF StopNext
  <2>4. CASE artboard[at] # client
    BY <1>11, <2>1, <2>2, <2>4 DEF StopNext, list, Playing, LinksInv
  <2> QED BY <2>3, <2>4
<1>12. CASE StopReturns
  BY <1>12 DEF StopReturns, list, calls, Playing, LinksInv
<1>13. CASE CloseNext
  BY <1>13 DEF CloseNext, Detached, list, calls, Playing, LinksInv
<1>14. CASE CloseUnlink
  BY <1>14 DEF CloseUnlink, LetGo, list, calls, Playing, LinksInv
<1>15. CASE CloseCompleted
  BY <1>15 DEF CloseCompleted, AsTheyAre, list, calls, Playing, LinksInv
<1>16. CASE Closed
  BY <1>16 DEF Closed, list, calls, Playing, LinksInv
<1>17. ASSUME NEW a \in Artboards, Play(a) PROVE ListInv'
  BY <1>17 DEF Play, list, calls, Playing, LinksInv
<1>18. ASSUME NEW a \in Artboards, StopArtboard(a) PROVE ListInv'
  <2>1. head \in Playing \/ head = None
    BY DEF Playing
  <2> QED BY <1>18, <2>1 DEF StopArtboard, list, Playing, LinksInv
<1>19. ASSUME NEW s \in Sounds, StopSound(s) PROVE ListInv'
  BY <1>19 DEF StopSound, list, calls, Playing, LinksInv
<1>20. CASE StopEngine
  BY <1>20 DEF StopEngine, list, calls, Playing, LinksInv
<1>21. CASE StartEngine
  BY <1>21 DEF StartEngine, list, calls, Playing, LinksInv
<1>22. CASE Close
  BY <1>22 DEF Close, list, calls, Playing, LinksInv
<1>24. CASE StopDevice
  BY <1>24 DEF StopDevice, list, calls, Playing, LinksInv
<1>23. CASE UNCHANGED vars
  BY <1>23 DEF vars, list, calls, Playing, LinksInv
<1> QED BY <1>1, <1>2, <1>3, <1>4, <1>5, <1>6, <1>7, <1>8, <1>9, <1>10, <1>11, <1>12,
           <1>13, <1>14, <1>15, <1>16, <1>17, <1>18, <1>19, <1>20, <1>21, <1>22, <1>23, <1>24
        DEF Next, Device, InCall

LEMMA CloseStep ==
  ASSUME TypeOK, PhaseInv, ListInv, SweepInv, MixInv, CloseInv, NothingLost, [Next]_vars
  PROVE  CloseInv'
<1> USE AudioAssumption
<1>0. phase' = "closing" /\ ~Close => phase = "closing"
  BY DEF Next, Device, InCall, Mix, ReachEnd, SoundCompleted, LeaveSound, DisposeNext, Disposed,
         ClearCompleted, PlayFails, StartSound, LinkSound, StopNext, StopReturns, CloseNext,
         CloseUnlink, CloseCompleted, StopDevice, Closed, Play, StopArtboard, StopSound,
         StopEngine, StartEngine, vars
<1>1. CASE Close
  <2>1. phase = "open" /\ at' = head /\ host' = "close"
        /\ UNCHANGED <<head, next, prev, disposed, made, completed>>
    BY <1>1 DEF Close, list
  <2>2. LinksInv /\ Playing \subseteq made \ disposed /\ Members(completed) \cap Playing = {}
        /\ Members(completed) \subseteq Sounds
    BY <2>1 DEF ListInv, SweepInv, TypeOK
  <2>3. Playing' = Playing /\ head \in Playing \cup {None}
    BY <2>1 DEF Playing, TypeOK, Maybe
  <2>4. ClosingLinks
    <3>1. \A s \in Members(completed) : next[s] = None /\ \A t \in Sounds : prev[t] # s
      BY <2>2 DEF LinksInv
    <3> QED BY <2>2, <3>1 DEF ClosingLinks, LinksInv
  <2>5. ClosingLinks'
    <3>1. \A s \in Sounds : Ahead(s)' => Ahead(s)
      BY <2>1 DEF Ahead
    <3> QED BY <2>1, <2>3, <2>4, <3>1 DEF ClosingLinks
  <2>6. head # None => \A s \in Sounds : next[s] # head
    BY <2>2 DEF LinksInv, TypeOK, Maybe
  <2>7. \A s \in Sounds : next[s] \in (made \ disposed) \cup {None}
    BY <2>2 DEF LinksInv, Playing, TypeOK, Maybe
  <2>8. WalkAhead'
    BY <2>1, <2>2, <2>3, <2>6, <2>7 DEF WalkAhead, MixInv, TypeOK
  <2> QED BY <2>1, <2>2, <2>3, <2>5, <2>8 DEF CloseInv
<1> SUFFICES ASSUME phase = "closing", phase' = "closing", ~Close
             PROVE  CloseInv'
  BY <1>0, <1>1 DEF CloseInv
<1>2. /\ lock = None /\ host \in {"close", "closeWait", "sweep", "wait", "uninit"}
      /\ host \notin {"close", "closeWait"} => at = None
      /\ ClosingLinks /\ WalkAhead /\ Members(completed) \cap Playing = {}
      /\ host = "uninit" => started \subseteq Playing
  BY DEF PhaseInv, CloseInv
<1>3. CASE UNCHANGED <<list, completed, made, disposed, host, at>> /\ started' \subseteq started
  <2>1. ClosingLinks' /\ WalkAhead' /\ Playing' = Playing
    BY <1>2, <1>3 DEF ClosingLinks, WalkAhead, Ahead, Playing, list
  <2> QED BY <1>2, <1>3, <2>1 DEF CloseInv
<1>4. CASE SoundCompleted
  <2>1. ClosingLinks' /\ Playing' = Playing \ {mixing}
    BY <1>4, CompletedTakesOff
  <2>2. /\ mixing \in Sounds /\ completed' = Append(completed, mixing) /\ mixing \notin started
        /\ UNCHANGED <<made, disposed, started, host, at>>
        /\ \A s \in Sounds : next'[s] \in {None, next[s], next[mixing]}
    BY <1>4 DEF SoundCompleted, Kept, PhaseInv, MixInv, TypeOK, Maybe, calls, Unlink
  <2>3. Members(completed') = Members(completed) \cup {mixing}
    BY <2>2, AppendMembers DEF TypeOK
  <2>4. WalkAhead'
    BY <1>2, <2>2 DEF WalkAhead
  <2> QED BY <1>2, <2>1, <2>2, <2>3, <2>4 DEF CloseInv
<1>5. CASE DisposeNext \/ Disposed
  <2>1. UNCHANGED <<list, completed, made>> /\ disposed \subseteq disposed'
        /\ host \in {"sweep", "wait"} /\ host' \in {"sweep", "wait"}
    BY <1>5 DEF DisposeNext, Disposed
  <2>2. ClosingLinks' /\ WalkAhead' /\ Playing' = Playing
    BY <1>2, <2>1 DEF ClosingLinks, WalkAhead, Ahead, Playing, list
  <2> QED BY <1>2, <2>1, <2>2 DEF CloseInv
<1>6. CASE ClearCompleted
  <2>1. UNCHANGED <<list, made, disposed, started>> /\ host = "sweep" /\ host' = "uninit"
        /\ completed' = <<>>
    BY <1>6 DEF ClearCompleted
  <2>2. ClosingLinks' /\ WalkAhead' /\ Playing' = Playing
    BY <1>2, <2>1, EmptyMembers DEF ClosingLinks, WalkAhead, Ahead, Playing, list
  <2>3. started \subseteq Playing
    BY <2>1 DEF NothingLost, MixInv
  <2> QED BY <2>1, <2>2, <2>3, EmptyMembers DEF CloseInv
<1>7. CASE CloseNext
  <2>1. UNCHANGED <<head, next, prev, completed, made, at>> /\ disposed' = disposed \cup {at} /\ at # None
        /\ host = "close" /\ host' = "closeWait"
    BY <1>7 DEF CloseNext, list
  <2>2. at \in Sounds /\ \A s \in Sounds : Ahead(s)' <=> Ahead(s)
    BY <1>2, <2>1 DEF Ahead, WalkAhead, TypeOK, Maybe
  <2>3. Playing' = Playing
    BY <2>1 DEF Playing
  <2>4. ClosingLinks'
    BY <1>2, <2>1, <2>2, <2>3 DEF ClosingLinks
  <2>5. WalkAhead'
    BY <1>2, <2>1, <2>2 DEF WalkAhead
  <2> QED BY <1>2, <2>1, <2>3, <2>4, <2>5 DEF CloseInv
<1>8. CASE CloseUnlink
  <2>1. /\ host = "closeWait" /\ host' = "close" /\ at \in Sounds /\ at \in made /\ at \in disposed
        /\ at' = next[at] /\ UNCHANGED <<head, made, disposed, completed>>
    BY <1>2, <1>8 DEF CloseUnlink, WalkAhead, PhaseInv, TypeOK, Maybe
  <2>2. /\ \A t \in Sounds : next'[t] = IF t = at THEN None ELSE next[t]
        /\ \A t \in Sounds : prev'[t] = IF t = at THEN None ELSE prev[t]
    BY <1>8 DEF CloseUnlink, TypeOK
  <2>3. \A s \in Sounds : Ahead(s)' <=> Ahead(s) /\ s # at
    BY <2>1 DEF Ahead
  <2>4. Playing' \subseteq Playing /\ Playing \ {at} \subseteq Playing'
    BY <2>1, <2>2 DEF Playing
  <2>5. /\ \A s, t \in Sounds : next[s] = t => prev[t] = s
        /\ \A s, t \in Sounds : prev[t] = s /\ Ahead(s) => next[s] = t
        /\ \A s \in Sounds \ Playing : Ahead(s) => next[s] = None
        /\ head # None => prev[head] = None
        /\ \A s \in Members(completed) : next[s] = None /\ \A t \in Sounds : prev[t] # s
    BY <1>2 DEF ClosingLinks
  <2>6. \A s \in Sounds : next[s] # at /\ next[s] \in (made \ disposed) \cup {None}
    BY <1>2, <2>1 DEF WalkAhead
  <2>7. ClosingLinks'
    <3>1. \A s, t \in Sounds : next'[s] = t => prev'[t] = s
      BY <2>2, <2>5, <2>6
    <3>2. \A s, t \in Sounds : prev'[t] = s /\ Ahead(s)' => next'[s] = t
      BY <2>2, <2>3, <2>5
    <3>3. \A s \in Sounds \ Playing' : Ahead(s)' => next'[s] = None
      BY <2>2, <2>3, <2>4, <2>5
    <3>4. head' # None => prev'[head'] = None
      BY <2>1, <2>2, <2>5 DEF TypeOK, Maybe
    <3>5. \A s \in Members(completed) : next'[s] = None /\ \A t \in Sounds : prev'[t] # s
      <4>1. Members(completed) \subseteq Sounds
        BY DEF SweepInv, TypeOK
      <4> QED BY <2>2, <2>5, <4>1
    <3> QED BY <2>1, <3>1, <3>2, <3>3, <3>4, <3>5 DEF ClosingLinks
  <2>8. at' # None => \A s \in Sounds : next'[s] # at'
    BY <2>1, <2>2, <2>5 DEF TypeOK, Maybe
  <2>9. WalkAhead'
    BY <2>1, <2>2, <2>6, <2>8 DEF WalkAhead, MixInv, TypeOK
  <2> QED BY <1>2, <2>1, <2>4, <2>7, <2>9 DEF CloseInv
<1>9. CASE CloseCompleted
  <2>1. UNCHANGED <<list, completed, made, disposed>> /\ host = "close" /\ host' = "sweep"
    BY <1>9 DEF CloseCompleted
  <2>2. ClosingLinks' /\ WalkAhead' /\ Playing' = Playing
    BY <1>2, <2>1 DEF ClosingLinks, WalkAhead, Ahead, Playing, list
  <2> QED BY <1>2, <2>1, <2>2 DEF CloseInv
<1>10. ASSUME NEW s \in Sounds, Mix(s) PROVE CloseInv'
  BY <1>3, <1>10 DEF Mix, calls
<1>11. CASE ReachEnd \/ LeaveSound \/ StopDevice
  BY <1>3, <1>11 DEF ReachEnd, LeaveSound, StopDevice, calls
<1>12. CASE UNCHANGED vars
  BY <1>3, <1>12 DEF vars, list
<1> QED BY <1>2, <1>4, <1>5, <1>6, <1>7, <1>8, <1>9, <1>10, <1>11, <1>12
        DEF Next, Device, InCall, PlayFails, StartSound, LinkSound, StopNext, StopReturns, Closed,
            Play, StopArtboard, StopSound, StopEngine, StartEngine

LEMMA HeldStep ==
  ASSUME TypeOK, PhaseInv, ListInv, SweepInv, MixInv, CloseInv, HeldElsewhere, NothingLost, [Next]_vars
  PROVE  HeldElsewhere'
<1> USE AudioAssumption DEF TypeOK, Maybe, PhaseInv, InLock, HeldElsewhere
<1>1. ASSUME NEW s \in Sounds, Mix(s) PROVE HeldElsewhere'
  <2>1. s \in made \ disposed /\ (phase = "closing" /\ host = "uninit" => s \in Playing)
    BY <1>1 DEF Mix, MixInv, CloseInv
  <2>2. phase # "closed" /\ (host = "uninit" => phase = "closing")
    BY <1>1 DEF Mix
  <2>3. s \in Playing \cup Members(completed) \/ (host = "link" /\ at = s)
    BY <2>1, <2>2 DEF NothingLost
  <2> QED BY <1>1, <2>3 DEF Mix, list, calls, Playing
<1>2. CASE ReachEnd
  BY <1>2 DEF ReachEnd, list, calls, Playing
<1>3. CASE SoundCompleted
  <2>1. mixing \in Sounds /\ completed' = Append(completed, mixing) /\ mixing' = mixing
    BY <1>3 DEF SoundCompleted, Kept
  <2> QED BY <2>1, AppendMembers
<1>4. CASE LeaveSound
  BY <1>4 DEF LeaveSound, list, calls, Playing
<1>5. CASE DisposeNext
  BY <1>5 DEF DisposeNext, Detached, list, calls, Playing
<1>6. CASE Disposed
  BY <1>6 DEF Disposed, LetGo, list, calls, Playing
<1>7. CASE ClearCompleted
  <2>1. \A s \in Members(completed) : s \in disposed \/ (phase = "closing" /\ (mixing = s => device = "leave"))
    BY <1>7, EmptyMembers DEF ClearCompleted, SweepInv
  <2>2. mixing \notin disposed
    BY <1>7 DEF ClearCompleted, MixInv
  <2> QED BY <1>7, <2>1, <2>2 DEF ClearCompleted, list, Playing
<1>8. ASSUME NEW s \in Sounds, PlayFails(s) PROVE HeldElsewhere'
  BY <1>8 DEF PlayFails, list, calls, Playing
<1>9. ASSUME NEW s \in Sounds, StartSound(s) PROVE HeldElsewhere'
  BY <1>9 DEF StartSound, list, calls, Playing
<1>10. CASE LinkSound
  <2>1. phase = "open" /\ at \in Sounds /\ at \notin Playing
    BY <1>10 DEF LinkSound, ListInv
  <2>2. Playing' = Playing \cup {at}
    BY <1>10, <2>1, LinkPutsOn DEF LinkSound, LinksType, ListInv
  <2> QED BY <1>10, <2>2 DEF LinkSound
<1>11. CASE StopNext
  <2>1. at \in Sounds /\ phase = "open" /\ mixing' = mixing /\ host = "stop"
    BY <1>11 DEF StopNext
  <2>2. CASE artboard[at] = client
    <3>1. Playing' = Playing \ {at}
      BY <1>11, <2>1, <2>2, UnlinkTakesOff DEF StopNext, LinksType, ListInv
    <3>2. Members(completed') = Members(completed) \cup {at}
      BY <1>11, <2>1, <2>2, AppendMembers DEF StopNext
    <3> QED BY <2>1, <3>1, <3>2
  <2>3. CASE artboard[at] # client
    BY <1>11, <2>1, <2>3 DEF StopNext, list, Playing
  <2> QED BY <2>2, <2>3
<1>12. CASE StopReturns
  BY <1>12 DEF StopReturns, list, calls, Playing
<1>13. CASE CloseNext
  BY <1>13 DEF CloseNext, Detached, list, calls, Playing
<1>14. CASE CloseUnlink
  <2>1. mixing # at /\ at \in Sounds /\ UNCHANGED <<phase, head, completed, mixing, device>>
        /\ host # "link"
    BY <1>14 DEF CloseUnlink, LetGo
  <2>2. \A t \in Sounds : t # at => prev'[t] = prev[t]
    BY <1>14 DEF CloseUnlink
  <2>3. Playing \ {at} \subseteq Playing'
    BY <2>1, <2>2 DEF Playing
  <2> QED BY <2>1, <2>3
<1>15. CASE CloseCompleted
  BY <1>15 DEF CloseCompleted, AsTheyAre, list, calls, Playing
<1>16. CASE Closed
  BY <1>16 DEF Closed
<1>17. ASSUME NEW a \in Artboards, Play(a) PROVE HeldElsewhere'
  BY <1>17 DEF Play, list, calls, Playing
<1>18. ASSUME NEW a \in Artboards, StopArtboard(a) PROVE HeldElsewhere'
  BY <1>18 DEF StopArtboard, list, calls, Playing
<1>19. ASSUME NEW s \in Sounds, StopSound(s) PROVE HeldElsewhere'
  BY <1>19 DEF StopSound, list, calls, Playing
<1>20. CASE StopEngine
  BY <1>20 DEF StopEngine, list, calls, Playing
<1>21. CASE StartEngine
  BY <1>21 DEF StartEngine, list, calls, Playing
<1>22. CASE Close
  BY <1>22 DEF Close, list, calls, Playing
<1>24. CASE StopDevice
  BY <1>24 DEF StopDevice, list, calls, Playing
<1>23. CASE UNCHANGED vars
  BY <1>23 DEF vars, list, calls, Playing
<1> QED BY <1>1, <1>2, <1>3, <1>4, <1>5, <1>6, <1>7, <1>8, <1>9, <1>10, <1>11, <1>12,
           <1>13, <1>14, <1>15, <1>16, <1>17, <1>18, <1>19, <1>20, <1>21, <1>22, <1>23, <1>24
        DEF Next, Device, InCall

LEMMA LostStep ==
  ASSUME TypeOK, PhaseInv, ListInv, SweepInv, MixInv, CloseInv, NothingLost, [Next]_vars
  PROVE  NothingLost'
<1> USE AudioAssumption DEF TypeOK, Maybe, PhaseInv, InLock, NothingLost
<1>1. ASSUME NEW s \in Sounds, Mix(s) PROVE NothingLost'
  BY <1>1 DEF Mix, list, calls, Playing
<1>2. CASE ReachEnd
  BY <1>2 DEF ReachEnd, list, calls, Playing
<1>3. CASE SoundCompleted
  <2>1. mixing \in Sounds /\ completed' = Append(completed, mixing)
    BY <1>3 DEF SoundCompleted, Kept
  <2>2. Members(completed') = Members(completed) \cup {mixing}
    BY <2>1, AppendMembers
  <2>3. phase # "closed" => Playing' = Playing \ {mixing}
    BY <1>3, CompletedTakesOff
  <2> QED BY <1>3, <2>2, <2>3 DEF SoundCompleted, calls
<1>4. CASE LeaveSound
  BY <1>4 DEF LeaveSound, list, calls, Playing
<1>5. CASE DisposeNext
  BY <1>5 DEF DisposeNext, Detached, list, calls, Playing
<1>6. CASE Disposed
  BY <1>6 DEF Disposed, LetGo, list, calls, Playing
<1>7. CASE ClearCompleted
  <2>1. phase = "open" => \A s \in Members(completed) : s \in disposed
    BY <1>7, EmptyMembers DEF ClearCompleted, SweepInv
  <2> QED BY <1>7, <2>1 DEF ClearCompleted, list, Playing
<1>8. ASSUME NEW s \in Sounds, PlayFails(s) PROVE NothingLost'
  BY <1>8 DEF PlayFails, list, calls, Playing
<1>9. ASSUME NEW s \in Sounds, StartSound(s) PROVE NothingLost'
  BY <1>9 DEF StartSound, list, calls, Playing
<1>10. CASE LinkSound
  <2>1. phase = "open" /\ at \in Sounds /\ at \notin Playing
    BY <1>10 DEF LinkSound, ListInv
  <2>2. Playing' = Playing \cup {at}
    BY <1>10, <2>1, LinkPutsOn DEF LinkSound, LinksType, ListInv
  <2> QED BY <1>10, <2>2 DEF LinkSound
<1>11. CASE StopNext
  <2>1. at \in Sounds /\ phase = "open" /\ UNCHANGED <<made, disposed, host>> /\ host = "stop"
    BY <1>11 DEF StopNext
  <2>2. CASE artboard[at] = client
    <3>1. Playing' = Playing \ {at}
      BY <1>11, <2>1, <2>2, UnlinkTakesOff DEF StopNext, LinksType, ListInv
    <3>2. Members(completed') = Members(completed) \cup {at}
      BY <1>11, <2>1, <2>2, AppendMembers DEF StopNext
    <3> QED BY <2>1, <3>1, <3>2
  <2>3. CASE artboard[at] # client
    BY <1>11, <2>1, <2>3 DEF StopNext, list, Playing
  <2> QED BY <2>2, <2>3
<1>12. CASE StopReturns
  BY <1>12 DEF StopReturns, list, calls, Playing
<1>13. CASE CloseNext
  BY <1>13 DEF CloseNext, Detached, list, calls, Playing
<1>14. CASE CloseUnlink
  <2>1. at \in disposed /\ at \in Sounds /\ UNCHANGED <<phase, head, made, disposed, completed>>
        /\ host = "closeWait" /\ host' = "close"
    BY <1>14 DEF CloseUnlink, CloseInv, WalkAhead
  <2>2. \A t \in Sounds : t # at => prev'[t] = prev[t]
    BY <1>14 DEF CloseUnlink
  <2>3. Playing \ {at} \subseteq Playing'
    BY <2>1, <2>2 DEF Playing
  <2> QED BY <2>1, <2>3
<1>15. CASE CloseCompleted
  BY <1>15 DEF CloseCompleted, AsTheyAre, list, calls, Playing
<1>16. CASE Closed
  BY <1>16 DEF Closed
<1>17. ASSUME NEW a \in Artboards, Play(a) PROVE NothingLost'
  BY <1>17 DEF Play, list, calls, Playing
<1>18. ASSUME NEW a \in Artboards, StopArtboard(a) PROVE NothingLost'
  BY <1>18 DEF StopArtboard, list, calls, Playing
<1>19. ASSUME NEW s \in Sounds, StopSound(s) PROVE NothingLost'
  BY <1>19 DEF StopSound, list, calls, Playing
<1>20. CASE StopEngine
  BY <1>20 DEF StopEngine, list, calls, Playing
<1>21. CASE StartEngine
  BY <1>21 DEF StartEngine, list, calls, Playing
<1>22. CASE Close
  BY <1>22 DEF Close, list, calls, Playing
<1>24. CASE StopDevice
  BY <1>24 DEF StopDevice, list, calls, Playing
<1>23. CASE UNCHANGED vars
  BY <1>23 DEF vars, list, calls, Playing
<1> QED BY <1>1, <1>2, <1>3, <1>4, <1>5, <1>6, <1>7, <1>8, <1>9, <1>10, <1>11, <1>12,
           <1>13, <1>14, <1>15, <1>16, <1>17, <1>18, <1>19, <1>20, <1>21, <1>22, <1>23, <1>24
        DEF Next, Device, InCall

-----------------------------------------------------------------------------
(* The refinement.  The host has its hands on no sound in particular.      *)
Elsewhere == host \notin {"wait", "closeWait", "link"}

(* A step that touches none of what a life depends on.                     *)
LEMMA LivesStay ==
  ASSUME UNCHANGED <<made, disposed, completed, mixing, head, prev>>, Elsewhere, Elsewhere'
  PROVE  UNCHANGED Life!vars
<1>1. \A s \in Sounds : LifeOf(s)' = LifeOf(s)
  BY DEF LifeOf, Disposing, Elsewhere, Playing
<1> QED BY <1>1 DEF Life!vars

(* A step in which one sound, which was made, goes into or stays in a      *)
(* state, as Becomes says.                                                 *)
LEMMA OneLife ==
  ASSUME NEW s \in Sounds,
         \A t \in Sounds \ {s} : LifeOf(t)' = LifeOf(t),
         mixing' = mixing,
         \/ LifeOf(s)' = LifeOf(s)
         \/ LifeOf(s) = "new" /\ LifeOf(s)' = "playing"
         \/ LifeOf(s) = "new" /\ LifeOf(s)' = "disposed"
         \/ LifeOf(s) = "playing" /\ LifeOf(s)' = "retired"
         \/ mixing # s /\ LifeOf(s) = "retired" /\ LifeOf(s)' = "disposed"
  PROVE  [Life!Next]_(Life!vars)
<1> DEFINE lives == [t \in Sounds |-> LifeOf(t)]
<1>1. lives[s] = LifeOf(s)
  OBVIOUS
<1>2. lives' = [lives EXCEPT ![s] = LifeOf(s)']
  OBVIOUS
<1>3. CASE LifeOf(s)' = LifeOf(s)
  BY <1>2, <1>3 DEF Life!vars
<1>4. CASE LifeOf(s) = "new" /\ LifeOf(s)' = "playing"
  BY <1>1, <1>2, <1>4 DEF Life!Next, Life!Start, Life!Becomes
<1>5. CASE LifeOf(s) = "playing" /\ LifeOf(s)' = "retired"
  BY <1>1, <1>2, <1>5 DEF Life!Next, Life!Retire, Life!Becomes
<1>6. CASE mixing # s /\ LifeOf(s) = "retired" /\ LifeOf(s)' = "disposed"
  BY <1>1, <1>2, <1>6 DEF Life!Next, Life!Dispose, Life!Becomes
<1>7. CASE LifeOf(s) = "new" /\ LifeOf(s)' = "disposed"
  BY <1>1, <1>2, <1>7 DEF Life!Next, Life!Fail, Life!Becomes
<1> QED BY <1>3, <1>4, <1>5, <1>6, <1>7

LEMMA LifeInit == Init => Life!Init
<1> SUFFICES ASSUME Init PROVE Life!Init
  OBVIOUS
<1>1. \A s \in Sounds : LifeOf(s) = "new"
  <2>1. made = {}
    BY DEF Init
  <2> QED BY <2>1 DEF LifeOf
<1> QED BY <1>1 DEF Init, Life!Init

LEMMA LifeStep ==
  ASSUME IInv, [Next]_vars
  PROVE  [Life!Next]_(Life!vars)
<1> USE AudioAssumption
<1> DEFINE Goal == [Life!Next]_(Life!vars)
<1>0. TypeOK /\ PhaseInv /\ ListInv /\ SweepInv /\ MixInv /\ CloseInv
  BY DEF IInv
<1>1. ASSUME NEW s \in Sounds, Mix(s) PROVE Goal
  <2>1. \A t \in Sounds : LifeOf(t)' = LifeOf(t)
    BY <1>1 DEF Mix, LifeOf, Disposing, Playing, list, calls
  <2>2. LifeOf(s) \in {"playing", "retired"}
    BY <1>0, <1>1 DEF Mix, LifeOf, MixInv
  <2> QED BY <1>1, <2>1, <2>2 DEF Mix, Life!Next, Life!Mix
<1>2. CASE ReachEnd
  <2>1. \A t \in Sounds : LifeOf(t)' = LifeOf(t)
    BY <1>2 DEF ReachEnd, LifeOf, Disposing, Playing, list, calls
  <2> QED BY <1>2, <2>1 DEF ReachEnd, Life!vars
<1>3. CASE SoundCompleted
  <2>1. mixing \in Sounds /\ mixing \in made /\ completed' = Append(completed, mixing)
    BY <1>0, <1>3 DEF SoundCompleted, Kept, TypeOK, PhaseInv, MixInv
  <2>2. Members(completed') = Members(completed) \cup {mixing}
    BY <1>0, <2>1, AppendMembers DEF TypeOK
  <2>3. Playing' = Playing \ {mixing}
    BY <1>0, <1>3, <2>1, CompletedTakesOff DEF PhaseInv, TypeOK
  <2>4. /\ UNCHANGED <<made, disposed, mixing, host, todo, at>>
        /\ mixing \in disposed => Disposing(mixing)
    BY <1>0, <1>3, <2>1 DEF SoundCompleted, MixInv, Disposing, calls
  <2>5. PICK s \in Sounds : s = mixing
    BY <2>1
  <2>6. \A t \in Sounds \ {s} : LifeOf(t)' = LifeOf(t)
    BY <2>2, <2>3, <2>4, <2>5 DEF LifeOf, Disposing
  <2>7. LifeOf(s) \in {"playing", "retired"} /\ LifeOf(s)' = "retired"
    BY <2>1, <2>2, <2>4, <2>5 DEF LifeOf, Disposing
  <2> QED BY <2>4, <2>6, <2>7, OneLife
<1>4. CASE LeaveSound
  <2>1. \A t \in Sounds : LifeOf(t)' = LifeOf(t)
    BY <1>4 DEF LeaveSound, LifeOf, Disposing, Playing, list, calls
  <2> QED BY <1>4, <2>1 DEF LeaveSound, Life!Next, Life!Leave
<1>5. CASE DisposeNext
  <2>1. PICK s \in Sounds : s = Head(todo) /\ s \in Members(completed) /\ s \in made
    BY <1>0, <1>5, HeadMembers DEF DisposeNext, TypeOK, SweepInv
  <2>2. UNCHANGED <<made, completed, at>> /\ Playing' = Playing /\ host = "sweep"
    BY <1>5 DEF DisposeNext, Playing, list
  <2>3. CASE s \in disposed
    <3>1. UNCHANGED <<disposed, host>>
      BY <1>5, <2>1, <2>3 DEF DisposeNext
    <3>2. \A t \in Sounds : LifeOf(t)' = LifeOf(t)
      BY <2>2, <3>1 DEF LifeOf, Disposing
    <3> QED BY <1>5, <3>2 DEF DisposeNext, Life!vars
  <2>4. CASE s \notin disposed
    <3>1. disposed' = disposed \cup {s} /\ host' = "wait" /\ todo' = todo
      BY <1>5, <2>1, <2>4 DEF DisposeNext
    <3>2. \A t \in Sounds : LifeOf(t)' = LifeOf(t)
      BY <2>1, <2>2, <2>4, <3>1 DEF LifeOf, Disposing
    <3> QED BY <1>5, <3>2 DEF DisposeNext, Life!vars
  <2> QED BY <2>3, <2>4
<1>6. CASE Disposed
  <2>1. PICK s \in Sounds : s = Head(todo) /\ s \in disposed /\ s \in made
    BY <1>0, <1>6, HeadMembers DEF Disposed, TypeOK, SweepInv, MixInv
  <2>2. \A t \in Sounds \ {s} : LifeOf(t)' = LifeOf(t)
    BY <1>6, <2>1 DEF Disposed, LifeOf, Disposing, Playing, list
  <2>3. LifeOf(s) = "retired" /\ LifeOf(s)' = "disposed" /\ mixing # s /\ mixing' = mixing
    BY <1>6, <2>1 DEF Disposed, LetGo, LifeOf, Disposing
  <2> QED BY <2>2, <2>3, OneLife
<1>7. CASE ClearCompleted
  <2>1. \A t \in Members(completed) : t \notin Playing /\ ~(host' = "link" /\ at = t)
    BY <1>0, <1>7 DEF ClearCompleted, ListInv, CloseInv, PhaseInv, TypeOK
  <2>2. \A t \in Sounds : LifeOf(t)' = LifeOf(t)
    BY <1>7, <2>1, EmptyMembers DEF ClearCompleted, LifeOf, Disposing, Playing, list
  <2> QED BY <1>7, <2>2 DEF ClearCompleted, Life!vars
<1>8. ASSUME NEW s \in Sounds, PlayFails(s) PROVE Goal
  <2>1. \A t \in Sounds \ {s} : LifeOf(t)' = LifeOf(t)
    BY <1>8 DEF PlayFails, LifeOf, Disposing, Playing, list
  <2>2. LifeOf(s) = "new" /\ LifeOf(s)' = "disposed" /\ mixing' = mixing
    BY <1>8 DEF PlayFails, LifeOf, Disposing
  <2> QED BY <2>1, <2>2, OneLife
<1>9. ASSUME NEW s \in Sounds, StartSound(s) PROVE Goal
  <2>1. s \notin disposed /\ s \notin Members(completed)
    BY <1>0, <1>9 DEF StartSound, MixInv, SweepInv
  <2>2. \A t \in Sounds \ {s} : LifeOf(t)' = LifeOf(t)
    BY <1>9 DEF StartSound, LifeOf, Disposing, Playing, list
  <2>3. LifeOf(s) = "new" /\ LifeOf(s)' = "playing" /\ mixing' = mixing
    BY <1>9, <2>1 DEF StartSound, LifeOf, Disposing
  <2> QED BY <2>2, <2>3, OneLife
<1>10. CASE LinkSound
  <2>1. at \in Sounds /\ at \notin Playing \cup Members(completed) /\ at \notin disposed
        /\ phase = "open" /\ host = "link"
    BY <1>0, <1>10 DEF LinkSound, ListInv, PhaseInv, InLock, TypeOK
  <2>2. Playing' = Playing \cup {at}
    BY <1>0, <1>10, <2>1, LinkPutsOn DEF LinkSound, LinksType, ListInv, TypeOK
  <2>3. \A t \in Sounds : LifeOf(t)' = LifeOf(t)
    BY <1>10, <2>1, <2>2 DEF LinkSound, LifeOf, Disposing
  <2> QED BY <1>10, <2>3 DEF LinkSound, Life!vars
<1>11. CASE StopNext
  <2>1. PICK s \in Sounds : s = at /\ s \in made
    BY <1>0, <1>11 DEF StopNext, TypeOK, Maybe, ListInv, PhaseInv
  <2>2. Elsewhere /\ Elsewhere' /\ mixing' = mixing
    BY <1>11 DEF StopNext, Elsewhere
  <2>3. CASE artboard[at] = client
    <3>1. Members(completed') = Members(completed) \cup {s}
      BY <1>0, <1>11, <2>1, <2>3, AppendMembers DEF StopNext, TypeOK
    <3>2. Playing' = Playing \ {s}
      BY <1>0, <1>11, <2>1, <2>3, UnlinkTakesOff DEF StopNext, LinksType, ListInv, PhaseInv, TypeOK
    <3>3. \A t \in Sounds \ {s} : LifeOf(t)' = LifeOf(t)
      BY <1>11, <2>2, <3>1, <3>2 DEF StopNext, LifeOf, Disposing, Elsewhere
    <3>4. LifeOf(s)' = LifeOf(s) \/ (LifeOf(s) = "playing" /\ LifeOf(s)' = "retired")
      BY <1>11, <2>1, <2>2, <3>1 DEF StopNext, LifeOf, Disposing, Elsewhere
    <3> QED BY <2>2, <3>3, <3>4, OneLife
  <2>4. CASE artboard[at] # client
    BY <1>11, <2>2, <2>4, LivesStay DEF StopNext, list
  <2> QED BY <2>3, <2>4
<1>12. CASE StopReturns
  BY <1>12, LivesStay DEF StopReturns, Elsewhere, list
<1>13. CASE CloseNext
  <2>1. PICK s \in Sounds : s = at /\ s \in made /\ s \notin disposed
    BY <1>0, <1>13 DEF CloseNext, TypeOK, Maybe, CloseInv, WalkAhead, PhaseInv
  <2>2. \A t \in Sounds \ {s} : LifeOf(t)' = LifeOf(t)
    BY <1>13, <2>1 DEF CloseNext, LifeOf, Disposing, Playing, list
  <2>3. mixing' = mixing /\ LifeOf(s) \in {"playing", "retired"} /\ LifeOf(s)' = "retired"
    BY <1>13, <2>1 DEF CloseNext, LifeOf, Disposing
  <2> QED BY <2>2, <2>3, OneLife
<1>14. CASE CloseUnlink
  <2>1. PICK s \in Sounds : s = at /\ s \in made /\ s \in disposed
    BY <1>0, <1>14 DEF CloseUnlink, TypeOK, Maybe, CloseInv, WalkAhead, PhaseInv
  <2>2. \A t \in Sounds \ {s} : t \in Playing' <=> t \in Playing
    BY <1>0, <1>14, <2>1 DEF CloseUnlink, Playing, TypeOK
  <2>3. \A t \in Sounds \ {s} : LifeOf(t)' = LifeOf(t)
    BY <1>14, <2>1, <2>2 DEF CloseUnlink, LifeOf, Disposing
  <2>4. mixing # s /\ mixing' = mixing /\ LifeOf(s) = "retired" /\ LifeOf(s)' = "disposed"
    BY <1>14, <2>1 DEF CloseUnlink, LetGo, LifeOf, Disposing
  <2> QED BY <2>3, <2>4, OneLife
<1>15. CASE CloseCompleted
  BY <1>15, LivesStay DEF CloseCompleted, Elsewhere, list
<1>16. CASE Closed
  BY <1>16, LivesStay DEF Closed, Elsewhere, list
<1>17. ASSUME NEW a \in Artboards, Play(a) PROVE Goal
  BY <1>17, LivesStay DEF Play, Elsewhere, list
<1>18. ASSUME NEW a \in Artboards, StopArtboard(a) PROVE Goal
  BY <1>18, LivesStay DEF StopArtboard, Elsewhere, list
<1>19. ASSUME NEW s \in Sounds, StopSound(s) PROVE Goal
  BY <1>19, LivesStay DEF StopSound, Elsewhere, list, calls
<1>20. CASE StopEngine
  BY <1>20, LivesStay DEF StopEngine, Elsewhere, list, calls
<1>21. CASE StartEngine
  BY <1>21, LivesStay DEF StartEngine, Elsewhere, list, calls
<1>22. CASE Close
  BY <1>22, LivesStay DEF Close, Elsewhere, list
<1>24. CASE StopDevice
  BY <1>24, LivesStay DEF StopDevice, Elsewhere, list, calls
<1>23. CASE UNCHANGED vars
  <2>1. \A t \in Sounds : LifeOf(t)' = LifeOf(t)
    BY <1>23 DEF vars, LifeOf, Disposing, Playing
  <2> QED BY <1>23, <2>1 DEF vars, Life!vars
<1> QED BY <1>1, <1>2, <1>3, <1>4, <1>5, <1>6, <1>7, <1>8, <1>9, <1>10, <1>11, <1>12,
           <1>13, <1>14, <1>15, <1>16, <1>17, <1>18, <1>19, <1>20, <1>21, <1>22, <1>23, <1>24
        DEF Next, Device, InCall

-----------------------------------------------------------------------------
(* Whichever thread steps, the whole invariant is kept.                    *)
THEOREM Invariance == Spec => []IInv
<1>1. Init => IInv
  BY InitIInv
<1>2. IInv /\ [Next]_vars => IInv'
  BY TypeStep, PhaseStep, ListStep, SweepStep, MixStep, CloseStep, HeldStep, LostStep DEF IInv
<1> QED BY <1>1, <1>2, PTL DEF Spec

(* The variables keep their types, whoever runs when.                      *)
THEOREM TypeCorrect == Spec => []TypeOK
<1>1. IInv => TypeOK
  BY DEF IInv
<1> QED BY <1>1, Invariance, PTL

(* The device is called back with no sound that only it holds: the plain   *)
(* pointer of the callback is good, whatever the host has done meanwhile.  *)
THEOREM CallbackHolds == Spec => []HeldElsewhere
<1>1. IInv => HeldElsewhere
  BY DEF IInv
<1> QED BY <1>1, Invariance, PTL

(* No sound is forgotten by both lists before it is disposed of.           *)
THEOREM SoundsKept == Spec => []NothingLost
<1>1. IInv => NothingLost
  BY DEF IInv
<1> QED BY <1>1, Invariance, PTL

(* The engine, with its lists and threads, implements SoundLife: a sound   *)
(* is disposed of once, after it was retired, and not while it is mixed.   *)
THEOREM KeepsPromise == Spec => SoundsLive
<1>1. Init => Life!Init
  BY LifeInit
<1>2. IInv /\ [Next]_vars => [Life!Next]_(Life!vars)
  BY LifeStep
<1> QED BY <1>1, <1>2, Invariance, PTL DEF Spec, SoundsLive, Life!Spec

-----------------------------------------------------------------------------
(* Going back along the list ends: no set of sounds has, for each of its   *)
(* sounds, the one before it.                                              *)
NoLoop == \A S \in SUBSET Sounds : S # {} => \E s \in S : prev[s] \notin S

Undisposed == Playing \ disposed

(* The destructor's walk comes to every sound on the list: each is behind  *)
(* the one the walk is at, or behind another it has still to come to, and  *)
(* once it has ended there is none, and none is completed that the loop    *)
(* over the completed sounds does not come to.                             *)
WalkInv ==
  /\ phase = "closing" /\ host \in {"close", "closeWait"} =>
       \A s \in Undisposed \ {at} :
         \E t \in Sounds : t \in Undisposed \cup {at} /\ prev[s] = t /\ next[t] = s
  /\ phase = "closing" /\ host \in {"sweep", "wait"} =>
       Undisposed = {} /\ Members(completed) \subseteq disposed \cup Members(todo)
  /\ phase = "closing" /\ host = "uninit" => made = disposed
  /\ phase = "closed" => made = disposed

LEMMA UnlinkNoLoop ==
  ASSUME NEW s \in Sounds, LinksType, Unlink(s), NoLoop,
         \A t, u \in Sounds : next[t] = u => prev[u] = t
  PROVE  NoLoop'
<1> SUFFICES ASSUME NEW S \in SUBSET Sounds, S # {}, \A u \in S : prev'[u] \in S
             PROVE  FALSE
  BY DEF NoLoop
<1> USE AudioAssumption DEF LinksType, Maybe
<1> DEFINE T == IF next[s] \in S THEN S \cup {s} ELSE S
<1>1. s \notin S
  BY DEF Unlink
<1>2. ASSUME NEW u \in S PROVE prev[u] \in T
  <2>1. CASE u = next[s]
    BY <2>1
  <2>2. CASE u # next[s]
    <3>1. prev'[u] = prev[u]
      BY <1>1, <2>2 DEF Unlink
    <3> QED BY <3>1
  <2> QED BY <2>1, <2>2
<1>3. next[s] \in S => prev[s] \in S
  <2> SUFFICES ASSUME next[s] \in S PROVE prev[s] \in S
    OBVIOUS
  <2>1. next[s] \in Sounds /\ next[s] # s
    BY <1>1
  <2>2. prev'[next[s]] = prev[s]
    BY <2>1 DEF Unlink
  <2> QED BY <2>2
<1>4. \A u \in T : prev[u] \in T
  BY <1>2, <1>3
<1>5. T \in SUBSET Sounds /\ T # {}
  OBVIOUS
<1> QED BY <1>4, <1>5 DEF NoLoop

LEMMA LinkNoLoop ==
  ASSUME NEW s \in Sounds, s \notin Playing, LinksType, LinksInv, Link(s), NoLoop
  PROVE  NoLoop'
<1> SUFFICES ASSUME NEW S \in SUBSET Sounds, S # {}, \A u \in S : prev'[u] \in S
             PROVE  FALSE
  BY DEF NoLoop
<1> USE AudioAssumption DEF LinksType, Maybe
<1>1. s \notin S
  BY DEF Link, Playing
<1>2. \A u \in S : prev'[u] = prev[u]
  BY <1>1 DEF Link
<1> QED BY <1>2 DEF NoLoop

LEMMA WalkInit == Init => NoLoop /\ WalkInv
<1> SUFFICES ASSUME Init PROVE NoLoop /\ WalkInv
  OBVIOUS
<1>1. WalkInv
  BY DEF Init, WalkInv
<1>2. NoLoop
  BY AudioAssumption DEF Init, NoLoop
<1> QED BY <1>1, <1>2

LEMMA NoLoopStep ==
  ASSUME IInv, NoLoop, [Next]_vars
  PROVE  NoLoop'
<1>0. TypeOK /\ PhaseInv /\ ListInv /\ MixInv /\ LinksType
  BY DEF IInv, TypeOK, LinksType
<1> USE AudioAssumption
<1>1. CASE UNCHANGED prev
  BY <1>1 DEF NoLoop
<1>2. CASE SoundCompleted
  <2>1. mixing \in Sounds /\ phase \in {"open", "closing"} /\ Unlink(mixing)
    BY <1>0, <1>2 DEF SoundCompleted, PhaseInv, TypeOK, Maybe
  <2>2. \A t, u \in Sounds : next[t] = u => prev[u] = t
    BY <2>1 DEF IInv, ListInv, LinksInv, CloseInv, ClosingLinks
  <2> QED BY <1>0, <2>1, <2>2, UnlinkNoLoop
<1>3. CASE LinkSound
  <2>1. phase = "open" /\ at \in Sounds /\ at \notin Playing /\ Link(at)
    BY <1>0, <1>3 DEF LinkSound, PhaseInv, ListInv, TypeOK, InLock, Maybe
  <2> QED BY <1>0, <2>1, LinkNoLoop DEF ListInv
<1>4. CASE StopNext
  <2>1. phase = "open" /\ at \in Sounds
    BY <1>0, <1>4 DEF StopNext, PhaseInv, TypeOK, InLock, Maybe
  <2>2. CASE artboard[at] = client
    BY <1>0, <1>4, <2>1, <2>2, UnlinkNoLoop DEF StopNext, ListInv, LinksInv
  <2>3. CASE artboard[at] # client
    BY <1>1, <1>4, <2>3 DEF StopNext, list
  <2> QED BY <2>2, <2>3
<1>5. CASE CloseUnlink
  <2> SUFFICES ASSUME NEW S \in SUBSET Sounds, S # {}, \A u \in S : prev'[u] \in S
               PROVE  FALSE
    BY DEF NoLoop
  <2>1. at \in Sounds /\ prev \in [Sounds -> Maybe]
    BY <1>0, <1>5 DEF CloseUnlink, PhaseInv, TypeOK, Maybe
  <2>2. at \notin S
    BY <1>5, <2>1 DEF CloseUnlink
  <2>3. \A u \in S : prev'[u] = prev[u]
    BY <1>5, <2>1, <2>2 DEF CloseUnlink
  <2> QED BY <2>3 DEF NoLoop
<1>6. UNCHANGED prev \/ SoundCompleted \/ LinkSound \/ StopNext \/ CloseUnlink
  BY DEF Next, Device, InCall, Mix, ReachEnd, LeaveSound, DisposeNext, Disposed, ClearCompleted,
         PlayFails, StartSound, StopReturns, CloseNext, CloseCompleted, StopDevice, Closed, Play,
         StopArtboard, StopSound, StopEngine, StartEngine, Close, vars, list
<1> QED BY <1>1, <1>2, <1>3, <1>4, <1>5, <1>6

(* Where the destructor begins, the walk is at the head.                   *)
LEMMA WalkBegins ==
  ASSUME IInv, Close
  PROVE  WalkInv'
<1>1. /\ phase = "open" /\ phase' = "closing" /\ host' = "close" /\ at' = head
      /\ UNCHANGED <<head, next, prev, disposed>>
  BY DEF Close, list
<1>2. LinksInv /\ Playing \subseteq Sounds \ disposed /\ TypeOK
  BY <1>1 DEF IInv, ListInv, Playing, TypeOK
<1>3. Undisposed' = Playing
  BY <1>1, <1>2 DEF Undisposed, Playing
<1>4. ASSUME NEW s \in Playing \ {head}
      PROVE  \E t \in Sounds : t \in Playing /\ prev[s] = t /\ next[t] = s
  <2>1. s \in Sounds /\ prev[s] \in Sounds
    BY <1>2 DEF Playing, TypeOK, Maybe
  <2>2. next[prev[s]] = s
    BY <1>2, <2>1 DEF LinksInv
  <2>3. prev[s] \in Playing
    BY <1>2, <2>1, <2>2, AudioAssumption DEF LinksInv
  <2> QED BY <2>1, <2>2, <2>3
<1> QED BY <1>1, <1>3, <1>4 DEF WalkInv

(* Each turn takes one sound out of what is left.                          *)
LEMMA WalkDisposes ==
  ASSUME IInv, WalkInv, CloseNext
  PROVE  WalkInv'
<1>1. /\ phase = "closing" /\ phase' = "closing" /\ host = "close" /\ host' = "closeWait"
      /\ at' = at /\ disposed' = disposed \cup {at}
      /\ UNCHANGED <<head, next, prev>>
  BY DEF CloseNext, IInv, PhaseInv, InLock, list, TypeOK
<1>2. Undisposed' = Undisposed \ {at}
  BY <1>1 DEF Undisposed, Playing
<1>3. \A s \in Undisposed' :
        \E t \in Sounds : t \in Undisposed' \cup {at} /\ prev[s] = t /\ next[t] = s
  BY <1>1, <1>2 DEF WalkInv
<1> QED BY <1>1, <1>3 DEF WalkInv

LEMMA WalkGoesOn ==
  ASSUME IInv, WalkInv, CloseUnlink
  PROVE  WalkInv'
<1>1. /\ phase = "closing" /\ phase' = "closing" /\ host = "closeWait" /\ host' = "close"
      /\ at \in Sounds /\ at \in disposed /\ at' = next[at]
      /\ UNCHANGED <<head, disposed>>
  BY DEF CloseUnlink, IInv, PhaseInv, InLock, TypeOK, CloseInv, WalkAhead, Maybe
<1>2. \A s \in Sounds \ {at} : next'[s] = next[s] /\ prev'[s] = prev[s]
  BY <1>1 DEF CloseUnlink, IInv, TypeOK
<1>3. at \notin Undisposed /\ at \notin Undisposed'
  BY <1>1 DEF Undisposed
<1>4. Undisposed' = Undisposed
  BY <1>1, <1>2, <1>3 DEF Undisposed, Playing
<1>5. ASSUME NEW s \in Undisposed \ {at'}
      PROVE  \E t \in Sounds : t \in Undisposed \cup {at'} /\ prev'[s] = t /\ next'[t] = s
  <2>1. s \in Sounds \ {at}
    BY <1>3 DEF Undisposed, Playing
  <2>2. PICK t \in Sounds : t \in Undisposed \cup {at} /\ prev[s] = t /\ next[t] = s
    BY <1>1, <2>1 DEF WalkInv
  <2>3. t # at
    BY <1>1, <2>2
  <2> QED BY <1>2, <2>1, <2>2, <2>3
<1> QED BY <1>1, <1>4, <1>5 DEF WalkInv

(* The walk has ended when there is no sound to go on to: what was left    *)
(* then would lead back for ever.                                          *)
LEMMA WalkEnds ==
  ASSUME IInv, NoLoop, WalkInv, CloseCompleted
  PROVE  WalkInv'
<1>1. /\ phase = "closing" /\ phase' = "closing" /\ host = "close" /\ host' = "sweep" /\ at = None
      /\ UNCHANGED <<head, prev, disposed, completed>> /\ todo' = completed
  BY DEF CloseCompleted, AsTheyAre, IInv, PhaseInv, InLock, TypeOK, list
<1>2. Undisposed \subseteq Sounds
  BY DEF Undisposed, Playing
<1>3. \A s \in Undisposed : prev[s] \in Undisposed
  BY <1>1, <1>2, AudioAssumption DEF WalkInv
<1>4. Undisposed = {}
  BY <1>2, <1>3 DEF NoLoop
<1>5. Undisposed' = Undisposed
  BY <1>1 DEF Undisposed, Playing
<1> QED BY <1>1, <1>4, <1>5 DEF WalkInv

(* What the device takes off beside the walk, other than where this is,    *)
(* leaves each of the others behind one the walk is still to come to.      *)
LEMMA WalkBeside ==
  ASSUME IInv, WalkInv, SoundCompleted, phase = "closing", ~Undercut
  PROVE  WalkInv'
<1> USE AudioAssumption
<1>0. TypeOK /\ PhaseInv /\ ListInv /\ SweepInv /\ MixInv /\ CloseInv
  BY DEF IInv
<1>1. /\ mixing \in Sounds /\ mixing # at /\ at # None /\ host \in {"close", "closeWait"}
      /\ UNCHANGED <<phase, disposed, host, at>> /\ Unlink(mixing)
  BY <1>0 DEF SoundCompleted, PhaseInv, TypeOK, Maybe, Undercut, calls
<1>2. mixing \notin disposed /\ at \in Sounds /\ Ahead(at)
  BY <1>0, <1>1 DEF MixInv, CloseInv, WalkAhead, Ahead, TypeOK, Maybe
<1>3. Undisposed' = Undisposed \ {mixing}
  BY <1>0, <1>1, CompletedTakesOff DEF Undisposed
<1>4. /\ \A t, u \in Sounds : next[t] = u => prev[u] = t
      /\ \A t, u \in Sounds : prev[u] = t /\ Ahead(t) => next[t] = u
  BY <1>0 DEF CloseInv, ClosingLinks
<1>5. \A t \in Undisposed \cup {at} : t \in Sounds /\ Ahead(t)
  BY <1>2 DEF Undisposed, Playing, Ahead
<1>6. /\ \A t \in Sounds : next'[t] = IF t = mixing THEN None
                                       ELSE IF t = prev[mixing] THEN next[mixing] ELSE next[t]
      /\ \A t \in Sounds : prev'[t] = IF t = mixing THEN None
                                       ELSE IF t = next[mixing] THEN prev[mixing] ELSE prev[t]
  BY <1>1 DEF Unlink
<1>7. ASSUME NEW s \in Undisposed \ {at}
      PROVE  \E t \in Sounds : t \in Undisposed \cup {at} /\ prev[s] = t /\ next[t] = s
  BY <1>0, <1>1 DEF WalkInv
<1>8. ASSUME NEW s \in Undisposed' \ {at}
      PROVE  \E t \in Sounds : t \in Undisposed' \cup {at} /\ prev'[s] = t /\ next'[t] = s
  <2>1. s \in Sounds /\ s \in Undisposed \ {at} /\ s # mixing
    BY <1>3 DEF Undisposed, Playing
  <2>2. PICK t \in Sounds : t \in Undisposed \cup {at} /\ prev[s] = t /\ next[t] = s
    BY <1>7, <2>1
  <2>3. CASE t # mixing
    <3>1. prev'[s] = t
      BY <1>1, <1>4, <1>6, <2>1, <2>2, <2>3
    <3>2. t # prev[mixing]
      BY <1>1, <1>4, <1>5, <2>1, <2>2
    <3>3. next'[t] = s
      BY <1>6, <2>2, <2>3, <3>2
    <3> QED BY <1>3, <2>2, <2>3, <3>1, <3>3
  <2>4. CASE t = mixing
    <3>1. mixing \in Undisposed \ {at}
      BY <1>1, <2>2, <2>4
    <3>2. PICK u \in Sounds : u \in Undisposed \cup {at} /\ prev[mixing] = u /\ next[u] = mixing
      BY <1>7, <3>1
    <3>3. u # mixing
      BY <2>1, <2>2, <2>4, <3>2
    <3>4. prev'[s] = u /\ next'[u] = s
      BY <1>6, <2>1, <2>2, <2>4, <3>2, <3>3
    <3> QED BY <1>3, <3>2, <3>3, <3>4
  <2> QED BY <2>3, <2>4
<1> QED BY <1>1, <1>8 DEF WalkInv

(* After both loops there is no sound that was not disposed of.            *)
LEMMA NoneLeft ==
  ASSUME IInv, WalkInv, ClearCompleted, phase = "closing"
  PROVE  WalkInv'
<1>1. host = "sweep" /\ todo = <<>> /\ phase' = phase /\ host' = "uninit" /\ UNCHANGED <<made, disposed>>
  BY DEF ClearCompleted
<1>2. Playing \subseteq disposed /\ made \ disposed \subseteq Playing \cup Members(completed)
  BY <1>1 DEF WalkInv, Undisposed, IInv, NothingLost
<1>3. Members(completed) \subseteq disposed
  BY <1>1, EmptyMembers DEF WalkInv
<1>4. disposed \subseteq made
  BY DEF IInv, MixInv
<1>5. made' = disposed'
  BY <1>1, <1>2, <1>3, <1>4
<1> QED BY <1>1, <1>5 DEF WalkInv

(* The loop over the completed sounds, beside which none is completed.     *)
LEMMA WalkSweeps ==
  ASSUME IInv, WalkInv, DisposeNext \/ Disposed, phase = "closing"
  PROVE  WalkInv'
<1>1. /\ host \in {"sweep", "wait"} /\ host' \in {"sweep", "wait"} /\ todo # <<>>
      /\ UNCHANGED <<phase, head, prev, completed>> /\ disposed \subseteq disposed'
  BY DEF DisposeNext, Disposed, list, IInv, SweepInv
<1>2. Members(todo) = Members(Tail(todo)) \cup {Head(todo)}
  BY <1>1, HeadMembers DEF IInv, TypeOK
<1>3. Members(todo) \subseteq Members(todo') \cup disposed'
  <2>1. CASE todo' = Tail(todo) /\ Head(todo) \in disposed
    BY <1>1, <1>2, <2>1
  <2>2. CASE todo' = todo
    BY <2>2
  <2>3. (todo' = Tail(todo) /\ Head(todo) \in disposed) \/ todo' = todo
    BY DEF DisposeNext, Disposed, IInv, SweepInv
  <2> QED BY <2>1, <2>2, <2>3
<1>4. Undisposed' = {} /\ Members(completed') \subseteq disposed' \cup Members(todo')
  BY <1>1, <1>3 DEF WalkInv, Undisposed, Playing
<1> QED BY <1>1, <1>4 DEF WalkInv

LEMMA WalkStep ==
  ASSUME IInv, NoLoop, WalkInv, ~Undercut, [Next]_vars
  PROVE  WalkInv'
<1>0. TypeOK /\ PhaseInv /\ MixInv
  BY DEF IInv
<1>1. CASE phase = "open" /\ phase' = "open"
  BY <1>1 DEF WalkInv
<1>2. CASE UNCHANGED <<phase, host, at, todo, head, next, prev, completed, disposed, made>>
  BY <1>2 DEF WalkInv, Undisposed, Playing
<1>3. CASE Closed
  BY <1>0, <1>3 DEF Closed, WalkInv, PhaseInv, TypeOK, InLock
<1>4. CASE phase = "open"
  BY <1>0, <1>1, <1>3, <1>4, WalkBegins
  DEF Next, Device, InCall, Mix, ReachEnd, SoundCompleted, LeaveSound, DisposeNext, Disposed,
      ClearCompleted, PlayFails, StartSound, LinkSound, StopNext, StopReturns, CloseNext,
      CloseUnlink, CloseCompleted, StopDevice, Play, StopArtboard, StopSound, StopEngine,
      StartEngine, vars
<1>5. CASE phase = "closing"
  <2>1. host \in {"close", "closeWait", "sweep", "wait", "uninit"}
    BY <1>0, <1>5 DEF PhaseInv
  <2>2. \/ SoundCompleted \/ DisposeNext \/ Disposed \/ ClearCompleted
        \/ CloseNext \/ CloseUnlink \/ CloseCompleted \/ Closed
        \/ UNCHANGED <<phase, host, at, todo, head, next, prev, completed, disposed, made>>
    BY <1>5, <2>1
    DEF Next, Device, InCall, Mix, ReachEnd, LeaveSound, PlayFails, StartSound, LinkSound,
        StopNext, StopReturns, StopDevice, Play, StopArtboard, StopSound, StopEngine,
        StartEngine, Close, vars, list, calls
  <2> QED BY <1>2, <1>3, <1>5, <2>2, WalkBeside, NoneLeft, WalkSweeps, WalkDisposes, WalkGoesOn, WalkEnds
<1>6. CASE phase = "closed"
  <2>1. phase' = "closed" /\ UNCHANGED <<made, disposed>>
    BY <1>0, <1>6
    DEF Next, Device, InCall, Mix, ReachEnd, SoundCompleted, LeaveSound, DisposeNext, Disposed,
        ClearCompleted, PlayFails, StartSound, LinkSound, StopNext, StopReturns, CloseNext,
        CloseUnlink, CloseCompleted, StopDevice, Closed, Play, StopArtboard, StopSound,
        StopEngine, StartEngine, Close, PhaseInv, vars
  <2> QED BY <1>6, <2>1 DEF WalkInv
<1> QED BY <1>0, <1>4, <1>5, <1>6 DEF TypeOK

(* With no way back for ever, the links lead from the head to the whole    *)
(* list: what they did not lead to would have nothing but the same before. *)
LEMMA ListFromHead ==
  ASSUME TypeOK, LinksInv, NoLoop
  PROVE  Playing = FromHead
<1> USE AudioAssumption
<1>1. ASSUME NEW s \in Playing, NEW S \in SUBSET Sounds, head \in S \cup {None},
             \A t \in S : next[t] \in S \cup {None}
      PROVE  s \in S
  <2> SUFFICES ASSUME s \notin S PROVE FALSE
    OBVIOUS
  <2> DEFINE Rest == Playing \ S
  <2>1. Rest \in SUBSET Sounds /\ Rest # {}
    BY DEF Playing
  <2>2. ASSUME NEW u \in Rest PROVE prev[u] \in Rest
    <3>1. u \in Sounds /\ prev[u] \in Sounds
      BY <1>1 DEF Playing, TypeOK, Maybe
    <3>2. next[prev[u]] = u
      BY <3>1 DEF LinksInv
    <3>3. prev[u] \in Playing
      BY <3>1, <3>2 DEF LinksInv
    <3>4. prev[u] \notin S
      BY <1>1, <3>1, <3>2
    <3> QED BY <3>3, <3>4
  <2> HIDE DEF Rest
  <2> QED BY <2>1, <2>2 DEF NoLoop
<1>2. head \in Playing \cup {None} /\ \A t \in Playing : next[t] \in Playing \cup {None}
  BY DEF TypeOK, Maybe, Playing, LinksInv
<1>3. Playing \subseteq Sounds
  BY DEF Playing
<1> QED BY <1>1, <1>2, <1>3 DEF FromHead

(* The list is whole whenever the engine is open, however many sounds      *)
(* there are and whichever thread takes them off, twice or once.           *)
THEOREM ListStaysWhole == Spec => []PlayingList
<1>1. Init => NoLoop
  BY WalkInit
<1>2. IInv /\ NoLoop /\ [Next]_vars => NoLoop'
  BY NoLoopStep
<1>3. IInv /\ NoLoop => PlayingList
  BY ListFromHead DEF IInv, ListInv, LinksInv, PlayingList
<1> QED BY <1>1, <1>2, <1>3, Invariance, PTL DEF Spec

(* Every sound that was played is disposed of before the engine is gone,   *)
(* however many there are, whoever took which off the list, and whatever   *)
(* the device completes beside the destructor, unless it completes the     *)
(* sound the destructor's walk is at, or any after the walk.               *)
THEOREM AllDisposed == Spec => AllOutlive
<1>1. Init => NoLoop /\ WalkInv
  BY WalkInit
<1>2. IInv /\ NoLoop /\ WalkInv /\ ~Undercut /\ [Next]_vars => NoLoop' /\ WalkInv'
  BY NoLoopStep, WalkStep
<1>3. WalkInv => OutlivesEngine
  BY DEF WalkInv, OutlivesEngine
<1> QED BY <1>1, <1>2, <1>3, Invariance, PTL DEF Spec, AllOutlive
=============================================================================
