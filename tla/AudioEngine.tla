---------------------------- MODULE AudioEngine ----------------------------
(***************************************************************************)
(* An AudioEngine between two threads: the host's, which plays and stops   *)
(* sounds and at last lets go of the engine, and the device's, which mixes *)
(* one sound after another and calls SoundCompleted for one that ends.     *)
(*                                                                         *)
(* A sound is on the doubly linked list of playing ones, then among the    *)
(* completed ones until the next play, or the destructor, disposes of it.  *)
(* The lock is held over several steps by play and stop(artboard), which   *)
(* the device may run between; SoundCompleted is one step once it has the  *)
(* lock.  Miniaudio is modelled from how it is used: ma_sound_uninit takes *)
(* a sound away from the device and returns once the device is not reading *)
(* it, and ma_sound_stop makes no end callback.                            *)
(*                                                                         *)
(* The destructor takes no lock and need not be preceded by a stop of the  *)
(* device, which may call back at any of its steps: it clears the links    *)
(* that SoundCompleted joins, and loops over a vector this appends to.     *)
(***************************************************************************)
EXTENDS Naturals, Sequences

CONSTANTS
  Sounds,      (* the sounds there are to play                             *)
  Artboards,   (* what they are played for                                 *)
  None         (* no sound, no artboard, nobody                            *)

ASSUME AudioAssumption == None \notin Sounds \cup Artboards \cup {"host"}

VARIABLES
  phase,      (* of the engine: "open", "closing" or "closed"              *)
  running,    (* the device is started                                     *)
  lock,       (* m_mutex: "host" while a call of the host holds it         *)
  head,       (* m_playingSoundsHead                                       *)
  next, prev, (* m_nextPlaying and m_prevPlaying of each sound             *)
  completed,  (* m_completedSounds                                         *)
  artboard,   (* m_artboard of each sound that was made, else None         *)
  made,       (* the sounds play has started                               *)
  started,    (* the sounds the device is to mix                           *)
  disposed,   (* the sounds with m_isDisposed                              *)
  mixing,     (* the sound the device is reading, or None                  *)
  device,     (* where the device is with it: "mix", "callback" or "leave" *)
  host,       (* where the host is: "idle" between its calls               *)
  at,         (* the sound the host's loop is at                           *)
  todo,       (* the completed sounds its loop has still to dispose of     *)
  client      (* for whom the host calls                                   *)

list == <<head, next, prev>>
calls == <<host, at, todo, client>>
vars == <<phase, running, lock, head, next, prev, completed, artboard, made,
          started, disposed, mixing, device, host, at, todo, client>>

Init ==
  /\ phase = "open" /\ running = TRUE
  /\ lock = None
  /\ head = None
  /\ next = [s \in Sounds |-> None] /\ prev = [s \in Sounds |-> None]
  /\ completed = <<>>
  /\ artboard = [s \in Sounds |-> None]
  /\ made = {} /\ started = {} /\ disposed = {}
  /\ mixing = None /\ device = "leave"
  /\ host = "idle" /\ at = None /\ todo = <<>> /\ client = None

-----------------------------------------------------------------------------
(* The list of playing sounds.                                             *)

(* Mutant: the list starts again with every sound.                         *)
LinkAlone(s) ==
  /\ prev' = prev
  /\ next' = next
  /\ head' = s

Link(s) ==
  /\ prev' = IF head # None THEN [prev EXCEPT ![head] = s] ELSE prev
  /\ next' = [next EXCEPT ![s] = head]
  /\ head' = s

(* Mutant: the neighbours are joined one way only.                         *)
UnlinkForward(s) ==
  /\ next' = [t \in Sounds |-> IF t = s THEN None
                               ELSE IF t = prev[s] THEN next[s] ELSE next[t]]
  /\ prev' = [prev EXCEPT ![s] = None]
  /\ head' = IF head = s THEN next[s] ELSE head

(* unlinkSound, also of a sound that is not on the list any more.          *)
Unlink(s) ==
  /\ next' = [t \in Sounds |-> IF t = s THEN None
                               ELSE IF t = prev[s] THEN next[s] ELSE next[t]]
  /\ prev' = [t \in Sounds |-> IF t = s THEN None
                               ELSE IF t = next[s] THEN prev[s] ELSE prev[t]]
  /\ head' = IF head = s THEN next[s] ELSE head

-----------------------------------------------------------------------------
(* The device's thread.                                                    *)

(* It takes a sound that is started and attached, and not at its end.      *)
Mix(s) ==
  /\ running
  /\ mixing = None
  /\ s \in started
  /\ mixing' = s
  /\ device' = "mix"
  /\ UNCHANGED <<phase, running, lock, list, completed, artboard, made, started, disposed, calls>>

(* The sound is at its end: the engine is called back.                     *)
ReachEnd ==
  /\ device = "mix"
  /\ started' = started \ {mixing}
  /\ device' = "callback"
  /\ UNCHANGED <<phase, running, lock, list, completed, artboard, made, disposed, mixing, calls>>

(* Mutant: the sound is not kept.                                          *)
NotKept(s) == completed

(* Until the next play the engine holds the sound.                         *)
Kept(s) == Append(completed, s)

(* SoundCompleted, with the lock.                                          *)
SoundCompleted ==
  /\ device = "callback"
  /\ lock = None
  /\ completed' = Kept(mixing)
  /\ Unlink(mixing)
  /\ device' = "leave"
  /\ UNCHANGED <<phase, running, lock, artboard, made, started, disposed, mixing, calls>>

(* It is done with the sound for this time, or for ever.                   *)
LeaveSound ==
  /\ mixing # None
  /\ device \in {"mix", "leave"}
  /\ mixing' = None
  /\ device' = "leave"
  /\ UNCHANGED <<phase, running, lock, list, completed, artboard, made, started, disposed, calls>>

Device == (\E s \in Sounds : Mix(s)) \/ ReachEnd \/ SoundCompleted \/ LeaveSound

-----------------------------------------------------------------------------
(* Disposing of the completed sounds, in play and in the destructor.       *)

(* ma_sound_uninit takes the sound from the device.                        *)
Detached(s) == started \ {s}

(* Mutant: it does not wait.                                               *)
AtOnce(s) == TRUE

(* It returns once the device is not reading the sound.                    *)
LetGo(s) == mixing # s

(* dispose of the next completed sound, which returns early the second     *)
(* time.                                                                   *)
DisposeNext ==
  /\ host = "sweep"
  /\ todo # <<>>
  /\ IF Head(todo) \in disposed
     THEN /\ todo' = Tail(todo)
          /\ UNCHANGED <<disposed, started, host>>
     ELSE /\ disposed' = disposed \cup {Head(todo)}
          /\ started' = Detached(Head(todo))
          /\ host' = "wait"
          /\ UNCHANGED todo
  /\ UNCHANGED <<phase, running, lock, list, completed, artboard, made, mixing, device, at, client>>

Disposed ==
  /\ host = "wait"
  /\ LetGo(Head(todo))
  /\ todo' = Tail(todo)
  /\ host' = "sweep"
  /\ UNCHANGED <<phase, running, lock, list, completed, artboard, made, started, disposed,
                 mixing, device, at, client>>

(* m_completedSounds.clear().                                              *)
ClearCompleted ==
  /\ host = "sweep"
  /\ todo = <<>>
  /\ completed' = <<>>
  /\ host' = IF phase = "open" THEN "start" ELSE "uninit"
  /\ UNCHANGED <<phase, running, lock, list, artboard, made, started, disposed, mixing, device,
                 at, todo, client>>

-----------------------------------------------------------------------------
(* play(source, ..., a), as long as there are sounds to play.              *)

Play(a) ==
  /\ host = "idle"
  /\ phase = "open"
  /\ made # Sounds
  /\ lock = None
  /\ lock' = "host"
  /\ host' = "sweep" /\ todo' = completed /\ client' = a
  /\ UNCHANGED <<phase, running, list, completed, artboard, made, started, disposed, mixing, device, at>>

(* The buffer or decoder of s, or s itself, cannot be set up or started:   *)
(* nobody refers to s, whose own destructor disposes of what there is.     *)
PlayFails(s) ==
  /\ host = "start"
  /\ s \notin made
  /\ made' = made \cup {s}
  /\ disposed' = disposed \cup {s}
  /\ host' = "idle" /\ client' = None
  /\ lock' = None
  /\ UNCHANGED <<phase, running, list, completed, artboard, started, mixing, device, at, todo>>

(* ma_sound_start: from now on the device may mix the sound.               *)
StartSound(s) ==
  /\ host = "start"
  /\ s \notin made
  /\ made' = made \cup {s}
  /\ started' = started \cup {s}
  /\ artboard' = [artboard EXCEPT ![s] = client]
  /\ host' = "link" /\ at' = s
  /\ UNCHANGED <<phase, running, lock, list, completed, disposed, mixing, device, todo, client>>

LinkSound ==
  /\ host = "link"
  /\ Link(at)
  /\ lock' = None
  /\ host' = "idle" /\ at' = None /\ client' = None
  /\ UNCHANGED <<phase, running, completed, artboard, made, started, disposed, mixing, device, todo>>

-----------------------------------------------------------------------------
(* stop(a), also called by the destructor of an artboard.                  *)

StopArtboard(a) ==
  /\ host = "idle"
  /\ phase = "open"
  /\ lock = None
  /\ lock' = "host"
  /\ host' = "stop" /\ at' = head /\ client' = a
  /\ UNCHANGED <<phase, running, list, completed, artboard, made, started, disposed, mixing, device, todo>>

(* Mutant: the loop moves on only from sounds it stops.                    *)
AfterStopped(s) == IF artboard[s] = client THEN next[s] ELSE s

(* The sound the loop comes to next, read before s is taken off.           *)
After(s) == next[s]

(* One turn of the loop over the playing sounds.                           *)
StopNext ==
  /\ host = "stop"
  /\ at # None
  /\ at' = After(at)
  /\ IF artboard[at] = client
     THEN /\ started' = started \ {at}
          /\ completed' = Append(completed, at)
          /\ Unlink(at)
     ELSE UNCHANGED <<started, completed, list>>
  /\ UNCHANGED <<phase, running, lock, artboard, made, disposed, mixing, device, host, todo, client>>

StopReturns ==
  /\ host = "stop"
  /\ at = None
  /\ lock' = None
  /\ host' = "idle" /\ client' = None
  /\ UNCHANGED <<phase, running, list, completed, artboard, made, started, disposed, mixing,
                 device, at, todo>>

-----------------------------------------------------------------------------
(* The rest of what a host may do.                                         *)

(* AudioSound::stop, which takes no lock and leaves the sound on the list. *)
StopSound(s) ==
  /\ host = "idle"
  /\ s \in made \ disposed
  /\ phase = "open"
  /\ started' = started \ {s}
  /\ UNCHANGED <<phase, running, lock, list, completed, artboard, made, disposed, mixing, device, calls>>

(* stop(), which returns when the device has stopped, and start().         *)
StopEngine ==
  /\ host = "idle"
  /\ running /\ phase = "open"
  /\ mixing = None
  /\ running' = FALSE
  /\ UNCHANGED <<phase, lock, list, completed, artboard, made, started, disposed, mixing, device, calls>>

StartEngine ==
  /\ host = "idle"
  /\ ~running /\ phase = "open"
  /\ running' = TRUE
  /\ UNCHANGED <<phase, lock, list, completed, artboard, made, started, disposed, mixing, device, calls>>

-----------------------------------------------------------------------------
(* The destructor.                                                         *)

Close ==
  /\ host = "idle"
  /\ phase = "open"
  /\ phase' = "closing"
  /\ host' = "close" /\ at' = head
  /\ UNCHANGED <<running, lock, list, completed, artboard, made, started, disposed, mixing,
                 device, todo, client>>

(* dispose of the next playing sound.                                      *)
CloseNext ==
  /\ host = "close"
  /\ at # None
  /\ disposed' = disposed \cup {at}
  /\ started' = Detached(at)
  /\ host' = "closeWait"
  /\ UNCHANGED <<phase, running, lock, list, completed, artboard, made, mixing, device, at, todo, client>>

(* The walk goes on with the sound after it, once ma_sound_uninit returns, *)
(* and its links are cleared.                                              *)
CloseUnlink ==
  /\ host = "closeWait"
  /\ LetGo(at)
  /\ at' = next[at]
  /\ next' = [next EXCEPT ![at] = None]
  /\ prev' = [prev EXCEPT ![at] = None]
  /\ host' = "close"
  /\ UNCHANGED <<phase, running, lock, head, completed, artboard, made, started, disposed,
                 mixing, device, todo, client>>

(* Mutant: the completed sounds are left alone.                            *)
OnlyPlaying == <<>>

(* What the loop over the completed sounds comes to: what is added to them *)
(* later it does not.                                                      *)
AsTheyAre == completed

CloseCompleted ==
  /\ host = "close"
  /\ at = None
  /\ host' = "sweep" /\ todo' = AsTheyAre
  /\ UNCHANGED <<phase, running, lock, list, completed, artboard, made, started, disposed,
                 mixing, device, at, client>>

(* ma_engine_uninit, which stops the device first: it takes no other sound *)
StopDevice ==
  /\ host = "uninit"
  /\ running
  /\ running' = FALSE
  /\ UNCHANGED <<phase, lock, list, completed, artboard, made, started, disposed, mixing, device, calls>>

(* and is done with the one it is at, before the engine is gone.           *)
Closed ==
  /\ host = "uninit"
  /\ ~running /\ mixing = None
  /\ phase' = "closed"
  /\ host' = "idle"
  /\ UNCHANGED <<running, lock, list, completed, artboard, made, started, disposed, mixing,
                 device, at, todo, client>>

-----------------------------------------------------------------------------
(* What a call of the host does once it has begun.                         *)
InCall ==
  \/ DisposeNext \/ Disposed \/ ClearCompleted
  \/ (\E s \in Sounds : PlayFails(s) \/ StartSound(s)) \/ LinkSound
  \/ StopNext \/ StopReturns
  \/ CloseNext \/ CloseUnlink \/ CloseCompleted \/ StopDevice \/ Closed

Next ==
  \/ Device
  \/ InCall
  \/ \E a \in Artboards : Play(a) \/ StopArtboard(a)
  \/ \E s \in Sounds : StopSound(s)
  \/ StopEngine \/ StartEngine \/ Close

Spec == Init /\ [][Next]_vars

(* Both threads run; whom the host's next call is for is its own affair.   *)
FairSpec ==
  /\ Spec
  /\ WF_vars(InCall)
  /\ WF_vars(ReachEnd \/ LeaveSound)
  /\ WF_vars(SoundCompleted)

-----------------------------------------------------------------------------
Maybe == Sounds \cup {None}
Members(q) == {q[k] : k \in DOMAIN q}

TypeOK ==
  /\ phase \in {"open", "closing", "closed"} /\ running \in BOOLEAN
  /\ lock \in {None, "host"}
  /\ head \in Maybe /\ next \in [Sounds -> Maybe] /\ prev \in [Sounds -> Maybe]
  /\ completed \in Seq(Sounds)
  /\ artboard \in [Sounds -> Artboards \cup {None}]
  /\ made \subseteq Sounds /\ started \subseteq Sounds /\ disposed \subseteq Sounds
  /\ mixing \in Maybe /\ device \in {"mix", "callback", "leave"}
  /\ host \in {"idle", "sweep", "wait", "start", "link", "stop",
               "close", "closeWait", "uninit"}
  /\ at \in Maybe /\ todo \in Seq(Sounds)
  /\ client \in Artboards \cup {None}

(* The sounds on the list: the head and those that have one before them.   *)
Playing == {s \in Sounds : s = head \/ prev[s] # None}

(* What the links lead to from the head: what is in every set that has the *)
(* head and, with each sound, the next.                                    *)
FromHead ==
  {s \in Sounds :
     \A S \in SUBSET Sounds :
       head \in S \cup {None} /\ (\A t \in S : next[t] \in S \cup {None}) => s \in S}

(* While the engine is open the links of the list are inverse to each      *)
(* other, lead from the head to every sound on it, and no other sound has  *)
(* a link: whichever thread takes a sound off, and also when the second one  *)
(* takes off what the first one has.                                       *)
PlayingList ==
  phase = "open" =>
    /\ \A s, t \in Sounds : next[s] = t <=> prev[t] = s
    /\ head # None => prev[head] = None
    /\ \A s \in Sounds \ Playing : next[s] = None
    /\ Playing \subseteq made \ disposed
    /\ Playing = FromHead

(* The sound the device calls back with is held by one of the engine's own *)
(* lists: the plain pointer it is called back with is good, the            *)
(* destructor's calls included, and it is never the device that lets go of *)
(* a sound last while the engine is open, which would make it wait for     *)
(* itself.                                                                 *)
HeldElsewhere ==
  mixing # None /\ (phase # "open" => device # "leave") =>
    \/ mixing \in Playing \cup Members(completed)
    \/ host = "link" /\ at = mixing

(* No sound is lost before it is disposed of: as long as it was not, it is *)
(* on the list of playing sounds or among the completed ones, until the    *)
(* destructor has been through both.                                       *)
NothingLost ==
  phase # "closed" /\ host # "uninit" =>
    made \ disposed \subseteq
      Playing \cup Members(completed) \cup (IF host = "link" THEN {at} ELSE {})

(* Every sound that was played is disposed of before the engine is gone,   *)
(* so that what a host still holds may outlive it.                         *)
OutlivesEngine == phase = "closed" => made = disposed

(* The device is about to complete the very sound the destructor's walk is *)
(* at, whose links then lead nowhere, or any sound after the walk.         *)
Undercut ==
  phase = "closing" /\ device = "callback" /\ (mixing = at \/ at = None)

(* That holds though other sounds come to their end, and off the list, on  *)
(* the device's thread while the destructor walks it.                      *)
AllOutlive == []~Undercut => []OutlivesEngine

(* play disposes of sounds out of their own completed callback: there the  *)
(* device would wait for the lock that play holds, and play for the device *)
(* to be done with the sound.                                              *)
DisposedOutOfCallback ==
  phase = "open" /\ host = "wait" /\ device = "callback" => mixing # Head(todo)

(* Every call of the host returns, the destructor too, unless play         *)
(* disposes of a sound within its callback.                                *)
CallsReturn == []DisposedOutOfCallback => (host # "idle" ~> host = "idle")

(* The host is in ma_sound_uninit for s.                                   *)
Disposing(s) ==
  \/ host = "wait" /\ Head(todo) = s
  \/ host = "closeWait" /\ at = s

LifeOf(s) ==
  IF s \notin made THEN "new"
  ELSE IF s \in disposed /\ ~Disposing(s) THEN "disposed"
  ELSE IF s \in disposed \cup Members(completed) THEN "retired"
  ELSE IF s \in Playing \/ (host = "link" /\ at = s) THEN "playing"
  ELSE "retired"

(* What the engine promises about each sound.                              *)
Life == INSTANCE SoundLife WITH life <- [s \in Sounds |-> LifeOf(s)]

(* The engine keeps that promise, the destructor too: a sound is disposed  *)
(* of once, not before it was retired and never while the device reads it. *)
SoundsLive == Life!Spec
=============================================================================
