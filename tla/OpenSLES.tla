----------------------------- MODULE OpenSLES ------------------------------
(***************************************************************************)
(* The buffer-queue players of source/opensles.c: the engine's threads     *)
(* create, feed, clear and destroy players while SDL's audio thread walks  *)
(* the registry and drains the queues.                                     *)
(*                                                                         *)
(* One period of the audio thread is a walk of audio_callback over         *)
(* g_players under g_reg_lock; mix_player is cut where another thread can  *)
(* observe or change what it uses: the test of the current buffer, the     *)
(* engine's callback, the pop under the player's lock, the installation of *)
(* the popped buffer and every sample.  A buffer is BufFrames[b] frames.   *)
(*                                                                         *)
(* External, modelled from how opensles.c is called: the engine's sound    *)
(* code, with the mutex the comment at lines 238-242 speaks of, and SDL's  *)
(* single output device.                                                   *)
(***************************************************************************)
EXTENDS Integers, Sequences, FiniteSets

CONSTANTS
  Threads,              \* engine threads that use the sound interfaces
  Players,              \* addresses calloc hands out for Player objects
  Buffers, BufFrames,   \* the engine's buffers and their length in frames
  BQ_SLOTS, MAX_PLAYERS,
  Period,               \* frames the device asks for in one callback
  Audio,                \* SDL's audio thread
  Nobody, NoPlayer, NoBuffer,
  EngineClears,         \* whether the engine calls Clear
  LifecycleUnderMutex   \* whether it creates/destroys holding its own mutex

ASSUME SizesAssumption ==
  /\ BQ_SLOTS \in Nat /\ BQ_SLOTS > 1
  /\ MAX_PLAYERS \in Nat \ {0}
  /\ Period \in Nat \ {0}
  /\ BufFrames \in [Buffers -> Nat \ {0}]
ASSUME NamesAssumption ==
  /\ Audio \notin Threads
  /\ Nobody \notin Threads \cup {Audio}
  /\ NoPlayer \notin Players
  /\ NoBuffer \notin Buffers
ASSUME ClientAssumption == {EngineClears, LifecycleUnderMutex} \subseteq BOOLEAN

VARIABLES
  life,      \* life[p]: where the object at address p is in its life
  playing, cb,          \* Player.playing; Player.cb is not NULL
  ring,      \* ring[p]: Player.q, q_head, q_tail
  cur, rem,  \* Player.cur; frames left in it (cur_size - cur_pos)
  plock,     \* plock[p]: the holder of Player.lock across steps
  players, nplayers,    \* g_players, g_player_count
  regLock,   \* the holder of g_reg_lock
  dev,       \* g_dev # 0
  running,   \* SDL runs audio_callback
  apc, ai, ap, left, popped,
             \* audio thread: control, loop index, player being mixed,
             \* frames of this period still wanted, the local b of mix_player
  tpc, tobj, \* engine threads: control, player operated on
  em         \* the holder of the engine's own mutex (external)

playerVars == <<playing, cb, ring, cur, rem, plock>>
regVars    == <<players, nplayers, regLock>>
devVars    == <<dev, running>>
audioVars  == <<apc, ai, ap, left, popped>>
engineVars == <<tpc, tobj, em>>
vars == <<life, playerVars, regVars, devVars, audioVars, engineVars>>

-----------------------------------------------------------------------------
(* The queue of a player: a ring of BQ_SLOTS slots, one always unused.     *)

Slots == 0..(BQ_SLOTS - 1)
EmptyRing == [slot |-> [i \in Slots |-> NoBuffer], head |-> 0, tail |-> 0]
Count(r) == (r.tail - r.head + BQ_SLOTS) % BQ_SLOTS
Contents(r) ==
  [i \in 1..Count(r) |-> r.slot[(r.head + i - 1) % BQ_SLOTS]]

IsFull(r) == (r.tail + 1) % BQ_SLOTS = r.head
\* Mutant: the tail does not wrap.
PutUnwrapped(r, b) == IF IsFull(r) THEN r
                      ELSE [r EXCEPT !.slot[r.tail] = b, !.tail = r.tail + 1]
Put(r, b) == IF IsFull(r) THEN r
             ELSE [r EXCEPT !.slot[r.tail] = b,
                            !.tail = (r.tail + 1) % BQ_SLOTS]
DropFirst(r) == [r EXCEPT !.head = (r.head + 1) % BQ_SLOTS]
Reset(r) == [slot |-> r.slot, head |-> 0, tail |-> 0]

-----------------------------------------------------------------------------
Init ==
  /\ life = [p \in Players |-> "free"]
  /\ playing = [p \in Players |-> FALSE]
  /\ cb = [p \in Players |-> FALSE]
  /\ ring = [p \in Players |-> EmptyRing]
  /\ cur = [p \in Players |-> NoBuffer]
  /\ rem = [p \in Players |-> 0]
  /\ plock = [p \in Players |-> Nobody]
  /\ players = [i \in 0..(MAX_PLAYERS - 1) |-> NoPlayer]
  /\ nplayers = 0
  /\ regLock = Nobody
  /\ dev = FALSE
  /\ running = FALSE
  /\ apc = "idle"
  /\ ai = 0
  /\ ap = NoPlayer
  /\ left = 0
  /\ popped = NoBuffer
  /\ tpc = [t \in Threads |-> "idle"]
  /\ tobj = [t \in Threads |-> NoPlayer]
  /\ em = Nobody

-----------------------------------------------------------------------------
(* The audio thread.                                                       *)

\* Mutant: nobody waits for g_reg_lock.
RegistryFreeIgnored == TRUE
RegistryFree == regLock = Nobody

(* A period begins: audio_callback takes g_reg_lock. *)
CallbackBegin ==
  /\ running
  /\ apc = "idle"
  /\ RegistryFree
  /\ regLock' = Audio
  /\ apc' = "scan"
  /\ ai' = 0
  /\ UNCHANGED <<life, playerVars, players, nplayers, devVars, ap, left,
                 popped, engineVars>>

(* An empty slot, or a player that does not play, is passed over. *)
SkipSlot ==
  /\ apc = "scan"
  /\ ai < nplayers
  /\ players[ai] # NoPlayer => ~playing[players[ai]]
  /\ ai' = ai + 1
  /\ UNCHANGED <<life, playerVars, regVars, devVars, apc, ap, left, popped,
                 engineVars>>

EnterPlayer ==
  /\ apc = "scan"
  /\ ai < nplayers
  /\ players[ai] # NoPlayer
  /\ playing[players[ai]]
  /\ ap' = players[ai]
  /\ left' = Period
  /\ apc' = "head"
  /\ UNCHANGED <<life, playerVars, regVars, devVars, ai, popped, engineVars>>

\* Mutant: g_reg_lock is not given back after the walk.
CallbackEndLocked ==
  /\ apc = "scan"
  /\ ai >= nplayers
  /\ apc' = "idle"
  /\ UNCHANGED <<life, playerVars, regVars, devVars, ai, ap, left, popped,
                 engineVars>>

CallbackEnd ==
  /\ apc = "scan"
  /\ ai >= nplayers
  /\ regLock' = Nobody
  /\ apc' = "idle"
  /\ UNCHANGED <<life, playerVars, players, nplayers, devVars, ai, ap, left,
                 popped, engineVars>>

(* mix_player leaves its loop: audio_callback goes to the next slot. *)
LeavePlayer == /\ ai' = ai + 1
               /\ apc' = "scan"
               /\ ap' = NoPlayer
               /\ left' = 0

PeriodFull ==
  /\ apc = "head"
  /\ left = 0
  /\ LeavePlayer
  /\ UNCHANGED <<life, playerVars, regVars, devVars, popped, engineVars>>

(* The loop's test of cur and cur_pos: a buffer with frames left is        *)
(* sampled, a used-up one is given back and the engine told, and without a *)
(* buffer the queue is asked for one.                                      *)
SampleNext ==
  /\ apc = "head"
  /\ left > 0
  /\ cur[ap] # NoBuffer
  /\ rem[ap] > 0
  /\ apc' = "sample"
  /\ UNCHANGED <<life, playerVars, regVars, devVars, ai, ap, left, popped,
                 engineVars>>

\* Mutant: the engine is not told.
BufferFinishedUntold ==
  /\ apc = "head"
  /\ left > 0
  /\ cur[ap] # NoBuffer
  /\ rem[ap] <= 0
  /\ cur' = [cur EXCEPT ![ap] = NoBuffer]
  /\ apc' = "pop"
  /\ UNCHANGED <<life, playing, cb, ring, rem, plock, regVars, devVars, ai,
                 ap, left, popped, engineVars>>

BufferFinished ==
  /\ apc = "head"
  /\ left > 0
  /\ cur[ap] # NoBuffer
  /\ rem[ap] <= 0
  /\ cur' = [cur EXCEPT ![ap] = NoBuffer]
  /\ apc' = IF cb[ap] THEN "cbWait" ELSE "pop"
  /\ UNCHANGED <<life, playing, cb, ring, rem, plock, regVars, devVars, ai,
                 ap, left, popped, engineVars>>

\* Mutant: a player without a current buffer is passed over.
NoCurrentLeaves ==
  /\ apc = "head"
  /\ left > 0
  /\ cur[ap] = NoBuffer
  /\ LeavePlayer
  /\ UNCHANGED <<life, playerVars, regVars, devVars, popped, engineVars>>

NoCurrent ==
  /\ apc = "head"
  /\ left > 0
  /\ cur[ap] = NoBuffer
  /\ apc' = "pop"
  /\ UNCHANGED <<life, playerVars, regVars, devVars, ai, ap, left, popped,
                 engineVars>>

(* The engine's completion callback (external) takes the engine's mutex,   *)
(* enqueues the next buffer or has none, and returns.                      *)
CbEnter ==
  /\ apc = "cbWait"
  /\ em = Nobody
  /\ em' = Audio
  /\ apc' = "cbBody"
  /\ UNCHANGED <<life, playerVars, regVars, devVars, ai, ap, left, popped,
                 tpc, tobj>>

CbRefill ==
  /\ apc = "cbBody"
  /\ plock[ap] = Nobody
  /\ \E b \in Buffers : ring' = [ring EXCEPT ![ap] = Put(@, b)]
  /\ em' = Nobody
  /\ apc' = "pop"
  /\ UNCHANGED <<life, playing, cb, cur, rem, plock, regVars, devVars, ai, ap,
                 left, popped, tpc, tobj>>

CbDecline ==
  /\ apc = "cbBody"
  /\ em' = Nobody
  /\ apc' = "pop"
  /\ UNCHANGED <<life, playerVars, regVars, devVars, ai, ap, left, popped,
                 tpc, tobj>>

(* The pop, under the player's lock; an empty queue is an underrun. *)
Pop ==
  /\ apc = "pop"
  /\ plock[ap] = Nobody
  /\ Count(ring[ap]) > 0
  /\ popped' = ring[ap].slot[ring[ap].head]
  /\ ring' = [ring EXCEPT ![ap] = DropFirst(@)]
  /\ apc' = "install"
  /\ UNCHANGED <<life, playing, cb, cur, rem, plock, regVars, devVars, ai, ap,
                 left, engineVars>>

\* Mutant: an empty queue is asked again instead of ending the mix.
UnderrunRetries ==
  /\ apc = "pop"
  /\ plock[ap] = Nobody
  /\ Count(ring[ap]) = 0
  /\ apc' = "head"
  /\ UNCHANGED <<life, playerVars, regVars, devVars, ai, ap, left, popped,
                 engineVars>>

Underrun ==
  /\ apc = "pop"
  /\ plock[ap] = Nobody
  /\ Count(ring[ap]) = 0
  /\ LeavePlayer
  /\ UNCHANGED <<life, playerVars, regVars, devVars, popped, engineVars>>

Install ==
  /\ apc = "install"
  /\ cur' = [cur EXCEPT ![ap] = popped]
  /\ rem' = [rem EXCEPT ![ap] = BufFrames[popped]]
  /\ popped' = NoBuffer
  /\ apc' = "sample"
  /\ UNCHANGED <<life, playing, cb, ring, plock, regVars, devVars, ai, ap,
                 left, engineVars>>

Sample ==
  /\ apc = "sample"
  /\ rem' = [rem EXCEPT ![ap] = @ - 1]
  /\ left' = left - 1
  /\ apc' = "head"
  /\ UNCHANGED <<life, playing, cb, ring, cur, plock, regVars, devVars, ai,
                 ap, popped, engineVars>>

AudioNext == \/ CallbackBegin \/ SkipSlot \/ EnterPlayer \/ CallbackEnd
             \/ PeriodFull \/ SampleNext \/ BufferFinished \/ NoCurrent
             \/ CbEnter \/ CbRefill \/ CbDecline
             \/ Pop \/ Underrun \/ Install \/ Sample

-----------------------------------------------------------------------------
(* The engine's threads.                                                   *)

(* External: the engine's sound code brackets its work with its own mutex. *)
LockSound(t) ==
  /\ tpc[t] = "idle"
  /\ em = Nobody
  /\ em' = t
  /\ UNCHANGED <<life, playerVars, regVars, devVars, audioVars, tpc, tobj>>

UnlockSound(t) ==
  /\ tpc[t] = "idle"
  /\ em = t
  /\ em' = Nobody
  /\ UNCHANGED <<life, playerVars, regVars, devVars, audioVars, tpc, tobj>>

(* Thread t may operate on player p: it exists and nobody destroys it. *)
MayUse(t, p) == tpc[t] = "idle" /\ life[p] = "live"

Enqueue(t, p, b) ==
  /\ MayUse(t, p)
  /\ plock[p] = Nobody
  /\ ring' = [ring EXCEPT ![p] = Put(@, b)]
  /\ UNCHANGED <<life, playing, cb, cur, rem, plock, regVars, devVars,
                 audioVars, engineVars>>

(* Clear holds the player's lock, but cur belongs to the audio thread. *)
ClearBegin(t, p) ==
  /\ EngineClears
  /\ MayUse(t, p)
  /\ plock[p] = Nobody
  /\ plock' = [plock EXCEPT ![p] = t]
  /\ ring' = [ring EXCEPT ![p] = Reset(@)]
  /\ tpc' = [tpc EXCEPT ![t] = "clear"]
  /\ tobj' = [tobj EXCEPT ![t] = p]
  /\ UNCHANGED <<life, playing, cb, cur, rem, regVars, devVars, audioVars, em>>

ClearEnd(t) ==
  /\ tpc[t] = "clear"
  /\ cur' = [cur EXCEPT ![tobj[t]] = NoBuffer]
  /\ rem' = [rem EXCEPT ![tobj[t]] = 0]
  /\ plock' = [plock EXCEPT ![tobj[t]] = Nobody]
  /\ tpc' = [tpc EXCEPT ![t] = "idle"]
  /\ tobj' = [tobj EXCEPT ![t] = NoPlayer]
  /\ UNCHANGED <<life, playing, cb, ring, regVars, devVars, audioVars, em>>

(* The engine registers a callback or, with NULL, takes it back, without   *)
(* any lock.  The context stored next to it is not told apart.             *)
RegisterCallback(t, p, on) ==
  /\ MayUse(t, p)
  /\ cb' = [cb EXCEPT ![p] = on]
  /\ UNCHANGED <<life, playing, ring, cur, rem, plock, regVars, devVars,
                 audioVars, engineVars>>

SetPlayState(t, p, on) ==
  /\ MayUse(t, p)
  /\ plock[p] = Nobody
  /\ playing' = [playing EXCEPT ![p] = on]
  /\ UNCHANGED <<life, cb, ring, cur, rem, plock, regVars, devVars,
                 audioVars, engineVars>>

(* Whether thread t may create or destroy players now. *)
MayManage(t) == tpc[t] = "idle" /\ (em = t => LifecycleUnderMutex)

(* CreateAudioPlayer: calloc and the fields, then ensure_device's test. *)
CreateBegin(t, p) ==
  /\ MayManage(t)
  /\ life[p] = "free"
  /\ life' = [life EXCEPT ![p] = "new"]
  /\ playing' = [playing EXCEPT ![p] = FALSE]
  /\ cb' = [cb EXCEPT ![p] = FALSE]
  /\ ring' = [ring EXCEPT ![p] = EmptyRing]
  /\ cur' = [cur EXCEPT ![p] = NoBuffer]
  /\ rem' = [rem EXCEPT ![p] = 0]
  /\ plock' = [plock EXCEPT ![p] = Nobody]
  /\ tpc' = [tpc EXCEPT ![t] = IF dev THEN "register" ELSE "open"]
  /\ tobj' = [tobj EXCEPT ![t] = p]
  /\ UNCHANGED <<regVars, devVars, audioVars, em>>

(* ensure_device opens the device.  External: SDL may fail to initialise,  *)
(* may refuse, and refuses a second opening of the one output device; the  *)
(* refusal's 0 overwrites the handle another thread has just stored.       *)
CreateOpen(t) ==
  /\ tpc[t] = "open"
  /\ \/ UNCHANGED devVars
     \/ dev' = FALSE /\ UNCHANGED running
     \/ ~running /\ dev' = TRUE /\ running' = TRUE
  /\ tpc' = [tpc EXCEPT ![t] = "register"]
  /\ UNCHANGED <<life, playerVars, regVars, audioVars, tobj, em>>

(* The first empty slot below g_player_count, else one more slot, else     *)
(* none: MAX_PLAYERS stands for "no slot".                                 *)
EmptySlots == {i \in 0..(nplayers - 1) : players[i] = NoPlayer}
\* Mutant: the slots of destroyed players are never found again.
FirstSlotAppends == nplayers
FirstSlot == IF EmptySlots # {}
             THEN CHOOSE i \in EmptySlots : \A j \in EmptySlots : i <= j
             ELSE nplayers

(* The new player is registered; with every slot taken it is not, and the  *)
(* engine is told SL_RESULT_SUCCESS all the same.                          *)
CreateRegister(t) ==
  /\ tpc[t] = "register"
  /\ RegistryFree
  /\ IF FirstSlot < MAX_PLAYERS
     THEN /\ players' = [players EXCEPT ![FirstSlot] = tobj[t]]
          /\ nplayers' = IF FirstSlot = nplayers THEN nplayers + 1
                                                 ELSE nplayers
     ELSE UNCHANGED <<players, nplayers>>
  /\ life' = [life EXCEPT ![tobj[t]] = "live"]
  /\ tpc' = [tpc EXCEPT ![t] = "idle"]
  /\ tobj' = [tobj EXCEPT ![t] = NoPlayer]
  /\ UNCHANGED <<playerVars, regLock, devVars, audioVars, em>>

(* Destroy: the engine does not use the player from here on, but the audio *)
(* thread may still be mixing it.                                          *)
DestroyBegin(t, p) ==
  /\ MayManage(t)
  /\ life[p] = "live"
  /\ \A u \in Threads : tobj[u] # p
  /\ life' = [life EXCEPT ![p] = "dying"]
  /\ tpc' = [tpc EXCEPT ![t] = "unlink"]
  /\ tobj' = [tobj EXCEPT ![t] = p]
  /\ UNCHANGED <<playerVars, regVars, devVars, audioVars, em>>

\* Mutant: the last slot in use is not looked at.
UnlinkedShort(p) ==
  [i \in DOMAIN players |->
     IF players[i] = p /\ i < nplayers - 1 THEN NoPlayer ELSE players[i]]
Unlinked(p) ==
  [i \in DOMAIN players |->
     IF players[i] = p /\ i < nplayers THEN NoPlayer ELSE players[i]]

DestroyUnlink(t) ==
  /\ tpc[t] = "unlink"
  /\ RegistryFree
  /\ players' = Unlinked(tobj[t])
  /\ life' = [life EXCEPT ![tobj[t]] = "unlinked"]
  /\ tpc' = [tpc EXCEPT ![t] = "free"]
  /\ UNCHANGED <<playerVars, nplayers, regLock, devVars, audioVars, tobj, em>>

DestroyFree(t) ==
  /\ tpc[t] = "free"
  /\ life' = [life EXCEPT ![tobj[t]] = "free"]
  /\ tpc' = [tpc EXCEPT ![t] = "idle"]
  /\ tobj' = [tobj EXCEPT ![t] = NoPlayer]
  /\ UNCHANGED <<playerVars, regVars, devVars, audioVars, em>>

EngineNext(t) ==
  \/ LockSound(t) \/ UnlockSound(t)
  \/ \E p \in Players :
       \/ \E b \in Buffers : Enqueue(t, p, b)
       \/ ClearBegin(t, p)
       \/ \E on \in BOOLEAN :
            RegisterCallback(t, p, on) \/ SetPlayState(t, p, on)
       \/ CreateBegin(t, p) \/ DestroyBegin(t, p)
  \/ ClearEnd(t) \/ CreateOpen(t) \/ CreateRegister(t)
  \/ DestroyUnlink(t) \/ DestroyFree(t)

Next == AudioNext \/ \E t \in Threads : EngineNext(t)

Spec == Init /\ [][Next]_vars

(* Fairness.  SDL calls back for ever and a thread runs on inside a call   *)
(* (weak fairness).  A lock that is free again and again is eventually     *)
(* obtained, and the engine leaves its own critical section even though it *)
(* enters the queue's in between (strong fairness).                        *)
Fairness ==
  /\ WF_vars(AudioNext)
  /\ SF_vars(CbEnter) /\ SF_vars(CbRefill \/ CbDecline)
  /\ SF_vars(Pop \/ Underrun)
  /\ \A t \in Threads :
       /\ SF_vars(UnlockSound(t))
       /\ WF_vars(ClearEnd(t)) /\ WF_vars(CreateOpen(t))
       /\ SF_vars(CreateRegister(t))
       /\ SF_vars(DestroyUnlink(t)) /\ WF_vars(DestroyFree(t))

FairSpec == Spec /\ Fairness

-----------------------------------------------------------------------------
(* Properties.                                                             *)

RingType == [slot : [Slots -> Buffers \cup {NoBuffer}],
             head : Slots, tail : Slots]
Lives == {"free", "new", "live", "dying", "unlinked"}
AudioPcs == {"idle", "scan", "head", "sample", "cbWait", "cbBody", "pop",
             "install"}
EnginePcs == {"idle", "clear", "open", "register", "unlink", "free"}

(* Every variable of opensles.c's players keeps its type. *)
TypeOK ==
  /\ life \in [Players -> Lives]
  /\ playing \in [Players -> BOOLEAN] /\ cb \in [Players -> BOOLEAN]
  /\ ring \in [Players -> RingType]
  /\ cur \in [Players -> Buffers \cup {NoBuffer}]
  /\ rem \in [Players -> Int]
  /\ plock \in [Players -> Threads \cup {Nobody}]
  /\ players \in [0..(MAX_PLAYERS - 1) -> Players \cup {NoPlayer}]
  /\ nplayers \in 0..MAX_PLAYERS
  /\ regLock \in {Audio, Nobody}
  /\ dev \in BOOLEAN /\ running \in BOOLEAN
  /\ apc \in AudioPcs
  /\ ai \in 0..MAX_PLAYERS
  /\ ap \in Players \cup {NoPlayer}
  /\ left \in 0..Period
  /\ popped \in Buffers \cup {NoBuffer}
  /\ tpc \in [Threads -> EnginePcs]
  /\ tobj \in [Threads -> Players \cup {NoPlayer}]
  /\ em \in Threads \cup {Audio, Nobody}

Mixing == apc \notin {"idle", "scan"}

(* mix_player (243-284) never works on a player whose Destroy has freed it *)
(* or is about to: player_Destroy can unlink it only between two periods.  *)
AudioTouchesOnlyLivePlayers == Mixing => life[ap] \in {"live", "dying"}

(* What audio_callback will still visit is never a freed player, and no    *)
(* player is registered twice, which would play its queue at double speed. *)
RegistrySound ==
  /\ \A i \in DOMAIN players :
       players[i] # NoPlayer => life[players[i]] \in {"live", "dying"}
  /\ \A i, j \in DOMAIN players :
       players[i] = players[j] /\ players[i] # NoPlayer => i = j

(* CreateAudioPlayer (671-679) leaves a player unheard only when all of    *)
(* MAX_PLAYERS slots are in use at that moment, whatever was destroyed     *)
(* before: the slots of dead players are found again.                      *)
SilentOnlyWhenFull ==
  [][\A p \in Players :
       life[p] = "new" /\ life'[p] = "live"
         => \/ \E i \in DOMAIN players : players'[i] = p
            \/ \A i \in DOMAIN players : players[i] # NoPlayer]_vars

(* Lines 238-242: "cur/cur_pos are touched only by this (audio) thread, so *)
(* they need no lock": the buffer tested at the top of the loop is still   *)
(* there when it is sampled.                                               *)
SampleReadsABuffer == apc = "sample" => cur[ap] # NoBuffer

(* Lines 238-242: the callback is fired "WITHOUT our lock held", so that   *)
(* an engine thread that holds the engine's mutex and calls into this file *)
(* is never waited for by the callback it waits for.                       *)
NoCircularWait ==
  \A t \in Threads :
    ~ /\ apc = "cbWait" /\ em = t
      /\ tpc[t] \in {"register", "unlink"} /\ ~RegistryFree

(* Every period ends: audio_callback gives g_reg_lock back even though it  *)
(* runs the engine's callback, which waits for the engine's mutex.         *)
CallbackReturns == apc # "idle" ~> apc = "idle"

(* Creating and destroying a player ends, against an audio thread that     *)
(* takes g_reg_lock again in every period.                                 *)
LifecycleReturns == \A t \in Threads : tpc[t] # "idle" ~> tpc[t] = "idle"

Audible(p) == /\ running /\ playing[p] /\ life[p] = "live"
              /\ \E i \in DOMAIN players : players[i] = p

(* A buffer waiting on a player that stays audible starts to play: no      *)
(* sequence of finished buffers, callbacks and refills wedges the queue.   *)
QueueAdvances ==
  \A p \in Players :
    <>[]Audible(p) =>
      []<>(Count(ring[p]) = 0 \/ (apc = "install" /\ ap = p))

(* Lines 243-284, 480-493 and 630-638: as long as the engine does not call *)
(* Clear, the players implement the buffer-queue contract: from creation   *)
(* to destruction FIFO, one buffer at a time, none lost or replayed, and   *)
(* the registered callback called once for each buffer that ends, before   *)
(* the next one starts and before the player's memory is freed.            *)
Contract == INSTANCE BufferQueue WITH
  Capacity <- BQ_SLOTS - 1,
  alive <- [p \in Players |-> life[p] # "free"],
  listens <- cb,
  pending <- [p \in Players |-> Contents(ring[p])],
  inflight <- [p \in Players |->
                 IF apc = "install" /\ ap = p THEN popped ELSE cur[p]],
  owed <- [p \in Players |-> apc \in {"cbWait", "cbBody"} /\ ap = p]

Implements == Contract!Spec
=============================================================================
