---------------------------- MODULE MovieAudio -----------------------------
(***************************************************************************)
(* The movie's sound path of source/opensles.c: a ring of PCM frames that  *)
(* the movie's decoder fills, SDL's audio thread empties in mix_movie, and *)
(* the main thread opens, pauses, closes and finally shuts down.           *)
(*                                                                         *)
(* A PCM frame is its serial number in the session (1, 2, ...), which is   *)
(* all that the properties tell apart.  Critical sections of g_movie_lock  *)
(* are single steps; mix_movie is cut between its unlocked test of         *)
(* g_movie_lock and the locking.  Calls are used as movie_player.c and     *)
(* main.c use them: one session at a time, one decoder, and the decoder is *)
(* joined before the next session.                                         *)
(***************************************************************************)
EXTENDS Integers

CONSTANTS
  RING,        \* MOVIE_RING_FRAMES
  Period,      \* frames the device asks for in one callback
  Packets,     \* lengths, in frames, of what the decoder hands over at once
  MaxQueued    \* bound: frames queued in one session

VARIABLES
  mlock,       \* g_movie_lock: "absent", "free", or "gone" (destroyed)
  havePcm, pcm,             \* g_movie_pcm # NULL; its slots
  active, paused,           \* g_movie_active, g_movie_paused
  head, count,              \* g_movie_head, g_movie_count
  queued, played,           \* g_movie_samples_queued, g_movie_samples_played
  openedDev, dev,           \* g_movie_opened_dev; g_dev # 0
  gameDev,     \* history: the game has opened the device that is open
  mixing,      \* the audio thread is inside mix_movie, past its first test
  want, done,  \* opensles_movie_queue: its frames (0: no call) and done
  call         \* the call the main thread is in the middle of

ringVars == <<havePcm, pcm, head, count, queued, played>>
devVars == <<openedDev, dev, gameDev>>
callVars == <<want, done, call>>
vars == <<mlock, ringVars, active, paused, devVars, mixing, callVars>>

Slots == 0..(RING - 1)
Lesser(a, b) == IF a < b THEN a ELSE b

Init ==
  /\ mlock = "absent"
  /\ havePcm = FALSE
  /\ pcm = [i \in Slots |-> 0]
  /\ active = FALSE
  /\ paused = FALSE
  /\ head = 0
  /\ count = 0
  /\ queued = 0
  /\ played = 0
  /\ openedDev = FALSE
  /\ dev = FALSE
  /\ gameDev = FALSE
  /\ mixing = FALSE
  /\ want = 0
  /\ done = 0
  /\ call = "none"

-----------------------------------------------------------------------------
(* The audio thread: mix_movie.                                            *)

MixEnter ==
  /\ dev
  /\ ~mixing
  /\ mlock = "free"
  /\ mixing' = TRUE
  /\ UNCHANGED <<mlock, ringVars, active, paused, devVars, callVars>>

Silent == ~active \/ paused \/ ~havePcm

MixNothing ==
  /\ mixing
  /\ Silent
  /\ mixing' = FALSE
  /\ UNCHANGED <<mlock, ringVars, active, paused, devVars, callVars>>

\* Mutant: the head stays where it was.
MixFramesReplayed ==
  /\ mixing
  /\ ~Silent
  /\ count' = count - Lesser(count, Period)
  /\ played' = played + Lesser(count, Period)
  /\ mixing' = FALSE
  /\ UNCHANGED <<mlock, havePcm, pcm, head, queued, active, paused, devVars,
                 callVars>>

\* Mutant: what has been mixed still counts as buffered.
MixFramesKept ==
  /\ mixing
  /\ ~Silent
  /\ mixing' = FALSE
  /\ UNCHANGED <<mlock, ringVars, active, paused, devVars, callVars>>

MixFrames ==
  /\ mixing
  /\ ~Silent
  /\ LET n == Lesser(count, Period)
     IN /\ head' = (head + n) % RING
        /\ count' = count - n
        /\ played' = played + n
  /\ mixing' = FALSE
  /\ UNCHANGED <<mlock, havePcm, pcm, queued, active, paused, devVars,
                 callVars>>

-----------------------------------------------------------------------------
(* The decoder thread: opensles_movie_queue, chunk by chunk.               *)

QueueCall(n) ==
  /\ want = 0
  /\ mlock = "free"
  /\ queued + n <= MaxQueued
  /\ want' = n
  /\ done' = 0
  /\ UNCHANGED <<mlock, ringVars, active, paused, devVars, mixing, call>>

\* Mutant: the free space of the ring does not limit a chunk.
ChunkWhole == want - done
Chunk == Lesser(want - done, RING - count)

QueueChunk ==
  /\ done < want
  /\ mlock = "free"
  /\ active /\ havePcm
  /\ pcm' = [s \in Slots |->
               LET i == (s - head - count + 2 * RING) % RING
               IN IF i < Chunk THEN queued + i + 1 ELSE pcm[s]]
  /\ count' = count + Chunk
  /\ queued' = queued + Chunk
  /\ done' = done + Chunk
  /\ UNCHANGED <<mlock, havePcm, head, played, active, paused, devVars,
                 mixing, want, call>>

(* Everything is queued, or the session ended in the meantime. *)
QueueReturn ==
  /\ want > 0
  /\ done = want \/ ~active \/ ~havePcm
  /\ want' = 0
  /\ done' = 0
  /\ UNCHANGED <<mlock, ringVars, active, paused, devVars, mixing, call>>

(* opensles_movie_set_paused, called by the decoder and the main thread. *)
SetPaused(on) ==
  /\ mlock = "free"
  /\ paused' = IF active THEN on ELSE paused
  /\ UNCHANGED <<mlock, ringVars, active, devVars, mixing, callVars>>

-----------------------------------------------------------------------------
(* The main thread.                                                        *)

(* The mutex or the ring cannot be allocated, or SDL opens no device. *)
BeginFail ==
  /\ call = "none" /\ want = 0 /\ ~active
  /\ mlock' \in {mlock, "free"}
  /\ havePcm' \in {havePcm, TRUE}
  /\ mlock' = "free" /\ havePcm' => ~dev
  /\ UNCHANGED <<pcm, head, count, queued, played, active, paused, devVars,
                 mixing, callVars>>

BeginOpen ==
  /\ call = "none" /\ want = 0 /\ ~active
  /\ mlock' = "free"
  /\ havePcm' = TRUE
  /\ openedDev' = ~dev
  /\ dev' = TRUE
  /\ call' = "begin"
  /\ UNCHANGED <<pcm, head, count, queued, played, active, paused, gameDev,
                 mixing, want, done>>

BeginReset ==
  /\ call = "begin"
  /\ active' = TRUE
  /\ paused' = TRUE
  /\ head' = 0
  /\ count' = 0
  /\ queued' = 0
  /\ played' = 0
  /\ call' = "none"
  /\ UNCHANGED <<mlock, havePcm, pcm, devVars, mixing, want, done>>

(* opensles_movie_end: the session is closed under the lock ... *)
ResetSession == /\ active' = FALSE
                /\ paused' = FALSE
                /\ head' = 0
                /\ count' = 0

EndReset ==
  /\ call = "none"
  /\ mlock = "free"
  /\ ResetSession
  /\ call' = "end"
  /\ UNCHANGED <<mlock, havePcm, pcm, queued, played, devVars, mixing, want,
                 done>>

\* Mutant: the device the movie opened is forgotten, not closed.
GiveBackForgotten == /\ openedDev' = FALSE
                     /\ UNCHANGED <<dev, gameDev>>
(* ... and the device, when the movie opened it, is closed outside it:     *)
(* SDL_CloseAudioDevice waits until the callback has returned.             *)
GiveBackDevice == /\ openedDev' = FALSE
                  /\ IF openedDev /\ dev
                     THEN ~mixing /\ dev' = FALSE /\ gameDev' = FALSE
                     ELSE UNCHANGED <<dev, gameDev>>

EndClose ==
  /\ call = "end"
  /\ GiveBackDevice
  /\ call' = "none"
  /\ UNCHANGED <<mlock, ringVars, active, paused, mixing, want, done>>

(* opensles_shutdown, when main leaves its loop. *)
ShutdownEnd ==
  /\ call = "none" /\ want = 0
  /\ IF mlock = "free" THEN ResetSession
                       ELSE UNCHANGED <<active, paused, head, count>>
  /\ call' = "sdGiveBack"
  /\ UNCHANGED <<mlock, havePcm, pcm, queued, played, devVars, mixing, want,
                 done>>

ShutdownGiveBack ==
  /\ call = "sdGiveBack"
  /\ GiveBackDevice
  /\ call' = "sdFree"
  /\ UNCHANGED <<mlock, ringVars, active, paused, mixing, want, done>>

ShutdownFree ==
  /\ call = "sdFree"
  /\ havePcm' = FALSE
  /\ mlock' = IF mlock = "free" THEN "gone" ELSE mlock
  /\ call' = "sdClose"
  /\ UNCHANGED <<pcm, head, count, queued, played, active, paused, devVars,
                 mixing, want, done>>

ShutdownClose ==
  /\ call = "sdClose"
  /\ dev => ~mixing
  /\ dev' = FALSE
  /\ gameDev' = FALSE
  /\ call' = "down"
  /\ UNCHANGED <<mlock, ringVars, active, paused, openedDev, mixing, want,
                 done>>

(* External: the game creates its first player (ensure_device). *)
GameOpensDevice ==
  /\ call = "none"
  /\ ~dev
  /\ dev' = TRUE
  /\ gameDev' = TRUE
  /\ UNCHANGED <<mlock, ringVars, active, paused, openedDev, mixing, callVars>>

MixNext == MixEnter \/ MixNothing \/ MixFrames

MainNext == \/ BeginFail \/ BeginOpen \/ BeginReset \/ EndReset \/ EndClose
            \/ ShutdownEnd \/ ShutdownGiveBack \/ ShutdownFree
            \/ ShutdownClose

Next == \/ MixNext \/ MainNext
        \/ \E n \in Packets : QueueCall(n)
        \/ QueueChunk \/ QueueReturn
        \/ \E on \in BOOLEAN : SetPaused(on)
        \/ GameOpensDevice

Spec == Init /\ [][Next]_vars

(* SDL keeps calling back and the decoder keeps running inside its call. *)
FairSpec == Spec /\ WF_vars(MixNext) /\ WF_vars(QueueChunk)
                 /\ WF_vars(QueueReturn)

-----------------------------------------------------------------------------
(* Properties.                                                             *)

Calls == {"none", "begin", "end", "sdGiveBack", "sdFree", "sdClose", "down"}

(* Every variable of the movie's sound path keeps its type; in particular  *)
(* the ring never holds more than MOVIE_RING_FRAMES frames.                *)
TypeOK ==
  /\ mlock \in {"absent", "free", "gone"}
  /\ havePcm \in BOOLEAN /\ pcm \in [Slots -> Nat]
  /\ active \in BOOLEAN /\ paused \in BOOLEAN
  /\ head \in Slots /\ count \in 0..RING
  /\ queued \in Nat /\ played \in Nat
  /\ {openedDev, dev, gameDev} \subseteq BOOLEAN
  /\ mixing \in BOOLEAN
  /\ want \in Nat /\ done \in 0..want
  /\ call \in Calls

(* During a session every frame the decoder handed over is either played   *)
(* or still in the ring, and the ring holds exactly the unplayed ones, in  *)
(* order from g_movie_head on: nothing is lost, repeated or reordered, and *)
(* samples_played is the position in the stream the movie clock needs      *)
(* (mix_movie 296-304, opensles_movie_queue 397-407).                      *)
RingHoldsUnplayed ==
  active => /\ queued = played + count
            /\ \A i \in 0..(count - 1) :
                 pcm[(head + i) % RING] = played + i + 1

(* A session has a device under it; between sessions the device is open    *)
(* exactly when the game opened it: the movie neither keeps its own, which *)
(* would leave the game at the movie's rate (the comment at 466-468), nor  *)
(* closes the game's.                                                      *)
DeviceHandedBack ==
  /\ active => dev
  /\ call = "none" /\ ~active => dev = gameDev

(* mix_movie never locks a destroyed mutex.  The comment at 466-468 orders *)
(* the closing of the device around the callback's use of g_movie_lock.    *)
MixLocksLiveMutex == mixing => mlock = "free"

(* opensles_movie_queue (385-415) does not wait for ever on a full ring    *)
(* once the session is neither paused nor ended.                           *)
QueueReturns == <>[](~paused) => []<>(want = 0)
=============================================================================
