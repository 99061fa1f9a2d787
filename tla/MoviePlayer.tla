---------------------------- MODULE MoviePlayer ----------------------------
(***************************************************************************)
(* source/movie_player.c together with the sound path of opensles.c        *)
(* (MovieAudio) and the intro loop of main.c: the main thread polls,       *)
(* renders and stops the movie, the decoder thread demultiplexes the file  *)
(* into a ring of video frames and the ring of PCM frames, and the audio   *)
(* thread's progress is the movie's clock.  When main leaves its own loop  *)
(* it shuts the sound down.                                                *)
(*                                                                         *)
(* The file is a sequence of decoded units in demultiplexing order: a      *)
(* video frame or APACKET frames of sound; the codec's flush is its tail.  *)
(* Time is counted in frames of sound; video frame k (from 1) is due at    *)
(* (k - 1) * VDUR.  Critical sections of mp.lock are single steps.         *)
(* movie_pause and movie_resume have no caller and are left out.           *)
(***************************************************************************)
EXTENDS Integers, Sequences, FiniteSets

CONSTANTS
  RING, Period, Packets, MaxQueued,  \* see MovieAudio
  NUM_VFRAMES, APACKET, VDUR,
  PREFILL,     \* AUDIO_PREFILL_MS, in frames of sound
  Files,       \* the files that may be played
  MaxTick,     \* bound: the wall clock saturates here, past every due time
  MaxSessions  \* bound: calls of movie_play

ASSUME PlayerSizesAssumption ==
  /\ RING \in Nat \ {0} /\ Period \in Nat \ {0} /\ MaxQueued \in Nat
  /\ Packets \subseteq Nat \ {0}
  /\ NUM_VFRAMES \in Nat \ {0} /\ VDUR \in Nat \ {0}
  /\ APACKET \in Packets /\ PREFILL \in Nat
  /\ Files \subseteq Seq({"video", "audio"})
  /\ MaxTick \in Nat /\ MaxSessions \in Nat

VARIABLES
  mlock, havePcm, pcm, active, paused, head, count, queued, played, openedDev,
  dev, gameDev, mixing, want, done, call,       \* MovieAudio
  mpc,         \* main thread: where movie_play, the loop or movie_stop is
  dpc,         \* decoder thread ("none" before it is created, or joined)
  mpActive, stopReq, decodeEof, hasAudio, primed, shown,      \* fields of mp
  alloc,       \* the buffers, codecs and locks of mp exist
  frames, vread, vwrite, vcount,   \* mp.frames and its indices
  file, pos,   \* the file, and the units av_read_frame has returned
  tailSet, tailBase,               \* mp.tail_tick # 0, mp.tail_base
  elapsed,     \* ticks since start_tick, or since tail_tick once it is set
  heard,       \* what movie_clock has read of samples_played
  clk,         \* the clock of the current or last movie_render
  pushed, last,   \* history: frames pushed, the last one put on the screen
  sessions

A == INSTANCE MovieAudio

audio == <<mlock, havePcm, pcm, active, paused, head, count, queued, played,
           openedDev, dev, gameDev, mixing, want, done, call>>
mpVars == <<mpActive, stopReq, decodeEof, hasAudio, primed, shown, alloc>>
ringVars == <<frames, vread, vwrite, vcount, pushed, last>>
clockVars == <<tailSet, tailBase, elapsed, heard, clk>>
fileVars == <<file, pos, sessions>>
vars == <<audio, mpc, dpc, mpVars, ringVars, clockVars, fileVars>>

Due(k) == (k - 1) * VDUR
VSlots == 0..(NUM_VFRAMES - 1)
\* Mutant: the ring's indices do not wrap.
WrapNot(i) == i
Wrap(i) == i % NUM_VFRAMES

\* Mutant: decode_eof of the last session survives.
ClearFlagsNotEof == /\ stopReq' = FALSE /\ UNCHANGED decodeEof
                    /\ hasAudio' = FALSE /\ primed' = FALSE /\ shown' = FALSE
(* memset(&mp, 0): at the start of movie_play and at the end of            *)
(* free_session.                                                           *)
ClearFlags == /\ stopReq' = FALSE /\ decodeEof' = FALSE
              /\ hasAudio' = FALSE /\ primed' = FALSE /\ shown' = FALSE
ClearRing == /\ frames' = [i \in VSlots |-> 0]
             /\ vread' = 0 /\ vwrite' = 0 /\ vcount' = 0
ClearClock == tailSet' = FALSE /\ tailBase' = 0

Init ==
  /\ A!Init
  /\ mpc = "idle" /\ dpc = "none"
  /\ mpActive = FALSE /\ stopReq = FALSE /\ decodeEof = FALSE
  /\ hasAudio = FALSE /\ primed = FALSE /\ shown = FALSE /\ alloc = FALSE
  /\ frames = [i \in VSlots |-> 0]
  /\ vread = 0 /\ vwrite = 0 /\ vcount = 0
  /\ pushed = 0 /\ last = 0
  /\ file = <<>> /\ pos = 0 /\ sessions = 0
  /\ tailSet = FALSE /\ tailBase = 0 /\ elapsed = 0
  /\ heard = 0 /\ clk = -1

-----------------------------------------------------------------------------
(* movie_play, on the main thread.                                         *)

(* The structure is cleared and the file, the video codec and the frame    *)
(* buffers are opened.                                                     *)
Play ==
  /\ mpc = "idle" /\ call = "none"
  /\ sessions < MaxSessions
  /\ sessions' = sessions + 1
  /\ ClearFlags /\ ClearRing /\ ClearClock
  /\ pushed' = 0 /\ last' = 0 /\ heard' = 0 /\ clk' = -1
  /\ file' \in Files
  /\ pos' = 0
  /\ alloc' = TRUE
  /\ mpc' = "setup"
  /\ UNCHANGED <<audio, dpc, mpActive, elapsed>>

(* One of those steps fails (goto fail): free_session, and no movie. *)
PlayFails ==
  /\ mpc = "setup"
  /\ stopReq' = TRUE
  /\ mpc' = "freeEnd"
  /\ UNCHANGED <<audio, dpc, mpActive, decodeEof, hasAudio, primed, shown,
                 alloc, ringVars, clockVars, fileVars>>

(* setup_audio: no sound stream or codec, or opensles_movie_begin fails. *)
SetupSilent ==
  /\ mpc = "setup"
  /\ UNCHANGED audio \/ A!BeginFail
  /\ mpc' = "spawn"
  /\ UNCHANGED <<dpc, mpVars, ringVars, clockVars, fileVars>>

SetupBegin ==
  /\ mpc = "setup"
  /\ A!BeginOpen
  /\ mpc' = "begin"
  /\ UNCHANGED <<dpc, mpVars, ringVars, clockVars, fileVars>>

SetupBegun ==
  /\ mpc = "begin"
  /\ A!BeginReset
  /\ mpc' = "swr"
  /\ UNCHANGED <<dpc, mpVars, ringVars, clockVars, fileVars>>

SetupDone ==
  /\ mpc = "swr"
  /\ hasAudio' = TRUE
  /\ mpc' = "spawn"
  /\ UNCHANGED <<audio, dpc, mpActive, stopReq, decodeEof, primed, shown,
                 alloc, ringVars, clockVars, fileVars>>

(* The resampler cannot be set up: the sound session is ended again. *)
SetupUndo ==
  /\ mpc = "swr"
  /\ A!EndReset
  /\ mpc' = "undo"
  /\ UNCHANGED <<dpc, mpVars, ringVars, clockVars, fileVars>>

SetupUndone ==
  /\ mpc = "undo"
  /\ A!EndClose
  /\ mpc' = "spawn"
  /\ UNCHANGED <<dpc, mpVars, ringVars, clockVars, fileVars>>

(* start_tick is taken and the decoder thread created. *)
Spawn ==
  /\ mpc = "spawn"
  /\ elapsed' = 0
  /\ dpc' = "read"
  /\ mpActive' = TRUE
  /\ mpc' = "poll"
  /\ UNCHANGED <<audio, stopReq, decodeEof, hasAudio, primed, shown, alloc,
                 ringVars, tailSet, tailBase, heard, clk, fileVars>>

SpawnFails ==
  /\ mpc = "spawn"
  /\ stopReq' = TRUE
  /\ mpc' = "freeEnd"
  /\ UNCHANGED <<audio, dpc, mpActive, decodeEof, hasAudio, primed, shown,
                 alloc, ringVars, clockVars, fileVars>>

-----------------------------------------------------------------------------
(* The loop of play_intro_movie.                                           *)

Goto(here, there) == mpc = here /\ mpc' = there

(* The system ends the application (appletMainLoop), the player presses a  *)
(* button (movie_skip), or no EGL surface is current: movie_stop.          *)
Quit == /\ \E here \in {"poll", "input"} : Goto(here, "stop")
        /\ UNCHANGED <<audio, dpc, mpVars, ringVars, clockVars, fileVars>>

(* movie_is_playing reads frame_count and decode_eof under mp.lock, then   *)
(* the sound that is still buffered.                                       *)
PollFrames ==
  /\ Goto("poll", IF decodeEof /\ vcount = 0 THEN "pollAudio" ELSE "input")
  /\ UNCHANGED <<audio, dpc, mpVars, ringVars, clockVars, fileVars>>

\* Mutant: buffered sound does not keep the movie alive.
AudioDoneAlways == TRUE
AudioDone == hasAudio => count = 0

PollAudio ==
  /\ Goto("pollAudio", IF AudioDone THEN "stop" ELSE "input")
  /\ UNCHANGED <<audio, dpc, mpVars, ringVars, clockVars, fileVars>>

(* movie_render: movie_clock first, in up to three readings. *)
ClockWall ==
  /\ ~hasAudio
  /\ Goto("input", "adopt")
  /\ clk' = elapsed
  /\ UNCHANGED <<audio, dpc, mpVars, ringVars, tailSet, tailBase, elapsed,
                 heard, fileVars>>

ClockPrimed ==
  /\ hasAudio
  /\ Goto("input", IF primed \/ decodeEof THEN "played" ELSE "adopt")
  /\ clk' = IF primed \/ decodeEof THEN clk ELSE -1
  /\ UNCHANGED <<audio, dpc, mpVars, ringVars, tailSet, tailBase, elapsed,
                 heard, fileVars>>

ClockPlayed ==
  /\ Goto("played", "tail")
  /\ heard' = played
  /\ UNCHANGED <<audio, dpc, mpVars, ringVars, tailSet, tailBase, elapsed,
                 clk, fileVars>>

\* Mutant: the tail starts from zero instead of from the sound's end.
TailBaseZero(now) == 0
TailBase(now) == now

(* Once the sound has run out the wall clock carries on from there. *)
ClockTail ==
  /\ Goto("tail", "adopt")
  /\ IF decodeEof /\ count = 0
     THEN /\ tailSet' = TRUE
          /\ tailBase' = IF tailSet THEN tailBase ELSE TailBase(heard)
          /\ elapsed' = IF tailSet THEN elapsed ELSE 0
          /\ clk' = tailBase' + elapsed'
     ELSE /\ clk' = heard
          /\ UNCHANGED <<tailSet, tailBase, elapsed>>
  /\ UNCHANGED <<audio, dpc, mpVars, ringVars, heard, fileVars>>

(* The frames the loop of movie_render takes: the first of all without     *)
(* looking at the clock, then those that are due; the last one taken is    *)
(* uploaded, the others are skipped, and a waiting decoder is signalled.   *)
At(i) == frames[Wrap(vread + i)]
FirstUnseen == ~shown /\ vcount > 0
Taken ==
  LET start == IF FirstUnseen THEN 1 ELSE 0
      due(n) == \A i \in start..(n - 1) : clk >= 0 /\ Due(At(i)) <= clk
  IN CHOOSE n \in start..vcount :
       due(n) /\ \A m \in (n + 1)..vcount : ~due(m)

\* Mutant: nobody wakes the decoder when slots become free.
SignalledForgotten == dpc
Signalled == IF dpc = "wait" THEN "video" ELSE dpc

Adopt ==
  /\ Goto("adopt", "poll")
  /\ IF Taken > 0
     THEN /\ last' = At(Taken - 1)
          /\ vread' = Wrap(vread + Taken)
          /\ vcount' = vcount - Taken
          /\ shown' = TRUE
          /\ dpc' = Signalled
     ELSE UNCHANGED <<last, vread, vcount, shown, dpc>>
  /\ UNCHANGED <<audio, mpActive, stopReq, decodeEof, hasAudio, primed, alloc,
                 frames, vwrite, pushed, clockVars, fileVars>>

-----------------------------------------------------------------------------
(* movie_stop and free_session, on the main thread.                        *)

Stop ==
  /\ Goto("stop", "wake")
  /\ stopReq' = TRUE
  /\ UNCHANGED <<audio, dpc, mpActive, decodeEof, hasAudio, primed, shown,
                 alloc, ringVars, clockVars, fileVars>>

\* Mutant: the waiting decoder is not woken.
WakeForgotten ==
  /\ Goto("wake", IF hasAudio THEN "end" ELSE "join")
  /\ UNCHANGED <<audio, dpc, mpVars, ringVars, clockVars, fileVars>>

Wake ==
  /\ Goto("wake", IF hasAudio THEN "end" ELSE "join")
  /\ dpc' = IF dpc = "wait" THEN "video" ELSE dpc
  /\ UNCHANGED <<audio, mpVars, ringVars, clockVars, fileVars>>

StopEnd ==
  /\ Goto("end", "close")
  /\ A!EndReset
  /\ UNCHANGED <<dpc, mpVars, ringVars, clockVars, fileVars>>

StopClose ==
  /\ Goto("close", "join")
  /\ A!EndClose
  /\ UNCHANGED <<dpc, mpVars, ringVars, clockVars, fileVars>>

\* Mutant: the decoder thread is not waited for.
JoinableAlways == TRUE
Joinable == dpc = "done"

Join ==
  /\ Goto("join", "freeEnd")
  /\ Joinable
  /\ UNCHANGED <<audio, dpc, mpVars, ringVars, clockVars, fileVars>>

(* free_session ends the sound once more, releases everything and clears mp. *)
FreeEnd ==
  /\ Goto("freeEnd", IF hasAudio THEN "freeClose" ELSE "free")
  /\ IF hasAudio THEN A!EndReset ELSE UNCHANGED audio
  /\ UNCHANGED <<dpc, mpVars, ringVars, clockVars, fileVars>>

FreeClose ==
  /\ Goto("freeClose", "free")
  /\ A!EndClose
  /\ UNCHANGED <<dpc, mpVars, ringVars, clockVars, fileVars>>

Free ==
  /\ Goto("free", "idle")
  /\ alloc' = FALSE
  /\ mpActive' = FALSE
  /\ ClearFlags /\ ClearRing /\ ClearClock
  /\ dpc' = IF dpc = "done" THEN "none" ELSE dpc
  /\ UNCHANGED <<audio, pushed, last, elapsed, heard, clk, fileVars>>

MainNext ==
  \/ PlayFails \/ SetupSilent \/ SetupBegin \/ SetupBegun \/ SetupDone
  \/ SetupUndo \/ SetupUndone \/ Spawn \/ SpawnFails
  \/ PollFrames \/ PollAudio \/ ClockWall \/ ClockPrimed \/ ClockPlayed
  \/ ClockTail \/ Adopt
  \/ Stop \/ Wake \/ StopEnd \/ StopClose \/ Join \/ FreeEnd \/ FreeClose
  \/ Free

-----------------------------------------------------------------------------
(* The decoder thread.                                                     *)

DGoto(here, there) == dpc = here /\ dpc' = there

(* decoder_main reads the next unit; drain_codec looks at stop_req again   *)
(* before the frame is pushed.  Sound nobody plays is dropped.             *)
ReadUnit ==
  /\ ~stopReq
  /\ pos < Len(file)
  /\ pos' = pos + 1
  /\ DGoto("read", IF file[pos + 1] = "audio" /\ ~hasAudio
                   THEN "read" ELSE file[pos + 1])
  /\ UNCHANGED <<audio, mpc, mpVars, ringVars, clockVars, file, sessions>>

ReadEnds ==
  /\ stopReq \/ pos = Len(file)
  /\ DGoto("read", "finPrimed")
  /\ UNCHANGED <<audio, mpc, mpVars, ringVars, clockVars, fileVars>>

DropUnit ==
  /\ stopReq
  /\ \E here \in {"video", "audio"} : DGoto(here, "read")
  /\ UNCHANGED <<audio, mpc, mpVars, ringVars, clockVars, fileVars>>

\* Mutant: the room in the ring is off by one.
RingFullLate == vcount > NUM_VFRAMES
(* push_video_frame: with every slot taken the decoder waits on            *)
(* can_produce, which gives mp.lock back in the same step.                 *)
RingFull == vcount = NUM_VFRAMES

PushWaits ==
  /\ ~stopReq /\ RingFull
  /\ DGoto("video", "wait")
  /\ UNCHANGED <<audio, mpc, mpVars, ringVars, clockVars, fileVars>>

(* External: cnd_wait may return without a signal. *)
SpuriousWake ==
  /\ DGoto("wait", "video")
  /\ UNCHANGED <<audio, mpc, mpVars, ringVars, clockVars, fileVars>>

PushFrame ==
  /\ ~stopReq /\ ~RingFull
  /\ DGoto("video", "read")
  /\ frames' = [frames EXCEPT ![vwrite] = pushed + 1]
  /\ pushed' = pushed + 1
  /\ vwrite' = Wrap(vwrite + 1)
  /\ vcount' = vcount + 1
  /\ UNCHANGED <<audio, mpc, mpVars, vread, last, clockVars, fileVars>>

(* push_audio_frame: opensles_movie_queue, then the prefill test; 0 frames *)
(* queued (the session has ended) skip the test.                           *)
PushSound ==
  /\ ~stopReq
  /\ DGoto("audio", "queue")
  /\ A!QueueCall(APACKET)
  /\ UNCHANGED <<mpc, mpVars, ringVars, clockVars, fileVars>>

PushChunk ==
  /\ dpc = "queue"
  /\ A!QueueChunk
  /\ UNCHANGED <<mpc, dpc, mpVars, ringVars, clockVars, fileVars>>

PushedSound ==
  /\ DGoto("queue", IF done > 0 THEN "prime" ELSE "read")
  /\ A!QueueReturn
  /\ UNCHANGED <<mpc, mpVars, ringVars, clockVars, fileVars>>

Prefilled == queued >= PREFILL

Prime ==
  /\ DGoto("prime", "read")
  /\ IF ~primed /\ Prefilled
     THEN primed' = TRUE /\ A!SetPaused(FALSE)
     ELSE UNCHANGED <<primed, audio>>
  /\ UNCHANGED <<mpc, mpActive, stopReq, decodeEof, hasAudio, shown, alloc,
                 ringVars, clockVars, fileVars>>

(* The end of decoder_main: three stores without mp.lock. *)
FinPrimed ==
  /\ DGoto("finPrimed", "finEof")
  /\ primed' = TRUE
  /\ UNCHANGED <<audio, mpc, mpActive, stopReq, decodeEof, hasAudio, shown,
                 alloc, ringVars, clockVars, fileVars>>

FinEof ==
  /\ DGoto("finEof", IF hasAudio THEN "finPlay" ELSE "done")
  /\ decodeEof' = TRUE
  /\ UNCHANGED <<audio, mpc, mpActive, stopReq, hasAudio, primed, shown,
                 alloc, ringVars, clockVars, fileVars>>

FinPlay ==
  /\ DGoto("finPlay", "done")
  /\ A!SetPaused(FALSE)
  /\ UNCHANGED <<mpc, mpVars, ringVars, clockVars, fileVars>>

DecoderNext ==
  \/ ReadUnit \/ ReadEnds \/ DropUnit \/ PushWaits \/ PushFrame \/ PushSound
  \/ PushChunk \/ PushedSound \/ Prime \/ FinPrimed \/ FinEof \/ FinPlay

-----------------------------------------------------------------------------
AudioNext == /\ A!MixNext
             /\ UNCHANGED <<mpc, dpc, mpVars, ringVars, clockVars, fileVars>>

(* The wall clock matters only while movie_clock reads it. *)
Tick == /\ mpActive
        /\ hasAudio => tailSet
        /\ elapsed < MaxTick
        /\ elapsed' = elapsed + 1
        /\ UNCHANGED <<audio, mpc, dpc, mpVars, ringVars, tailSet, tailBase,
                       heard, clk, fileVars>>

(* External: without a movie the game may open the device for itself. *)
GameStarts == /\ mpc = "idle"
              /\ A!GameOpensDevice
              /\ UNCHANGED <<mpc, dpc, mpVars, ringVars, clockVars, fileVars>>

(* The end of main: opensles_shutdown. *)
Shutdown ==
  /\ mpc = "idle"
  /\ A!ShutdownEnd \/ A!ShutdownGiveBack \/ A!ShutdownFree \/ A!ShutdownClose
  /\ UNCHANGED <<mpc, dpc, mpVars, ringVars, clockVars, fileVars>>

Finished == /\ call = "down"
            /\ UNCHANGED vars

Next == Play \/ Quit \/ GameStarts \/ MainNext \/ DecoderNext \/ SpuriousWake \/ AudioNext \/ Tick
        \/ Shutdown \/ Finished

Spec == Init /\ [][Next]_vars

(* Each thread runs on, SDL calls back and time passes.  Closing the device *)
(* waits for a callback that ends again and again (strong fairness; SDL     *)
(* then starts no further one).  Nobody has to press a button, and the      *)
(* loop does not wait for one.                                              *)
Fairness == /\ WF_vars(MainNext)
            /\ SF_vars(StopClose) /\ SF_vars(FreeClose)
            /\ SF_vars(SetupUndone)
            /\ WF_vars(DecoderNext)
            /\ WF_vars(AudioNext) /\ WF_vars(Tick)

FairSpec == Spec /\ Fairness

-----------------------------------------------------------------------------
(* Properties.                                                             *)

MainPcs == {"idle", "setup", "begin", "swr", "undo", "spawn", "poll",
            "pollAudio", "input", "played", "tail", "adopt", "stop", "wake",
            "end", "close", "join", "freeEnd", "freeClose", "free"}
DecoderPcs == {"none", "read", "video", "wait", "audio", "queue", "prime",
               "finPrimed", "finEof", "finPlay", "done"}

(* The properties of the sound path under the real decoder and main thread: *)
(* the PCM ring holds exactly the unplayed frames of the session; the      *)
(* device is as the game left it before and after every movie; the         *)
(* decoder's call to queue sound returns once the sound is not paused.     *)
SoundRingHoldsUnplayed == A!RingHoldsUnplayed
SoundDeviceHandedBack == A!DeviceHandedBack
SoundQueueReturns == A!QueueReturns

(* Every variable of the player keeps its type. *)
TypeOK ==
  /\ A!TypeOK
  /\ mpc \in MainPcs /\ dpc \in DecoderPcs
  /\ {mpActive, stopReq, decodeEof, hasAudio, primed, shown, alloc, tailSet}
       \subseteq BOOLEAN
  /\ frames \in [VSlots -> Nat]
  /\ vread \in VSlots /\ vwrite \in VSlots /\ vcount \in 0..NUM_VFRAMES
  /\ pos \in 0..Len(file) /\ sessions \in 0..MaxSessions
  /\ elapsed \in 0..MaxTick /\ tailBase \in Nat
  /\ heard \in Nat /\ clk \in Nat \cup {-1}
  /\ pushed \in Nat /\ last \in Nat

(* The ring of mp.frames holds exactly the frames pushed and not yet taken *)
(* from frame_read on, so movie_render never shows a slot the decoder has  *)
(* overwritten and never goes back to an earlier frame.                    *)
FramesInOrder ==
  alloc => /\ \A i \in 0..(vcount - 1) : At(i) = pushed - vcount + i + 1
           /\ last = pushed - vcount

(* free_session releases nothing under a decoder that still runs: its      *)
(* buffers, codecs and locks outlive decoder_main (245-259, 225-243).      *)
SessionOutlivesDecoder == dpc \notin {"none", "done"} => alloc

(* When the movie ends by itself (movie_is_playing, 391-398) every frame   *)
(* of the file has been shown or overtaken and all of its sound played,    *)
(* although the decoder's end, the last frames and the last sound are seen *)
(* by three separate readings.                                             *)
Units(kind) == Cardinality({i \in 1..Len(file) : file[i] = kind})
NaturalEndIsTheEnd ==
  [][mpc = "pollAudio" /\ mpc' = "stop" =>
       /\ last = Units("video")
       /\ hasAudio => played = Units("audio") * APACKET]_vars

(* The clock the frames are shown by never runs backwards in a session,    *)
(* through the prefill, the sound and the silent tail (86-108).            *)
ClockNeverGoesBack ==
  [][mpc # "idle" => clk' >= clk]_vars

(* movie_stop always ends, whatever the decoder is waiting for: room for a *)
(* frame, room for sound, or nothing (245-259).                            *)
StopTerminates == mpc = "stop" ~> mpc = "idle"

(* By the time the decoder has to wait for frame k - NUM_VFRAMES to be     *)
(* taken, enough sound is queued to start the clock and to reach it.       *)
SoundBefore(i) == APACKET * Cardinality({j \in 1..(i - 1) : file[j] = "audio"})
FrameNumber(i) == Cardinality({j \in 1..i : file[j] = "video"})
CloselyInterleaved ==
  \A i \in 1..Len(file) :
    file[i] = "video" /\ FrameNumber(i) >= NUM_VFRAMES + 2 =>
      /\ SoundBefore(i) >= PREFILL
      /\ SoundBefore(i) >= Due(FrameNumber(i) - NUM_VFRAMES)

(* A movie that nobody skips ends, provided it is silent or its sound and  *)
(* frames are interleaved closely enough for the two rings: no decoder     *)
(* waiting for room, clock waiting for sound and loop waiting for the      *)
(* clock hold each other up (126-172, 86-108, 428-452).                    *)
MovieEnds ==
  (mpc = "poll" /\ (hasAudio => CloselyInterleaved)) ~> mpc = "idle"
=============================================================================
