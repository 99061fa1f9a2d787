------------------------- MODULE MoviePlayerProofs -------------------------
(***************************************************************************)
(* The movie is right for rings, packets, files and clocks of every size:  *)
(* the sound path under the real decoder and main thread implements        *)
(* MovieAudio, and no interleaving of the three threads disorders the frames, *)
(* turns the clock back or cuts the end off.                               *)
(*                                                                         *)
(* The argument has two layers.  AudioInv is about MovieAudio's variables  *)
(* alone; that it is inductive needs that a session owns its device and its *)
(* lock (SessionOpen, DeviceOwned), and every step of the player keeps it  *)
(* because it is a step of MovieAudio or none of its own.  IInv adds where *)
(* the threads may be together (Places), that the writer's index follows the *)
(* reader's (WriteFollows), what each of movie_clock's readings may assume of *)
(* the earlier ones (ClockRuns) and, for the end of a movie, that each unit *)
(* the decoder has read is in a ring, in its hands or played (AllDelivered *)
(* with CallFits, SetupFits and LoopFits).                                 *)
(***************************************************************************)
EXTENDS MoviePlayer, FiniteSetTheorems, WellFoundedInduction, TLAPS

-----------------------------------------------------------------------------
(* Indices of a ring stay in the ring.                                     *)
LEMMA ModRange ==
  ASSUME NEW n \in Nat \ {0}, NEW a \in Nat
  PROVE  a % n \in 0..(n - 1)
OBVIOUS

-----------------------------------------------------------------------------
(* The sound path.                                                         *)

SessionOpen ==
  /\ active => call = "none"
  /\ active \/ call = "begin" => mlock = "free" /\ havePcm /\ dev
DeviceOwned ==
  /\ dev <=> gameDev \/ openedDev
  /\ call = "none" /\ ~active => ~openedDev
  /\ call \in {"sdFree", "sdClose", "down"} => ~openedDev

AudioInv ==
  A!TypeOK /\ A!RingHoldsUnplayed /\ SessionOpen /\ DeviceOwned

(* Every step of the player is a step of MovieAudio or none of its own.    *)
LEMMA StepsOfMovieAudio == [Next]_vars => [A!Next]_audio
<1> SUFFICES ASSUME Next, ~UNCHANGED audio PROVE A!Next
  BY DEF vars
<1>1. CASE Play \/ Quit \/ Tick \/ SpuriousWake \/ Finished
  BY <1>1 DEF Play, Quit, Tick, SpuriousWake, Finished, vars
<1>2. CASE GameStarts \/ Shutdown \/ AudioNext
  BY <1>2 DEF GameStarts, Shutdown, AudioNext, A!Next, A!MainNext
<1>3. CASE MainNext
  <2>1. CASE SetupSilent \/ SetupBegin \/ SetupBegun \/ SetupUndo \/ SetupUndone
             \/ StopEnd \/ StopClose \/ FreeEnd \/ FreeClose
    BY <2>1 DEF SetupSilent, SetupBegin, SetupBegun, SetupUndo, SetupUndone,
      StopEnd, StopClose, FreeEnd, FreeClose, A!Next, A!MainNext
  <2>2. CASE PlayFails \/ SetupDone \/ Spawn \/ SpawnFails \/ PollFrames \/ PollAudio
             \/ ClockWall \/ ClockPrimed \/ ClockPlayed \/ ClockTail \/ Adopt
             \/ Stop \/ Wake \/ Join \/ Free
    BY <2>2 DEF PlayFails, SetupDone, Spawn, SpawnFails, PollFrames, PollAudio,
      ClockWall, ClockPrimed, ClockPlayed, ClockTail, Adopt, Stop, Wake, Join, Free
  <2> QED
    BY <1>3, <2>1, <2>2 DEF MainNext
<1>4. CASE DecoderNext
  <2>1. CASE PushSound
    BY <2>1, PlayerSizesAssumption DEF PushSound, A!Next
  <2>2. CASE PushChunk \/ PushedSound
    BY <2>2 DEF PushChunk, PushedSound, A!Next
  <2>3. CASE Prime \/ FinPlay
    BY <2>3 DEF Prime, FinPlay, A!Next
  <2>4. CASE ReadUnit \/ ReadEnds \/ DropUnit \/ PushWaits \/ PushFrame \/ FinPrimed \/ FinEof
    BY <2>4 DEF ReadUnit, ReadEnds, DropUnit, PushWaits, PushFrame, FinPrimed, FinEof
  <2> QED
    BY <1>4, <2>1, <2>2, <2>3, <2>4 DEF DecoderNext
<1> QED
  BY <1>1, <1>2, <1>3, <1>4 DEF Next

(* A chunk fits in the ring and in the call, leaves the frames already     *)
(* there alone and continues their numbering.                              *)
LEMMA ChunkFits ==
  ASSUME AudioInv, A!QueueChunk
  PROVE  /\ A!Chunk \in Nat /\ done + A!Chunk <= want /\ count + A!Chunk <= RING
         /\ \A j \in 0..(count - 1) : pcm'[(head + j) % RING] = pcm[(head + j) % RING]
         /\ \A j \in count..(count + A!Chunk - 1) :
              pcm'[(head + j) % RING] = queued + (j - count) + 1
<1>1. /\ RING \in Nat \ {0} /\ head \in 0..(RING - 1) /\ count \in 0..RING
      /\ queued \in Nat /\ want \in Nat /\ done \in 0..want /\ done < want
  BY PlayerSizesAssumption DEF AudioInv, A!TypeOK, A!Slots, A!QueueChunk
<1> DEFINE c == A!Chunk
           Back(s) == (s - head - count + 2 * RING) % RING
<1>2. c \in Nat /\ done + c <= want /\ count + c <= RING
  BY <1>1 DEF A!Chunk, A!Lesser
<1>3. pcm' = [s \in 0..(RING - 1) |-> IF Back(s) < c THEN queued + Back(s) + 1 ELSE pcm[s]]
  BY DEF A!QueueChunk, A!Slots
<1> HIDE DEF c
<1>4. ASSUME NEW j \in 0..(RING - 1)
      PROVE  /\ (head + j) % RING \in 0..(RING - 1)
             /\ Back((head + j) % RING) = IF j < count THEN j - count + RING ELSE j - count
  <2>1. CASE head + j < RING
    <3>1. (head + j) % RING = head + j
      BY <1>1, <2>1
    <3>2. CASE j < count
      <4>1. Back(head + j) = (j - count + 2 * RING) % RING
        BY <1>1
      <4>2. (j - count + 2 * RING) % RING = j - count + 2 * RING - RING
        BY <1>1, <3>2
      <4> QED
        BY <1>1, <2>1, <3>1, <3>2, <4>1, <4>2
    <3>3. CASE j >= count
      <4>1. Back(head + j) = (j - count + 2 * RING) % RING
        BY <1>1
      <4>2. (j - count + 2 * RING) % RING = j - count + 2 * RING - 2 * RING
        BY <1>1, <3>3
      <4> QED
        BY <1>1, <2>1, <3>1, <3>3, <4>1, <4>2
    <3> QED
      BY <1>1, <3>2, <3>3
  <2>2. CASE head + j >= RING
    <3>1. (head + j) % RING = head + j - RING
      BY <1>1, <2>2
    <3>2. Back(head + j - RING) = (j - count + RING) % RING
      BY <1>1
    <3>3. CASE j < count
      <4>1. (j - count + RING) % RING = j - count + RING
        BY <1>1, <3>3
      <4> QED
        BY <1>1, <2>2, <3>1, <3>2, <3>3, <4>1
    <3>4. CASE j >= count
      <4>1. (j - count + RING) % RING = j - count + RING - RING
        BY <1>1, <3>4
      <4> QED
        BY <1>1, <2>2, <3>1, <3>2, <3>4, <4>1
    <3> QED
      BY <1>1, <3>3, <3>4
  <2> QED
    BY <1>1, <2>1, <2>2
<1> HIDE DEF Back
<1>5. ASSUME NEW j \in 0..(count - 1)
      PROVE  pcm'[(head + j) % RING] = pcm[(head + j) % RING]
  BY <1>1, <1>2, <1>3, <1>4
<1>6. ASSUME NEW j \in count..(count + c - 1)
      PROVE  pcm'[(head + j) % RING] = queued + (j - count) + 1
  BY <1>1, <1>2, <1>3, <1>4
<1> QED
  BY <1>2, <1>5, <1>6 DEF c

(* No session, no device.                                                  *)
LEMMA InitAudioInv == Init => AudioInv
<1> SUFFICES ASSUME A!Init PROVE AudioInv
  BY DEF Init
<1>1. A!TypeOK
  <2>1. /\ pcm \in [A!Slots -> Nat] /\ head \in A!Slots /\ count \in 0..RING
        /\ queued \in Nat /\ played \in Nat /\ want \in Nat /\ done \in 0..want
    BY PlayerSizesAssumption DEF A!Init, A!Slots
  <2>2. /\ mlock \in {"absent", "free", "gone"} /\ call \in A!Calls
        /\ havePcm \in BOOLEAN /\ active \in BOOLEAN /\ paused \in BOOLEAN
        /\ mixing \in BOOLEAN /\ {openedDev, dev, gameDev} \subseteq BOOLEAN
    BY DEF A!Init, A!Calls
  <2> QED
    BY <2>1, <2>2 DEF A!TypeOK
<1>2. A!RingHoldsUnplayed /\ SessionOpen /\ DeviceOwned
  BY DEF A!Init, A!RingHoldsUnplayed, SessionOpen, DeviceOwned
<1> QED
  BY <1>1, <1>2 DEF AudioInv

(* The audio thread takes frames from the head only.                       *)
LEMMA MixKeeps ==
  ASSUME AudioInv, A!MixNext
  PROVE  AudioInv'
<1>1. /\ RING \in Nat \ {0} /\ head \in 0..(RING - 1) /\ count \in 0..RING
      /\ queued \in Nat /\ played \in Nat /\ Period \in Nat \ {0}
  BY PlayerSizesAssumption DEF AudioInv, A!TypeOK, A!Slots
<1>2. CASE A!MixEnter \/ A!MixNothing
  <2>1. /\ mixing' \in BOOLEAN
        /\ UNCHANGED <<mlock, havePcm, pcm, head, count, queued, played, active, paused>>
        /\ UNCHANGED <<openedDev, dev, gameDev, want, done, call>>
    BY <1>2 DEF A!MixEnter, A!MixNothing, A!ringVars, A!devVars, A!callVars
  <2>2. A!TypeOK'
    BY <2>1 DEF AudioInv, A!TypeOK
  <2> QED
    BY <2>1, <2>2 DEF AudioInv, A!RingHoldsUnplayed, SessionOpen, DeviceOwned
<1>3. CASE A!MixFrames
  <2> DEFINE n == A!Lesser(count, Period)
  <2>1. /\ head' = (head + n) % RING /\ count' = count - n /\ played' = played + n
        /\ mixing' = FALSE
        /\ UNCHANGED <<mlock, havePcm, pcm, queued, active, paused>>
        /\ UNCHANGED <<openedDev, dev, gameDev, want, done, call>>
    BY <1>3 DEF A!MixFrames, A!devVars, A!callVars
  <2>2. n \in Nat /\ n <= count
    BY <1>1 DEF A!Lesser
  <2> HIDE DEF n
  <2>3. (head + n) % RING \in 0..(RING - 1)
    BY <1>1, <2>2, ModRange
  <2>4. A!TypeOK'
    <3>1. head' \in A!Slots /\ count' \in 0..RING /\ played' \in Nat
      BY <1>1, <2>1, <2>2, <2>3 DEF A!Slots
    <3> QED
      BY <2>1, <3>1 DEF AudioInv, A!TypeOK
  <2>5. SessionOpen' /\ DeviceOwned'
    BY <2>1 DEF AudioInv, SessionOpen, DeviceOwned
  <2>6. A!RingHoldsUnplayed'
    <3>1. SUFFICES ASSUME active
                   PROVE  /\ queued = (played + n) + (count - n)
                          /\ \A i \in 0..(count - n - 1) :
                               pcm[(((head + n) % RING) + i) % RING] = played + n + i + 1
      BY <2>1 DEF A!RingHoldsUnplayed
    <3>2. /\ queued = played + count
          /\ \A i \in 0..(count - 1) : pcm[(head + i) % RING] = played + i + 1
      BY <3>1 DEF AudioInv, A!RingHoldsUnplayed
    <3>3. ASSUME NEW i \in 0..(count - n - 1)
          PROVE  (((head + n) % RING) + i) % RING = (head + (n + i)) % RING
      <4>1. CASE head + n < RING
        <5>1. (head + n) % RING = head + n
          BY <1>1, <2>2, <4>1
        <5> QED
          BY <1>1, <2>2, <5>1
      <4>2. CASE head + n >= RING
        <5>1. (head + n) % RING = head + n - RING
          BY <1>1, <2>2, <4>2
        <5>2. (head + n - RING + i) % RING = head + n - RING + i
          BY <1>1, <2>2, <4>2
        <5>3. (head + (n + i)) % RING = head + (n + i) - RING
          BY <1>1, <2>2, <4>2
        <5> QED
          BY <1>1, <2>2, <5>1, <5>2, <5>3
      <4> QED
        BY <1>1, <2>2, <4>1, <4>2
    <3>4. ASSUME NEW i \in 0..(count - n - 1)
          PROVE  pcm[(((head + n) % RING) + i) % RING] = played + n + i + 1
      <4>1. n + i \in 0..(count - 1)
        BY <1>1, <2>2
      <4>2. pcm[(head + (n + i)) % RING] = played + (n + i) + 1
        BY <3>2, <4>1
      <4>3. (((head + n) % RING) + i) % RING = (head + (n + i)) % RING
        BY <3>3
      <4>4. played + (n + i) + 1 = played + n + i + 1
        BY <1>1, <2>2
      <4> QED
        BY <4>2, <4>3, <4>4
    <3> QED
      BY <1>1, <2>2, <3>2, <3>4
  <2> QED
    BY <2>4, <2>5, <2>6 DEF AudioInv
<1> QED
  BY <1>2, <1>3 DEF A!MixNext

(* The decoder appends at the tail, and only during a session.             *)
LEMMA DecoderSoundKeeps ==
  ASSUME AudioInv,
         \/ \E n \in Packets : A!QueueCall(n)
         \/ A!QueueChunk \/ A!QueueReturn
         \/ \E on \in BOOLEAN : A!SetPaused(on)
  PROVE  AudioInv'
<1>1. /\ RING \in Nat \ {0} /\ head \in 0..(RING - 1) /\ count \in 0..RING
      /\ queued \in Nat /\ played \in Nat /\ want \in Nat /\ done \in 0..want
  BY PlayerSizesAssumption DEF AudioInv, A!TypeOK, A!Slots
<1>2. ASSUME NEW n \in Packets, A!QueueCall(n) PROVE AudioInv'
  <2>1. /\ want' \in Nat /\ done' \in 0..want'
        /\ UNCHANGED <<mlock, havePcm, pcm, head, count, queued, played, active, paused>>
        /\ UNCHANGED <<openedDev, dev, gameDev, mixing, call>>
    BY <1>2, PlayerSizesAssumption DEF A!QueueCall, A!ringVars, A!devVars
  <2>2. A!TypeOK'
    BY <2>1 DEF AudioInv, A!TypeOK
  <2> QED
    BY <2>1, <2>2 DEF AudioInv, A!RingHoldsUnplayed, SessionOpen, DeviceOwned
<1>3. CASE A!QueueReturn
  <2>1. /\ want' \in Nat /\ done' \in 0..want'
        /\ UNCHANGED <<mlock, havePcm, pcm, head, count, queued, played, active, paused>>
        /\ UNCHANGED <<openedDev, dev, gameDev, mixing, call>>
    BY <1>3 DEF A!QueueReturn, A!ringVars, A!devVars
  <2>2. A!TypeOK'
    BY <2>1 DEF AudioInv, A!TypeOK
  <2> QED
    BY <2>1, <2>2 DEF AudioInv, A!RingHoldsUnplayed, SessionOpen, DeviceOwned
<1>4. ASSUME NEW on \in BOOLEAN, A!SetPaused(on) PROVE AudioInv'
  <2>1. /\ paused' \in BOOLEAN
        /\ UNCHANGED <<mlock, havePcm, pcm, head, count, queued, played, active, mixing>>
        /\ UNCHANGED <<openedDev, dev, gameDev, want, done, call>>
    BY <1>4 DEF A!SetPaused, A!ringVars, A!devVars, A!callVars, AudioInv, A!TypeOK
  <2>2. A!TypeOK'
    BY <2>1 DEF AudioInv, A!TypeOK
  <2> QED
    BY <2>1, <2>2 DEF AudioInv, A!RingHoldsUnplayed, SessionOpen, DeviceOwned
<1>5. CASE A!QueueChunk
  <2> DEFINE c == A!Chunk
  <2>1. /\ c \in Nat /\ done + c <= want /\ count + c <= RING
        /\ \A j \in 0..(count - 1) : pcm'[(head + j) % RING] = pcm[(head + j) % RING]
        /\ \A j \in count..(count + c - 1) :
             pcm'[(head + j) % RING] = queued + (j - count) + 1
    BY <1>5, ChunkFits
  <2>2. /\ count' = count + c /\ queued' = queued + c /\ done' = done + c /\ active
        /\ UNCHANGED <<mlock, havePcm, head, played, active, paused, mixing>>
        /\ UNCHANGED <<openedDev, dev, gameDev, want, call>>
    BY <1>5 DEF A!QueueChunk, A!devVars
  <2>3. pcm' \in [A!Slots -> Nat]
    <3>1. \A s \in A!Slots : (s - head - count + 2 * RING) % RING \in Nat
      BY <1>1 DEF A!Slots
    <3> QED
      BY <1>1, <1>5, <3>1 DEF A!QueueChunk, AudioInv, A!TypeOK
  <2> HIDE DEF c
  <2>4. A!TypeOK'
    <3>1. count' \in 0..RING /\ queued' \in Nat /\ done' \in 0..want'
      BY <1>1, <2>1, <2>2
    <3> QED
      BY <2>2, <2>3, <3>1 DEF AudioInv, A!TypeOK
  <2>5. SessionOpen' /\ DeviceOwned'
    BY <2>2 DEF AudioInv, SessionOpen, DeviceOwned
  <2>6. A!RingHoldsUnplayed'
    <3>1. /\ queued = played + count
          /\ \A i \in 0..(count - 1) : pcm[(head + i) % RING] = played + i + 1
      BY <2>2 DEF AudioInv, A!RingHoldsUnplayed
    <3>2. queued' = played' + count'
      BY <1>1, <2>1, <2>2, <3>1
    <3>3. ASSUME NEW i \in 0..(count' - 1)
          PROVE  pcm'[(head' + i) % RING] = played' + i + 1
      <4>1. CASE i < count
        <5>1. i \in 0..(count - 1)
          BY <1>1, <2>1, <2>2, <4>1
        <5> QED
          BY <2>1, <2>2, <3>1, <5>1
      <4>2. CASE i >= count
        <5>1. i \in count..(count + c - 1)
          BY <1>1, <2>1, <2>2, <4>2
        <5>2. queued + (i - count) + 1 = played + i + 1
          BY <1>1, <3>1, <5>1
        <5> QED
          BY <2>1, <2>2, <5>1, <5>2
      <4> QED
        BY <1>1, <4>1, <4>2
    <3> QED
      BY <3>2, <3>3 DEF A!RingHoldsUnplayed
  <2> QED
    BY <2>4, <2>5, <2>6 DEF AudioInv
<1> QED
  BY <1>2, <1>3, <1>4, <1>5

(* What the steps below leave alone. *)
RingKept ==
  UNCHANGED <<pcm, head, count, queued, played, want, done, mixing>>
DeviceKept == UNCHANGED <<openedDev, dev, gameDev>>

(* Sessions begin with an empty ring over an open device, and the device   *)
(* the movie opened is closed when they end.                               *)
LEMMA MainSoundKeeps ==
  ASSUME AudioInv, A!MainNext \/ A!GameOpensDevice
  PROVE  AudioInv'
<1>0. /\ A!TypeOK /\ A!RingHoldsUnplayed /\ SessionOpen /\ DeviceOwned
      /\ RING \in Nat \ {0} /\ 0 \in A!Slots /\ 0 \in 0..RING
  BY PlayerSizesAssumption DEF AudioInv, A!Slots
<1>1. CASE A!BeginFail
  <2>1. /\ RingKept /\ DeviceKept /\ UNCHANGED <<active, paused, call>> /\ ~active /\ call = "none"
        /\ mlock' \in {"absent", "free", "gone"} /\ havePcm' \in BOOLEAN
    BY <1>0, <1>1 DEF A!BeginFail, A!devVars, A!callVars, RingKept, DeviceKept, A!TypeOK
  <2>2. A!TypeOK'
    BY <1>0, <2>1 DEF A!TypeOK, RingKept, DeviceKept
  <2> QED
    BY <1>0, <2>1, <2>2 DEF AudioInv, A!RingHoldsUnplayed, SessionOpen, DeviceOwned, DeviceKept
<1>2. CASE A!BeginOpen
  <2>1. /\ RingKept /\ UNCHANGED <<active, paused, gameDev>> /\ ~active
        /\ mlock' = "free" /\ havePcm' = TRUE /\ call = "none" /\ call' = "begin"
        /\ openedDev' = ~dev /\ dev' = TRUE
    BY <1>2 DEF A!BeginOpen, RingKept
  <2>2. dev \in BOOLEAN /\ (dev <=> gameDev)
    BY <1>0, <2>1 DEF A!TypeOK, DeviceOwned
  <2>3. openedDev' \in BOOLEAN /\ (gameDev' \/ openedDev')
    BY <2>1, <2>2
  <2>4. A!TypeOK'
    BY <1>0, <2>1, <2>3 DEF A!TypeOK, RingKept, A!Calls
  <2>5. A!RingHoldsUnplayed' /\ SessionOpen'
    BY <2>1 DEF A!RingHoldsUnplayed, SessionOpen
  <2>6. DeviceOwned'
    BY <2>1, <2>3 DEF DeviceOwned
  <2> QED
    BY <2>4, <2>5, <2>6 DEF AudioInv
<1>3. CASE A!BeginReset
  <2>1. /\ DeviceKept /\ UNCHANGED <<mlock, havePcm, pcm, mixing, want, done>>
        /\ active' = TRUE /\ paused' = TRUE /\ call = "begin" /\ call' = "none"
        /\ head' = 0 /\ count' = 0 /\ queued' = 0 /\ played' = 0
    BY <1>3 DEF A!BeginReset, A!devVars, DeviceKept
  <2>2. A!TypeOK'
    BY <1>0, <2>1 DEF A!TypeOK, DeviceKept, A!Calls
  <2> QED
    BY <1>0, <2>1, <2>2 DEF AudioInv, A!RingHoldsUnplayed, SessionOpen, DeviceOwned, DeviceKept
<1>4. CASE A!EndReset
  <2>1. /\ DeviceKept /\ UNCHANGED <<mlock, havePcm, pcm, queued, played, mixing, want, done>>
        /\ active' = FALSE /\ paused' = FALSE /\ head' = 0 /\ count' = 0
        /\ call = "none" /\ call' = "end"
    BY <1>4 DEF A!EndReset, A!ResetSession, A!devVars, DeviceKept
  <2>2. A!TypeOK'
    BY <1>0, <2>1 DEF A!TypeOK, DeviceKept, A!Calls
  <2> QED
    BY <1>0, <2>1, <2>2 DEF AudioInv, A!RingHoldsUnplayed, SessionOpen, DeviceOwned, DeviceKept
<1>5. CASE A!EndClose \/ A!ShutdownGiveBack
  <2>1. /\ RingKept /\ UNCHANGED <<mlock, havePcm, active, paused>> /\ ~active
        /\ call' \in {"none", "sdFree"} /\ A!GiveBackDevice
    BY <1>0, <1>5 DEF A!EndClose, A!ShutdownGiveBack, A!ringVars, RingKept, SessionOpen
  <2>2. /\ openedDev' = FALSE /\ dev' \in BOOLEAN /\ gameDev' \in BOOLEAN
        /\ dev' <=> gameDev'
    BY <1>0, <2>1 DEF A!GiveBackDevice, A!TypeOK, DeviceOwned
  <2>3. A!TypeOK'
    BY <1>0, <2>1, <2>2 DEF A!TypeOK, RingKept, A!Calls
  <2> QED
    BY <1>0, <2>1, <2>2, <2>3 DEF AudioInv, A!RingHoldsUnplayed, SessionOpen, DeviceOwned
<1>6. CASE A!ShutdownEnd
  <2>1. /\ DeviceKept /\ UNCHANGED <<mlock, havePcm, pcm, queued, played, mixing, want, done>>
        /\ active' = FALSE /\ paused' \in BOOLEAN /\ head' \in A!Slots /\ count' \in 0..RING
        /\ call = "none" /\ call' = "sdGiveBack"
    BY <1>0, <1>6 DEF A!ShutdownEnd, A!ResetSession, A!devVars, DeviceKept, SessionOpen, A!TypeOK
  <2>2. A!TypeOK'
    BY <1>0, <2>1 DEF A!TypeOK, DeviceKept, A!Calls
  <2> QED
    BY <1>0, <2>1, <2>2 DEF AudioInv, A!RingHoldsUnplayed, SessionOpen, DeviceOwned, DeviceKept
<1>7. CASE A!ShutdownFree
  <2>1. /\ DeviceKept /\ RingKept /\ UNCHANGED <<active, paused>> /\ ~active
        /\ havePcm' = FALSE /\ mlock' \in {"absent", "free", "gone"}
        /\ call = "sdFree" /\ call' = "sdClose"
    BY <1>0, <1>7 DEF A!ShutdownFree, A!devVars, DeviceKept, RingKept, SessionOpen, A!TypeOK
  <2>2. A!TypeOK'
    BY <1>0, <2>1 DEF A!TypeOK, DeviceKept, RingKept, A!Calls
  <2> QED
    BY <1>0, <2>1, <2>2 DEF AudioInv, A!RingHoldsUnplayed, SessionOpen, DeviceOwned, DeviceKept
<1>8. CASE A!ShutdownClose
  <2>1. /\ RingKept /\ UNCHANGED <<mlock, havePcm, active, paused, openedDev>> /\ ~active
        /\ dev' = FALSE /\ gameDev' = FALSE /\ call = "sdClose" /\ call' = "down"
    BY <1>0, <1>8 DEF A!ShutdownClose, A!ringVars, RingKept, SessionOpen
  <2>2. A!TypeOK'
    BY <1>0, <2>1 DEF A!TypeOK, RingKept, A!Calls
  <2> QED
    BY <1>0, <2>1, <2>2 DEF AudioInv, A!RingHoldsUnplayed, SessionOpen, DeviceOwned
<1>9. CASE A!GameOpensDevice
  <2>1. /\ RingKept /\ UNCHANGED <<mlock, havePcm, active, paused, openedDev, call>> /\ ~dev
        /\ dev' = TRUE /\ gameDev' = TRUE /\ call = "none"
    BY <1>9 DEF A!GameOpensDevice, A!ringVars, A!callVars, RingKept
  <2>2. A!TypeOK'
    BY <1>0, <2>1 DEF A!TypeOK, RingKept
  <2> QED
    BY <1>0, <2>1, <2>2 DEF AudioInv, A!RingHoldsUnplayed, SessionOpen, DeviceOwned, RingKept
<1> QED
  BY <1>1, <1>2, <1>3, <1>4, <1>5, <1>6, <1>7, <1>8, <1>9 DEF A!MainNext

(* The invariant of the sound path is inductive for the player.            *)
LEMMA NextAudioInv == AudioInv /\ [Next]_vars => AudioInv'
<1> SUFFICES ASSUME AudioInv, [A!Next]_audio PROVE AudioInv'
  BY StepsOfMovieAudio
<1>1. CASE A!Next
  BY <1>1, MixKeeps, MainSoundKeeps, DecoderSoundKeeps DEF A!Next
<1>2. CASE UNCHANGED audio
  <2>1. A!TypeOK'
    BY <1>2 DEF audio, AudioInv, A!TypeOK
  <2> QED
    BY <1>2, <2>1 DEF audio, AudioInv, A!RingHoldsUnplayed, SessionOpen, DeviceOwned
<1> QED
  BY <1>1, <1>2

(* The player uses opensles_movie_* as MovieAudio assumes: one session at  *)
(* a time, one decoder, no call after the end of the sound.                *)
THEOREM SoundPathRefined == Spec => A!Spec
<1>1. Init => A!Init
  BY DEF Init
<1>2. [Next]_vars => [A!Next]_(A!vars)
  BY StepsOfMovieAudio DEF audio, A!vars, A!ringVars, A!devVars, A!callVars
<1> QED
  BY <1>1, <1>2, PTL DEF Spec, A!Spec

(* Lines 296-304 and 397-407 of opensles.c: the PCM ring holds exactly the *)
(* frames of the session that have not been played, in order.              *)
THEOREM SoundRingAlways == Spec => []SoundRingHoldsUnplayed
<1>1. AudioInv => SoundRingHoldsUnplayed
  BY DEF AudioInv, SoundRingHoldsUnplayed
<1> QED
  BY InitAudioInv, NextAudioInv, <1>1, PTL DEF Spec

(* Lines 360-384 and 456-480 of opensles.c: between movies the device is   *)
(* open exactly when the game opened it.                                   *)
THEOREM SoundDeviceAlways == Spec => []SoundDeviceHandedBack
<1>1. AudioInv => SoundDeviceHandedBack
  BY DEF AudioInv, SoundDeviceHandedBack, A!DeviceHandedBack, SessionOpen, DeviceOwned, A!TypeOK
<1> QED
  BY InitAudioInv, NextAudioInv, <1>1, PTL DEF Spec

-----------------------------------------------------------------------------
(* The player.                                                             *)

RunningPcs == {"poll", "pollAudio", "input", "played", "tail", "adopt", "stop",
               "wake", "end", "close", "join"}
Places ==
  /\ alloc <=> mpc # "idle"
  /\ dpc \notin {"none", "done"} => mpc \in RunningPcs
  /\ call = "begin" => mpc = "begin"
WriteFollows == vwrite = Wrap(vread + vcount)

SetupPcs == {"setup", "begin", "swr", "undo", "spawn"}
ClockRuns ==
  mpc # "idle" =>
    /\ mpc \in SetupPcs => clk = -1 /\ heard = 0 /\ ~tailSet /\ ~decodeEof
    /\ mpc \in {"played", "tail"} => hasAudio /\ (primed \/ decodeEof)
    /\ heard <= played
    /\ decodeEof => dpc \in {"finPlay", "done"}
    /\ tailSet => decodeEof /\ count = 0
    /\ ~hasAudio => clk <= elapsed
    /\ hasAudio /\ ~primed /\ ~decodeEof => clk = -1
    /\ hasAudio /\ ~tailSet => clk <= heard
    /\ hasAudio /\ tailSet => clk <= tailBase + elapsed

(* The end of a movie: what the decoder has read of the file is in the two *)
(* rings, or in its hands.                                                 *)

Read(kind, n) == Cardinality({i \in 1..n : file[i] = kind})
LoopPcs == {"poll", "pollAudio", "input", "played", "tail", "adopt", "stop"}
VideoInHand == IF dpc \in {"video", "wait"} THEN 1 ELSE 0
SoundInHand == IF dpc = "audio" THEN APACKET ELSE want - done

CallFits ==
  /\ want # 0 => dpc = "queue"
  /\ dpc = "queue" => want = APACKET
SetupFits ==
  /\ mpc \in SetupPcs \cup {"idle"} => dpc = "none"
  /\ mpc \in SetupPcs => pos = 0 /\ pushed = 0 /\ ~stopReq
  /\ mpc \in {"setup", "begin", "swr", "undo"} => ~hasAudio
  /\ mpc = "swr" \/ (mpc = "spawn" /\ hasAudio) => active /\ queued = 0
LoopFits ==
  mpc \in LoopPcs =>
    /\ ~stopReq /\ dpc # "none"
    /\ hasAudio => active
    /\ mpc = "pollAudio" => decodeEof /\ vcount = 0
    /\ dpc \in {"finPrimed", "finEof", "finPlay", "done"} => pos = Len(file)
AllDelivered ==
  mpc \in LoopPcs =>
    /\ pushed + VideoInHand = Read("video", pos)
    /\ hasAudio => queued + SoundInHand = Read("audio", pos) * APACKET

EndInv == CallFits /\ SetupFits /\ LoopFits /\ AllDelivered

IInv ==
  /\ AudioInv /\ TypeOK /\ file \in Seq({"video", "audio"})
  /\ Places /\ WriteFollows /\ FramesInOrder /\ ClockRuns /\ EndInv

(* An index at most once round the ring ahead wraps at most once.          *)
LEMMA Wrapping ==
  ASSUME NEW n \in Nat \ {0}, NEW r \in 0..(n - 1), NEW k \in 0..n
  PROVE  (r + k) % n = IF r + k < n THEN r + k ELSE r + k - n
OBVIOUS

(* The frames movie_render takes are some of those in the ring. *)
LEMMA TakenFromRing ==
  ASSUME vcount \in Nat
  PROVE  Taken \in 0..vcount
<1> DEFINE start == IF FirstUnseen THEN 1 ELSE 0
           due(n) == \A i \in start..(n - 1) : clk >= 0 /\ Due(At(i)) <= clk
           D == {n \in start..vcount : due(n)}
           L == {vcount - n : n \in D}
<1>1. start \in 0..vcount
  BY DEF FirstUnseen
<1>2. due(start)
  BY <1>1
<1> HIDE DEF due
<1>3. start \in D /\ D \subseteq 0..vcount
  BY <1>1, <1>2
<1>4. L # {} /\ L \subseteq Nat
  BY <1>3
<1>5. PICK l \in L : \A k \in L : <<k, l>> \notin OpToRel(<, Nat)
  BY <1>4, NatLessThanWellFounded, WFMin
<1>6. PICK n \in D : l = vcount - n
  BY <1>5
<1>7. ASSUME NEW m \in (n + 1)..vcount, due(m) PROVE FALSE
  <2>1. m \in D /\ vcount - m \in L
    BY <1>1, <1>3, <1>6, <1>7
  <2>2. vcount - m \in Nat /\ l \in Nat /\ vcount - m < l
    BY <1>3, <1>6, <1>7
  <2>3. <<vcount - m, l>> \in Nat \X Nat /\ <<vcount - m, l>>[1] < <<vcount - m, l>>[2]
    BY <2>2
  <2> QED
    BY <1>5, <2>1, <2>3 DEF OpToRel
<1>8. \E k \in start..vcount : due(k) /\ \A m \in (k + 1)..vcount : ~due(m)
  BY <1>6, <1>7
<1>9. Taken = CHOOSE k \in start..vcount : due(k) /\ \A m \in (k + 1)..vcount : ~due(m)
  BY DEF Taken, due
<1>10. Taken \in start..vcount
  BY <1>8, <1>9
<1> QED
  BY <1>1, <1>10

(* The decoder runs only between its creation and its joining.             *)
LEMMA PlacesKept ==
  ASSUME Places, Next
  PROVE  Places'
<1> USE DEF Places, RunningPcs
<1>1. CASE MainNext
  <2>1. CASE PlayFails \/ SetupSilent \/ SetupBegin \/ SetupBegun \/ SetupDone
             \/ SetupUndo \/ SetupUndone \/ Spawn \/ SpawnFails
    BY <2>1 DEF PlayFails, SetupSilent, SetupBegin, SetupBegun, SetupDone,
      SetupUndo, SetupUndone, Spawn, SpawnFails, mpVars, audio,
      A!BeginFail, A!BeginOpen, A!BeginReset, A!EndReset, A!EndClose, A!callVars
  <2>2. CASE PollFrames \/ PollAudio \/ ClockWall \/ ClockPrimed \/ ClockPlayed \/ ClockTail
    BY <2>2 DEF PollFrames, PollAudio, ClockWall, ClockPrimed, ClockPlayed, ClockTail,
      Goto, mpVars, audio
  <2>3. CASE Adopt
    BY <2>3 DEF Adopt, Goto, Signalled, audio
  <2>4. CASE Stop \/ Wake \/ StopEnd \/ StopClose \/ Join \/ FreeEnd \/ FreeClose
    BY <2>4 DEF Stop, Wake, StopEnd, StopClose, Join, Joinable, FreeEnd, FreeClose,
      Goto, mpVars, audio, A!EndReset, A!EndClose
  <2>5. CASE Free
    BY <2>5 DEF Free, Goto, audio
  <2> QED
    BY <1>1, <2>1, <2>2, <2>3, <2>4, <2>5 DEF MainNext
<1>2. CASE DecoderNext \/ SpuriousWake
  <2>1. /\ UNCHANGED <<mpc, alloc, call>> /\ dpc \notin {"none", "done"}
    BY <1>2 DEF DecoderNext, SpuriousWake, ReadUnit, ReadEnds, DropUnit, PushWaits,
      PushFrame, PushSound, PushChunk, PushedSound, Prime, FinPrimed, FinEof, FinPlay,
      DGoto, mpVars, audio, A!QueueCall, A!QueueChunk, A!QueueReturn, A!SetPaused, A!callVars
  <2> QED
    BY <2>1
<1>3. CASE Play \/ Quit \/ GameStarts \/ AudioNext \/ Tick \/ Shutdown \/ Finished
  BY <1>3 DEF Play, Quit, Goto, GameStarts, AudioNext, Tick, Shutdown, Finished, mpVars, vars,
    audio, A!GameOpensDevice, A!MixNext, A!MixEnter, A!MixNothing, A!MixFrames, A!ShutdownEnd,
    A!ShutdownGiveBack, A!ShutdownFree, A!ShutdownClose, A!callVars
<1> QED
  BY <1>1, <1>2, <1>3 DEF Next

(* The ring of video frames keeps its order: a push writes the slot after  *)
(* the last frame, and what movie_render takes comes off the front.        *)
LEMMA FramesKept ==
  ASSUME IInv, Next
  PROVE  WriteFollows' /\ FramesInOrder'
<1>0. /\ NUM_VFRAMES \in Nat \ {0} /\ vread \in 0..(NUM_VFRAMES - 1)
      /\ vcount \in 0..NUM_VFRAMES
  BY PlayerSizesAssumption DEF IInv, TypeOK, VSlots
<1>1. /\ NUM_VFRAMES \in Nat \ {0} /\ vread \in 0..(NUM_VFRAMES - 1)
      /\ vwrite \in 0..(NUM_VFRAMES - 1) /\ vcount \in 0..NUM_VFRAMES
      /\ pushed \in Nat /\ frames \in [0..(NUM_VFRAMES - 1) -> Nat]
      /\ vwrite = (vread + vcount) % NUM_VFRAMES
  BY PlayerSizesAssumption DEF IInv, TypeOK, VSlots, WriteFollows, Wrap
<1>2. alloc => /\ \A i \in 0..(vcount - 1) :
                    frames[(vread + i) % NUM_VFRAMES] = pushed - vcount + i + 1
               /\ last = pushed - vcount
  BY DEF IInv, FramesInOrder, At, Wrap
<1>3. CASE Play \/ Free
  <2>1. /\ vread' = 0 /\ vwrite' = 0 /\ vcount' = 0
        /\ alloc' => pushed' = 0 /\ last' = 0
    BY <1>3 DEF Play, Free, ClearRing
  <2>2. 0 % NUM_VFRAMES = 0
    BY <1>1
  <2> QED
    BY <2>1, <2>2 DEF WriteFollows, FramesInOrder, Wrap, At
<1>4. CASE PushFrame
  <2>1. /\ frames' = [frames EXCEPT ![vwrite] = pushed + 1] /\ pushed' = pushed + 1
        /\ vwrite' = (vwrite + 1) % NUM_VFRAMES /\ vcount' = vcount + 1
        /\ vread' = vread /\ alloc' = alloc /\ last' = last /\ vcount < NUM_VFRAMES
    BY <1>1, <1>4 DEF PushFrame, RingFull, Wrap, mpVars
  <2>0. vwrite = IF vread + vcount < NUM_VFRAMES THEN vread + vcount
                                                 ELSE vread + vcount - NUM_VFRAMES
    <3>1. (vread + vcount) % NUM_VFRAMES =
            IF vread + vcount < NUM_VFRAMES THEN vread + vcount ELSE vread + vcount - NUM_VFRAMES
      BY <1>0, Wrapping
    <3> QED
      BY <1>1, <3>1
  <2>2. (vwrite + 1) % NUM_VFRAMES = (vread + (vcount + 1)) % NUM_VFRAMES
    <3>1. CASE vread + vcount < NUM_VFRAMES
      <4>1. vwrite = vread + vcount
        BY <2>0, <3>1
      <4>2. vwrite + 1 = vread + (vcount + 1)
        BY <1>0, <4>1
      <4> QED
        BY <4>2
    <3>2. CASE vread + vcount >= NUM_VFRAMES
      <4>1. vwrite = vread + vcount - NUM_VFRAMES
        BY <1>0, <2>0, <3>2
      <4>2. (vread + vcount - NUM_VFRAMES + 1) % NUM_VFRAMES = vread + vcount - NUM_VFRAMES + 1
        BY <1>0, <2>1, <3>2
      <4>3. (vread + (vcount + 1)) % NUM_VFRAMES = vread + (vcount + 1) - NUM_VFRAMES
        BY <1>0, <2>1, <3>2
      <4> QED
        BY <1>0, <4>1, <4>2, <4>3
    <3> QED
      BY <1>1, <3>1, <3>2
  <2>3. ASSUME alloc, NEW i \in 0..vcount
        PROVE  frames'[(vread + i) % NUM_VFRAMES] = pushed - vcount + i + 1
    <3>1. CASE i = vcount
      BY <1>1, <2>1, <3>1
    <3>2. CASE i < vcount
      <4>1. (vread + i) % NUM_VFRAMES # vwrite /\ (vread + i) % NUM_VFRAMES \in 0..(NUM_VFRAMES - 1)
        <5>1. i \in 0..NUM_VFRAMES
          BY <1>0, <2>1, <3>2
        <5>2. (vread + i) % NUM_VFRAMES =
                IF vread + i < NUM_VFRAMES THEN vread + i ELSE vread + i - NUM_VFRAMES
          BY <1>0, <5>1, Wrapping
        <5> QED
          BY <1>0, <2>0, <2>1, <3>2, <5>1, <5>2
      <4>2. frames[(vread + i) % NUM_VFRAMES] = pushed - vcount + i + 1
        <5>1. i \in 0..(vcount - 1)
          BY <1>0, <3>2
        <5> QED
          BY <1>2, <2>3, <5>1
      <4> QED
        BY <1>1, <2>1, <4>1, <4>2
    <3> QED
      BY <1>1, <3>1, <3>2
  <2>4. ASSUME alloc'
        PROVE  /\ \A i \in 0..(vcount' - 1) : At(i)' = pushed' - vcount' + i + 1
               /\ last' = pushed' - vcount'
    <3>1. 0..(vcount' - 1) = 0..vcount /\ pushed' - vcount' = pushed - vcount
      BY <1>1, <2>1
    <3> QED
      BY <1>2, <2>1, <2>3, <2>4, <3>1 DEF At, Wrap
  <2> QED
    BY <2>1, <2>2, <2>4 DEF WriteFollows, FramesInOrder, Wrap
<1>5. CASE Adopt
  <2> DEFINE n == Taken
  <2>1. n \in 0..vcount
    BY <1>1, TakenFromRing
  <2>2. CASE n > 0
    <3>1. /\ last' = At(n - 1) /\ vread' = (vread + n) % NUM_VFRAMES /\ vcount' = vcount - n
          /\ UNCHANGED <<frames, vwrite, pushed, alloc>>
      BY <1>5, <2>2 DEF Adopt, Wrap
    <3> HIDE DEF n
    <3>2. ASSUME NEW i \in 0..(vcount - n)
          PROVE  (((vread + n) % NUM_VFRAMES) + i) % NUM_VFRAMES = (vread + (n + i)) % NUM_VFRAMES
      <4>1. CASE vread + n < NUM_VFRAMES
        <5>1. (vread + n) % NUM_VFRAMES = vread + n
          BY <1>0, <2>1, <4>1
        <5>2. (vread + n) + i = vread + (n + i)
          BY <1>0, <2>1
        <5> QED
          BY <5>1, <5>2
      <4>2. CASE vread + n >= NUM_VFRAMES
        <5>1. (vread + n) % NUM_VFRAMES = vread + n - NUM_VFRAMES
          BY <1>0, <2>1, <4>2
        <5>2. (vread + n - NUM_VFRAMES + i) % NUM_VFRAMES = vread + n - NUM_VFRAMES + i
          BY <1>0, <2>1, <4>2
        <5>3. (vread + (n + i)) % NUM_VFRAMES = vread + (n + i) - NUM_VFRAMES
          BY <1>0, <2>1, <4>2
        <5> QED
          BY <1>0, <2>1, <5>1, <5>2, <5>3
      <4> QED
        BY <1>1, <2>1, <4>1, <4>2
    <3>3. vwrite' = (vread' + vcount') % NUM_VFRAMES
      <4>1. vcount - n \in 0..(vcount - n) /\ n + (vcount - n) = vcount
        BY <1>1, <2>1
      <4> QED
        BY <1>1, <3>1, <3>2, <4>1
    <3>4. ASSUME alloc, NEW i \in 0..(vcount - n - 1)
          PROVE  At(i)' = pushed - (vcount - n) + i + 1
      <4>1. At(i)' = frames[(vread + (n + i)) % NUM_VFRAMES]
        BY <1>1, <2>1, <3>1, <3>2 DEF At, Wrap
      <4>2. n + i \in 0..(vcount - 1)
        BY <1>1, <2>1
      <4>3. frames[(vread + (n + i)) % NUM_VFRAMES] = pushed - vcount + (n + i) + 1
        BY <1>2, <3>4, <4>2
      <4> QED
        BY <1>1, <2>1, <4>1, <4>3
    <3>5. alloc => last' = pushed - (vcount - n)
      <4>1. n - 1 \in 0..(vcount - 1)
        BY <1>1, <2>1, <2>2
      <4>2. alloc => frames[(vread + (n - 1)) % NUM_VFRAMES] = pushed - vcount + (n - 1) + 1
        BY <1>2, <4>1
      <4>3. pushed - vcount + (n - 1) + 1 = pushed - (vcount - n)
        BY <1>1, <2>1
      <4> QED
        BY <3>1, <4>2, <4>3 DEF At, Wrap
    <3> QED
      BY <3>1, <3>3, <3>4, <3>5 DEF WriteFollows, FramesInOrder, Wrap
  <2>3. CASE ~(n > 0)
    <3>1. UNCHANGED <<frames, vread, vwrite, vcount, pushed, last, alloc>>
      BY <1>5, <2>3 DEF Adopt
    <3> QED
      BY <3>1 DEF IInv, WriteFollows, FramesInOrder, Wrap, At
  <2> QED
    BY <2>2, <2>3
<1>6. CASE ~(Play \/ Free \/ PushFrame \/ Adopt)
  <2>1. UNCHANGED ringVars /\ alloc' = alloc
    <3>1. CASE MainNext
      BY <1>6, <3>1 DEF MainNext, PlayFails, SetupSilent, SetupBegin, SetupBegun, SetupDone,
        SetupUndo, SetupUndone, Spawn, SpawnFails, PollFrames, PollAudio, ClockWall,
        ClockPrimed, ClockPlayed, ClockTail, Stop, Wake, StopEnd, StopClose, Join,
        FreeEnd, FreeClose, mpVars
    <3>2. CASE DecoderNext \/ SpuriousWake
      BY <1>6, <3>2 DEF DecoderNext, SpuriousWake, ReadUnit, ReadEnds, DropUnit, PushWaits,
        PushSound, PushChunk, PushedSound, Prime, FinPrimed, FinEof, FinPlay, mpVars
    <3>3. CASE Quit \/ GameStarts \/ AudioNext \/ Tick \/ Shutdown \/ Finished
      BY <3>3 DEF Quit, GameStarts, AudioNext, Tick, Shutdown, Finished, mpVars, vars
    <3> QED
      BY <1>6, <3>1, <3>2, <3>3 DEF Next
  <2> QED
    BY <2>1 DEF ringVars, IInv, WriteFollows, FramesInOrder, Wrap, At
<1> QED
  BY <1>3, <1>4, <1>5, <1>6

(* No step leaves the types.                                               *)
LEMMA TypesKept ==
  ASSUME IInv, AudioInv', Next
  PROVE  TypeOK' /\ file' \in Seq({"video", "audio"})
<1>1. /\ A!TypeOK' /\ played \in Nat
      /\ NUM_VFRAMES \in Nat \ {0} /\ 0 \in VSlots /\ MaxTick \in Nat /\ MaxSessions \in Nat
  BY PlayerSizesAssumption DEF IInv, AudioInv, A!TypeOK, VSlots
<1>2. TypeOK /\ file \in Seq({"video", "audio"}) /\ Len(file) \in Nat
  BY DEF IInv
<1>3. CASE Play
  <2>1. file' \in Seq({"video", "audio"}) /\ Len(file') \in Nat
    BY <1>3, PlayerSizesAssumption DEF Play
  <2>2. 0 \in 0..NUM_VFRAMES /\ sessions' \in 0..MaxSessions /\ 0 \in 0..Len(file')
    BY <1>1, <1>2, <1>3, <2>1 DEF Play, TypeOK
  <2> QED
    BY <1>1, <1>2, <1>3, <2>1, <2>2 DEF Play, TypeOK, ClearFlags, ClearRing, ClearClock, MainPcs
<1>4. CASE MainNext
  <2>1. CASE PlayFails \/ SetupSilent \/ SetupBegin \/ SetupBegun \/ SetupDone
             \/ SetupUndo \/ SetupUndone \/ SpawnFails
    BY <1>1, <1>2, <2>1 DEF PlayFails, SetupSilent, SetupBegin, SetupBegun, SetupDone,
      SetupUndo, SetupUndone, SpawnFails, TypeOK, MainPcs, mpVars, ringVars, clockVars, fileVars
  <2>2. CASE Spawn
    BY <1>1, <1>2, <2>2 DEF Spawn, TypeOK, MainPcs, DecoderPcs, ringVars, fileVars
  <2>3. CASE PollFrames \/ PollAudio
    BY <1>1, <1>2, <2>3 DEF PollFrames, PollAudio, Goto, TypeOK, MainPcs, mpVars, ringVars,
      clockVars, fileVars
  <2>4. CASE ClockWall \/ ClockPrimed \/ ClockPlayed \/ ClockTail
    <3>1. /\ mpc' \in MainPcs /\ tailSet' \in BOOLEAN
          /\ UNCHANGED <<dpc, mpVars, ringVars, fileVars>>
      BY <1>2, <2>4 DEF ClockWall, ClockPrimed, ClockPlayed, ClockTail, Goto, MainPcs, TypeOK
    <3>2. /\ elapsed \in 0..MaxTick /\ elapsed \in Nat /\ tailBase \in Nat /\ heard \in Nat
          /\ clk \in Nat \cup {-1} /\ 0 \in 0..MaxTick
      BY <1>1, <1>2 DEF TypeOK
    <3>3. /\ elapsed' \in 0..MaxTick /\ tailBase' \in Nat /\ heard' \in Nat
          /\ clk' \in Nat \cup {-1}
      <4>1. CASE ClockWall \/ ClockPrimed \/ ClockPlayed
        BY <1>1, <3>2, <4>1 DEF ClockWall, ClockPrimed, ClockPlayed
      <4>2. CASE ClockTail
        BY <3>2, <4>2 DEF ClockTail, TailBase
      <4> QED
        BY <2>4, <4>1, <4>2
    <3> QED
      BY <1>1, <1>2, <3>1, <3>3 DEF TypeOK, mpVars, ringVars, fileVars
  <2>5. CASE Adopt
    <3>1. vcount \in 0..NUM_VFRAMES /\ Taken \in 0..vcount /\ vread \in VSlots
      BY <1>1, <1>2, TakenFromRing DEF TypeOK
    <3>2. CASE Taken > 0
      <4>1. /\ last' = At(Taken - 1) /\ vread' = Wrap(vread + Taken)
            /\ vcount' = vcount - Taken /\ shown' = TRUE /\ dpc' = Signalled
        BY <2>5, <3>2 DEF Adopt
      <4>2. Wrap(vread + Taken) \in VSlots /\ Wrap(vread + (Taken - 1)) \in VSlots
        <5>1. vread + Taken \in Nat /\ vread + (Taken - 1) \in Nat
          BY <1>1, <3>1, <3>2 DEF VSlots
        <5> QED
          BY <1>1, <5>1, ModRange DEF Wrap, VSlots
      <4>3. last' \in Nat /\ vread' \in VSlots /\ vcount' \in 0..NUM_VFRAMES
        <5>1. vcount - Taken \in 0..NUM_VFRAMES
          BY <1>1, <3>1
        <5>2. frames \in [VSlots -> Nat]
          BY <1>2 DEF TypeOK
        <5> QED
          BY <4>1, <4>2, <5>1, <5>2 DEF At
      <4>4. dpc' \in DecoderPcs /\ shown' \in BOOLEAN
        BY <1>2, <4>1 DEF Signalled, TypeOK, DecoderPcs
      <4> QED
        BY <1>1, <1>2, <2>5, <4>3, <4>4 DEF Adopt, Goto, TypeOK, MainPcs, clockVars, fileVars
    <3>3. CASE ~(Taken > 0)
      BY <1>1, <1>2, <2>5, <3>3 DEF Adopt, Goto, TypeOK, MainPcs, clockVars, fileVars
    <3> QED
      BY <3>2, <3>3
  <2>6. CASE Stop \/ Wake \/ StopEnd \/ StopClose \/ Join \/ FreeEnd \/ FreeClose
    <3>1. mpc' \in MainPcs /\ dpc' \in DecoderPcs
      BY <1>2, <2>6 DEF Stop, Wake, StopEnd, StopClose, Join, FreeEnd, FreeClose, Goto,
        MainPcs, DecoderPcs, TypeOK
    <3> QED
      BY <1>1, <1>2, <2>6, <3>1 DEF Stop, Wake, StopEnd, StopClose, Join, FreeEnd, FreeClose,
        TypeOK, mpVars, ringVars, clockVars, fileVars
  <2>7. CASE Free
    BY <1>1, <1>2, <2>7 DEF Free, Goto, ClearFlags, ClearRing, ClearClock, TypeOK, MainPcs,
      DecoderPcs, fileVars
  <2> QED
    BY <1>4, <2>1, <2>2, <2>3, <2>4, <2>5, <2>6, <2>7 DEF MainNext
<1>5. CASE DecoderNext \/ SpuriousWake
  <2>1. CASE ReadUnit
    <3>1. file[pos + 1] \in {"video", "audio"} /\ pos' \in 0..Len(file)
      BY <1>2, <2>1 DEF ReadUnit, TypeOK
    <3> QED
      BY <1>1, <1>2, <2>1, <3>1 DEF ReadUnit, DGoto, TypeOK, DecoderPcs, mpVars, ringVars, clockVars
  <2>2. CASE ReadEnds \/ DropUnit \/ PushWaits \/ PushSound \/ PushChunk \/ PushedSound
             \/ FinPlay \/ SpuriousWake
    <3>1. dpc' \in DecoderPcs
      BY <1>2, <2>2 DEF ReadEnds, DropUnit, PushWaits, PushSound, PushChunk, PushedSound,
        FinPlay, SpuriousWake, DGoto, TypeOK, DecoderPcs
    <3> QED
      BY <1>1, <1>2, <2>2, <3>1 DEF ReadEnds, DropUnit, PushWaits, PushSound, PushChunk,
        PushedSound, FinPlay, SpuriousWake, TypeOK, mpVars, ringVars, clockVars, fileVars
  <2>3. CASE PushFrame
    <3>1. vwrite' \in VSlots /\ vcount' \in 0..NUM_VFRAMES /\ pushed' \in Nat
          /\ frames' \in [VSlots -> Nat]
      <4>1. vwrite \in VSlots /\ vcount \in 0..NUM_VFRAMES /\ frames \in [VSlots -> Nat]
            /\ pushed + 1 \in Nat
        BY <1>2 DEF TypeOK
      <4>2. (vwrite + 1) % NUM_VFRAMES \in VSlots
        BY <1>1, <4>1 DEF VSlots
      <4> QED
        BY <1>1, <2>3, <4>1, <4>2 DEF PushFrame, RingFull, Wrap
    <3> QED
      BY <1>1, <1>2, <2>3, <3>1 DEF PushFrame, DGoto, TypeOK, DecoderPcs, mpVars, clockVars, fileVars
  <2>4. CASE Prime \/ FinPrimed \/ FinEof
    <3>1. dpc' \in DecoderPcs /\ primed' \in BOOLEAN /\ decodeEof' \in BOOLEAN
      BY <1>2, <2>4 DEF Prime, FinPrimed, FinEof, DGoto, TypeOK, DecoderPcs
    <3> QED
      BY <1>1, <1>2, <2>4, <3>1 DEF Prime, FinPrimed, FinEof, TypeOK, ringVars, clockVars, fileVars
  <2> QED
    BY <1>5, <2>1, <2>2, <2>3, <2>4 DEF DecoderNext
<1>6. CASE Quit \/ GameStarts \/ AudioNext \/ Shutdown \/ Finished
  <2>1. mpc' \in MainPcs
    BY <1>2, <1>6 DEF Quit, Goto, GameStarts, AudioNext, Shutdown, Finished, TypeOK, MainPcs, vars
  <2> QED
    BY <1>1, <1>2, <1>6, <2>1 DEF Quit, GameStarts, AudioNext, Shutdown, Finished, TypeOK,
      mpVars, ringVars, clockVars, fileVars, vars
<1>7. CASE Tick
  <2>1. elapsed' \in 0..MaxTick
    BY <1>1, <1>2, <1>7 DEF Tick, TypeOK
  <2> QED
    BY <1>1, <1>2, <1>7, <2>1 DEF Tick, TypeOK, mpVars, ringVars, fileVars
<1> QED
  BY <1>3, <1>4, <1>5, <1>6, <1>7 DEF Next

(* Between its start and its end a session's sound only advances, and an   *)
(* empty ring into which nothing is queued stays empty.                    *)
LEMMA SoundAdvances ==
  ASSUME AudioInv, [A!Next]_audio, call # "begin"
  PROVE  played <= played' /\ (count = 0 /\ done' = done => count' = 0)
<1>1. count \in 0..RING /\ played \in Nat /\ Period \in Nat \ {0} /\ RING \in Nat
  BY PlayerSizesAssumption DEF AudioInv, A!TypeOK
<1>2. CASE A!MixFrames
  <2>1. A!Lesser(count, Period) \in Nat /\ (count = 0 => A!Lesser(count, Period) = 0)
    BY <1>1 DEF A!Lesser
  <2> QED
    BY <1>1, <1>2, <2>1 DEF A!MixFrames
<1>3. CASE A!MixEnter \/ A!MixNothing \/ A!QueueReturn \/ (\E n \in Packets : A!QueueCall(n))
           \/ (\E on \in BOOLEAN : A!SetPaused(on)) \/ A!GameOpensDevice
  BY <1>1, <1>3 DEF A!MixEnter, A!MixNothing, A!QueueReturn, A!QueueCall, A!SetPaused,
    A!GameOpensDevice, A!ringVars
<1>4. CASE A!QueueChunk
  <2>1. played' = played /\ count' = count + A!Chunk /\ done' = done + A!Chunk
    BY <1>4 DEF A!QueueChunk
  <2>2. A!Chunk \in Nat /\ done \in Nat
    BY <1>4, ChunkFits DEF AudioInv, A!TypeOK
  <2> QED
    BY <1>1, <2>1, <2>2
<1>5. CASE A!MainNext
  <2>1. played' = played /\ (count' = count \/ count' = 0)
    BY <1>5 DEF A!MainNext, A!BeginFail, A!BeginOpen, A!BeginReset, A!EndReset, A!EndClose,
      A!ShutdownEnd, A!ShutdownGiveBack, A!ShutdownFree, A!ShutdownClose, A!ResetSession,
      A!ringVars
  <2> QED
    BY <1>1, <2>1
<1>6. CASE UNCHANGED audio
  BY <1>1, <1>6 DEF audio
<1> QED
  BY <1>2, <1>3, <1>4, <1>5, <1>6 DEF A!Next, A!MixNext

(* What movie_clock has read stays true between its readings, and the      *)
(* clock of a session does not run backwards.                              *)
LEMMA ClockKept ==
  ASSUME IInv, AudioInv', Next
  PROVE  ClockRuns' /\ (mpc # "idle" => clk' >= clk)
<1>1. /\ played \in Nat /\ count \in 0..RING /\ elapsed \in Nat /\ tailBase \in Nat
      /\ heard \in Nat /\ clk \in Nat \cup {-1} /\ RING \in Nat
      /\ mpc \in MainPcs /\ dpc \in DecoderPcs
  BY PlayerSizesAssumption DEF IInv, TypeOK, A!TypeOK
<1>2. ClockRuns /\ Places
  BY DEF IInv
<1>3. mpc # "begin" => played <= played' /\ (count = 0 /\ done' = done => count' = 0)
  BY <1>2, StepsOfMovieAudio, SoundAdvances DEF IInv, Places
<1>4. played' \in Nat
  BY DEF AudioInv, A!TypeOK
<1>5. CASE Play
  BY <1>1, <1>5 DEF Play, ClockRuns, ClearFlags, ClearClock, audio, SetupPcs
<1>6. CASE PlayFails \/ SetupSilent \/ SetupBegin \/ SetupBegun \/ SetupDone
           \/ SetupUndo \/ SetupUndone \/ SpawnFails
  <2>1. mpc \in SetupPcs /\ mpc' \in SetupPcs \cup {"freeEnd"}
        /\ UNCHANGED clockVars /\ decodeEof' = decodeEof
    BY <1>6 DEF PlayFails, SetupSilent, SetupBegin, SetupBegun, SetupDone,
      SetupUndo, SetupUndone, SpawnFails, SetupPcs, mpVars
  <2>2. clk = -1 /\ heard = 0 /\ ~tailSet /\ ~decodeEof
    BY <1>2, <2>1 DEF ClockRuns, SetupPcs
  <2> QED
    BY <1>1, <1>4, <2>1, <2>2 DEF ClockRuns, clockVars, SetupPcs
<1>7. CASE Spawn
  <2>1. clk = -1 /\ heard = 0 /\ ~tailSet /\ ~decodeEof
    BY <1>2, <1>7 DEF ClockRuns, Spawn, SetupPcs
  <2> QED
    BY <1>1, <1>7, <2>1 DEF Spawn, ClockRuns, SetupPcs, audio
<1>8. CASE PollFrames \/ PollAudio \/ Quit
  BY <1>1, <1>2, <1>8 DEF PollFrames, PollAudio, Quit, Goto, ClockRuns, SetupPcs,
    audio, mpVars, clockVars
<1>9. CASE ClockWall
  BY <1>1, <1>2, <1>9 DEF ClockWall, Goto, ClockRuns, SetupPcs, audio, mpVars
<1>10. CASE ClockPrimed
  BY <1>1, <1>2, <1>10 DEF ClockPrimed, Goto, ClockRuns, SetupPcs, audio, mpVars
<1>11. CASE ClockPlayed
  BY <1>1, <1>2, <1>11 DEF ClockPlayed, Goto, ClockRuns, SetupPcs, audio, mpVars
<1>12. CASE ClockTail
  BY <1>1, <1>2, <1>12 DEF ClockTail, TailBase, Goto, ClockRuns, SetupPcs, audio, mpVars
<1>13. CASE Adopt
  <2>1. /\ UNCHANGED <<hasAudio, primed, decodeEof, played, count>> /\ UNCHANGED clockVars
        /\ mpc = "adopt" /\ mpc' = "poll"
        /\ dpc \in {"finPlay", "done"} => dpc' = dpc
    BY <1>13 DEF Adopt, Goto, Signalled, audio
  <2> QED
    BY <1>1, <1>2, <2>1 DEF ClockRuns, SetupPcs, clockVars
<1>14. CASE Stop \/ Wake \/ StopEnd \/ StopClose \/ Join \/ FreeEnd \/ FreeClose
  <2>1. /\ UNCHANGED <<hasAudio, primed, decodeEof, played>> /\ UNCHANGED clockVars
        /\ mpc \notin {"idle", "begin"} /\ mpc' \notin SetupPcs \cup {"played", "tail", "idle"}
        /\ dpc \in {"finPlay", "done"} => dpc' = dpc
        /\ count' = count \/ count' = 0
    BY <1>14 DEF Stop, Wake, StopEnd, StopClose, Join, FreeEnd, FreeClose, Goto, SetupPcs,
      audio, mpVars, A!EndReset, A!ResetSession, A!EndClose, A!ringVars
  <2> QED
    BY <1>1, <1>2, <2>1 DEF ClockRuns, clockVars
<1>15. CASE Free
  BY <1>1, <1>15 DEF Free, Goto, ClockRuns
<1>16. CASE DecoderNext \/ SpuriousWake
  <2>1. /\ UNCHANGED mpc /\ UNCHANGED hasAudio /\ UNCHANGED clockVars
        /\ primed' = primed \/ primed' = TRUE
        /\ dpc \notin {"none", "done"}
    BY <1>16 DEF DecoderNext, SpuriousWake, ReadUnit, ReadEnds, DropUnit, PushWaits,
      PushFrame, PushSound, PushChunk, PushedSound, Prime, FinPrimed, FinEof, FinPlay,
      DGoto, mpVars
  <2>2. \/ decodeEof' = decodeEof /\ (dpc = "finPlay" => dpc' = "done" /\ count' = count)
        \/ FinEof
    BY <1>16 DEF DecoderNext, SpuriousWake, ReadUnit, ReadEnds, DropUnit, PushWaits,
      PushFrame, PushSound, PushChunk, PushedSound, Prime, FinPrimed, FinEof, FinPlay,
      DGoto, mpVars, A!SetPaused, A!ringVars
  <2>3. mpc \in RunningPcs /\ played <= played'
    BY <1>2, <1>3, <2>1 DEF Places, RunningPcs
  <2>4. CASE FinEof
    <3>1. /\ dpc = "finEof" /\ dpc' \in {"finPlay", "done"} /\ decodeEof' = TRUE
          /\ primed' = primed /\ count' = count
      BY <2>4 DEF FinEof, DGoto, audio
    <3>2. ~decodeEof
      BY <1>2, <2>3, <3>1 DEF ClockRuns, RunningPcs
    <3> QED
      BY <1>1, <1>2, <1>4, <2>1, <2>3, <3>1, <3>2 DEF ClockRuns, SetupPcs, RunningPcs, clockVars
  <2>5. CASE decodeEof' = decodeEof /\ (dpc = "finPlay" => dpc' = "done" /\ count' = count)
    BY <1>1, <1>2, <1>4, <2>1, <2>3, <2>5 DEF ClockRuns, SetupPcs, RunningPcs, clockVars
  <2> QED
    BY <2>2, <2>4, <2>5
<1>17. CASE AudioNext
  <2>1. UNCHANGED <<mpc, dpc>> /\ UNCHANGED mpVars /\ UNCHANGED clockVars /\ done' = done
    BY <1>17 DEF AudioNext, A!MixNext, A!MixEnter, A!MixNothing, A!MixFrames, A!callVars
  <2> QED
    BY <1>1, <1>2, <1>3, <1>4, <2>1 DEF ClockRuns, SetupPcs, mpVars, clockVars
<1>18. CASE Tick
  BY <1>1, <1>2, <1>18 DEF Tick, ClockRuns, SetupPcs, audio, mpVars
<1>19. CASE GameStarts \/ Shutdown \/ Finished
  BY <1>1, <1>2, <1>19 DEF GameStarts, Shutdown, Finished, ClockRuns, vars, clockVars,
    mpVars, audio
<1> QED
  BY <1>5, <1>6, <1>7, <1>8, <1>9, <1>10, <1>11, <1>12, <1>13, <1>14, <1>15, <1>16,
     <1>17, <1>18, <1>19 DEF Next, MainNext

-----------------------------------------------------------------------------
(* The units among the first n of the file, unit by unit.                  *)
LEMMA ReadCounts ==
  ASSUME NEW kind, NEW n \in Nat
  PROVE  /\ Read(kind, n) \in Nat /\ Read(kind, 0) = 0
         /\ Read(kind, n + 1) = Read(kind, n) + (IF file[n + 1] = kind THEN 1 ELSE 0)
<1> DEFINE S(m) == {i \in 1..m : file[i] = kind}
<1>1. \A m \in Nat : IsFiniteSet(S(m)) /\ Cardinality(S(m)) \in Nat
  <2> TAKE m \in Nat
  <2>1. IsFiniteSet(1..m) /\ S(m) \subseteq 1..m
    BY FS_Interval
  <2>2. IsFiniteSet(S(m))
    BY <2>1, FS_Subset
  <2> QED
    BY <2>2, FS_CardinalityType
<1>2. S(0) = {}
  OBVIOUS
<1>3. S(n + 1) = IF file[n + 1] = kind THEN S(n) \cup {n + 1} ELSE S(n)
  OBVIOUS
<1>4. n + 1 \notin S(n)
  OBVIOUS
<1> HIDE DEF S
<1>5. Cardinality(S(0)) = 0
  BY <1>2, FS_EmptySet
<1>6. Cardinality(S(n + 1)) = Cardinality(S(n)) + (IF file[n + 1] = kind THEN 1 ELSE 0)
  <2>1. CASE file[n + 1] = kind
    <3>1. Cardinality(S(n) \cup {n + 1}) = Cardinality(S(n)) + 1
      BY <1>1, <1>4, FS_AddElement
    <3> QED
      BY <1>3, <2>1, <3>1
  <2>2. CASE file[n + 1] # kind
    BY <1>1, <1>3, <2>2
  <2> QED
    BY <2>1, <2>2
<1>7. Cardinality(S(n)) \in Nat
  BY <1>1
<1> QED
  BY <1>5, <1>6, <1>7 DEF Read, S

(* The decoder loses no unit: it hands over what it reads.                 *)
LEMMA DecoderDelivers ==
  ASSUME IInv, DecoderNext \/ SpuriousWake
  PROVE  EndInv'
<1>1. /\ pos \in 0..Len(file) /\ Len(file) \in Nat /\ pushed \in Nat /\ queued \in Nat
      /\ want \in Nat /\ done \in 0..want /\ APACKET \in Nat \ {0} /\ vcount \in Nat
      /\ mpc \in RunningPcs /\ file \in Seq({"video", "audio"})
  <2>1. dpc \notin {"none", "done"}
    BY DEF DecoderNext, SpuriousWake, ReadUnit, ReadEnds, DropUnit, PushWaits, PushFrame,
      PushSound, PushChunk, PushedSound, Prime, FinPrimed, FinEof, FinPlay, DGoto
  <2> QED
    BY <2>1, PlayerSizesAssumption DEF IInv, AudioInv, TypeOK, A!TypeOK, Places
<1>2. CallFits /\ LoopFits /\ AllDelivered /\ SessionOpen
  BY DEF IInv, EndInv, AudioInv
<1>3. /\ UNCHANGED <<mpc, hasAudio, stopReq, file>>
      /\ active' = active
  BY DEF DecoderNext, SpuriousWake, ReadUnit, ReadEnds, DropUnit, PushWaits, PushFrame,
    PushSound, PushChunk, PushedSound, Prime, FinPrimed, FinEof, FinPlay, mpVars, fileVars,
    audio, A!QueueCall, A!QueueChunk, A!QueueReturn, A!SetPaused
<1>4. SetupFits'
  BY <1>1, <1>3 DEF SetupFits, RunningPcs, SetupPcs
<1>5. mpc = "pollAudio" => dpc \in {"finPlay", "done"}
  BY <1>2 DEF LoopFits, LoopPcs, IInv, ClockRuns
<1>6. /\ Read("video", pos)' = Read("video", pos') /\ Read("audio", pos)' = Read("audio", pos')
      /\ Read("video", pos) \in Nat /\ Read("audio", pos) \in Nat
  <2>1. Read("video", pos)' = Read("video", pos') /\ Read("audio", pos)' = Read("audio", pos')
    BY <1>3 DEF Read
  <2>2. pos \in Nat
    BY <1>1
  <2> QED
    BY <2>1, <2>2, ReadCounts
<1>7. ASSUME mpc \in LoopPcs
      PROVE  /\ ~stopReq /\ dpc # "none" /\ (hasAudio => active)
             /\ mpc = "pollAudio" => decodeEof /\ vcount = 0
             /\ dpc \in {"finPrimed", "finEof", "finPlay", "done"} => pos = Len(file)
             /\ pushed + VideoInHand = Read("video", pos)
             /\ hasAudio => queued + SoundInHand = Read("audio", pos) * APACKET
  BY <1>2, <1>7 DEF LoopFits, AllDelivered
(* It is enough to look at the loop. *)
<1>8. ASSUME CallFits',
             mpc \in LoopPcs =>
               /\ dpc' # "none"
               /\ mpc = "pollAudio" => decodeEof' /\ vcount' = 0
               /\ dpc' \in {"finPrimed", "finEof", "finPlay", "done"} => pos' = Len(file)
               /\ pushed' + VideoInHand' = Read("video", pos')
               /\ hasAudio => queued' + SoundInHand' = Read("audio", pos') * APACKET
      PROVE  EndInv'
  BY <1>3, <1>4, <1>6, <1>7, <1>8 DEF EndInv, LoopFits, AllDelivered
<1>9. CASE ReadUnit
  <2>1. /\ pos' = pos + 1 /\ dpc = "read" /\ pos \in Nat /\ file[pos + 1] \in {"video", "audio"}
        /\ dpc' = IF file[pos + 1] = "audio" /\ ~hasAudio THEN "read" ELSE file[pos + 1]
        /\ UNCHANGED <<pushed, queued, want, done>>
    BY <1>1, <1>9 DEF ReadUnit, DGoto, audio, ringVars
  <2>2. want = 0 /\ done = 0
    BY <1>1, <1>2, <2>1 DEF CallFits
  <2>3. /\ Read("video", pos + 1) = Read("video", pos) + (IF file[pos + 1] = "video" THEN 1 ELSE 0)
        /\ Read("audio", pos + 1) = Read("audio", pos) + (IF file[pos + 1] = "audio" THEN 1 ELSE 0)
    BY <2>1, ReadCounts
  <2>4. (Read("audio", pos) + 1) * APACKET = Read("audio", pos) * APACKET + APACKET
    BY <1>1, <1>6
  <2>5. CallFits'
    BY <2>1, <2>2 DEF CallFits
  <2>6. mpc \in LoopPcs =>
          /\ pushed' + VideoInHand' = Read("video", pos')
          /\ hasAudio => queued' + SoundInHand' = Read("audio", pos') * APACKET
    BY <1>1, <1>6, <1>7, <2>1, <2>2, <2>3, <2>4 DEF VideoInHand, SoundInHand
  <2> QED
    BY <1>5, <1>8, <2>1, <2>5, <2>6
<1>10. CASE ReadEnds \/ DropUnit \/ PushWaits \/ SpuriousWake \/ FinPrimed \/ FinEof
  <2>1. /\ UNCHANGED <<pos, pushed, queued, want, done, vcount>>
        /\ mpc \in LoopPcs => VideoInHand' = VideoInHand
        /\ (dpc = "audio" <=> dpc' = "audio") \/ stopReq
        /\ dpc # "queue" /\ dpc' \notin {"none", "queue"}
        /\ decodeEof => decodeEof'
        /\ dpc' \in {"finPrimed", "finEof", "finPlay", "done"} =>
             dpc \in {"finPrimed", "finEof"} \/ stopReq \/ pos = Len(file)
    BY <1>7, <1>10 DEF ReadEnds, DropUnit, PushWaits, SpuriousWake, FinPrimed, FinEof, DGoto,
      VideoInHand, audio, ringVars, fileVars, mpVars
  <2>2. CallFits'
    BY <1>2, <2>1 DEF CallFits
  <2> QED
    BY <1>7, <1>8, <2>1, <2>2 DEF SoundInHand
<1>11. CASE PushFrame
  <2>1. /\ UNCHANGED <<pos, queued, want, done>> /\ pushed' = pushed + 1
        /\ dpc = "video" /\ dpc' = "read"
    BY <1>11 DEF PushFrame, DGoto, audio, fileVars
  <2>2. CallFits'
    BY <1>2, <2>1 DEF CallFits
  <2> QED
    BY <1>1, <1>5, <1>7, <1>8, <2>1, <2>2 DEF VideoInHand, SoundInHand
<1>12. CASE PushSound
  <2>1. /\ UNCHANGED <<pos, pushed, queued>> /\ want' = APACKET /\ done' = 0
        /\ dpc = "audio" /\ dpc' = "queue"
    BY <1>12 DEF PushSound, DGoto, A!QueueCall, A!ringVars, ringVars, fileVars
  <2>2. CallFits'
    BY <2>1 DEF CallFits
  <2> QED
    BY <1>1, <1>5, <1>7, <1>8, <2>1, <2>2 DEF VideoInHand, SoundInHand
<1>13. CASE PushChunk
  <2>1. /\ UNCHANGED <<pos, pushed, want, dpc>> /\ dpc = "queue"
        /\ queued' = queued + A!Chunk /\ done' = done + A!Chunk
    BY <1>13 DEF PushChunk, A!QueueChunk, ringVars, fileVars
  <2>2. A!Chunk \in Nat
    BY <1>13, ChunkFits DEF IInv, PushChunk
  <2>3. CallFits'
    BY <1>2, <2>1 DEF CallFits
  <2> QED
    BY <1>1, <1>5, <1>7, <1>8, <2>1, <2>2, <2>3 DEF VideoInHand, SoundInHand
<1>14. CASE PushedSound
  <2>1. /\ UNCHANGED <<pos, pushed, queued>> /\ want' = 0 /\ done' = 0
        /\ dpc = "queue" /\ dpc' \in {"prime", "read"}
        /\ done = want \/ ~active \/ ~havePcm
    BY <1>14 DEF PushedSound, DGoto, A!QueueReturn, A!ringVars, ringVars, fileVars
  <2>2. CallFits'
    BY <2>1 DEF CallFits
  <2>3. mpc \in LoopPcs /\ hasAudio => done = want
    BY <1>2, <1>7, <2>1 DEF SessionOpen
  <2> QED
    BY <1>1, <1>5, <1>7, <1>8, <2>1, <2>2, <2>3 DEF VideoInHand, SoundInHand
<1>15. CASE Prime \/ FinPlay
  <2>1. /\ UNCHANGED <<pos, pushed, queued, want, done, vcount, decodeEof>>
        /\ \/ dpc = "prime" /\ dpc' = "read"
           \/ dpc = "finPlay" /\ dpc' = "done"
    BY <1>15 DEF Prime, FinPlay, DGoto, A!SetPaused, A!ringVars, A!callVars, audio, ringVars,
      fileVars, mpVars
  <2>2. CallFits'
    BY <1>2, <2>1 DEF CallFits
  <2> QED
    BY <1>1, <1>7, <1>8, <2>1, <2>2 DEF VideoInHand, SoundInHand
<1> QED
  BY <1>9, <1>10, <1>11, <1>12, <1>13, <1>14, <1>15 DEF DecoderNext

(* The main thread loses no unit: it starts a session from nothing and     *)
(* takes nothing back while the loop runs.                                 *)
LEMMA MainDelivers ==
  ASSUME IInv, MainNext
  PROVE  EndInv'
<1>1. /\ pushed \in Nat /\ queued \in Nat /\ want \in Nat /\ done \in 0..want
      /\ mpc \in MainPcs /\ dpc \in DecoderPcs /\ APACKET \in Nat \ {0}
  BY PlayerSizesAssumption DEF IInv, AudioInv, TypeOK, A!TypeOK
<1>2. CallFits /\ SetupFits /\ LoopFits /\ AllDelivered
  BY DEF IInv, EndInv
<1>3. CASE PlayFails \/ SetupSilent \/ SetupBegin \/ SetupBegun \/ SetupDone
           \/ SetupUndo \/ SetupUndone \/ SpawnFails
  <2>1. /\ mpc \in SetupPcs /\ mpc' \in {"begin", "swr", "undo", "spawn", "freeEnd"}
        /\ UNCHANGED <<dpc, want, done, pos, pushed>>
        /\ mpc' # "freeEnd" => stopReq' = stopReq
        /\ mpc' \in {"begin", "swr", "undo"} => hasAudio' = hasAudio /\ mpc \in {"setup", "begin", "swr"}
        /\ mpc' = "swr" => active' /\ queued' = 0
        /\ mpc' = "spawn" =>
             \/ hasAudio' = hasAudio /\ mpc \in {"setup", "undo"}
             \/ mpc = "swr" /\ active' = active /\ queued' = queued
    BY <1>3 DEF PlayFails, SetupSilent, SetupBegin, SetupBegun, SetupDone,
      SetupUndo, SetupUndone, SpawnFails, SetupPcs, audio, mpVars, ringVars, fileVars,
      A!BeginFail, A!BeginOpen, A!BeginReset, A!EndReset, A!EndClose, A!callVars
  <2>2. CallFits'
    BY <1>2, <2>1 DEF CallFits
  <2>3. SetupFits'
    BY <1>2, <2>1 DEF SetupFits, SetupPcs
  <2> QED
    BY <2>1, <2>2, <2>3 DEF EndInv, LoopFits, AllDelivered, LoopPcs
<1>4. CASE Spawn
  <2>1. /\ mpc = "spawn" /\ mpc' = "poll" /\ dpc' = "read" /\ UNCHANGED audio
        /\ UNCHANGED <<stopReq, hasAudio, pushed, pos, file>>
    BY <1>4 DEF Spawn, ringVars, fileVars
  <2>2. /\ dpc = "none" /\ pos = 0 /\ pushed = 0 /\ ~stopReq
        /\ hasAudio => active /\ queued = 0
    BY <1>2, <2>1 DEF SetupFits, SetupPcs
  <2>3. want = 0 /\ done = 0
    BY <1>1, <1>2, <2>2 DEF CallFits
  <2>4. Read("video", pos)' = 0 /\ Read("audio", pos)' = 0
    <3>1. Read("video", pos)' = Read("video", 0) /\ Read("audio", pos)' = Read("audio", 0)
      BY <2>1, <2>2 DEF Read
    <3> QED
      BY <3>1, ReadCounts
  <2>5. CallFits' /\ SetupFits' /\ LoopFits'
    BY <2>1, <2>2, <2>3 DEF CallFits, SetupFits, LoopFits, SetupPcs, audio
  <2>6. AllDelivered'
    BY <1>1, <2>1, <2>2, <2>3, <2>4 DEF AllDelivered, VideoInHand, SoundInHand, audio
  <2> QED
    BY <2>5, <2>6 DEF EndInv
<1>5. CASE PollFrames \/ PollAudio \/ ClockWall \/ ClockPrimed \/ ClockPlayed \/ ClockTail
  <2>1. /\ mpc \in LoopPcs /\ mpc' \in LoopPcs
        /\ mpc' = "pollAudio" => decodeEof /\ vcount = 0
        /\ UNCHANGED <<dpc, stopReq, hasAudio, decodeEof, vcount, pushed, pos, file>>
        /\ UNCHANGED <<active, queued, want, done>>
    BY <1>5 DEF PollFrames, PollAudio, ClockWall, ClockPrimed, ClockPlayed, ClockTail, Goto,
      LoopPcs, audio, mpVars, ringVars, fileVars
  <2>2. CallFits' /\ SetupFits' /\ LoopFits'
    BY <1>2, <2>1 DEF CallFits, SetupFits, LoopFits, SetupPcs, LoopPcs
  <2>3. AllDelivered'
    BY <1>2, <2>1 DEF AllDelivered, VideoInHand, SoundInHand, Read
  <2> QED
    BY <2>2, <2>3 DEF EndInv
<1>6. CASE Adopt
  <2>1. /\ mpc = "adopt" /\ mpc' = "poll"
        /\ dpc' = dpc \/ (dpc = "wait" /\ dpc' = "video")
        /\ UNCHANGED <<stopReq, hasAudio, pushed, pos, file>>
        /\ UNCHANGED <<active, queued, want, done>>
    BY <1>6 DEF Adopt, Goto, Signalled, audio, fileVars
  <2>2. CallFits' /\ SetupFits' /\ LoopFits'
    BY <1>2, <2>1 DEF CallFits, SetupFits, LoopFits, SetupPcs, LoopPcs
  <2>3. AllDelivered'
    BY <1>2, <2>1 DEF AllDelivered, VideoInHand, SoundInHand, Read, LoopPcs
  <2> QED
    BY <2>2, <2>3 DEF EndInv
<1>7. CASE Stop \/ Wake \/ StopEnd \/ StopClose \/ Join \/ FreeEnd \/ FreeClose
  <2>1. /\ mpc' \notin SetupPcs \cup LoopPcs \cup {"idle"}
        /\ dpc' = dpc \/ (dpc = "wait" /\ dpc' = "video")
        /\ UNCHANGED <<want, done>>
    BY <1>7 DEF Stop, Wake, StopEnd, StopClose, Join, FreeEnd, FreeClose, Goto, SetupPcs,
      LoopPcs, audio, A!EndReset, A!EndClose
  <2>2. CallFits'
    BY <1>2, <2>1 DEF CallFits
  <2> QED
    BY <2>1, <2>2 DEF EndInv, SetupFits, LoopFits, AllDelivered, SetupPcs
<1>8. CASE Free
  <2>1. mpc = "free" /\ mpc' = "idle" /\ UNCHANGED <<want, done>>
        /\ dpc' = IF dpc = "done" THEN "none" ELSE dpc
    BY <1>8 DEF Free, Goto, audio
  <2>2. dpc \in {"none", "done"}
    BY <2>1 DEF IInv, Places, RunningPcs
  <2> QED
    BY <1>2, <2>1, <2>2 DEF EndInv, CallFits, SetupFits, LoopFits, AllDelivered, SetupPcs, LoopPcs
<1> QED
  BY <1>3, <1>4, <1>5, <1>6, <1>7, <1>8 DEF MainNext

(* No step loses a unit.                                                   *)
LEMMA EndKept ==
  ASSUME IInv, Next
  PROVE  EndInv'
<1>1. /\ want \in Nat /\ done \in 0..want
  BY DEF IInv, AudioInv, A!TypeOK
<1>2. CallFits /\ SetupFits /\ LoopFits /\ AllDelivered
  BY DEF IInv, EndInv
<1>3. CASE Play
  <2>1. /\ mpc = "idle" /\ mpc' = "setup" /\ UNCHANGED <<dpc, want, done>>
        /\ pos' = 0 /\ pushed' = 0 /\ stopReq' = FALSE /\ hasAudio' = FALSE
    BY <1>3 DEF Play, ClearFlags, audio
  <2>2. CallFits' /\ SetupFits' /\ LoopFits'
    BY <1>2, <2>1 DEF CallFits, SetupFits, LoopFits, SetupPcs, LoopPcs
  <2>3. AllDelivered'
    BY <2>1 DEF AllDelivered, LoopPcs
  <2> QED
    BY <2>2, <2>3 DEF EndInv
<1>4. CASE Quit \/ AudioNext \/ Tick \/ Finished
  <2>1. /\ mpc' = mpc \/ (mpc \in {"poll", "input"} /\ mpc' = "stop")
        /\ UNCHANGED <<dpc, stopReq, hasAudio, decodeEof, vcount, pushed, pos, file>>
        /\ UNCHANGED <<active, queued, want, done>>
    BY <1>4 DEF Quit, Goto, AudioNext, Tick, Finished, vars, audio, mpVars, ringVars, fileVars,
      A!MixNext, A!MixEnter, A!MixNothing, A!MixFrames, A!callVars, A!ringVars
  <2>2. CallFits' /\ SetupFits' /\ LoopFits'
    BY <1>2, <2>1 DEF CallFits, SetupFits, LoopFits, SetupPcs, LoopPcs
  <2>3. AllDelivered'
    BY <1>2, <2>1 DEF AllDelivered, VideoInHand, SoundInHand, Read, LoopPcs
  <2> QED
    BY <2>2, <2>3 DEF EndInv
<1>5. CASE GameStarts \/ Shutdown
  <2>1. /\ mpc = "idle" /\ UNCHANGED <<mpc, dpc, want, done>>
    BY <1>5 DEF GameStarts, Shutdown, A!GameOpensDevice, A!ShutdownEnd, A!ShutdownGiveBack,
      A!ShutdownFree, A!ShutdownClose, A!callVars
  <2> QED
    BY <1>2, <2>1 DEF EndInv, CallFits, SetupFits, LoopFits, AllDelivered, SetupPcs, LoopPcs
<1> QED
  BY <1>3, <1>4, <1>5, MainDelivers, DecoderDelivers DEF Next

-----------------------------------------------------------------------------
(* The invariant holds before the first movie.                             *)
LEMMA InitIInv == Init => IInv
<1> SUFFICES ASSUME Init PROVE IInv
  OBVIOUS
<1>1. NUM_VFRAMES \in Nat \ {0} /\ MaxTick \in Nat /\ MaxSessions \in Nat
  BY PlayerSizesAssumption
<1>2. /\ A!TypeOK /\ AudioInv /\ want = 0 /\ call = "none"
  BY InitAudioInv DEF AudioInv, Init, A!Init
<1>3. TypeOK /\ file \in Seq({"video", "audio"})
  <2>1. 0 \in VSlots /\ 0 \in 0..NUM_VFRAMES /\ 0 \in 0..Len(file) /\ 0 \in 0..MaxSessions
        /\ 0 \in 0..MaxTick
    BY <1>1 DEF VSlots, Init
  <2> QED
    BY <1>2, <2>1 DEF Init, TypeOK, MainPcs, DecoderPcs
<1>4. Places /\ WriteFollows /\ FramesInOrder /\ ClockRuns
  BY <1>1, <1>2 DEF Init, Places, WriteFollows, Wrap, FramesInOrder, ClockRuns
<1>5. EndInv
  BY <1>2 DEF Init, EndInv, CallFits, SetupFits, LoopFits, AllDelivered, SetupPcs, LoopPcs
<1> QED
  BY <1>2, <1>3, <1>4, <1>5 DEF IInv

(* The invariant is inductive.                                             *)
LEMMA NextIInv == IInv /\ [Next]_vars => IInv'
<1> SUFFICES ASSUME IInv, [Next]_vars PROVE IInv'
  OBVIOUS
<1>1. AudioInv'
  BY NextAudioInv DEF IInv
<1>2. CASE Next
  BY <1>1, <1>2, PlacesKept, FramesKept, TypesKept, ClockKept, EndKept DEF IInv
<1>3. CASE UNCHANGED vars
  <2>1. TypeOK' /\ Places' /\ WriteFollows' /\ FramesInOrder' /\ ClockRuns'
    BY <1>1, <1>3 DEF vars, audio, mpVars, ringVars, clockVars, fileVars, IInv, AudioInv, TypeOK,
      Places, WriteFollows, FramesInOrder, At, Wrap, ClockRuns
  <2>2. EndInv'
    BY <1>3 DEF vars, audio, mpVars, ringVars, fileVars, IInv, EndInv, CallFits, SetupFits,
      LoopFits, AllDelivered, VideoInHand, SoundInHand, Read
  <2>3. file' = file
    BY <1>3 DEF vars, fileVars
  <2> QED
    BY <1>1, <2>1, <2>2, <2>3 DEF IInv
<1> QED
  BY <1>2, <1>3

(* Every variable of the player keeps its type, whatever the sizes.        *)
THEOREM TypeCorrect == Spec => []TypeOK
<1>1. IInv => TypeOK
  BY DEF IInv
<1> QED
  BY InitIInv, NextIInv, <1>1, PTL DEF Spec

(* Lines 126-172 and 428-452: the ring holds the frames pushed and not     *)
(* taken, in order, so no frame is shown twice or after a later one.       *)
THEOREM FramesInOrderAlways == Spec => []FramesInOrder
<1>1. IInv => FramesInOrder
  BY DEF IInv
<1> QED
  BY InitIInv, NextIInv, <1>1, PTL DEF Spec

(* Lines 225-259: free_session never runs under a live decoder.            *)
THEOREM SessionOutlivesDecoderAlways == Spec => []SessionOutlivesDecoder
<1>1. IInv => SessionOutlivesDecoder
  BY DEF IInv, Places, RunningPcs, SessionOutlivesDecoder
<1> QED
  BY InitIInv, NextIInv, <1>1, PTL DEF Spec

(* Lines 86-108: the clock of a session never goes back, although it is    *)
(* put together from separate readings of other threads' progress.         *)
THEOREM ClockAlways == Spec => ClockNeverGoesBack
<1>1. IInv /\ AudioInv' /\ [Next]_vars => [mpc # "idle" => clk' >= clk]_vars
  BY ClockKept
<1>2. IInv' => AudioInv'
  BY DEF IInv
<1> QED
  BY InitIInv, NextIInv, <1>1, <1>2, PTL DEF Spec, ClockNeverGoesBack

(* Lines 391-398: a movie that ends by itself has shown its last frame and *)
(* played all of its sound.                                                *)
THEOREM NaturalEndAlways == Spec => NaturalEndIsTheEnd
<1> DEFINE Ends == mpc = "pollAudio" /\ mpc' = "stop" =>
                     /\ last = Units("video")
                     /\ hasAudio => played = Units("audio") * APACKET
<1>1. IInv /\ [Next]_vars => [Ends]_vars
  <2> SUFFICES ASSUME IInv, Next, mpc = "pollAudio", mpc' = "stop"
               PROVE  /\ last = Units("video")
                      /\ hasAudio => played = Units("audio") * APACKET
    OBVIOUS
  <2>1. /\ pushed \in Nat /\ queued \in Nat /\ played \in Nat /\ count \in Nat /\ vcount \in Nat
        /\ want \in Nat /\ done \in 0..want
    BY DEF IInv, AudioInv, TypeOK, A!TypeOK
  <2>2. hasAudio => count = 0
    <3>1. PollAudio
      BY DEF Next, Play, Quit, GameStarts, MainNext, PlayFails, SetupSilent, SetupBegin,
        SetupBegun, SetupDone, SetupUndo, SetupUndone, Spawn, SpawnFails, PollFrames, PollAudio,
        ClockWall, ClockPrimed, ClockPlayed, ClockTail, Adopt, Stop, Wake, StopEnd, StopClose,
        Join, FreeEnd, FreeClose, Free, DecoderNext, SpuriousWake, ReadUnit, ReadEnds, DropUnit,
        PushWaits, PushFrame, PushSound, PushChunk, PushedSound, Prime, FinPrimed, FinEof,
        FinPlay, AudioNext, Tick, Shutdown, Finished, Goto, vars
    <3> QED
      BY <3>1 DEF PollAudio, AudioDone, Goto
  <2>3. /\ decodeEof /\ vcount = 0 /\ dpc \in {"finPlay", "done"}
        /\ pos = Len(file) /\ (hasAudio => active) /\ alloc
    BY DEF IInv, EndInv, LoopFits, LoopPcs, ClockRuns, Places
  <2>4. last = pushed
    BY <2>1, <2>3 DEF IInv, FramesInOrder
  <2>5. /\ pushed + VideoInHand = Read("video", pos)
        /\ hasAudio => queued + SoundInHand = Read("audio", pos) * APACKET
    BY DEF IInv, EndInv, AllDelivered, LoopPcs
  <2>6. VideoInHand = 0 /\ SoundInHand = 0
    BY <2>1, <2>3 DEF VideoInHand, SoundInHand, IInv, EndInv, CallFits
  <2>7. hasAudio => queued = played + count
    BY <2>3 DEF IInv, AudioInv, A!RingHoldsUnplayed
  <2>8. Units("video") = Read("video", pos) /\ Units("audio") = Read("audio", pos)
    BY <2>3 DEF Units, Read
  <2> QED
    BY <2>1, <2>2, <2>4, <2>5, <2>6, <2>7, <2>8
<1> QED
  BY InitIInv, NextIInv, <1>1, PTL DEF Spec, NaturalEndIsTheEnd
=============================================================================
