--------------------------- MODULE OpenSLESProofs ---------------------------
(***************************************************************************)
(* Proofs about OpenSLES, for any number of threads, players, buffers,     *)
(* registry slots and queue slots: its types, that the audio thread mixes  *)
(* only live players, that the registry names each live player at most     *)
(* once, and that a player is left unheard only by a full registry.        *)
(***************************************************************************)
EXTENDS OpenSLES, WellFoundedInduction, TLAPS

-----------------------------------------------------------------------------
(* The inductive invariant.                                                *)

(* The audio thread holds g_reg_lock exactly during a period. *)
LockHeld == regLock = IF apc = "idle" THEN Nobody ELSE Audio

(* The player being mixed is the one the loop index names. *)
MixesRegistered ==
  Mixing => ap \in Players /\ ai < nplayers /\ players[ai] = ap

(* Frames are wanted wherever the loop body of mix_player is. *)
FramesWanted ==
  apc \in {"sample", "cbWait", "cbBody", "pop", "install"} => left > 0

(* The popped entry is a buffer, because the slots in use hold buffers. *)
PoppedBuffer == apc = "install" => popped \in Buffers
InUse(r, i) == IF r.head <= r.tail THEN r.head <= i /\ i < r.tail
                                   ELSE r.head <= i \/ i < r.tail
RingFilled(r) == \A i \in Slots : InUse(r, i) => r.slot[i] \in Buffers
RingsFilled == \A p \in Players : RingFilled(ring[p])

(* Slots from g_player_count on are empty. *)
RegistryBounded ==
  \A i \in DOMAIN players : players[i] # NoPlayer => i < nplayers

(* What an engine thread is in the middle of agrees with its player's      *)
(* life, and two threads in the middle of something with the same player   *)
(* are both clearing it.                                                   *)
Expected(s) == CASE s \in {"open", "register"} -> "new"
                 [] s = "clear"  -> "live"
                 [] s = "unlink" -> "dying"
                 [] s = "free"   -> "unlinked"
OperationsAgree ==
  /\ \A t \in Threads :
       IF tpc[t] = "idle" THEN tobj[t] = NoPlayer
       ELSE tobj[t] \in Players /\ life[tobj[t]] = Expected(tpc[t])
  /\ \A t, u \in Threads :
       t # u /\ tobj[t] = tobj[u] /\ tobj[t] # NoPlayer => tpc[t] = "clear"

IInv == /\ TypeOK /\ LockHeld /\ MixesRegistered /\ FramesWanted
        /\ PoppedBuffer /\ RingsFilled /\ RegistryBounded /\ RegistrySound
        /\ OperationsAgree

-----------------------------------------------------------------------------
(* Lemmas about the operators.                                             *)

(* Indices of a ring wrap from its last slot to its first.                 *)
LEMMA NextIndex ==
  ASSUME NEW n \in Nat \ {0}, NEW i \in 0..(n - 1)
  PROVE  (i + 1) % n = IF i + 1 < n THEN i + 1 ELSE 0
OBVIOUS

LEMMA NextSlot ==
  ASSUME NEW i \in Slots
  PROVE  /\ (i + 1) % BQ_SLOTS = IF i + 1 < BQ_SLOTS THEN i + 1 ELSE 0
         /\ (i + 1) % BQ_SLOTS \in Slots
<1>1. BQ_SLOTS \in Nat \ {0} /\ i \in 0..(BQ_SLOTS - 1)
  BY SizesAssumption DEF Slots
<1>2. (i + 1) % BQ_SLOTS = IF i + 1 < BQ_SLOTS THEN i + 1 ELSE 0
  BY ONLY <1>1, NextIndex
<1> QED
  BY <1>1, <1>2 DEF Slots

(* The empty ring of a new player is well typed and has no slot in use.    *)
LEMMA EmptyRingSound == EmptyRing \in RingType /\ RingFilled(EmptyRing)
BY SizesAssumption DEF EmptyRing, RingType, RingFilled, InUse, Slots

(* bq_Enqueue (480-493) keeps a ring's type and fills the slot it uses.    *)
LEMMA PutSound ==
  ASSUME NEW r \in RingType, RingFilled(r), NEW b \in Buffers
  PROVE  Put(r, b) \in RingType /\ RingFilled(Put(r, b))
<1> DEFINE next == IF r.tail + 1 < BQ_SLOTS THEN r.tail + 1 ELSE 0
<1>1. (r.tail + 1) % BQ_SLOTS = next /\ next \in Slots
  BY NextSlot DEF RingType
<1>2. CASE IsFull(r)
  BY <1>2 DEF Put
<1>3. CASE ~IsFull(r)
  <2>1. Put(r, b) = [slot |-> [r.slot EXCEPT ![r.tail] = b],
                     head |-> r.head, tail |-> next]
    BY <1>1, <1>3 DEF Put, RingType
  <2>2. Put(r, b) \in RingType
    BY <1>1, <2>1 DEF RingType
  <2>3. next # r.head
    BY <1>1, <1>3 DEF IsFull
  <2>4. ASSUME NEW i \in Slots, InUse(Put(r, b), i)
        PROVE  i = r.tail \/ InUse(r, i)
    BY <2>1, <2>3, <2>4, SizesAssumption DEF InUse, Slots, RingType
  <2> QED
    BY <2>1, <2>2, <2>4 DEF RingFilled, RingType
<1> QED
  BY <1>2, <1>3

(* The pop of mix_player (257-263) takes a buffer out of a queue that is   *)
(* not empty, and keeps the ring's type.                                   *)
LEMMA DropFirstSound ==
  ASSUME NEW r \in RingType, RingFilled(r), Count(r) > 0
  PROVE  /\ r.slot[r.head] \in Buffers
         /\ DropFirst(r) \in RingType /\ RingFilled(DropFirst(r))
<1> DEFINE next == IF r.head + 1 < BQ_SLOTS THEN r.head + 1 ELSE 0
<1>1. (r.head + 1) % BQ_SLOTS = next /\ next \in Slots
  BY NextSlot DEF RingType
<1>2. r.head # r.tail
  BY SizesAssumption DEF Count, RingType, Slots
<1>3. InUse(r, r.head) /\ r.head \in Slots
  BY <1>2, SizesAssumption DEF InUse, RingType, Slots
<1>4. DropFirst(r) = [slot |-> r.slot, head |-> next, tail |-> r.tail]
  BY <1>1 DEF DropFirst, RingType
<1>5. DropFirst(r) \in RingType
  BY <1>1, <1>4 DEF RingType
<1>6. ASSUME NEW i \in Slots, InUse(DropFirst(r), i) PROVE InUse(r, i)
  BY <1>2, <1>4, <1>6, SizesAssumption DEF InUse, Slots, RingType
<1> QED
  BY <1>3, <1>4, <1>5, <1>6 DEF RingFilled

(* Clear's reset leaves no slot in use.                                    *)
LEMMA ResetSound ==
  ASSUME NEW r \in RingType
  PROVE  Reset(r) \in RingType /\ RingFilled(Reset(r))
BY SizesAssumption DEF Reset, RingType, RingFilled, InUse, Slots

(* The slot CreateAudioPlayer chooses (672-676) is an empty one in use, or *)
(* the next one when there is none.                                        *)
LEMMA FirstSlotSound ==
  ASSUME TypeOK
  PROVE  /\ FirstSlot \in 0..nplayers
         /\ FirstSlot < nplayers => players[FirstSlot] = NoPlayer
         /\ FirstSlot = nplayers => EmptySlots = {}
<1>1. nplayers \in Nat /\ EmptySlots \subseteq Nat
  BY SizesAssumption DEF TypeOK, EmptySlots
<1>2. CASE EmptySlots = {}
  BY <1>1, <1>2 DEF FirstSlot
<1>3. CASE EmptySlots # {}
  <2>1. PICK m \in EmptySlots :
          \A j \in EmptySlots : <<j, m>> \notin OpToRel(<, Nat)
    BY <1>1, <1>3, NatLessThanWellFounded, WFMin
  <2>2. \A j \in EmptySlots : m <= j
    <3>1. SUFFICES ASSUME NEW j \in EmptySlots, j < m PROVE FALSE
      BY <1>1
    <3>2. <<j, m>> \in Nat \X Nat /\ <<j, m>>[1] < <<j, m>>[2]
      BY <1>1, <3>1
    <3> QED
      BY <2>1, <3>2 DEF OpToRel
  <2>3. FirstSlot \in EmptySlots
    BY <1>3, <2>2 DEF FirstSlot
  <2> QED
    BY <1>1, <2>3 DEF EmptySlots
<1> QED
  BY <1>2, <1>3

-----------------------------------------------------------------------------
(* The invariant is inductive.                                             *)

LEMMA InitSound == Init => IInv
<1> SUFFICES ASSUME Init PROVE IInv
  OBVIOUS
<1> USE SizesAssumption, NamesAssumption DEF Init
<1>1. TypeOK
  <2>1. ring \in [Players -> RingType]
    BY EmptyRingSound
  <2>2. players \in [0..(MAX_PLAYERS - 1) -> Players \cup {NoPlayer}]
    OBVIOUS
  <2>3. nplayers \in 0..MAX_PLAYERS /\ ai \in 0..MAX_PLAYERS
        /\ left \in 0..Period
    OBVIOUS
  <2>4. /\ life \in [Players -> Lives] /\ playing \in [Players -> BOOLEAN]
        /\ cb \in [Players -> BOOLEAN] /\ rem \in [Players -> Int]
        /\ cur \in [Players -> Buffers \cup {NoBuffer}]
        /\ plock \in [Players -> Threads \cup {Nobody}]
    BY DEF Lives
  <2>5. /\ tpc \in [Threads -> EnginePcs]
        /\ tobj \in [Threads -> Players \cup {NoPlayer}]
    BY DEF EnginePcs
  <2>6. /\ regLock \in {Audio, Nobody} /\ em \in Threads \cup {Audio, Nobody}
        /\ dev \in BOOLEAN /\ running \in BOOLEAN /\ apc \in AudioPcs
        /\ ap \in Players \cup {NoPlayer}
        /\ popped \in Buffers \cup {NoBuffer}
    BY DEF AudioPcs
  <2> QED
    BY ONLY <2>1, <2>2, <2>3, <2>4, <2>5, <2>6 DEF TypeOK
<1>2. LockHeld /\ MixesRegistered /\ FramesWanted /\ PoppedBuffer
  BY DEF LockHeld, MixesRegistered, Mixing, FramesWanted, PoppedBuffer
<1>3. RingsFilled
  BY EmptyRingSound DEF RingsFilled
<1>4. RegistryBounded /\ RegistrySound /\ OperationsAgree
  BY DEF RegistryBounded, RegistrySound, OperationsAgree
<1> QED
  BY <1>1, <1>2, <1>3, <1>4 DEF IInv

(* A step that leaves the registry, the players' lives and the engine      *)
(* threads' control alone keeps what the invariant says of them.           *)
LEMMA RegistryFrame ==
  ASSUME IInv, UNCHANGED <<life, players, nplayers, tpc, tobj>>
  PROVE  RegistryBounded' /\ RegistrySound' /\ OperationsAgree'
BY DEF IInv, RegistryBounded, RegistrySound, OperationsAgree, Expected

(* A step that leaves the audio thread's control and what it reads alone   *)
(* keeps what the invariant says of the audio thread.                      *)
LEMMA AudioFrame ==
  ASSUME IInv, UNCHANGED <<players, nplayers, regLock, audioVars>>
  PROVE  LockHeld' /\ MixesRegistered' /\ FramesWanted' /\ PoppedBuffer'
BY DEF IInv, LockHeld, MixesRegistered, Mixing, FramesWanted, PoppedBuffer,
   audioVars

(* Thread t enters or leaves an operation on player p, and p's life        *)
(* changes with it; nobody else is in the middle of anything but a Clear   *)
(* of a player that stays live.                                            *)
Moves(t, p, s, o) ==
  /\ o \in {p, NoPlayer} /\ (s = "idle" <=> o = NoPlayer)
  /\ tpc' = [tpc EXCEPT ![t] = s] /\ tobj' = [tobj EXCEPT ![t] = o]
  /\ \A q \in Players \ {p} : life'[q] = life[q]
  /\ s # "idle" => life'[p] = Expected(s)
  /\ \A u \in Threads \ {t} :
       tobj[u] = p => /\ tpc[u] = "clear" /\ life'[p] = "live"
                      /\ s \in {"idle", "clear"}

LEMMA OperationChanges ==
  ASSUME IInv, NEW t \in Threads, NEW p \in Players, NEW s, NEW o,
         Moves(t, p, s, o)
  PROVE  OperationsAgree'
<1> USE NamesAssumption DEF Moves
<1>1. /\ tpc'[t] = s /\ tobj'[t] = o
      /\ \A u \in Threads \ {t} : tpc'[u] = tpc[u] /\ tobj'[u] = tobj[u]
  BY DEF IInv, TypeOK
<1>2. ASSUME NEW u \in Threads
      PROVE  IF tpc'[u] = "idle" THEN tobj'[u] = NoPlayer
             ELSE tobj'[u] \in Players /\ life'[tobj'[u]] = Expected(tpc'[u])
  <2>1. CASE u = t
    BY <1>1, <2>1
  <2>2. CASE u # t /\ tobj[u] = p
    BY <1>1, <2>2 DEF Expected
  <2>3. CASE u # t /\ tobj[u] # p
    BY <1>1, <2>3 DEF IInv, OperationsAgree
  <2> QED
    BY <2>1, <2>2, <2>3
<1>3. ASSUME NEW u \in Threads, NEW v \in Threads, u # v,
             tobj'[u] = tobj'[v], tobj'[u] # NoPlayer
      PROVE  tpc'[u] = "clear"
  <2>1. CASE u = t
    BY <1>1, <1>3, <2>1
  <2>2. CASE v = t
    BY <1>1, <1>3, <2>2
  <2>3. CASE u # t /\ v # t
    BY <1>1, <1>3, <2>3 DEF IInv, OperationsAgree
  <2> QED
    BY <2>1, <2>2, <2>3
<1>4. \A u \in Threads :
        IF tpc'[u] = "idle" THEN tobj'[u] = NoPlayer
        ELSE tobj'[u] \in Players /\ life'[tobj'[u]] = Expected(tpc'[u])
  BY <1>2
<1>5. \A u, v \in Threads :
        u # v /\ tobj'[u] = tobj'[v] /\ tobj'[u] # NoPlayer
          => tpc'[u] = "clear"
  BY <1>3
<1> QED
  BY <1>4, <1>5 DEF OperationsAgree, Expected

(* What a thread in the middle of creating or destroying a player knows.   *)
LEMMA OperationOwned ==
  ASSUME IInv, NEW t \in Threads, tpc[t] # "idle"
  PROVE  /\ tobj[t] \in Players /\ life[tobj[t]] = Expected(tpc[t])
         /\ \A u \in Threads \ {t} :
              tobj[u] = tobj[t] => tpc[t] = "clear" /\ tpc[u] = "clear"
BY NamesAssumption DEF IInv, OperationsAgree

(* An engine thread is in the middle of something only with a player whose *)
(* life says so.                                                           *)
LEMMA OperationKnown ==
  ASSUME IInv, NEW u \in Threads, NEW p \in Players, tobj[u] = p
  PROVE  /\ life[p] \in {"new", "live", "dying", "unlinked"}
         /\ life[p] = "live" => tpc[u] = "clear"
BY NamesAssumption DEF IInv, TypeOK, EnginePcs, OperationsAgree, Expected

(* The audio thread's steps change neither the registry nor the engine's   *)
(* threads.                                                                *)
LEMMA AudioStepSound == IInv /\ AudioNext => IInv'
<1> SUFFICES ASSUME IInv, AudioNext PROVE IInv'
  OBVIOUS
<1> USE SizesAssumption, NamesAssumption
<1>1. UNCHANGED <<life, players, nplayers, tpc, tobj>>
  BY DEF AudioNext, CallbackBegin, SkipSlot, EnterPlayer, CallbackEnd,
         PeriodFull, SampleNext, BufferFinished, NoCurrent, CbEnter, CbRefill,
         CbDecline, Pop, Underrun, Install, Sample, regVars, engineVars
<1>2. RegistryBounded' /\ RegistrySound' /\ OperationsAgree'
  BY <1>1, RegistryFrame
<1>3. LockHeld'
  BY DEF IInv, LockHeld, AudioNext, CallbackBegin, SkipSlot, EnterPlayer,
         CallbackEnd, PeriodFull, SampleNext, BufferFinished, NoCurrent,
         CbEnter, CbRefill, CbDecline, Pop, Underrun, Install, Sample,
         regVars, LeavePlayer
<1>4. MixesRegistered'
  BY <1>1 DEF IInv, TypeOK, MixesRegistered, Mixing, AudioNext, CallbackBegin,
         SkipSlot, EnterPlayer, CallbackEnd, PeriodFull, SampleNext,
         BufferFinished, NoCurrent, CbEnter, CbRefill, CbDecline, Pop,
         Underrun, Install, Sample, LeavePlayer
<1>5. FramesWanted' /\ PoppedBuffer'
  <2>1. CASE Pop
    BY <2>1, DropFirstSound
       DEF IInv, TypeOK, MixesRegistered, Mixing, FramesWanted, PoppedBuffer,
           RingsFilled, Pop
  <2>2. CASE ~Pop
    BY <2>2 DEF IInv, TypeOK, FramesWanted, PoppedBuffer, AudioNext,
         CallbackBegin, SkipSlot, EnterPlayer, CallbackEnd, PeriodFull,
         SampleNext, BufferFinished, NoCurrent, CbEnter, CbRefill, CbDecline,
         Underrun, Install, Sample, LeavePlayer
  <2> QED
    BY <2>1, <2>2
<1>6. ring' \in [Players -> RingType] /\ RingsFilled'
  <2>1. CASE CbRefill
    BY <2>1, PutSound
       DEF IInv, TypeOK, MixesRegistered, Mixing, RingsFilled, CbRefill
  <2>2. CASE Pop
    BY <2>2, DropFirstSound
       DEF IInv, TypeOK, MixesRegistered, Mixing, RingsFilled, Pop
  <2>3. CASE UNCHANGED ring
    BY <2>3 DEF IInv, TypeOK, RingsFilled
  <2> QED
    BY <2>1, <2>2, <2>3 DEF AudioNext, CallbackBegin, SkipSlot, EnterPlayer,
       CallbackEnd, PeriodFull, SampleNext, BufferFinished, NoCurrent, CbEnter,
       CbDecline, Underrun, Install, Sample, playerVars
<1>7. TypeOK'
  <2> USE <1>1, <1>6
      DEF TypeOK, Lives, AudioPcs, EnginePcs, playerVars, devVars, engineVars,
          regVars, LeavePlayer
  <2>2. CASE CallbackBegin
    BY <2>2 DEF IInv, CallbackBegin
  <2>3. CASE SkipSlot
    BY <2>3 DEF IInv, SkipSlot
  <2>4. CASE EnterPlayer
    BY <2>4 DEF IInv, EnterPlayer
  <2>5. CASE CallbackEnd
    BY <2>5 DEF IInv, CallbackEnd
  <2>6. CASE PeriodFull
    BY <2>6 DEF IInv, MixesRegistered, Mixing, PeriodFull
  <2>7. CASE SampleNext \/ NoCurrent
    <3>1. CASE SampleNext
      BY <3>1 DEF IInv, SampleNext
    <3>2. CASE NoCurrent
      BY <3>2 DEF IInv, NoCurrent
    <3> QED
      BY <2>7, <3>1, <3>2
  <2>8. CASE BufferFinished
    BY <2>8 DEF IInv, BufferFinished
  <2>9. CASE CbEnter \/ CbDecline
    BY <2>9 DEF IInv, CbEnter, CbDecline
  <2>10. CASE CbRefill
    BY <2>10 DEF IInv, CbRefill
  <2>11. CASE Pop
    BY <2>11, DropFirstSound
       DEF IInv, MixesRegistered, Mixing, RingsFilled, Pop
  <2>12. CASE Underrun
    BY <2>12 DEF IInv, MixesRegistered, Mixing, Underrun
  <2>13. CASE Install
    <3>1. BufFrames[popped] \in Int
      BY <2>13 DEF IInv, PoppedBuffer, Install
    <3>2. cur' \in [Players -> Buffers \cup {NoBuffer}]
      BY <2>13 DEF IInv, Install
    <3>3. rem' \in [Players -> Int]
      BY <2>13, <3>1 DEF IInv, Install
    <3> QED
      BY <2>13, <3>2, <3>3 DEF IInv, Install
  <2>14. CASE Sample
    BY <2>14 DEF IInv, MixesRegistered, Mixing, FramesWanted, Sample
  <2> QED
    BY <2>2, <2>3, <2>4, <2>5, <2>6, <2>7, <2>8, <2>9, <2>10, <2>11, <2>12,
       <2>13, <2>14 DEF AudioNext
<1> QED
  BY <1>2, <1>3, <1>4, <1>5, <1>6, <1>7 DEF IInv

(* The engine threads' calls.  Those that change the registry need         *)
(* g_reg_lock, so they find the audio thread idle.                         *)
LEMMA EngineStepSound ==
  ASSUME NEW t \in Threads, IInv, EngineNext(t) PROVE IInv'
<1> USE SizesAssumption, NamesAssumption
<1> USE DEF playerVars, regVars, devVars, audioVars, engineVars
<1>1. CASE LockSound(t) \/ UnlockSound(t)
  <2>1. TypeOK'
    BY <1>1 DEF LockSound, UnlockSound, IInv, TypeOK
  <2>2. /\ UNCHANGED <<life, players, nplayers, tpc, tobj>>
        /\ UNCHANGED <<regLock, audioVars, ring>>
    BY <1>1 DEF LockSound, UnlockSound
  <2> QED
    BY <2>1, <2>2, RegistryFrame, AudioFrame DEF IInv, RingsFilled
<1>2. ASSUME NEW p \in Players, NEW b \in Buffers, Enqueue(t, p, b)
      PROVE  IInv'
  <2>1. ring' \in [Players -> RingType] /\ RingsFilled'
    BY <1>2, PutSound DEF Enqueue, IInv, TypeOK, RingsFilled
  <2>2. TypeOK'
    BY <1>2, <2>1 DEF Enqueue, IInv, TypeOK
  <2>3. /\ UNCHANGED <<life, players, nplayers, tpc, tobj>>
        /\ UNCHANGED <<regLock, audioVars>>
    BY <1>2 DEF Enqueue
  <2> QED
    BY <2>1, <2>2, <2>3, RegistryFrame, AudioFrame DEF IInv
<1>3. ASSUME NEW p \in Players, ClearBegin(t, p) PROVE IInv'
  <2>1. ring' \in [Players -> RingType] /\ RingsFilled'
    BY <1>3, ResetSound DEF ClearBegin, IInv, TypeOK, RingsFilled
  <2>2. /\ UNCHANGED <<life, players, nplayers>>
        /\ UNCHANGED <<regLock, audioVars>> /\ life[p] = "live"
    BY <1>3 DEF ClearBegin, MayUse
  <2>3. /\ tpc' = [tpc EXCEPT ![t] = "clear"]
        /\ tobj' = [tobj EXCEPT ![t] = p]
    BY <1>3 DEF ClearBegin
  <2>4. OperationsAgree'
    <3>1. Moves(t, p, "clear", p)
      BY <2>2, <2>3, OperationKnown DEF Moves, Expected
    <3> QED
      BY <3>1, OperationChanges
  <2>5. TypeOK'
    BY <1>3, <2>1 DEF ClearBegin, IInv, TypeOK, EnginePcs
  <2>6. RegistryBounded' /\ RegistrySound'
    BY <2>2 DEF IInv, RegistryBounded, RegistrySound
  <2> QED
    BY <2>1, <2>2, <2>4, <2>5, <2>6, AudioFrame DEF IInv
<1>4. CASE ClearEnd(t)
  <2> DEFINE p == tobj[t]
  <2>1. /\ p \in Players /\ life[p] = "live"
        /\ \A u \in Threads \ {t} : tobj[u] = p => tpc[u] = "clear"
    BY <1>4, OperationOwned DEF ClearEnd, Expected
  <2>2. /\ UNCHANGED <<life, players, nplayers, ring>>
        /\ UNCHANGED <<regLock, audioVars>>
    BY <1>4 DEF ClearEnd
  <2>3. /\ tpc' = [tpc EXCEPT ![t] = "idle"]
        /\ tobj' = [tobj EXCEPT ![t] = NoPlayer]
    BY <1>4 DEF ClearEnd
  <2>4. OperationsAgree'
    <3> HIDE DEF p
    <3>1. Moves(t, p, "idle", NoPlayer)
      BY <2>1, <2>2, <2>3, NamesAssumption DEF Moves
    <3> QED
      BY <2>1, <3>1, OperationChanges
  <2>5. TypeOK'
    <3>1. cur' \in [Players -> Buffers \cup {NoBuffer}]
      BY <1>4 DEF ClearEnd, IInv, TypeOK
    <3>2. rem' \in [Players -> Int]
      BY <1>4, <2>1 DEF ClearEnd, IInv, TypeOK
    <3>3. plock' \in [Players -> Threads \cup {Nobody}]
      BY <1>4 DEF ClearEnd, IInv, TypeOK
    <3>4. /\ tpc' \in [Threads -> EnginePcs]
          /\ tobj' \in [Threads -> Players \cup {NoPlayer}]
      BY <2>3 DEF IInv, TypeOK, EnginePcs
    <3> QED
      BY <1>4, <3>1, <3>2, <3>3, <3>4 DEF ClearEnd, IInv, TypeOK
  <2>6. RegistryBounded' /\ RegistrySound'
    BY <2>2 DEF IInv, RegistryBounded, RegistrySound
  <2> QED
    BY <2>2, <2>4, <2>5, <2>6, AudioFrame DEF IInv, RingsFilled
<1>5. ASSUME NEW p \in Players, NEW on \in BOOLEAN, RegisterCallback(t, p, on)
      PROVE  IInv'
  <2>1. TypeOK'
    BY <1>5 DEF RegisterCallback, IInv, TypeOK
  <2>2. /\ UNCHANGED <<life, players, nplayers, tpc, tobj>>
        /\ UNCHANGED <<regLock, audioVars, ring>>
    BY <1>5 DEF RegisterCallback
  <2> QED
    BY <2>1, <2>2, RegistryFrame, AudioFrame DEF IInv, RingsFilled
<1>6. ASSUME NEW p \in Players, NEW on \in BOOLEAN, SetPlayState(t, p, on)
      PROVE  IInv'
  <2>1. TypeOK'
    BY <1>6 DEF SetPlayState, IInv, TypeOK
  <2>2. /\ UNCHANGED <<life, players, nplayers, tpc, tobj>>
        /\ UNCHANGED <<regLock, audioVars, ring>>
    BY <1>6 DEF SetPlayState
  <2> QED
    BY <2>1, <2>2, RegistryFrame, AudioFrame DEF IInv, RingsFilled
<1>7. ASSUME NEW p \in Players, CreateBegin(t, p) PROVE IInv'
  <2>1. ring' \in [Players -> RingType] /\ RingsFilled'
    BY <1>7, EmptyRingSound DEF CreateBegin, IInv, TypeOK, RingsFilled
  <2>2. /\ UNCHANGED <<players, nplayers>>
        /\ UNCHANGED <<regLock, audioVars>> /\ life[p] = "free"
    BY <1>7 DEF CreateBegin
  <2>3. PICK s \in {"open", "register"} : tpc' = [tpc EXCEPT ![t] = s]
    BY <1>7 DEF CreateBegin
  <2>4. /\ tobj' = [tobj EXCEPT ![t] = p]
        /\ life'[p] = "new" /\ \A q \in Players \ {p} : life'[q] = life[q]
    BY <1>7 DEF CreateBegin, IInv, TypeOK
  <2>5. OperationsAgree'
    <3>1. \A u \in Threads : tobj[u] # p
      BY <2>2, OperationKnown
    <3>2. Moves(t, p, s, p)
      BY <2>3, <2>4, <3>1 DEF Moves, Expected
    <3> QED
      BY <3>2, OperationChanges
  <2>6. RegistryBounded' /\ RegistrySound'
    BY <2>2, <2>4 DEF IInv, TypeOK, RegistryBounded, RegistrySound
  <2>7. TypeOK'
    BY <1>7, <2>1 DEF CreateBegin, IInv, TypeOK, EnginePcs, Lives
  <2> QED
    BY <2>1, <2>2, <2>5, <2>6, <2>7, AudioFrame DEF IInv
<1>8. CASE CreateOpen(t)
  <2> DEFINE p == tobj[t]
  <2>1. /\ p \in Players /\ life[p] = "new"
        /\ \A u \in Threads \ {t} : tobj[u] # p
    BY <1>8, OperationOwned DEF CreateOpen, Expected
  <2>2. /\ UNCHANGED <<life, players, nplayers, tobj, ring>>
        /\ UNCHANGED <<regLock, audioVars>>
    BY <1>8 DEF CreateOpen
  <2>3. /\ tpc' = [tpc EXCEPT ![t] = "register"]
        /\ tobj' = [tobj EXCEPT ![t] = p]
    BY <1>8, <2>2 DEF CreateOpen, IInv, TypeOK
  <2>4. OperationsAgree'
    <3> HIDE DEF p
    <3>1. Moves(t, p, "register", p)
      BY <2>1, <2>2, <2>3 DEF Moves, Expected
    <3> QED
      BY <2>1, <3>1, OperationChanges
  <2>5. TypeOK'
    BY <1>8 DEF CreateOpen, IInv, TypeOK, EnginePcs
  <2>6. RegistryBounded' /\ RegistrySound'
    BY <2>2 DEF IInv, RegistryBounded, RegistrySound
  <2> QED
    BY <2>2, <2>4, <2>5, <2>6, AudioFrame DEF IInv, RingsFilled
<1>9. CASE CreateRegister(t)
  <2> DEFINE p == tobj[t]
  <2>1. /\ p \in Players /\ life[p] = "new"
        /\ \A u \in Threads \ {t} : tobj[u] # p
    BY <1>9, OperationOwned DEF CreateRegister, Expected
  <2>2. ~Mixing
    BY <1>9 DEF CreateRegister, IInv, RegistryFree, LockHeld, Mixing
  <2>3. FirstSlot \in 0..nplayers
    BY FirstSlotSound DEF IInv
  <2>4. /\ life'[p] = "live" /\ \A q \in Players \ {p} : life'[q] = life[q]
        /\ tpc' = [tpc EXCEPT ![t] = "idle"]
        /\ tobj' = [tobj EXCEPT ![t] = NoPlayer]
    BY <1>9, <2>1 DEF CreateRegister, IInv, TypeOK
  <2>5. OperationsAgree'
    <3> HIDE DEF p
    <3>1. Moves(t, p, "idle", NoPlayer)
      BY <2>1, <2>4 DEF Moves
    <3> QED
      BY <2>1, <3>1, OperationChanges
  <2>6. RegistryBounded' /\ RegistrySound'
    <3>1. \A i \in DOMAIN players :
            players[i] # NoPlayer => players[i] # p
      BY <2>1 DEF IInv, RegistrySound
    <3>2. CASE FirstSlot < MAX_PLAYERS
      <4>1. /\ players' = [players EXCEPT ![FirstSlot] = p]
            /\ nplayers' \in Nat /\ FirstSlot < nplayers'
            /\ nplayers <= nplayers'
        BY <1>9, <2>3, <3>2 DEF CreateRegister, IInv, TypeOK
      <4> QED
        BY <2>1, <2>3, <2>4, <3>1, <3>2, <4>1
           DEF IInv, TypeOK, RegistryBounded, RegistrySound
    <3>3. CASE ~(FirstSlot < MAX_PLAYERS)
      BY <1>9, <2>1, <2>4, <3>1, <3>3
         DEF CreateRegister, IInv, TypeOK, RegistryBounded, RegistrySound
    <3> QED
      BY <3>2, <3>3
  <2>7. TypeOK'
    BY <1>9, <2>1, <2>3 DEF CreateRegister, IInv, TypeOK, EnginePcs, Lives
  <2> QED
    BY <1>9, <2>2, <2>5, <2>6, <2>7 DEF CreateRegister, IInv, LockHeld,
       MixesRegistered, Mixing, FramesWanted, PoppedBuffer, RingsFilled
<1>10. ASSUME NEW p \in Players, DestroyBegin(t, p) PROVE IInv'
  <2>1. /\ UNCHANGED <<players, nplayers, ring>>
        /\ UNCHANGED <<regLock, audioVars>>
        /\ \A u \in Threads : tobj[u] # p
    BY <1>10 DEF DestroyBegin
  <2>2. /\ life'[p] = "dying" /\ \A q \in Players \ {p} : life'[q] = life[q]
        /\ tpc' = [tpc EXCEPT ![t] = "unlink"]
        /\ tobj' = [tobj EXCEPT ![t] = p]
    BY <1>10 DEF DestroyBegin, IInv, TypeOK
  <2>3. OperationsAgree'
    <3>1. Moves(t, p, "unlink", p)
      BY <2>1, <2>2 DEF Moves, Expected
    <3> QED
      BY <3>1, OperationChanges
  <2>4. RegistryBounded' /\ RegistrySound'
    BY <2>1, <2>2 DEF IInv, TypeOK, RegistryBounded, RegistrySound
  <2>5. TypeOK'
    BY <1>10 DEF DestroyBegin, IInv, TypeOK, EnginePcs, Lives
  <2> QED
    BY <2>1, <2>3, <2>4, <2>5, AudioFrame DEF IInv, RingsFilled
<1>11. CASE DestroyUnlink(t)
  <2> DEFINE p == tobj[t]
  <2>1. /\ p \in Players /\ life[p] = "dying"
        /\ \A u \in Threads \ {t} : tobj[u] # p
    BY <1>11, OperationOwned DEF DestroyUnlink, Expected
  <2>2. ~Mixing
    BY <1>11 DEF DestroyUnlink, IInv, RegistryFree, LockHeld, Mixing
  <2>3. /\ life'[p] = "unlinked"
        /\ \A q \in Players \ {p} : life'[q] = life[q]
        /\ tpc' = [tpc EXCEPT ![t] = "free"]
        /\ tobj' = [tobj EXCEPT ![t] = p]
    BY <1>11, <2>1 DEF DestroyUnlink, IInv, TypeOK
  <2>4. OperationsAgree'
    <3> HIDE DEF p
    <3>1. Moves(t, p, "free", p)
      BY <2>1, <2>3 DEF Moves, Expected
    <3> QED
      BY <2>1, <3>1, OperationChanges
  <2>5. players' \in [0..(MAX_PLAYERS - 1) -> Players \cup {NoPlayer}]
    BY <1>11 DEF DestroyUnlink, Unlinked, IInv, TypeOK
  <2>6. \A i \in DOMAIN players' :
          players'[i] # NoPlayer =>
            players'[i] = players[i] /\ players[i] # p
    BY <1>11 DEF DestroyUnlink, Unlinked, IInv, TypeOK, RegistryBounded
  <2>7. RegistryBounded' /\ RegistrySound'
    BY <1>11, <2>1, <2>3, <2>5, <2>6
       DEF DestroyUnlink, IInv, TypeOK, RegistryBounded, RegistrySound
  <2>8. TypeOK'
    BY <1>11, <2>5 DEF DestroyUnlink, IInv, TypeOK, EnginePcs, Lives
  <2> QED
    BY <1>11, <2>2, <2>4, <2>7, <2>8 DEF DestroyUnlink, IInv, LockHeld,
       MixesRegistered, Mixing, FramesWanted, PoppedBuffer, RingsFilled
<1>12. CASE DestroyFree(t)
  <2> DEFINE p == tobj[t]
  <2>1. /\ p \in Players /\ life[p] = "unlinked"
        /\ \A u \in Threads \ {t} : tobj[u] # p
    BY <1>12, OperationOwned DEF DestroyFree, Expected
  <2>2. /\ UNCHANGED <<players, nplayers, ring>>
        /\ UNCHANGED <<regLock, audioVars>>
    BY <1>12 DEF DestroyFree
  <2>3. /\ \A q \in Players \ {p} : life'[q] = life[q]
        /\ tpc' = [tpc EXCEPT ![t] = "idle"]
        /\ tobj' = [tobj EXCEPT ![t] = NoPlayer]
    BY <1>12 DEF DestroyFree, IInv, TypeOK
  <2>4. OperationsAgree'
    <3> HIDE DEF p
    <3>1. Moves(t, p, "idle", NoPlayer)
      BY <2>1, <2>3 DEF Moves
    <3> QED
      BY <2>1, <3>1, OperationChanges
  <2>5. RegistryBounded' /\ RegistrySound'
    BY <2>1, <2>2, <2>3 DEF IInv, TypeOK, RegistryBounded, RegistrySound
  <2>6. TypeOK'
    BY <1>12 DEF DestroyFree, IInv, TypeOK, EnginePcs, Lives
  <2> QED
    BY <2>2, <2>4, <2>5, <2>6, AudioFrame DEF IInv, RingsFilled
<1> QED
  BY <1>1, <1>2, <1>3, <1>4, <1>5, <1>6, <1>7, <1>8, <1>9, <1>10, <1>11, <1>12
     DEF EngineNext

LEMMA StutterSound == IInv /\ UNCHANGED vars => IInv'
<1> SUFFICES ASSUME IInv, UNCHANGED vars PROVE IInv'
  OBVIOUS
<1> USE DEF vars, playerVars, regVars, devVars, audioVars, engineVars
<1>1. TypeOK'
  BY DEF IInv, TypeOK
<1>2. RegistryBounded' /\ RegistrySound' /\ OperationsAgree'
  BY RegistryFrame
<1>3. LockHeld' /\ MixesRegistered' /\ FramesWanted' /\ PoppedBuffer'
  BY AudioFrame
<1> QED
  BY <1>1, <1>2, <1>3 DEF IInv, RingsFilled

LEMMA StepSound == IInv /\ [Next]_vars => IInv'
BY AudioStepSound, EngineStepSound, StutterSound DEF Next

(* IInv holds in every reachable state. *)
THEOREM Invariance == Spec => []IInv
<1>1. Init => IInv
  BY InitSound
<1>2. IInv /\ [Next]_vars => IInv'
  BY StepSound
<1> QED
  BY <1>1, <1>2, PTL DEF Spec

-----------------------------------------------------------------------------
(* What follows from it.                                                   *)

(* Every variable of the players keeps its type. *)
THEOREM TypeCorrect == Spec => []TypeOK
<1>1. IInv => TypeOK
  BY DEF IInv
<1> QED
  BY <1>1, Invariance, PTL

(* mix_player (243-284) only ever works on a player that is created and    *)
(* not yet unlinked by player_Destroy.                                     *)
THEOREM AudioSafe == Spec => []AudioTouchesOnlyLivePlayers
<1>1. IInv => AudioTouchesOnlyLivePlayers
  <2> SUFFICES ASSUME IInv, Mixing PROVE life[ap] \in {"live", "dying"}
    BY DEF AudioTouchesOnlyLivePlayers
  <2>1. ai \in DOMAIN players /\ players[ai] = ap
    BY SizesAssumption DEF IInv, TypeOK, MixesRegistered
  <2> QED
    BY <2>1, NamesAssumption DEF IInv, MixesRegistered, RegistrySound
<1> QED
  BY <1>1, Invariance, PTL

(* g_players names only players that exist, and each of them once. *)
THEOREM RegistrySafe == Spec => []RegistrySound
<1>1. IInv => RegistrySound
  BY DEF IInv
<1> QED
  BY <1>1, Invariance, PTL

(* CreateAudioPlayer (671-679) leaves a player unheard only when every     *)
(* slot of the registry is taken.                                          *)
THEOREM SlotsAreFound == Spec => SilentOnlyWhenFull
<1> DEFINE Heard ==
      \A p \in Players :
        life[p] = "new" /\ life'[p] = "live"
          => \/ \E i \in DOMAIN players : players'[i] = p
             \/ \A i \in DOMAIN players : players[i] # NoPlayer
<1>1. IInv /\ Next => Heard
  <2> SUFFICES ASSUME IInv, Next, NEW p \in Players,
                      life[p] = "new", life'[p] = "live"
               PROVE  \/ \E i \in DOMAIN players : players'[i] = p
                      \/ \A i \in DOMAIN players : players[i] # NoPlayer
    OBVIOUS
  <2>1. PICK t \in Threads : CreateRegister(t) /\ tobj[t] = p
    <3>1. UNCHANGED life => FALSE
      OBVIOUS
    <3>2. AudioNext => UNCHANGED life
      BY DEF AudioNext, CallbackBegin, SkipSlot, EnterPlayer, CallbackEnd,
         PeriodFull, SampleNext, BufferFinished, NoCurrent, CbEnter, CbRefill,
         CbDecline, Pop, Underrun, Install, Sample
    <3>3. PICK t \in Threads : EngineNext(t)
      BY <3>1, <3>2 DEF Next
    <3>4. ASSUME NEW q \in Players
          PROVE  /\ CreateBegin(t, q) => life'[p] # "live"
                 /\ DestroyBegin(t, q) => life'[p] # "live"
      BY DEF CreateBegin, DestroyBegin, IInv, TypeOK
    <3>5. DestroyUnlink(t) \/ DestroyFree(t) => life'[p] # "live"
      BY DEF DestroyUnlink, DestroyFree, IInv, TypeOK
    <3>6. CreateRegister(t)
      BY <3>1, <3>3, <3>4, <3>5
         DEF EngineNext, LockSound, UnlockSound, Enqueue, ClearBegin, ClearEnd,
             RegisterCallback, SetPlayState, CreateOpen
    <3>7. tobj[t] = p
      BY <3>6 DEF CreateRegister, IInv, TypeOK
    <3> QED
      BY <3>6, <3>7
  <2>2. /\ FirstSlot \in 0..nplayers
        /\ FirstSlot = nplayers => EmptySlots = {}
    BY FirstSlotSound DEF IInv
  <2>3. CASE FirstSlot < MAX_PLAYERS
    <3>1. FirstSlot \in DOMAIN players
      BY <2>2, <2>3, SizesAssumption DEF IInv, TypeOK
    <3>2. players'[FirstSlot] = p
      BY <2>1, <2>3, <3>1 DEF CreateRegister
    <3> QED
      BY <3>1, <3>2
  <2>4. CASE ~(FirstSlot < MAX_PLAYERS)
    <3>1. nplayers = MAX_PLAYERS /\ EmptySlots = {}
      BY <2>2, <2>4, SizesAssumption DEF IInv, TypeOK
    <3> QED
      BY <3>1 DEF EmptySlots, IInv, TypeOK
  <2> QED
    BY <2>3, <2>4
<1>2. IInv /\ [Next]_vars => [Heard]_vars
  BY <1>1
<1> QED
  BY <1>2, Invariance, PTL DEF Spec, SilentOnlyWhenFull
=============================================================================
