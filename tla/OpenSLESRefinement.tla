------------------------- MODULE OpenSLESRefinement -------------------------
(***************************************************************************)
(* OpenSLES implements BufferQueue for any number of threads, players,     *)
(* buffers and slots, as long as the engine does not call Clear: the ring  *)
(* behind g_players is a FIFO queue, one buffer of it plays at a time, the *)
(* engine is told of each, if it listens, before the next one starts, and  *)
(* a queue goes away only with its player.                                 *)
(***************************************************************************)
EXTENDS OpenSLESProofs, SequenceTheorems

-----------------------------------------------------------------------------
(* The ring as a sequence.                                                 *)

LEMMA Wraps ==
  ASSUME NEW n \in Nat \ {0}, NEW k \in 0..(2 * n - 1)
  PROVE  k % n = IF k < n THEN k ELSE k - n
OBVIOUS

LEMMA SlotWraps ==
  ASSUME NEW k \in 0..(2 * BQ_SLOTS - 1)
  PROVE  k % BQ_SLOTS = IF k < BQ_SLOTS THEN k ELSE k - BQ_SLOTS
<1>1. BQ_SLOTS \in Nat \ {0}
  BY SizesAssumption
<1> QED
  BY ONLY <1>1, Wraps

(* player_Enqueue's count (482) is the distance from head to tail.         *)
LEMMA CountIs ==
  ASSUME NEW r \in RingType
  PROVE  /\ Count(r) = IF r.head <= r.tail THEN r.tail - r.head
                                           ELSE r.tail - r.head + BQ_SLOTS
         /\ Count(r) \in 0..(BQ_SLOTS - 1)
<1>1. r.head \in 0..(BQ_SLOTS - 1) /\ r.tail \in 0..(BQ_SLOTS - 1)
  BY DEF RingType, Slots
<1>2. r.tail - r.head + BQ_SLOTS \in 0..(2 * BQ_SLOTS - 1)
  BY <1>1, SizesAssumption
<1>3. Count(r) = IF r.tail - r.head + BQ_SLOTS < BQ_SLOTS
                 THEN r.tail - r.head + BQ_SLOTS ELSE r.tail - r.head
  BY <1>1, <1>2, SlotWraps, SizesAssumption DEF Count
<1> QED
  BY <1>1, <1>3, SizesAssumption

(* The slot of the i-th waiting buffer. *)
Place(r, i) == IF r.head + i - 1 < BQ_SLOTS THEN r.head + i - 1
                                            ELSE r.head + i - 1 - BQ_SLOTS

LEMMA ContentsAre ==
  ASSUME NEW r \in RingType
  PROVE  /\ Len(Contents(r)) = Count(r)
         /\ DOMAIN Contents(r) = 1..Count(r)
         /\ Contents(r) = [i \in 1..Count(r) |-> r.slot[Place(r, i)]]
         /\ \A i \in 1..Count(r) : Place(r, i) \in Slots
<1>1. r.head \in 0..(BQ_SLOTS - 1) /\ Count(r) \in 0..(BQ_SLOTS - 1)
  BY CountIs DEF RingType, Slots
<1>2. \A i \in 1..Count(r) :
        /\ (r.head + i - 1) % BQ_SLOTS = Place(r, i) /\ Place(r, i) \in Slots
  <2>1. SUFFICES ASSUME NEW i \in 1..Count(r)
                 PROVE  /\ (r.head + i - 1) % BQ_SLOTS = Place(r, i)
                        /\ Place(r, i) \in Slots
    OBVIOUS
  <2>2. r.head + i - 1 \in 0..(2 * BQ_SLOTS - 1)
    BY <1>1, SizesAssumption
  <2> QED
    BY <1>1, <2>2, SlotWraps, SizesAssumption DEF Place, Slots
<1>3. Contents(r) = [i \in 1..Count(r) |-> r.slot[Place(r, i)]]
  BY <1>2 DEF Contents
<1> QED
  BY <1>1, <1>2, <1>3

LEMMA ContentsTyped ==
  ASSUME NEW r \in RingType
  PROVE  Contents(r) \in Seq(Buffers \cup {NoBuffer})
<1>1. Count(r) \in Nat
  BY CountIs, SizesAssumption
<1> QED
  BY <1>1, ContentsAre DEF RingType

(* A new player's queue is empty. *)
LEMMA NothingWaits == Contents(EmptyRing) = <<>>
<1>1. EmptyRing \in RingType /\ EmptyRing.head = 0 /\ EmptyRing.tail = 0
  BY EmptyRingSound DEF EmptyRing
<1>2. Count(EmptyRing) = 0
  BY <1>1, CountIs
<1> QED
  BY <1>2 DEF Contents

(* bq_Enqueue (480-493) appends, or refuses when every usable slot is      *)
(* taken.                                                                  *)
LEMMA PutAppends ==
  ASSUME NEW r \in RingType, RingFilled(r), NEW b \in Buffers
  PROVE  \/ Put(r, b) = r
         \/ /\ Len(Contents(r)) < BQ_SLOTS - 1
            /\ Contents(Put(r, b)) = Append(Contents(r), b)
<1> DEFINE s == Put(r, b)
           next == IF r.tail + 1 < BQ_SLOTS THEN r.tail + 1 ELSE 0
<1> SUFFICES ASSUME ~IsFull(r)
             PROVE  /\ Len(Contents(r)) < BQ_SLOTS - 1
                    /\ Contents(s) = Append(Contents(r), b)
  BY DEF Put
<1>1. (r.tail + 1) % BQ_SLOTS = next /\ next \in Slots /\ next # r.head
  BY NextSlot DEF RingType, IsFull
<1>2. s = [slot |-> [r.slot EXCEPT ![r.tail] = b],
           head |-> r.head, tail |-> next]
  BY <1>1 DEF Put, RingType
<1>3. s \in RingType
  BY PutSound
<1>4. r.head \in 0..(BQ_SLOTS - 1) /\ r.tail \in 0..(BQ_SLOTS - 1)
  BY DEF RingType, Slots
<1>5. Count(s) = Count(r) + 1 /\ Count(r) < BQ_SLOTS - 1
  <2>1. Count(s) = IF r.head <= next THEN next - r.head
                                     ELSE next - r.head + BQ_SLOTS
    BY <1>2, <1>3, CountIs
  <2>2. Count(s) <= BQ_SLOTS - 1 /\ Count(r) \in Nat
    BY <1>3, CountIs, SizesAssumption
  <2>3. Count(s) = Count(r) + 1
    BY <1>1, <1>4, <2>1, CountIs, SizesAssumption
  <2> QED
    BY <2>2, <2>3, SizesAssumption
<1>6. \A i \in 1..Count(r) : s.slot[Place(s, i)] = r.slot[Place(r, i)]
  <2>1. SUFFICES ASSUME NEW i \in 1..Count(r)
                 PROVE  s.slot[Place(s, i)] = r.slot[Place(r, i)]
    OBVIOUS
  <2>2. Place(s, i) = Place(r, i) /\ Place(r, i) \in Slots
    BY <1>2, ContentsAre DEF Place
  <2>3. Place(r, i) # r.tail
    BY <1>4, <1>5, CountIs, SizesAssumption DEF Place
  <2> QED
    BY <1>2, <2>2, <2>3 DEF RingType
<1>7. s.slot[Place(s, Count(r) + 1)] = b
  <2>1. Place(s, Count(r) + 1) = r.tail
    BY <1>2, <1>4, CountIs, SizesAssumption DEF Place
  <2> QED
    BY <1>2, <2>1 DEF RingType
<1>8. /\ Contents(r) = [i \in 1..Count(r) |-> r.slot[Place(r, i)]]
      /\ Contents(s) = [i \in 1..(Count(r) + 1) |-> s.slot[Place(s, i)]]
      /\ Len(Contents(r)) = Count(r) /\ Count(r) \in Nat
  BY <1>3, <1>5, ContentsAre, CountIs
<1>9. Contents(r) \in Seq(Buffers \cup {NoBuffer})
  BY ContentsTyped
<1>10. Contents(s) = Append(Contents(r), b)
  <2>1. Append(Contents(r), b) =
          [i \in 1..(Count(r) + 1) |->
             IF i = Count(r) + 1 THEN b ELSE Contents(r)[i]]
    BY <1>8, <1>9
  <2>2. \A i \in 1..(Count(r) + 1) :
          s.slot[Place(s, i)] =
            IF i = Count(r) + 1 THEN b ELSE Contents(r)[i]
    <3> HIDE DEF s
    <3>1. \A i \in 1..(Count(r) + 1) : i = Count(r) + 1 \/ i \in 1..Count(r)
      BY <1>8
    <3> QED
      BY <1>6, <1>7, <1>8, <3>1
  <2> HIDE DEF s
  <2> QED
    BY <1>8, <2>1, <2>2
<1> QED
  BY <1>5, <1>8, <1>10

(* The pop of mix_player (257-263) takes the oldest waiting buffer. *)
LEMMA DropFirstTakesHead ==
  ASSUME NEW r \in RingType, RingFilled(r), Count(r) > 0
  PROVE  /\ Contents(r) # <<>>
         /\ r.slot[r.head] = Head(Contents(r))
         /\ Contents(DropFirst(r)) = Tail(Contents(r))
<1> DEFINE s == DropFirst(r)
           next == IF r.head + 1 < BQ_SLOTS THEN r.head + 1 ELSE 0
<1>1. (r.head + 1) % BQ_SLOTS = next /\ next \in Slots
  BY NextSlot DEF RingType
<1>2. s = [slot |-> r.slot, head |-> next, tail |-> r.tail]
  BY <1>1 DEF DropFirst, RingType
<1>3. s \in RingType
  BY DropFirstSound
<1>4. r.head \in 0..(BQ_SLOTS - 1) /\ r.tail \in 0..(BQ_SLOTS - 1)
  BY DEF RingType, Slots
<1>5. Count(s) = Count(r) - 1 /\ Count(r) \in 1..(BQ_SLOTS - 1)
  <2>1. Count(s) = IF next <= r.tail THEN r.tail - next
                                     ELSE r.tail - next + BQ_SLOTS
    BY <1>2, <1>3, CountIs
  <2>2. Count(r) \in 1..(BQ_SLOTS - 1)
    BY CountIs, SizesAssumption
  <2> QED
    BY <1>4, <2>1, <2>2, CountIs, SizesAssumption
<1>6. /\ Contents(r) = [i \in 1..Count(r) |-> r.slot[Place(r, i)]]
      /\ Contents(s) = [i \in 1..(Count(r) - 1) |-> s.slot[Place(s, i)]]
      /\ Len(Contents(r)) = Count(r)
  BY <1>3, <1>5, ContentsAre
<1>7. /\ Contents(r) \in Seq(Buffers \cup {NoBuffer})
      /\ Contents(s) \in Seq(Buffers \cup {NoBuffer})
  BY <1>3, ContentsTyped
<1>8. Contents(r) # <<>> /\ Head(Contents(r)) = r.slot[r.head]
  <2>1. Place(r, 1) = r.head
    BY <1>4, SizesAssumption DEF Place
  <2>2. Head(Contents(r)) = Contents(r)[1] /\ Contents(r) # <<>>
    BY <1>5, <1>6, <1>7, SizesAssumption
  <2> QED
    BY <1>5, <1>6, <2>1, <2>2, SizesAssumption
<1>9. \A i \in 1..(Count(r) - 1) :
        s.slot[Place(s, i)] = r.slot[Place(r, i + 1)]
  BY <1>2, <1>4, <1>5, SizesAssumption DEF Place
<1>10. /\ Tail(Contents(r)) \in Seq(Buffers \cup {NoBuffer})
       /\ Len(Tail(Contents(r))) = Count(r) - 1
       /\ \A i \in 1..(Count(r) - 1) :
            Tail(Contents(r))[i] = Contents(r)[i + 1]
  <2> DEFINE c == Contents(r)
  <2>1. c \in Seq(Buffers \cup {NoBuffer}) /\ c # <<>> /\ Len(c) = Count(r)
    BY <1>6, <1>7, <1>8
  <2> HIDE DEF c
  <2>2. /\ Tail(c) \in Seq(Buffers \cup {NoBuffer})
        /\ Len(Tail(c)) = Len(c) - 1
        /\ \A i \in 1..Len(Tail(c)) : Tail(c)[i] = c[i + 1]
    BY ONLY <2>1, HeadTailProperties, Zenon
  <2>3. /\ Tail(c) \in Seq(Buffers \cup {NoBuffer})
        /\ Len(Tail(c)) = Count(r) - 1
        /\ \A i \in 1..(Count(r) - 1) : Tail(c)[i] = c[i + 1]
    BY ONLY <2>1, <2>2, Zenon
  <2> QED
    BY <2>3 DEF c
<1>11. /\ Len(Contents(s)) = Count(r) - 1
       /\ \A i \in 1..(Count(r) - 1) :
            Contents(s)[i] = r.slot[Place(r, i + 1)]
  <2> HIDE DEF s
  <2> QED
    BY <1>3, <1>5, <1>6, <1>9, ContentsAre
<1>12. \A i \in 1..(Count(r) - 1) :
         Contents(r)[i + 1] = r.slot[Place(r, i + 1)]
  BY <1>5, <1>6, SizesAssumption
<1>13. Contents(s) = Tail(Contents(r))
  <2> HIDE DEF s
  <2>1. \A i \in 1..Len(Contents(s)) : Contents(s)[i] = Tail(Contents(r))[i]
    BY ONLY <1>10, <1>11, <1>12
  <2> QED
    BY ONLY <1>7, <1>10, <1>11, <2>1, SeqEqual
<1> QED
  BY <1>8, <1>13

-----------------------------------------------------------------------------
(* What the mapping needs beyond IInv.                                     *)

(* Between giving a buffer back and installing the next one, mix_player    *)
(* has no current buffer: only Clear could interfere.                      *)
NothingPlays ==
  apc \in {"cbWait", "cbBody", "pop", "install"} => cur[ap] = NoBuffer
NobodyClears == \A t \in Threads : tpc[t] # "clear"
RInv == IInv /\ NothingPlays /\ NobodyClears

LEMMA InitRInv == Init => RInv
BY InitSound DEF Init, RInv, NothingPlays, NobodyClears

(* A player that is created anew is not the one being mixed. *)
LEMMA MixedIsNotFree ==
  ASSUME IInv, Mixing
  PROVE  ap \in Players /\ life[ap] # "free"
<1>1. ai \in DOMAIN players /\ players[ai] = ap /\ ap \in Players
  BY SizesAssumption DEF IInv, TypeOK, MixesRegistered
<1> QED
  BY <1>1, NamesAssumption DEF IInv, RegistrySound

LEMMA NobodyClearsStep ==
  ASSUME RInv, ~EngineClears, [Next]_vars
  PROVE  NobodyClears'
<1>1. CASE UNCHANGED tpc
  BY <1>1 DEF RInv, NobodyClears
<1>2. AudioNext => UNCHANGED tpc
  BY DEF AudioNext, CallbackBegin, SkipSlot, EnterPlayer, CallbackEnd,
     PeriodFull, SampleNext, BufferFinished, NoCurrent, CbEnter, CbRefill,
     CbDecline, Pop, Underrun, Install, Sample, engineVars
<1>3. ASSUME NEW t \in Threads, EngineNext(t) PROVE NobodyClears'
  <2>1. \/ UNCHANGED tpc
        \/ \E s \in {"idle", "open", "register", "unlink", "free"} :
             tpc' = [tpc EXCEPT ![t] = s]
    BY <1>3 DEF EngineNext, LockSound, UnlockSound, Enqueue, ClearBegin,
       RegisterCallback, SetPlayState, CreateBegin, DestroyBegin, ClearEnd,
       CreateOpen, CreateRegister, DestroyUnlink, DestroyFree, engineVars
  <2> QED
    BY <1>1, <2>1 DEF RInv, IInv, TypeOK, NobodyClears
<1>4. CASE UNCHANGED vars
  BY <1>1, <1>4 DEF vars, engineVars
<1> QED
  BY <1>1, <1>2, <1>3, <1>4 DEF Next

LEMMA NothingPlaysStep ==
  ASSUME RInv, ~EngineClears, [Next]_vars
  PROVE  NothingPlays'
<1> USE DEF RInv, NothingPlays
<1>1. CASE AudioNext
  BY <1>1, MixedIsNotFree
     DEF IInv, TypeOK, Mixing, AudioNext, CallbackBegin, SkipSlot, EnterPlayer,
         CallbackEnd, PeriodFull, SampleNext, BufferFinished, NoCurrent,
         CbEnter, CbRefill, CbDecline, Pop, Underrun, Install, Sample,
         LeavePlayer, playerVars
<1>2. ASSUME NEW t \in Threads, EngineNext(t) PROVE NothingPlays'
  <2>1. UNCHANGED <<apc, ap>>
    BY <1>2 DEF EngineNext, LockSound, UnlockSound, Enqueue, ClearBegin,
       RegisterCallback, SetPlayState, CreateBegin, DestroyBegin, ClearEnd,
       CreateOpen, CreateRegister, DestroyUnlink, DestroyFree, audioVars
  <2>2. \/ UNCHANGED cur
        \/ \E p \in Players : cur' = [cur EXCEPT ![p] = NoBuffer]
    BY <1>2 DEF EngineNext, LockSound, UnlockSound, Enqueue, ClearBegin,
       RegisterCallback, SetPlayState, CreateBegin, DestroyBegin, ClearEnd,
       CreateOpen, CreateRegister, DestroyUnlink, DestroyFree, NobodyClears,
       playerVars
  <2> QED
    BY <2>1, <2>2, MixedIsNotFree DEF IInv, TypeOK, Mixing
<1>3. CASE UNCHANGED vars
  BY <1>3 DEF vars, playerVars, audioVars
<1> QED
  BY <1>1, <1>2, <1>3 DEF Next

LEMMA RInvStep == RInv /\ ~EngineClears /\ [Next]_vars => RInv'
BY StepSound, NobodyClearsStep, NothingPlaysStep DEF RInv

-----------------------------------------------------------------------------
(* Every step maps to a step of the contract, or to none.                  *)

Inflight(p) == IF apc = "install" /\ ap = p THEN popped ELSE cur[p]
Owed(p) == apc \in {"cbWait", "cbBody"} /\ ap = p

(* A step that the contract does not see. *)
LEMMA Quiet ==
  ASSUME UNCHANGED <<life, cb, ring>>,
         \A p \in Players : Inflight(p)' = Inflight(p) /\ Owed(p)' = Owed(p)
  PROVE  UNCHANGED Contract!vars
BY DEF Contract!vars, Contract!queueVars, Inflight, Owed

(* A step that leaves Player.life and Player.cb alone. *)
LEMMA Steady ==
  ASSUME UNCHANGED <<life, cb>>
  PROVE  /\ UNCHANGED [p \in Players |-> life[p] # "free"]
         /\ UNCHANGED cb
OBVIOUS

(* One buffer is appended to the queue of p, or refused. *)
LEMMA PutMaps ==
  ASSUME IInv, NEW p \in Players, NEW b \in Buffers,
         ring' = [ring EXCEPT ![p] = Put(@, b)]
  PROVE  \/ UNCHANGED ring
         \/ Contract!Appended(p, b)
<1>1. ring \in [Players -> RingType] /\ RingFilled(ring[p])
  BY DEF IInv, TypeOK, RingsFilled
<1>2. CASE Put(ring[p], b) = ring[p]
  BY <1>1, <1>2
<1>3. CASE Put(ring[p], b) # ring[p]
  <2>1. /\ Len(Contents(ring[p])) < BQ_SLOTS - 1
        /\ Contents(Put(ring[p], b)) = Append(Contents(ring[p]), b)
    BY <1>1, <1>3, PutAppends
  <2>2. \A q \in Players :
          Contents(ring'[q]) = IF q = p THEN Append(Contents(ring[p]), b)
                                        ELSE Contents(ring[q])
    BY <1>1, <2>1
  <2>3. [q \in Players |-> Contents(ring[q])]' =
          [[q \in Players |-> Contents(ring[q])] EXCEPT ![p] = Append(@, b)]
    BY <2>2
  <2> QED
    BY <2>1, <2>3 DEF Contract!Appended
<1> QED
  BY <1>2, <1>3

LEMMA QuietAudioSteps ==
  ASSUME RInv,
         \/ CallbackBegin \/ SkipSlot \/ EnterPlayer \/ CallbackEnd
         \/ PeriodFull \/ SampleNext \/ NoCurrent \/ CbEnter \/ Underrun
         \/ Install \/ Sample
  PROVE  UNCHANGED Contract!vars
<1>1. UNCHANGED <<life, cb, ring>>
  BY DEF CallbackBegin, SkipSlot, EnterPlayer, CallbackEnd, PeriodFull,
     SampleNext, NoCurrent, CbEnter, Underrun, Install, Sample, playerVars
<1>2. CASE Install
  BY <1>1, <1>2, Quiet DEF Install, RInv, IInv, TypeOK, Inflight, Owed
<1>3. CASE ~Install
  <2>1. UNCHANGED cur /\ apc # "install" /\ apc' # "install"
    BY <1>3 DEF CallbackBegin, SkipSlot, EnterPlayer, CallbackEnd, PeriodFull,
       SampleNext, NoCurrent, CbEnter, Underrun, Sample, LeavePlayer,
       playerVars
  <2>2. \A p \in Players : Owed(p)' = Owed(p)
    BY <1>3 DEF CallbackBegin, SkipSlot, EnterPlayer, CallbackEnd, PeriodFull,
       SampleNext, NoCurrent, CbEnter, Underrun, Sample, LeavePlayer, Owed
  <2> QED
    BY <1>1, <2>1, <2>2, Quiet DEF Inflight
<1> QED
  BY <1>2, <1>3

LEMMA BufferFinishedMaps ==
  ASSUME RInv, BufferFinished
  PROVE  Contract!Finish(ap)
<1>1. ap \in Players /\ life[ap] # "free" /\ cb[ap] \in BOOLEAN
  BY MixedIsNotFree DEF BufferFinished, RInv, IInv, TypeOK, Mixing
<1>2. /\ apc = "head" /\ apc' = IF cb[ap] THEN "cbWait" ELSE "pop"
      /\ UNCHANGED <<life, cb, ap, ring>>
      /\ cur[ap] # NoBuffer /\ cur' = [cur EXCEPT ![ap] = NoBuffer]
      /\ cur \in [Players -> Buffers \cup {NoBuffer}]
  BY DEF BufferFinished, RInv, IInv, TypeOK
<1>3. Inflight(ap) # NoBuffer
  BY <1>2 DEF Inflight
<1>4. [p \in Players |-> Inflight(p)]' =
        [[p \in Players |-> Inflight(p)] EXCEPT ![ap] = NoBuffer]
  BY <1>1, <1>2 DEF Inflight
<1>5. [p \in Players |-> Owed(p)]' =
        [[p \in Players |-> Owed(p)] EXCEPT ![ap] = cb[ap]]
  BY <1>1, <1>2 DEF Owed
<1> QED
  BY <1>1, <1>2, <1>3, <1>4, <1>5, Steady DEF Contract!Finish, Inflight, Owed

LEMMA CallbackMaps ==
  ASSUME RInv, CbRefill \/ CbDecline
  PROVE  Contract!Notify(ap)
<1>1. ap \in Players /\ IInv /\ life[ap] # "free"
  BY MixedIsNotFree DEF CbRefill, CbDecline, RInv, Mixing
<1>2. /\ apc = "cbBody" /\ apc' = "pop"
      /\ UNCHANGED <<life, cb, ap, cur>>
  BY DEF CbRefill, CbDecline, playerVars
<1>3. Owed(ap)
  BY <1>2 DEF Owed
<1>4. [p \in Players |-> Inflight(p)]' = [p \in Players |-> Inflight(p)]
  BY <1>2 DEF Inflight
<1>5. [p \in Players |-> Owed(p)]' =
        [[p \in Players |-> Owed(p)] EXCEPT ![ap] = FALSE]
  BY <1>1, <1>2 DEF Owed
<1>6. \/ UNCHANGED ring
      \/ \E b \in Buffers : ring' = [ring EXCEPT ![ap] = Put(@, b)]
  BY DEF CbRefill, CbDecline, playerVars
<1>7. \/ UNCHANGED [q \in Players |-> Contents(ring[q])]
      \/ \E b \in Buffers : Contract!Appended(ap, b)
  BY <1>1, <1>6, PutMaps
<1> QED
  BY <1>1, <1>2, <1>3, <1>4, <1>5, <1>7, Steady
     DEF Contract!Notify, Inflight, Owed

LEMMA PopMaps ==
  ASSUME RInv, Pop
  PROVE  Contract!Start(ap)
<1>1. /\ ap \in Players /\ ring \in [Players -> RingType]
      /\ life[ap] # "free"
      /\ RingFilled(ring[ap]) /\ Count(ring[ap]) > 0
  BY MixedIsNotFree DEF Pop, RInv, IInv, TypeOK, Mixing, RingsFilled
<1>2. /\ apc = "pop" /\ apc' = "install" /\ UNCHANGED <<life, cb, ap, cur>>
      /\ cur[ap] = NoBuffer /\ popped' = Head(Contents(ring[ap]))
      /\ Contents(ring[ap]) # <<>>
  BY <1>1, DropFirstTakesHead DEF Pop, RInv, NothingPlays
<1>3. \A q \in Players :
        Contents(ring'[q]) = IF q = ap THEN Tail(Contents(ring[ap]))
                                       ELSE Contents(ring[q])
  BY <1>1, DropFirstTakesHead DEF Pop
<1>4. [q \in Players |-> Contents(ring[q])]' =
        [[q \in Players |-> Contents(ring[q])] EXCEPT ![ap] = Tail(@)]
  BY <1>3
<1>5. [p \in Players |-> Inflight(p)]' =
        [[p \in Players |-> Inflight(p)] EXCEPT
           ![ap] = Head([q \in Players |-> Contents(ring[q])][ap])]
  BY <1>1, <1>2 DEF Inflight
<1>6. /\ Inflight(ap) = NoBuffer /\ ~Owed(ap)
      /\ [p \in Players |-> Owed(p)]' = [p \in Players |-> Owed(p)]
  BY <1>2 DEF Inflight, Owed
<1> QED
  BY <1>1, <1>2, <1>4, <1>5, <1>6, Steady
     DEF Contract!Start, Inflight, Owed

LEMMA EnqueueMaps ==
  ASSUME RInv, NEW t \in Threads, NEW p \in Players, NEW b \in Buffers,
         Enqueue(t, p, b)
  PROVE  Contract!Enqueue(p, b) \/ UNCHANGED Contract!vars
<1>1. /\ IInv /\ life[p] # "free"
      /\ UNCHANGED <<life, cb, cur, apc, ap, popped>>
  BY DEF Enqueue, MayUse, RInv, audioVars
<1>2. \A q \in Players : Inflight(q)' = Inflight(q) /\ Owed(q)' = Owed(q)
  BY <1>1 DEF Inflight, Owed
<1>3. UNCHANGED ring \/ Contract!Appended(p, b)
  BY <1>1, PutMaps DEF Enqueue
<1>4. CASE UNCHANGED ring
  BY <1>1, <1>2, <1>4, Quiet
<1>5. CASE Contract!Appended(p, b)
  BY <1>1, <1>2, <1>5, Steady DEF Contract!Enqueue, Inflight, Owed
<1> QED
  BY <1>3, <1>4, <1>5

LEMMA RegisterMaps ==
  ASSUME RInv, NEW t \in Threads, NEW p \in Players, NEW on \in BOOLEAN,
         RegisterCallback(t, p, on)
  PROVE  Contract!Listen(p, on)
<1>1. /\ life[p] # "free" /\ cb' = [cb EXCEPT ![p] = on]
      /\ UNCHANGED <<life, ring, cur, apc, ap, popped>>
  BY DEF RegisterCallback, MayUse, audioVars
<1>2. \A q \in Players : Inflight(q)' = Inflight(q) /\ Owed(q)' = Owed(q)
  BY <1>1 DEF Inflight, Owed
<1> QED
  BY <1>1, <1>2 DEF Contract!Listen, Contract!queueVars, Inflight, Owed

LEMMA CreateMaps ==
  ASSUME RInv, NEW t \in Threads, NEW p \in Players, CreateBegin(t, p)
  PROVE  Contract!Create(p)
<1>1. ~(Mixing /\ ap = p) /\ life[p] = "free"
  BY MixedIsNotFree DEF CreateBegin, RInv
<1>2. /\ UNCHANGED <<apc, ap, popped>>
      /\ life' = [life EXCEPT ![p] = "new"]
      /\ cb' = [cb EXCEPT ![p] = FALSE]
      /\ cur' = [cur EXCEPT ![p] = NoBuffer]
      /\ ring' = [ring EXCEPT ![p] = EmptyRing]
      /\ life \in [Players -> Lives]
      /\ cur \in [Players -> Buffers \cup {NoBuffer}]
      /\ ring \in [Players -> RingType]
  BY DEF CreateBegin, audioVars, RInv, IInv, TypeOK
<1>3. \A q \in Players :
        Contents(ring'[q]) = IF q = p THEN <<>> ELSE Contents(ring[q])
  BY <1>2, NothingWaits
<1>4. [q \in Players |-> Contents(ring[q])]' =
        [[q \in Players |-> Contents(ring[q])] EXCEPT ![p] = <<>>]
  BY <1>3
<1>5. [q \in Players |-> Inflight(q)]' =
        [[q \in Players |-> Inflight(q)] EXCEPT ![p] = NoBuffer]
  BY <1>1, <1>2 DEF Inflight, Mixing
<1>6. [q \in Players |-> Owed(q)]' = [q \in Players |-> Owed(q)]
  BY <1>2 DEF Owed
<1>7. [q \in Players |-> life[q] # "free"]' =
        [[q \in Players |-> life[q] # "free"] EXCEPT ![p] = TRUE]
  BY <1>2
<1> QED
  BY <1>1, <1>2, <1>4, <1>5, <1>6, <1>7 DEF Contract!Create, Inflight, Owed

(* Only a player that is out of g_players is freed: no call is under way.  *)
LEMMA DestroyMaps ==
  ASSUME RInv, NEW t \in Threads, DestroyFree(t), NEW p, p = tobj[t]
  PROVE  p \in Players /\ Contract!Destroy(p)
<1>1. /\ p \in Players /\ life[p] = "unlinked"
      /\ life \in [Players -> Lives]
  BY DEF DestroyFree, RInv, IInv, TypeOK, OperationsAgree, Expected
<1>2. /\ life' = [life EXCEPT ![p] = "free"]
      /\ UNCHANGED <<cb, ring, cur, apc, ap, popped>>
  BY DEF DestroyFree, playerVars, audioVars
<1>3. ~Owed(p)
  <2>1. Mixing => ap # p
    <3>1. ASSUME Mixing PROVE life[ap] \in {"live", "dying"}
      BY <3>1, SizesAssumption, NamesAssumption
         DEF RInv, IInv, TypeOK, MixesRegistered, RegistrySound
    <3> QED
      BY <1>1, <3>1
  <2> QED
    BY <2>1 DEF Owed, Mixing
<1>4. [q \in Players |-> life[q] # "free"]' =
        [[q \in Players |-> life[q] # "free"] EXCEPT ![p] = FALSE]
  BY <1>1, <1>2
<1>5. \A q \in Players : Inflight(q)' = Inflight(q) /\ Owed(q)' = Owed(q)
  BY <1>2 DEF Inflight, Owed
<1> QED
  BY <1>1, <1>2, <1>3, <1>4, <1>5
     DEF Contract!Destroy, Contract!queueVars, Inflight, Owed

(* A step of a player's life that the contract does not see. *)
LEMMA SameLife ==
  ASSUME RInv, NEW p \in Players, NEW to \in Lives \ {"free"},
         life[p] # "free", life' = [life EXCEPT ![p] = to],
         UNCHANGED <<cb, ring, cur, apc, ap, popped>>
  PROVE  UNCHANGED Contract!vars
<1>1. [q \in Players |-> life[q] # "free"]' =
        [q \in Players |-> life[q] # "free"]
  BY DEF RInv, IInv, TypeOK
<1> QED
  BY <1>1 DEF Contract!vars, Contract!queueVars

LEMMA QuietEngineSteps ==
  ASSUME RInv, NEW t \in Threads,
         \/ LockSound(t) \/ UnlockSound(t)
         \/ \E p \in Players : \/ \E on \in BOOLEAN : SetPlayState(t, p, on)
                               \/ DestroyBegin(t, p)
         \/ CreateOpen(t) \/ CreateRegister(t) \/ DestroyUnlink(t)
  PROVE  UNCHANGED Contract!vars
<1>1. UNCHANGED <<cb, ring, cur, apc, ap, popped>>
  BY DEF LockSound, UnlockSound, SetPlayState, DestroyBegin, CreateOpen,
     CreateRegister, DestroyUnlink, playerVars, audioVars
<1>2. CASE UNCHANGED life
  BY <1>1, <1>2, Quiet DEF Inflight, Owed
<1>3. CASE CreateRegister(t) \/ DestroyUnlink(t)
  <2>1. /\ tobj[t] \in Players
        /\ life[tobj[t]] # "free"
    BY <1>3
       DEF CreateRegister, DestroyUnlink, RInv, IInv, OperationsAgree, Expected
  <2>2. \E to \in Lives \ {"free"} : life' = [life EXCEPT ![tobj[t]] = to]
    BY <1>3 DEF CreateRegister, DestroyUnlink, Lives
  <2> QED
    BY <1>1, <2>1, <2>2, SameLife
<1>4. ASSUME NEW p \in Players, DestroyBegin(t, p)
      PROVE  UNCHANGED Contract!vars
  <2>1. /\ life[p] # "free" /\ "dying" \in Lives \ {"free"}
        /\ life' = [life EXCEPT ![p] = "dying"]
    BY <1>4 DEF DestroyBegin, Lives
  <2> QED
    BY <1>1, <2>1, SameLife
<1> QED
  BY <1>2, <1>3, <1>4 DEF LockSound, UnlockSound, SetPlayState, CreateOpen

LEMMA StepMaps ==
  ASSUME RInv, ~EngineClears, [Next]_vars
  PROVE  [Contract!Next]_(Contract!vars)
<1>1. CASE AudioNext
  <2>1. Mixing => ap \in Players
    BY DEF RInv, IInv, MixesRegistered
  <2>2. BufferFinished \/ CbRefill \/ CbDecline \/ Pop => Mixing
    BY DEF BufferFinished, CbRefill, CbDecline, Pop, Mixing
  <2>3. BufferFinished \/ CbRefill \/ CbDecline \/ Pop => Contract!Next
    <3>1. Contract!Finish(ap) \/ Contract!Notify(ap) \/ Contract!Start(ap)
            => (ap \in Players => Contract!Next)
      BY DEF Contract!Next, Contract!Finish, Contract!Notify, Contract!Start
    <3>2. BufferFinished => Contract!Finish(ap)
      BY BufferFinishedMaps
    <3>3. CbRefill \/ CbDecline => Contract!Notify(ap)
      BY CallbackMaps
    <3>4. Pop => Contract!Start(ap)
      BY PopMaps
    <3> QED
      BY <2>1, <2>2, <3>1, <3>2, <3>3, <3>4
  <2>4. CASE ~(BufferFinished \/ CbRefill \/ CbDecline \/ Pop)
    <3>1. UNCHANGED Contract!vars
      BY <1>1, <2>4, QuietAudioSteps DEF AudioNext
    <3> QED
      BY <3>1
  <2> QED
    BY <2>3, <2>4
<1>2. ASSUME NEW t \in Threads, EngineNext(t)
      PROVE  [Contract!Next]_(Contract!vars)
  <2>1. ASSUME NEW p \in Players, NEW b \in Buffers, Enqueue(t, p, b)
        PROVE  [Contract!Next]_(Contract!vars)
    BY <2>1, EnqueueMaps DEF Contract!Next
  <2>2. ASSUME NEW p \in Players, CreateBegin(t, p)
        PROVE  [Contract!Next]_(Contract!vars)
    BY <2>2, CreateMaps DEF Contract!Next
  <2>3. ASSUME NEW p \in Players, NEW on \in BOOLEAN, RegisterCallback(t, p, on)
        PROVE  [Contract!Next]_(Contract!vars)
    BY <2>3, RegisterMaps DEF Contract!Next
  <2>4. ASSUME DestroyFree(t) PROVE [Contract!Next]_(Contract!vars)
    <3>1. PICK p : p = tobj[t]
      OBVIOUS
    <3>2. p \in Players /\ Contract!Destroy(p)
      BY <2>4, <3>1, DestroyMaps
    <3> QED
      BY <3>2 DEF Contract!Next
  <2>5. ~ClearEnd(t) /\ \A p \in Players : ~ClearBegin(t, p)
    BY DEF ClearEnd, ClearBegin, RInv, NobodyClears
  <2> QED
    BY <1>2, <2>1, <2>2, <2>3, <2>4, <2>5, QuietEngineSteps DEF EngineNext
<1>3. CASE UNCHANGED vars
  <2>1. UNCHANGED <<life, cb, ring, cur, apc, ap, popped>>
    BY <1>3 DEF vars, playerVars, audioVars
  <2> QED
    BY <2>1, Quiet DEF Inflight, Owed
<1> QED
  BY <1>1, <1>2, <1>3 DEF Next

LEMMA InitMaps == Init => Contract!Init
<1> SUFFICES ASSUME Init PROVE Contract!Init
  OBVIOUS
<1>1. \A p \in Players : Contents(ring[p]) = <<>>
  BY NothingWaits DEF Init
<1> QED
  BY <1>1 DEF Init, Contract!Init

(* source/opensles.c, 238-284, 480-493 and 630-638: unless the engine      *)
(* calls Clear, a player plays the buffers in the order of their Enqueue,  *)
(* one at a time, loses and repeats none until it is destroyed, and calls  *)
(* a registered callback for each before the next starts.                  *)
THEOREM QueueContractKept == ASSUME ~EngineClears PROVE Spec => Implements
<1>1. Init => RInv /\ Contract!Init
  BY InitRInv, InitMaps
<1>2. RInv /\ [Next]_vars => RInv' /\ [Contract!Next]_(Contract!vars)
  BY RInvStep, StepMaps
<1> QED
  BY <1>1, <1>2, PTL DEF Spec, Implements, Contract!Spec
=============================================================================
