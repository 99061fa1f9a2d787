--------------------------- MODULE ServicesProofs ---------------------------
(***************************************************************************)
(* Proofs about Services, for any archive, requests, languages and number  *)
(* of threads: the references of loadFile and loadSound are handled as     *)
(* JniLocals demands, and every request gets the first of its candidates   *)
(* that exists, in the reader's own language before English, although all  *)
(* threads share the position of one file.                                 *)
(***************************************************************************)
EXTENDS Services, JniLocalsProofs, WellFoundedInduction, SequenceTheorems

-----------------------------------------------------------------------------
(* The references.                                                         *)

LEMMA StepsOfJniLocals == [ServicesNext]_allVars => [Next]_vars
<1> SUFFICES ASSUME [ServicesNext]_allVars PROVE [Next]_vars
  OBVIOUS
<1>1. CASE UNCHANGED vars
  BY <1>1
<1>2. ASSUME NEW t \in Threads, ReturnArray(t) PROVE [Next]_vars
  BY <1>2 DEF ReturnArray, Next
<1>3. ASSUME NEW t \in Threads, Local(t) PROVE [Next]_vars
  BY <1>3 DEF Local, Next
<1>4. \/ UNCHANGED vars
      \/ \E t \in Threads : ReturnArray(t) \/ Local(t)
  BY DEF ServicesNext, allVars, ObbOpen, ObbClose, LoadFile, LoadSound, Begin,
     SetLanguage, ObbSeek, ObbRead, AssetOpen, AssetOpened, AssetRead,
     AssetSeek, AssetClose
<1> QED
  BY <1>1, <1>2, <1>3, <1>4

(* loadFile and loadSound register and drop references as the engine's own *)
(* calls do: what holds of the table holds with them, too.                 *)
THEOREM ReferencesHandled == ServicesSpec => Spec
<1>1. ServicesInit => Init
  BY DEF ServicesInit
<1> QED
  BY <1>1, StepsOfJniLocals, PTL DEF ServicesSpec, Spec

-----------------------------------------------------------------------------
(* The lookups.                                                            *)

(* The entry find returns is one with that path, the last of them.         *)
LEMMA FindFinds ==
  ASSUME NEW path
  PROVE  /\ Find(path) \in 0..Len(Archive)
         /\ Find(path) # 0 => Archive[Find(path)] = path
<1> DEFINE S == {0} \cup {k \in DOMAIN Archive : Archive[k] = path}
<1>1. S \subseteq 0..Len(Archive) /\ 0 \in S
  BY ServicesAssumption
<1>2. PICK m \in S : \A y \in S : m >= y
  <2> HIDE DEF S
  <2> DEFINE Behind == {n \in Nat : Len(Archive) - n \in S}
  <2>1. \A y \in S : /\ Len(Archive) - y \in Nat
                    /\ Len(Archive) - (Len(Archive) - y) = y
    BY <1>1, ServicesAssumption
  <2>2. Behind \subseteq Nat /\ Len(Archive) - 0 \in Behind
    BY <1>1, <2>1
  <2>3. PICK n \in Behind : \A i \in Behind : <<i, n>> \notin OpToRel(<, Nat)
    <3> HIDE DEF Behind
    <3> QED
      BY <2>2, NatLessThanWellFounded, WFMin
  <2>4. \A i \in Behind : n <= i
    <3>1. SUFFICES ASSUME NEW i \in Behind, i < n PROVE FALSE
      BY <2>2
    <3>2. <<i, n>> \in Nat \X Nat /\ <<i, n>>[1] < <<i, n>>[2]
      BY <2>2, <3>1
    <3> QED
      BY <2>3, <3>2 DEF OpToRel
  <2>5. Len(Archive) - n \in S /\ \A y \in S : Len(Archive) - n >= y
    BY <1>1, <2>1, <2>4, ServicesAssumption
  <2> QED
    BY <2>5
<1>3. Find(path) = Max(S)
  BY DEF Find
<1>4. Max(S) \in S
  BY <1>2 DEF Max
<1> QED
  BY <1>1, <1>3, <1>4

LEMMA FirstIsMin ==
  ASSUME NEW S \in SUBSET Nat, NEW k \in S, \A j \in S : k <= j
  PROVE  Min(S) = k
<1>1. \A x \in S : (\A y \in S : x <= y) => x = k
  OBVIOUS
<1> QED
  BY <1>1 DEF Min

-----------------------------------------------------------------------------
(* The inductive invariant.                                                *)

Asked == AssetPaths
         \cup (({Root, "files", "sound"} \cup Known) \X (Files \cup Sounds))
Calls == [pc : {"find", "read", "return"}, paths : Seq(Asked), k : Nat,
          got : 0..Len(Archive), failed : BOOLEAN]
MemoryAssets == [kind : {"memory"}, pos : 0..AssetSize]
Typed ==
  /\ opened \in BOOLEAN /\ closed \in BOOLEAN
  /\ fpos \in 0..Len(Archive) /\ holder \in Users \cup {NoRef}
  /\ language \in Languages
  /\ call \in [Users -> {Idle} \cup Calls]
  /\ asset \in [Readers -> {NoAsset, [kind |-> "file"]} \cup MemoryAssets]

(* A call that has not failed has looked in vain at every candidate before *)
(* its present one; one that returns has got that one, or nothing after    *)
(* looking at all.                                                         *)
Progress(c) ==
  /\ c.k \in 1..Len(c.paths)
  /\ ~c.failed => \A j \in 1..(c.k - 1) : Find(c.paths[j]) = 0
  /\ c.pc = "find" => c.got = 0
  /\ c.pc = "read" => c.got = 0 /\ Find(c.paths[c.k]) # 0
  /\ c.pc = "return" /\ ~c.failed =>
       c.got = Find(c.paths[c.k]) /\ (c.got = 0 => c.k = Len(c.paths))
CallsProgress == \A t \in Users : call[t] # Idle => Progress(call[t])

(* Between its seek and its read a call holds the lock of obb_read, and    *)
(* nobody moves the file.                                                  *)
ReaderHolds ==
  \A t \in Users : call[t] # Idle /\ call[t].pc = "read" =>
    holder = t /\ fpos = Find(call[t].paths[call[t].k])

(* A candidate in the language asked for precedes the English one. *)
LastResort(paths) ==
  \A k, m \in 1..Len(paths) :
    paths[k][1] \in Known \ {EN} /\ paths[m] = <<EN, paths[k][2]>> => k < m
EnglishLast ==
  \A t \in Threads : call[t] # Idle => LastResort(call[t].paths)

SInv == Typed /\ CallsProgress /\ ReaderHolds /\ EnglishLast

LEMMA InitSInv == ServicesInit => SInv
<1> SUFFICES ASSUME ServicesInit PROVE SInv
  OBVIOUS
<1>1. Typed
  <2>1. fpos \in 0..Len(Archive) /\ holder \in Users \cup {NoRef}
    BY ServicesAssumption DEF ServicesInit
  <2>2. opened \in BOOLEAN /\ closed \in BOOLEAN /\ language \in Languages
    BY DEF ServicesInit
  <2>3. call \in [Users -> {Idle} \cup Calls]
    BY DEF ServicesInit
  <2>4. asset \in [Readers -> {NoAsset, [kind |-> "file"]} \cup MemoryAssets]
    BY DEF ServicesInit
  <2> QED
    BY <2>1, <2>2, <2>3, <2>4 DEF Typed
<1>2. \A t \in Users : call[t] = Idle
  BY DEF ServicesInit
<1>3. CallsProgress /\ ReaderHolds /\ EnglishLast
  BY <1>2 DEF CallsProgress, ReaderHolds, EnglishLast, Users
<1> QED
  BY <1>1, <1>3 DEF SInv

LEMMA CallsAreNotIdle == Idle \notin Calls
BY DEF Idle, Calls

LEMMA Joined ==
  ASSUME NEW a, NEW b, NEW c, NEW d
  PROVE  /\ <<a, b>> \o <<c>> = <<a, b, c>>
         /\ <<a, b>> \o <<c, d>> = <<a, b, c, d>>
<1>1. <<a, b, c>> = <<a, b>> \o <<c>>
  OBVIOUS
<1>2. <<a, b, c, d>> = <<a, b>> \o <<c, d>>
  OBVIOUS
<1> QED
  BY <1>1, <1>2

(* What a request asks for. *)
LEMMA CandidatesTyped ==
  /\ \A name \in Files :
       /\ FileCandidates(name) \in Seq(Asked)
       /\ Len(FileCandidates(name)) # 0 /\ LastResort(FileCandidates(name))
  /\ \A name \in Sounds :
       /\ SoundCandidates(name) \in Seq(Asked)
       /\ Len(SoundCandidates(name)) # 0 /\ LastResort(SoundCandidates(name))
  /\ \A path \in AssetPaths : <<path>> \in Seq(Asked) /\ Len(<<path>>) # 0
<1>1. ASSUME NEW name \in Files
      PROVE  /\ FileCandidates(name) \in Seq(Asked)
             /\ Len(FileCandidates(name)) # 0
             /\ LastResort(FileCandidates(name))
  <2>1. InLanguages \in Known
    BY ServicesAssumption DEF InLanguages
  <2>2. CASE InLanguages = EN
    <3>1. FileCandidates(name) =
            <<<<Root, name>>, <<"files", name>>, <<EN, name>>>>
      <4>1. Localized(name) = <<<<EN, name>>>>
        BY <2>2 DEF Localized
      <4> QED
        BY <4>1, Joined DEF FileCandidates
    <3> QED
      BY <3>1, ServicesAssumption DEF Asked, LastResort
  <2>3. CASE InLanguages # EN
    <3>1. FileCandidates(name) =
            <<<<Root, name>>, <<"files", name>>, <<InLanguages, name>>,
              <<EN, name>>>>
      <4>1. Localized(name) = <<<<InLanguages, name>>, <<EN, name>>>>
        BY <2>3 DEF Localized
      <4> QED
        BY <4>1, Joined DEF FileCandidates
    <3> QED
      BY <2>1, <2>3, <3>1, ServicesAssumption DEF Asked, LastResort
  <2> QED
    BY <2>2, <2>3
<1>2. ASSUME NEW name \in Sounds
      PROVE  /\ SoundCandidates(name) \in Seq(Asked)
             /\ Len(SoundCandidates(name)) # 0
             /\ LastResort(SoundCandidates(name))
  BY ServicesAssumption DEF SoundCandidates, Asked, LastResort
<1>3. \A path \in AssetPaths : <<path>> \in Seq(Asked) /\ Len(<<path>>) # 0
  BY DEF Asked
<1> QED
  BY <1>1, <1>2, <1>3

-----------------------------------------------------------------------------
(* The invariant is inductive.                                             *)

(* Thread t goes to c in its call; nobody else's call changes. *)
LEMMA CallsKept ==
  ASSUME SInv, NEW t \in Users, NEW c,
         call' = [call EXCEPT ![t] = c],
         c = Idle \/ (c \in Calls /\ Progress(c)),
         t \in Threads /\ c # Idle => LastResort(c.paths)
  PROVE  /\ call' \in [Users -> {Idle} \cup Calls]
         /\ CallsProgress' /\ EnglishLast'
<1>1. /\ call' \in [Users -> {Idle} \cup Calls] /\ call'[t] = c
      /\ \A u \in Users \ {t} : call'[u] = call[u]
  BY DEF SInv, Typed
<1>2. CallsProgress'
  <2>1. \A u \in Users : call'[u] # Idle => Progress(call'[u])
    BY <1>1 DEF SInv, CallsProgress
  <2> QED
    BY <2>1 DEF CallsProgress, Progress, Find
<1>3. EnglishLast'
  BY <1>1 DEF SInv, EnglishLast, LastResort, Users
<1> QED
  BY <1>1, <1>2, <1>3

(* Whoever reads holds the lock, so with the lock free nobody reads. *)
LEMMA LockedOut ==
  ASSUME SInv, NEW t \in Users
  PROVE  /\ t # NoRef
         /\ holder = NoRef => call[t].pc # "read"
         /\ holder # t => call[t].pc # "read"
<1>1. t # NoRef
  BY ServicesAssumption, LocalsAssumption DEF Users
<1>2. call[t].pc = "read" => call[t] # Idle
  BY DEF Idle
<1> QED
  BY <1>1, <1>2 DEF SInv, ReaderHolds

(* A failed or futile attempt leads to the next candidate, or to nothing. *)
LEMMA TriedProgresses ==
  ASSUME NEW c \in Calls, Progress(c), c.pc \in {"find", "read"},
         NEW failed \in BOOLEAN, failed \/ Find(c.paths[c.k]) = 0
  PROVE  /\ Tried(c, failed) \in Calls /\ Progress(Tried(c, failed))
         /\ Tried(c, failed).pc # "read"
         /\ Tried(c, failed).paths = c.paths
<1> DEFINE d == Tried(c, failed)
<1>1. /\ c.k \in 1..Len(c.paths) /\ Len(c.paths) \in Nat /\ c.got = 0
      /\ ~c.failed => \A j \in 1..(c.k - 1) : Find(c.paths[j]) = 0
  BY DEF Calls, Progress
<1>2. CASE c.k < Len(c.paths)
  <2>1. d = [pc |-> "find", paths |-> c.paths, k |-> c.k + 1, got |-> c.got,
             failed |-> c.failed \/ failed]
    BY <1>2 DEF Tried, Calls
  <2>2. d \in Calls
    BY <2>1 DEF Calls
  <2>3. /\ d.pc = "find" /\ d.k = c.k + 1 /\ d.paths = c.paths /\ d.got = 0
        /\ ~d.failed => ~c.failed /\ ~failed
    <3>1. /\ d.pc = "find" /\ d.k = c.k + 1 /\ d.paths = c.paths
          /\ d.got = 0
      BY <1>1, <2>1
    <3>2. d.failed = (c.failed \/ failed)
      BY <2>1
    <3>3. c.failed \in BOOLEAN
      BY DEF Calls
    <3> QED
      BY <3>1, <3>2, <3>3, Zenon
  <2> HIDE DEF d
  <2>4. ~d.failed => \A j \in 1..(d.k - 1) : Find(d.paths[j]) = 0
    <3>1. SUFFICES ASSUME ~d.failed, NEW j \in 1..c.k
                   PROVE  Find(c.paths[j]) = 0
      BY <1>1, <2>3
    <3>2. j \in 1..(c.k - 1) \/ j = c.k
      BY <1>1
    <3> QED
      BY <1>1, <2>3, <3>1, <3>2
  <2>5. Progress(d)
    BY <1>1, <1>2, <2>3, <2>4 DEF Progress
  <2> QED
    BY <2>2, <2>3, <2>5 DEF d
<1>3. CASE ~(c.k < Len(c.paths))
  <2>1. d = [pc |-> "return", paths |-> c.paths, k |-> c.k, got |-> c.got,
             failed |-> c.failed \/ failed]
    BY <1>3 DEF Tried, Calls
  <2>2. d \in Calls
    BY <2>1 DEF Calls
  <2>3. /\ d.pc = "return" /\ d.k = c.k /\ d.paths = c.paths /\ d.got = 0
        /\ ~d.failed => ~c.failed /\ ~failed
    <3>1. /\ d.pc = "return" /\ d.k = c.k /\ d.paths = c.paths
          /\ d.got = 0
      BY <1>1, <2>1
    <3>2. d.failed = (c.failed \/ failed)
      BY <2>1
    <3>3. c.failed \in BOOLEAN
      BY DEF Calls
    <3> QED
      BY <3>1, <3>2, <3>3, Zenon
  <2> HIDE DEF d
  <2>4. Progress(d)
    BY <1>1, <1>3, <2>3 DEF Progress
  <2> QED
    BY <2>2, <2>3, <2>4 DEF d
<1> QED
  BY <1>2, <1>3

(* A request begins with its first candidate. *)
LEMMA BeginKeeps ==
  ASSUME SInv, NEW t \in Users, NEW paths \in Seq(Asked), Len(paths) # 0,
         t \in Threads => LastResort(paths), Begin(t, paths)
  PROVE  SInv'
<1> DEFINE c == [pc |-> "find", paths |-> paths, k |-> 1, got |-> 0,
                 failed |-> FALSE]
<1>1. /\ call[t] = Idle /\ call' = [call EXCEPT ![t] = c]
      /\ UNCHANGED <<opened, closed, fpos, holder, language, asset>>
  BY DEF Begin, archive
<1>2. c \in Calls /\ c.paths = paths /\ c.pc = "find"
  BY ServicesAssumption DEF Calls
<1>3. Progress(c)
  <2>1. Len(paths) \in Nat
    OBVIOUS
  <2> QED
    BY <2>1 DEF Progress
<1> HIDE DEF c
<1>4. /\ call' \in [Users -> {Idle} \cup Calls]
      /\ CallsProgress' /\ EnglishLast'
  BY <1>1, <1>2, <1>3, CallsKept
<1>5. ReaderHolds'
  BY <1>1, <1>2 DEF SInv, Typed, ReaderHolds, Find
<1>6. Typed'
  BY <1>1, <1>4 DEF SInv, Typed
<1> QED
  BY <1>4, <1>5, <1>6 DEF SInv

LEMMA ObbSeekKeeps ==
  ASSUME SInv, NEW t \in Users, ObbSeek(t)
  PROVE  SInv'
<1> DEFINE c == call[t]
           e == Find(c.paths[c.k])
<1>1. /\ c.pc = "find" /\ holder = NoRef
      /\ UNCHANGED <<opened, closed, language, asset>>
  BY DEF ObbSeek, GLockFree
<1>2. c \in Calls /\ Progress(c) /\ c # Idle
  BY <1>1 DEF SInv, Typed, CallsProgress, Idle
<1>3. t \in Threads => LastResort(c.paths)
  BY <1>2 DEF SInv, EnglishLast
<1>4. \A u \in Users : call[u].pc # "read"
  BY <1>1, LockedOut
<1>5. CASE /\ e # 0 /\ holder' = t /\ fpos' = e
           /\ call' = [call EXCEPT ![t].pc = "read"]
  <2> DEFINE d == [c EXCEPT !.pc = "read"]
  <2>1. d = [pc |-> "read", paths |-> c.paths, k |-> c.k, got |-> c.got,
             failed |-> c.failed]
    BY <1>2 DEF Calls
  <2>2. d \in Calls
    BY <1>2, <2>1 DEF Calls
  <2>3. Progress(d)
    BY <1>1, <1>2, <1>5, <2>1 DEF Progress
  <2>4. call' = [call EXCEPT ![t] = d]
    BY <1>5 DEF SInv, Typed
  <2>5. /\ call' \in [Users -> {Idle} \cup Calls]
        /\ CallsProgress' /\ EnglishLast'
    BY <1>3, <2>1, <2>2, <2>3, <2>4, CallsKept
  <2>6. ReaderHolds'
    <3>1. call'[t] = d /\ \A u \in Users \ {t} : call'[u] = call[u]
      BY <2>4 DEF SInv, Typed
    <3> QED
      BY <1>4, <1>5, <2>1, <3>1 DEF ReaderHolds, Find
  <2>7. Typed'
    BY <1>1, <1>5, <2>5, FindFinds DEF SInv, Typed
  <2> QED
    BY <2>5, <2>6, <2>7 DEF SInv
<1>6. CASE Missed(t, e # 0) /\ UNCHANGED <<holder, fpos>>
  <2> DEFINE d == Tried(c, e # 0)
  <2>1. call' = [call EXCEPT ![t] = d]
    BY <1>6 DEF Missed
  <2>2. d \in Calls /\ Progress(d) /\ d.pc # "read" /\ d.paths = c.paths
    BY <1>1, <1>2, TriedProgresses
  <2> HIDE DEF d
  <2>3. /\ call' \in [Users -> {Idle} \cup Calls]
        /\ CallsProgress' /\ EnglishLast'
    BY <1>3, <2>1, <2>2, CallsKept
  <2>4. ReaderHolds'
    <3>1. call'[t] = d /\ \A u \in Users \ {t} : call'[u] = call[u]
      BY <2>1 DEF SInv, Typed
    <3> QED
      BY <1>4, <2>2, <3>1 DEF ReaderHolds
  <2>5. Typed'
    BY <1>1, <1>6, <2>3 DEF SInv, Typed
  <2> QED
    BY <2>3, <2>4, <2>5 DEF SInv
<1> QED
  BY <1>5, <1>6 DEF ObbSeek

LEMMA ObbReadKeeps ==
  ASSUME SInv, NEW t \in Users, ObbRead(t)
  PROVE  SInv'
<1> DEFINE c == call[t]
           e == Find(c.paths[c.k])
<1>1. /\ c.pc = "read" /\ fpos' = 0 /\ holder' = NoRef
      /\ UNCHANGED <<opened, closed, language, asset>>
  BY DEF ObbRead
<1>2. c \in Calls /\ Progress(c) /\ c # Idle
  BY <1>1 DEF SInv, Typed, CallsProgress, Idle
<1>3. t \in Threads => LastResort(c.paths)
  BY <1>2 DEF SInv, EnglishLast
<1>4. holder = t /\ fpos = e
  BY <1>1, <1>2 DEF SInv, ReaderHolds
<1>5. \A u \in Users \ {t} : call[u].pc # "read"
  BY <1>4, LockedOut
<1>6. PICK d \in Calls : /\ call' = [call EXCEPT ![t] = d] /\ Progress(d)
                         /\ d.pc # "read" /\ d.paths = c.paths
  <2>1. CASE call' = [call EXCEPT ![t].pc = "return", ![t].got = fpos]
    <3> DEFINE d == [pc |-> "return", paths |-> c.paths, k |-> c.k,
                     got |-> e, failed |-> c.failed]
    <3>1. call' = [call EXCEPT ![t] = d]
      <4>1. call' = [call EXCEPT ![t] = [c EXCEPT !.pc = "return", !.got = e]]
        BY <1>4, <2>1 DEF SInv, Typed
      <4>2. [c EXCEPT !.pc = "return", !.got = e] = d
        <5> DEFINE r == [c EXCEPT !.pc = "return"]
        <5>1. [c EXCEPT !.pc = "return", !.got = e] = [r EXCEPT !.got = e]
          BY <1>2 DEF Calls
        <5>2. r = [pc |-> "return", paths |-> c.paths, k |-> c.k,
                   got |-> c.got, failed |-> c.failed]
          BY <1>2 DEF Calls
        <5>3. [r EXCEPT !.got = e] = d
          <6> HIDE DEF r, c, e
          <6> QED
            BY <5>2
        <5> QED
          BY <5>1, <5>3
      <4> QED
        BY <4>1, <4>2
    <3>2. d \in Calls
      BY <1>2, FindFinds DEF Calls
    <3>3. Progress(d)
      BY <1>1, <1>2 DEF Progress
    <3> QED
      BY <3>1, <3>2, <3>3
  <2>2. CASE Missed(t, TRUE)
    <3>1. call' = [call EXCEPT ![t] = Tried(c, TRUE)]
      BY <2>2 DEF Missed
    <3>2. /\ Tried(c, TRUE) \in Calls /\ Progress(Tried(c, TRUE))
          /\ Tried(c, TRUE).pc # "read" /\ Tried(c, TRUE).paths = c.paths
      BY <1>1, <1>2, TriedProgresses
    <3> QED
      BY <3>1, <3>2
  <2> QED
    BY <1>4, <2>1, <2>2 DEF ObbRead
<1>7. /\ call' \in [Users -> {Idle} \cup Calls]
      /\ CallsProgress' /\ EnglishLast'
  BY <1>3, <1>6, CallsKept
<1>8. ReaderHolds'
  <2>1. call'[t] = d /\ \A u \in Users \ {t} : call'[u] = call[u]
    BY <1>6 DEF SInv, Typed
  <2> QED
    BY <1>5, <1>6, <2>1 DEF ReaderHolds
<1>9. Typed'
  BY <1>1, <1>7, ServicesAssumption DEF SInv, Typed
<1> QED
  BY <1>7, <1>8, <1>9 DEF SInv

LEMMA ReturnKeeps ==
  ASSUME SInv, NEW t \in Users, Returns(t),
         UNCHANGED <<opened, closed, fpos, holder, language>>,
         asset' \in [Readers -> {NoAsset, [kind |-> "file"]} \cup MemoryAssets]
  PROVE  SInv'
<1>1. call' = [call EXCEPT ![t] = Idle]
  BY DEF Returns
<1>2. /\ call' \in [Users -> {Idle} \cup Calls]
      /\ CallsProgress' /\ EnglishLast'
  <2> DEFINE c == Idle
  <2>1. call' = [call EXCEPT ![t] = c] /\ c = Idle
    BY <1>1
  <2> HIDE DEF c
  <2>2. /\ c = Idle \/ (c \in Calls /\ Progress(c))
        /\ t \in Threads /\ c # Idle => LastResort(c.paths)
    BY <2>1
  <2> QED
    BY <2>1, <2>2, CallsKept
<1>3. ReaderHolds'
  BY <1>1 DEF SInv, Typed, ReaderHolds, Find
<1>4. Typed'
  BY <1>2 DEF SInv, Typed
<1> QED
  BY <1>2, <1>3, <1>4 DEF SInv

LEMMA QuietKeeps ==
  ASSUME SInv, UNCHANGED <<fpos, holder, call>>,
         opened' \in BOOLEAN, closed' \in BOOLEAN, language' \in Languages,
         asset' \in [Readers -> {NoAsset, [kind |-> "file"]} \cup MemoryAssets]
  PROVE  SInv'
<1>1. Typed'
  BY DEF SInv, Typed
<1>2. CallsProgress'
  <2>1. \A t \in Users : call'[t] # Idle => Progress(call'[t])
    BY DEF SInv, CallsProgress
  <2> QED
    BY <2>1 DEF CallsProgress, Progress, Find
<1>3. ReaderHolds'
  BY DEF SInv, ReaderHolds, Find
<1>4. EnglishLast'
  BY DEF SInv, EnglishLast, LastResort
<1> QED
  BY <1>1, <1>2, <1>3, <1>4 DEF SInv

(* AAsset_read (662-675) never copies from outside the memory. *)
LEMMA ReadableFits ==
  ASSUME NEW a, a.pos \in 0..AssetSize, NEW count \in 0..AssetSize
  PROVE  a.pos + Readable(a, count) \in 0..AssetSize
<1> DEFINE rest == AssetSize - a.pos
<1>1. rest \in Nat
  BY ServicesAssumption
<1>2. Max({0, rest}) = rest
  <2> HIDE DEF rest
  <2>1. \A x \in {0, rest} : (\A y \in {0, rest} : x >= y) <=> x = rest
    BY <1>1
  <2> QED
    BY <2>1 DEF Max
<1>3. Min({count, rest}) = IF count <= rest THEN count ELSE rest
  <2> HIDE DEF rest
  <2>1. count \in Nat
    BY ServicesAssumption
  <2>2. \A x \in {count, rest} : (\A y \in {count, rest} : x <= y)
                               <=> x = IF count <= rest THEN count ELSE rest
    BY <1>1, <2>1
  <2> QED
    BY <2>2 DEF Min
<1>4. Readable(a, count) = IF count <= rest THEN count ELSE rest
  BY <1>2, <1>3 DEF Readable
<1> QED
  BY <1>4, ServicesAssumption

LEMMA MemoryMoves ==
  ASSUME SInv, NEW t \in Readers, InMemory(t), NEW np \in 0..AssetSize,
         Moves(t, np)
  PROVE  asset' \in [Readers -> {NoAsset, [kind |-> "file"]} \cup MemoryAssets]
<1>1. asset[t] \in MemoryAssets
  BY DEF InMemory, Open, SInv, Typed
<1>2. [asset[t] EXCEPT !.pos = np] \in MemoryAssets
  BY <1>1 DEF MemoryAssets
<1>3. asset' = [asset EXCEPT ![t] = [asset[t] EXCEPT !.pos = np]]
  BY DEF Moves, SInv, Typed
<1> QED
  BY <1>2, <1>3 DEF SInv, Typed

LEMMA NextSInv == SInv /\ [ServicesNext]_allVars => SInv'
<1> SUFFICES ASSUME SInv, [ServicesNext]_allVars PROVE SInv'
  OBVIOUS
<1> DEFINE Assets == [Readers -> {NoAsset, [kind |-> "file"]} \cup MemoryAssets]
<1>1. /\ opened \in BOOLEAN /\ closed \in BOOLEAN /\ language \in Languages
      /\ asset \in Assets
  BY DEF SInv, Typed
<1>2. CASE ObbOpen \/ ObbClose
  BY <1>1, <1>2, QuietKeeps DEF ObbOpen, ObbClose
<1>3. ASSUME NEW t \in Threads,
             \/ LoadFile(t) \/ LoadSound(t) \/ ReturnArray(t)
             \/ SetLanguage(t) \/ Local(t)
      PROVE  SInv'
  <2>1. t \in Users
    BY DEF Users
  <2>2. CASE LoadFile(t) \/ LoadSound(t)
    BY <2>1, <2>2, BeginKeeps, CandidatesTyped DEF LoadFile, LoadSound
  <2>3. CASE ReturnArray(t)
    BY <1>1, <2>1, <2>3, ReturnKeeps DEF ReturnArray, archive
  <2>4. CASE SetLanguage(t)
    BY <1>1, <2>4, QuietKeeps DEF SetLanguage, archive
  <2>5. CASE Local(t)
    BY <1>1, <2>5, QuietKeeps DEF Local, svars, archive
  <2> QED
    BY <1>3, <2>2, <2>3, <2>4, <2>5
<1>4. ASSUME NEW t \in Users, ObbSeek(t) \/ ObbRead(t) PROVE SInv'
  BY <1>4, ObbSeekKeeps, ObbReadKeeps
<1>5. ASSUME NEW t \in Readers,
             \/ AssetOpen(t) \/ AssetOpened(t) \/ AssetRead(t)
             \/ AssetSeek(t) \/ AssetClose(t)
      PROVE  SInv'
  <2>1. t \in Users /\ t \notin Threads
    BY ServicesAssumption DEF Users
  <2>2. CASE AssetOpen(t)
    BY <2>1, <2>2, BeginKeeps, CandidatesTyped DEF AssetOpen
  <2>3. CASE AssetOpened(t)
    <3>1. asset' \in Assets
      <4>1. [kind |-> "memory", pos |-> 0] \in MemoryAssets
        BY ServicesAssumption DEF MemoryAssets
      <4> QED
        BY <1>1, <2>3, <4>1 DEF AssetOpened
    <3> QED
      BY <2>1, <2>3, <3>1, ReturnKeeps DEF AssetOpened, archive
  <2>4. CASE AssetRead(t)
    <3>1. PICK count \in 0..AssetSize :
            InMemory(t) /\ Moves(t, asset[t].pos + Readable(asset[t], count))
      BY <2>4 DEF AssetRead
    <3>2. asset[t].pos \in 0..AssetSize
      BY <3>1 DEF InMemory, Open, SInv, Typed, MemoryAssets
    <3>3. asset' \in Assets
      BY <3>1, <3>2, ReadableFits, MemoryMoves
    <3> QED
      BY <1>1, <2>4, <3>3, QuietKeeps DEF AssetRead, archive
  <2>5. CASE AssetSeek(t)
    <3>1. asset' \in Assets
      BY <2>5, MemoryMoves DEF AssetSeek
    <3> QED
      BY <1>1, <2>5, <3>1, QuietKeeps DEF AssetSeek, archive
  <2>6. CASE AssetClose(t)
    <3>1. asset' \in Assets
      BY <1>1, <2>6 DEF AssetClose
    <3> QED
      BY <1>1, <2>6, <3>1, QuietKeeps DEF AssetClose, archive
  <2> QED
    BY <1>5, <2>2, <2>3, <2>4, <2>5, <2>6
<1>6. CASE UNCHANGED allVars
  BY <1>1, <1>6, QuietKeeps DEF allVars, svars, archive
<1> QED
  BY <1>2, <1>3, <1>4, <1>5, <1>6 DEF ServicesNext

-----------------------------------------------------------------------------
(* What follows from it.                                                   *)

(* Every variable keeps its type, and a memory asset is never positioned   *)
(* outside its memory (libc_shim.c 662-696).                               *)
THEOREM ServicesTypeCorrect ==
  Disciplined /\ ServicesSpec => []ServicesTypeOK
<1>1. TypeOK /\ SInv => ServicesTypeOK
  <2> SUFFICES ASSUME TypeOK, SInv PROVE ServicesTypeOK
    OBVIOUS
  <2>1. \A t \in Users : call[t] # Idle =>
          /\ call[t].pc \in {"find", "read", "return"}
          /\ call[t].k \in DOMAIN call[t].paths
    <3>1. \A t \in Users : call[t] # Idle =>
            call[t] \in Calls /\ Progress(call[t])
      BY DEF SInv, Typed, CallsProgress
    <3> QED
      BY <3>1 DEF Calls, Progress
  <2>2. \A t \in Readers :
          asset[t].kind = "memory" => asset[t].pos \in 0..AssetSize
    BY DEF SInv, Typed, NoAsset, MemoryAssets
  <2> QED
    BY <2>1, <2>2 DEF ServicesTypeOK, SInv, Typed
<1> QED
  BY <1>1, InitSInv, NextSInv, ReferencesHandled, TypeCorrect, PTL
     DEF ServicesSpec

(* Lines 193-205 of obb.c: whoever else moves the position of the file in  *)
(* between, a call that did not fail returns the first of its candidates   *)
(* that exists, and nothing only when none does.                           *)
THEOREM FirstCandidateAlways == ServicesSpec => []FirstCandidateServed
<1>1. SInv => FirstCandidateServed
  <2> SUFFICES ASSUME SInv, NEW t \in Users, call[t] # Idle,
                      call[t].pc = "return", ~call[t].failed
               PROVE  LET c == call[t]
                          there == {k \in DOMAIN c.paths :
                                      Find(c.paths[k]) # 0}
                      IN c.got = IF there = {} THEN 0
                                 ELSE Find(c.paths[Min(there)])
    BY DEF FirstCandidateServed
  <2> DEFINE c == call[t]
             there == {k \in DOMAIN c.paths : Find(c.paths[k]) # 0}
  <2>1. c \in Calls /\ Progress(c)
    BY DEF SInv, Typed, CallsProgress
  <2>2. /\ DOMAIN c.paths = 1..Len(c.paths) /\ Len(c.paths) \in Nat
        /\ c.k \in 1..Len(c.paths)
        /\ \A j \in 1..(c.k - 1) : Find(c.paths[j]) = 0
        /\ c.got = Find(c.paths[c.k]) /\ (c.got = 0 => c.k = Len(c.paths))
    BY <2>1 DEF Calls, Progress
  <2> HIDE DEF c
  <2>3. \A j \in there : j \in Nat /\ c.k <= j
    BY <2>2
  <2>4. CASE c.got = 0
    <3>1. \A j \in 1..Len(c.paths) : j \in 1..(c.k - 1) \/ j = c.k
      BY <2>2, <2>4
    <3>2. there = {}
      BY <2>2, <2>4, <3>1
    <3> QED
      BY <2>4, <3>2 DEF c
  <2>5. CASE c.got # 0
    <3>1. c.k \in there
      BY <2>2, <2>5
    <3>2. Min(there) = c.k
      <4> HIDE DEF there
      <4> QED
        BY <2>3, <3>1, FirstIsMin
    <3> QED
      BY <2>2, <3>1, <3>2 DEF c
  <2> QED
    BY <2>4, <2>5
<1> QED
  BY <1>1, InitSInv, NextSInv, PTL DEF ServicesSpec

(* Lines 242-278 of jni_fake.c: unless a read failed, a file that exists   *)
(* in the language asked for is not served in English.                     *)
THEOREM OwnLanguageAlways == ServicesSpec => []OwnLanguageFirst
<1>1. SInv => OwnLanguageFirst
  <2> SUFFICES ASSUME SInv, NEW t \in Threads, call[t] # Idle,
                      call[t].pc = "return", ~call[t].failed,
                      NEW k \in DOMAIN call[t].paths,
                      call[t].paths[k][1] \in Known \ {EN},
                      Find(call[t].paths[k]) # 0,
                      call[t].got = Find(<<EN, call[t].paths[k][2]>>)
               PROVE  FALSE
    BY DEF OwnLanguageFirst
  <2> DEFINE c == call[t]
             english == <<EN, c.paths[k][2]>>
  <2>1. c \in Calls /\ Progress(c) /\ LastResort(c.paths)
    BY DEF SInv, Typed, CallsProgress, EnglishLast, Users
  <2>2. /\ k \in 1..Len(c.paths) /\ Len(c.paths) \in Nat
        /\ c.k \in 1..Len(c.paths)
        /\ \A j \in 1..(c.k - 1) : Find(c.paths[j]) = 0
        /\ c.got = Find(c.paths[c.k]) /\ (c.got = 0 => c.k = Len(c.paths))
        /\ c.paths[k][1] \in Known \ {EN} /\ Find(c.paths[k]) # 0
        /\ c.got = Find(english)
    BY <2>1 DEF Calls, Progress
  <2> HIDE DEF c, english
  <2>3. c.k <= k
    BY <2>2
  <2>4. c.got # 0
    <3>1. SUFFICES ASSUME c.got = 0 PROVE FALSE
      OBVIOUS
    <3>2. c.k = k
      BY <2>2, <2>3, <3>1
    <3> QED
      BY <2>2, <3>1, <3>2
  <2>5. c.paths[c.k] = english
    BY <2>2, <2>4, FindFinds
  <2>6. k < c.k
    BY <2>1, <2>2, <2>5 DEF LastResort, english
  <2> QED
    BY <2>2, <2>3, <2>6
<1> QED
  BY <1>1, InitSInv, NextSInv, PTL DEF ServicesSpec

(* Lines 66-106 and 472-507 of jni_fake.c, with loadFile and loadSound     *)
(* among the callers: for a disciplined engine no reference is freed twice *)
(* or early, and none that was registered is never freed.                  *)
THEOREM ReferencesSafe ==
  Disciplined /\ ServicesSpec
    => [](RegistrySound /\ GlobalsSurvive /\ LocalsSurvive /\ NothingLeaks)
BY ReferencesHandled, RegistrySoundAlways, GlobalsSurviveAlways,
   LocalsSurviveAlways, NothingLeaksAlways, PTL
=============================================================================
