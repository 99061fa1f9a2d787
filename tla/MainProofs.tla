----------------------------- MODULE MainProofs -----------------------------
(***************************************************************************)
(* Proofs about Main, for any pad, touch panel, rates, images, files and   *)
(* sizes: the engine finds its image finished, the loader keeps to its     *)
(* memory and sets a page's permission once; directions do not latch, a    *)
(* release is reported where the finger was, the display follows the last  *)
(* setFPS, the view fits the screen, settings and saves are kept.          *)
(***************************************************************************)
EXTENDS Main, SoLoaderProofs, TLAPS

-----------------------------------------------------------------------------
(* The boot and the loop.                                                  *)

Early == {"config", "writeConfig", "screen", "egl"}
Booting == {"load", "relocate", "resolve", "entries", "map", "protect",
            "flush", "guard", "construct", "freeTemp", "obb", "viewport",
            "resume"}
BootStep ==
  \/ ReadConfig \/ WriteConfig \/ SetScreenSize \/ EglInit \/ Load
  \/ Relocate \/ ResolveImports \/ ResolveEntryPoints \/ Map \/ Protect
  \/ Flush \/ TlsSetupGuard \/ Construct \/ FreeTemp \/ ObbOpen
  \/ ComputeViewport \/ Resume

LEMMA NextPhases ==
  /\ NextPhase("load") = "relocate" /\ NextPhase("relocate") = "resolve"
  /\ NextPhase("resolve") = "entries" /\ NextPhase("entries") = "map"
  /\ NextPhase("map") = "protect" /\ NextPhase("protect") = "flush"
  /\ NextPhase("flush") = "guard" /\ NextPhase("guard") = "construct"
  /\ NextPhase("construct") = "freeTemp" /\ NextPhase("freeTemp") = "obb"
  /\ NextPhase("obb") = "viewport" /\ NextPhase("viewport") = "resume"
  /\ NextPhase("resume") = "keys"
<1>1. /\ Len(BootOrder) = 14
      /\ BootOrder[1] = "load" /\ BootOrder[2] = "relocate"
      /\ BootOrder[3] = "resolve" /\ BootOrder[4] = "entries"
      /\ BootOrder[5] = "map" /\ BootOrder[6] = "protect"
      /\ BootOrder[7] = "flush" /\ BootOrder[8] = "guard"
      /\ BootOrder[9] = "construct" /\ BootOrder[10] = "freeTemp"
      /\ BootOrder[11] = "obb" /\ BootOrder[12] = "viewport"
      /\ BootOrder[13] = "resume" /\ BootOrder[14] = "keys"
  BY DEF BootOrder
<1>2. \A j, k \in 1..13 : BootOrder[j] = BootOrder[k] => j = k
  BY <1>1
<1>3. ASSUME NEW n \in 1..13 PROVE NextPhase(BootOrder[n]) = BootOrder[1 + n]
  <2>1. (CHOOSE k \in 1..13 : BootOrder[k] = BootOrder[n]) = n
    BY <1>2
  <2> QED
    BY <1>1, <2>1 DEF NextPhase
<1> HIDE DEF NextPhase
<1> QED
  BY <1>1, <1>3

LEMMA NextPhaseIs ==
  ASSUME NEW p \in Booting
  PROVE  NextPhase(p) \in Booting \cup {"keys"}
BY NextPhases DEF Booting

(* Nothing the loop works on changes before it, except that egl_init sets  *)
(* the interval that lastInterval assumes.                                 *)
LEMMA BootKeeps ==
  ASSUME BootStep
  PROVE  /\ UNCHANGED <<input, target, lastInterval, engine, saving>>
         /\ phase \in Early \cup Booting
         /\ phase' \in Early \cup Booting \cup {"keys", "fatal"}
         /\ \/ phase \in Early /\ phase' \in Early \cup {"load", "fatal"}
            \/ phase \in Booting /\ phase' \notin Early
         /\ \/ UNCHANGED eglInterval /\ (phase \in Early => phase' # "load")
            \/ eglInterval' = 1 /\ phase \in Early
<1>1. CASE ReadConfig \/ WriteConfig \/ SetScreenSize \/ EglInit
  BY <1>1 DEF ReadConfig, WriteConfig, SetScreenSize, EglInit, Early, Booting,
     input, pacing, engine, saving
<1>2. CASE ~(ReadConfig \/ WriteConfig \/ SetScreenSize \/ EglInit)
  <2>1. phase \in Booting
    BY <1>2 DEF BootStep, Load, Relocate, ResolveImports, ResolveEntryPoints,
       Map, Protect, Flush, TlsSetupGuard, Construct, FreeTemp, ObbOpen,
       ComputeViewport, Resume, Booting
  <2>2. UNCHANGED <<input, pacing, engine, saving>>
    BY <1>2 DEF BootStep, Load, Relocate, ResolveImports, ResolveEntryPoints,
       Map, Protect, Flush, TlsSetupGuard, Construct, FreeTemp, ObbOpen,
       ComputeViewport, Resume, world
  <2>3. phase' \in {phase, NextPhase(phase), "map", "fatal"}
    BY <1>2 DEF BootStep, Load, Relocate, ResolveImports, ResolveEntryPoints,
       Map, Protect, Flush, TlsSetupGuard, Construct, FreeTemp, ObbOpen,
       ComputeViewport, Resume, Done, DoneForModule, Fatal
  <2>4. phase' \in Booting \cup {"keys", "fatal"}
    BY <2>1, <2>3, NextPhaseIs DEF Booting
  <2> QED
    BY <2>1, <2>2, <2>4 DEF Early, Booting, pacing
<1> QED
  BY <1>1, <1>2

LEMMA NextCases ==
  ASSUME [Next]_vars
  PROVE  \/ BootStep \/ UpdateKeys \/ UpdateTouch \/ Pace \/ Render
         \/ WriteZeros \/ LeaveLoop \/ Leave \/ Restart \/ UNCHANGED vars
BY DEF Next, Step, BootStep

(* The phases between which the engine's keys and the mask differ. *)
BetweenFrames == phase \notin {"touch", "pace", "render"}

-----------------------------------------------------------------------------
(* Keys.                                                                   *)

KeysInv ==
  /\ BetweenFrames => cont = keyMask
  /\ phase \in {"pace", "render"} => cont = {}

LEMMA KeysStep == KeysInv /\ [Next]_vars => KeysInv'
<1> SUFFICES ASSUME KeysInv, [Next]_vars PROVE KeysInv'
  OBVIOUS
<1> USE DEF KeysInv, BetweenFrames
<1>1. CASE BootStep
  BY <1>1, BootKeeps DEF input, engine, Early, Booting
<1>2. CASE UpdateKeys
  BY <1>2 DEF UpdateKeys
<1>3. CASE UpdateTouch
  BY <1>3 DEF UpdateTouch, TouchArrives
<1>4. CASE Pace
  BY <1>4 DEF Pace, input, engine
<1>5. CASE Render
  BY <1>5 DEF Render, input
<1>6. CASE WriteZeros
  BY <1>6 DEF WriteZeros, input, engine
<1>7. CASE LeaveLoop \/ Leave
  BY <1>7 DEF LeaveLoop, Leave, world, input, engine
<1>8. CASE Restart
  BY <1>8 DEF Restart
<1>9. CASE UNCHANGED vars
  BY <1>9 DEF vars, input, engine
<1> QED
  BY <1>1, <1>2, <1>3, <1>4, <1>5, <1>6, <1>7, <1>8, <1>9, NextCases

(* Lines 200-233 of main.c: because touch() is called in every frame, with *)
(* a finger on the panel or without, the engine has after each frame       *)
(* gathered the keys that are held, and no others.                         *)
THEOREM KeysDoNotLatch == Spec => []NoLatchedKeys
<1>1. Init => KeysInv
  BY DEF Init, Fresh, KeysInv
<1>2. KeysInv => NoLatchedKeys
  BY DEF KeysInv, BetweenFrames, NoLatchedKeys
<1> QED
  BY <1>1, <1>2, KeysStep, PTL DEF Spec

-----------------------------------------------------------------------------
(* Touches.                                                                *)

(* What the engine last heard is what main.c remembers. *)
TouchInv ==
  \/ contacts = <<>> /\ ~down
  \/ \E c : /\ contacts = <<c>> /\ c.count \in Nat
            /\ (c.count > 0 <=> down)
            /\ (down => c.first = last)

LEMMA TouchReports ==
  ASSUME UpdateTouch
  PROVE  \E d : /\ contacts' = <<d>> /\ d.count \in Nat
               /\ (d.count > 0 <=> down')
               /\ (down' => d.first = last')
               /\ (~down' /\ down => d.first = last)
<1>1. PICK ps \in SeqOf(Points, 2) :
        /\ down' = (ps # <<>>) /\ last' = LastPoint(ps)
        /\ TouchArrives(
             IF ps # <<>>
             THEN Contact(Len(ps), Norm(ps[1]), Norm(ps[Len(ps)]))
             ELSE IF down THEN Contact(0, last, last)
                  ELSE Contact(0, Origin, Origin))
  BY DEF UpdateTouch
<1>2. CASE ps # <<>>
  <2> DEFINE d == Contact(Len(ps), Norm(ps[1]), Norm(ps[Len(ps)]))
  <2>1. Len(ps) \in Nat /\ Len(ps) > 0
    BY <1>2 DEF SeqOf
  <2>2. d.count = Len(ps) /\ d.first = Norm(ps[1])
    BY DEF Contact
  <2>3. contacts' = <<d>> /\ down' /\ last' = Norm(ps[1])
    BY <1>1, <1>2 DEF TouchArrives, LastPoint
  <2> QED
    BY <2>1, <2>2, <2>3
<1>3. CASE ps = <<>>
  <2> DEFINE d == IF down THEN Contact(0, last, last)
                  ELSE Contact(0, Origin, Origin)
  <2>1. d.count = 0 /\ (down => d.first = last)
    BY DEF Contact
  <2>2. contacts' = <<d>> /\ ~down'
    BY <1>1, <1>3 DEF TouchArrives
  <2> HIDE DEF d
  <2>3. d.count \in Nat /\ ~(d.count > 0)
    BY <2>1
  <2> QED
    BY <2>1, <2>2, <2>3
<1> QED
  BY <1>2, <1>3

LEMMA TouchStep ==
  ASSUME TouchInv, [Next]_vars
  PROVE  /\ TouchInv'
         /\ [\A c \in ToSet(contacts), d \in ToSet(contacts') :
               c.count > 0 /\ d.count = 0 => d.first = c.first]_contacts
<1>1. CASE UpdateTouch
  <2>1. PICK d : /\ contacts' = <<d>> /\ d.count \in Nat
                 /\ (d.count > 0 <=> down')
                 /\ (down' => d.first = last')
                 /\ (~down' /\ down => d.first = last)
    BY <1>1, TouchReports
  <2>2. TouchInv'
    BY <2>1 DEF TouchInv
  <2>3. \A c \in ToSet(contacts) :
          c.count > 0 /\ d.count = 0 => d.first = c.first
    BY <2>1 DEF TouchInv, ToSet
  <2>4. \A e \in ToSet(contacts') : e = d
    BY <2>1 DEF ToSet
  <2> QED
    BY <2>2, <2>3, <2>4
<1>2. CASE Restart
  <2>1. contacts' = <<>> /\ ~down'
    BY <1>2 DEF Restart
  <2> QED
    BY <2>1 DEF TouchInv, ToSet
<1>3. CASE ~(UpdateTouch \/ Restart)
  <2>1. UNCHANGED <<contacts, down, last>>
    BY <1>3, NextCases, BootKeeps
       DEF UpdateKeys, Pace, Render, WriteZeros, LeaveLoop, Leave, vars, world,
           input, engine
  <2> QED
    BY <2>1 DEF TouchInv
<1> QED
  BY <1>1, <1>2, <1>3

(* Lines 208-233 of main.c: the engine hears of a release at the position  *)
(* of the last touch it heard of, whatever viewport came in between.       *)
THEOREM ReleasesMatch == Spec => ReleaseAtLastPress
<1>1. Init => TouchInv
  BY DEF Init, Fresh, TouchInv
<1> QED
  BY <1>1, TouchStep, PTL DEF Spec, ReleaseAtLastPress

-----------------------------------------------------------------------------
(* Pacing.                                                                 *)

LEMMA MaxOfTwo ==
  ASSUME NEW a \in Int, NEW b \in Int
  PROVE  Max({a, b}) = IF a >= b THEN a ELSE b
BY DEF Max

LEMMA MinOfTwo ==
  ASSUME NEW a \in Int, NEW b \in Int
  PROVE  Min({a, b}) = IF a <= b THEN a ELSE b
BY DEF Min

(* A rate that divides 60 has an interval that gives it exactly. *)
LEMMA IntervalFits ==
  ASSUME 60 % TargetFps = 0
  PROVE  Interval * TargetFps = 60
<1> DEFINE T == TargetFps
           q == 60 \div T
<1>1. T \in 1..120
  BY DEF TargetFps
<1> HIDE DEF T
<1>2. q \in Int /\ 60 = (T * q) + (60 % T)
  BY <1>1
<1> HIDE DEF q
<1>3. 60 = T * q
  BY <1>1, <1>2 DEF T
<1>4. q >= 1
  <2>1. CASE q <= 0
    <3>1. T * q <= 0
      BY <1>1, <1>2, <2>1
    <3> QED
      BY <1>3, <3>1
  <2> QED
    BY <1>2, <2>1
<1>5. Max({1, q}) = q
  BY <1>2, <1>4, MaxOfTwo
<1>6. Interval = q
  BY <1>5 DEF Interval, q, T
<1>7. q * T = 60
  BY <1>1, <1>2, <1>3
<1> QED
  BY <1>6, <1>7 DEF T

(* lastInterval is right from the moment egl_init has set it. *)
PaceInv ==
  /\ (phase \in Early => lastInterval = 1)
  /\ (phase \notin Early \cup {"fatal"} => eglInterval = lastInterval)
  /\ (phase = "render" => lastInterval = Interval)

LEMMA PaceStep == PaceInv /\ [Next]_vars => PaceInv'
<1> SUFFICES ASSUME PaceInv, [Next]_vars PROVE PaceInv'
  OBVIOUS
<1> USE DEF PaceInv, Early
<1>1. CASE BootStep
  BY <1>1, BootKeeps DEF Booting
<1>2. CASE UpdateKeys \/ UpdateTouch
  BY <1>2 DEF UpdateKeys, UpdateTouch, pacing
<1>3. CASE Pace
  BY <1>3 DEF Pace, Changes, Interval, TargetFps
<1>4. CASE Render
  BY <1>4 DEF Render
<1>5. CASE WriteZeros
  BY <1>5 DEF WriteZeros, pacing
<1>6. CASE LeaveLoop \/ Leave
  BY <1>6 DEF LeaveLoop, Leave, world, pacing
<1>7. CASE Restart
  BY <1>7 DEF Restart
<1>8. CASE UNCHANGED vars
  BY <1>8 DEF vars, pacing, Interval, TargetFps
<1> QED
  BY <1>1, <1>2, <1>3, <1>4, <1>5, <1>6, <1>7, <1>8, NextCases

(* Lines 399-413 of main.c: skipping the call while the interval has not   *)
(* changed never leaves the display at an interval the game has replaced.  *)
THEOREM RateFollows == Spec => []RateMatchesTarget
<1>1. Init => PaceInv
  BY DEF Init, Fresh, PaceInv, Early
<1>2. PaceInv => RateMatchesTarget
  BY IntervalFits DEF PaceInv, Early, RateMatchesTarget
<1> QED
  BY <1>1, <1>2, PaceStep, PTL DEF Spec

-----------------------------------------------------------------------------
(* Saves.                                                                  *)

Files == [len : 0..SaveSize, game : BOOLEAN]
SaveInv ==
  /\ save \in Files \cup {NoFile} /\ interrupted \in BOOLEAN
  /\ (phase = "saving" =>
         /\ save \in Files /\ written \in 0..SaveSize
         /\ save.len <= written
         /\ (~interrupted => save.len = written))
  /\ (phase # "saving" /\ save # NoFile /\ ~interrupted => save.len = SaveSize)

LEMMA FilesAreFiles == NoFile \notin Files
BY MainAssumption DEF Files

LEMMA ChunkFits ==
  ASSUME written \in 0..SaveSize, written < SaveSize
  PROVE  Chunk \in Nat /\ written + Chunk <= SaveSize
<1>1. SaveSize - written \in Int /\ Zeros \in Int /\ SaveSize \in Int
  BY MainAssumption
<1>2. Chunk = IF SaveSize - written <= Zeros THEN SaveSize - written ELSE Zeros
  BY <1>1, MinOfTwo DEF Chunk
<1> QED
  BY <1>1, <1>2, MainAssumption

LEMMA SaveStep ==
  ASSUME SaveInv, [Next]_vars
  PROVE  /\ SaveInv'
         /\ "save.bin" \notin FailingOpens =>
              [save # NoFile /\ save.game => save' # NoFile /\ save'.game]_save
<1>1. CASE UNCHANGED <<save, interrupted>> /\ phase # "saving" /\ phase' # "saving"
  BY <1>1 DEF SaveInv
<1>2. CASE UNCHANGED vars
  BY <1>2 DEF SaveInv, vars, saving
<1>3. CASE Render
  <2>1. CASE UNCHANGED saving /\ phase' = "keys"
    BY <1>3, <2>1, <1>1 DEF Render, saving
  <2>2. CASE /\ phase' = "keys" /\ save # NoFile
             /\ save' = [save EXCEPT !.game = TRUE]
             /\ UNCHANGED <<written, interrupted>>
    <3>1. save' \in Files /\ save'.len = save.len /\ save'.game
      BY <2>2 DEF SaveInv, Files
    <3> QED
      BY <1>3, <2>2, <3>1, FilesAreFiles DEF Render, SaveInv
  <2>3. CASE /\ ~KeepsSave \/ "save.bin" \in FailingOpens
             /\ phase' = "saving"
             /\ save' = [len |-> 0, game |-> FALSE]
             /\ written' = 0 /\ interrupted' = FALSE
    <3>1. save' \in Files /\ 0 \in 0..SaveSize /\ save'.len = 0
      BY <2>3, MainAssumption DEF Files
    <3>2. "save.bin" \notin FailingOpens => save = NoFile
      BY <2>3 DEF KeepsSave
    <3>3. interrupted' \in BOOLEAN
      BY <2>3, Zenon
    <3>4. written' \in 0..SaveSize /\ save'.len = written' /\ phase' = "saving"
      BY <2>3, <3>1
    <3>5. SaveInv'
      BY <3>1, <3>3, <3>4 DEF SaveInv
    <3> QED
      BY <3>2, <3>5
  <2> QED
    BY <1>3, <2>1, <2>2, <2>3 DEF Render
<1>4. CASE WriteZeros
  <2>1. save \in Files /\ written \in 0..SaveSize /\ SaveSize \in Nat
    BY <1>4, MainAssumption DEF WriteZeros, SaveInv
  <2>2. CASE written >= SaveSize
    <3>1. phase' = "keys" /\ UNCHANGED saving /\ written = SaveSize
      BY <1>4, <2>1, <2>2 DEF WriteZeros
    <3> QED
      BY <1>4, <3>1 DEF WriteZeros, SaveInv, saving
  <2>3. CASE ~(written >= SaveSize)
    <3>1. Chunk \in Nat /\ written + Chunk <= SaveSize
      BY <2>1, <2>3, ChunkFits
    <3>2. PICK n \in 0..Chunk :
            /\ save' = [save EXCEPT !.len = @ + n]
            /\ interrupted' = (interrupted \/ n < Chunk)
      BY <1>4, <2>3 DEF WriteZeros
    <3>3. written' = written + Chunk /\ phase' = "saving" /\ phase = "saving"
      BY <1>4, <2>3 DEF WriteZeros
    <3>4. save.len <= written /\ (~interrupted => save.len = written)
      BY <3>3 DEF SaveInv
    <3>5. /\ save' = [len |-> save.len + n, game |-> save.game]
          /\ save.len \in 0..SaveSize /\ save.game \in BOOLEAN
      BY <2>1, <3>2 DEF Files
    <3> HIDE DEF Chunk
    <3>6. save.len + n <= written + Chunk /\ save.len + n \in 0..SaveSize
      BY <2>1, <3>1, <3>4, <3>5
    <3>7. save' \in Files /\ save'.len = save.len + n /\ save'.game = save.game
      BY <3>5, <3>6 DEF Files
    <3>8. ~interrupted' => save.len + n = written + Chunk
      <4>1. ~interrupted' => ~interrupted /\ ~(n < Chunk)
        BY <3>2, Zenon
      <4> QED
        BY <3>1, <3>4, <4>1
    <3>9. interrupted' \in BOOLEAN /\ written' \in 0..SaveSize
      BY <2>1, <3>1, <3>2, <3>3 DEF SaveInv
    <3> QED
      BY <3>3, <3>6, <3>7, <3>8, <3>9, FilesAreFiles DEF SaveInv
  <2> QED
    BY <2>2, <2>3
<1>5. CASE Restart
  <2>1. /\ UNCHANGED save /\ phase' = "config"
        /\ interrupted' = (interrupted \/ phase = "saving")
    BY <1>5 DEF Restart
  <2> QED
    BY <2>1 DEF SaveInv
<1>6. CASE BootStep
  BY <1>1, <1>6, BootKeeps DEF saving, Early, Booting
<1>7. CASE UpdateKeys \/ UpdateTouch \/ Pace \/ LeaveLoop \/ Leave
  BY <1>1, <1>7 DEF UpdateKeys, UpdateTouch, Pace, LeaveLoop, Leave, world, saving
<1> QED
  BY <1>2, <1>3, <1>4, <1>5, <1>6, <1>7, NextCases

(* Lines 409-424 of jni_fake.c: if an existing save.bin can always be      *)
(* opened for reading, ensure_save_file never takes back what the game     *)
(* stored, and only a restart or a failed write leaves a short file.       *)
THEOREM SavesAreKept ==
  ASSUME "save.bin" \notin FailingOpens
  PROVE  Spec => SavesKept
<1>1. Init => SaveInv
  BY DEF Init, Fresh, SaveInv
<1>2. SaveInv => (phase # "saving" /\ save # NoFile /\ ~interrupted => save.len = SaveSize)
  BY DEF SaveInv
<1>3. SaveInv /\ [Next]_vars =>
        SaveInv' /\ [save # NoFile /\ save.game => save' # NoFile /\ save'.game]_save
  BY SaveStep
<1> QED
  BY <1>1, <1>2, <1>3, PTL DEF Spec, SavesKept

-----------------------------------------------------------------------------
(* How far the boot has come.                                              *)

PastFlush == {"guard", "construct", "freeTemp", "obb", "viewport", "resume",
              "exited"} \cup Loop
PastProtect == {"flush"} \cup PastFlush
PastEntries == {"map", "protect"} \cup PastProtect
PastResolve == {"entries"} \cup PastEntries
PastRelocate == {"resolve"} \cup PastResolve
PastLoad == {"relocate"} \cup PastRelocate

(* Module i has been through step p, which is done once past is reached. *)
Through(past, p, i) == phase \in past \/ (phase = p /\ i < cur)
Loaded(i) == Through(PastLoad, "load", i)
HasRelocated(i) == Through(PastRelocate, "relocate", i)
HasResolved(i) == Through(PastResolve, "resolve", i)
HasFlushed(i) == Through(PastFlush, "flush", i)

ModuleSteps == {"load", "relocate", "resolve", "flush", "construct", "freeTemp"}
LoaderStep ==
  Load \/ Relocate \/ ResolveImports \/ ResolveEntryPoints \/ Map \/ Protect
  \/ Flush \/ Construct \/ FreeTemp

PlaceInv ==
  /\ prog \in Programs /\ cur \in Mods /\ heap \in HeapSizes
  /\ phase \in Early \cup Booting \cup Loop \cup {"exited", "fatal"}
  /\ (phase \in Early => cur = 1)
  /\ DOMAIN mem = Mods /\ DOMAIN perm = Mods

LEMMA DoneForModuleGoes ==
  ASSUME prog \in Programs, cur \in Mods, phase \in ModuleSteps, DoneForModule
  PROVE  /\ \/ cur < Len(prog) /\ phase' = phase /\ cur' = cur + 1
            \/ cur = Len(prog) /\ phase' = NextPhase(phase) /\ cur' = 1
         /\ cur' \in Mods
         /\ \A i \in Mods : i < cur + 1 <=> (i < cur \/ i = cur)
         /\ \A i \in Mods : ~(i < 1) /\ (cur = Len(prog) => (i < cur \/ i = cur))
<1>1. Len(prog) \in Nat \ {0} /\ Mods = 1..Len(prog)
  BY ImageFacts
<1> QED
  BY <1>1 DEF DoneForModule, Done

(* A step made for module cur brings that module further, and no other. *)
LEMMA Progress ==
  ASSUME prog \in Programs, cur \in Mods, phase \in ModuleSteps, DoneForModule,
         NEW i \in Mods
  PROVE  /\ phase' \in PastLoad \cup {"load"} /\ phase' \notin Early \cup {"fatal"}
         /\ Loaded(i)' <=> (Loaded(i) \/ (phase = "load" /\ i = cur))
         /\ HasRelocated(i)' <=> (HasRelocated(i) \/ (phase = "relocate" /\ i = cur))
         /\ HasResolved(i)' <=> (HasResolved(i) \/ (phase = "resolve" /\ i = cur))
         /\ HasFlushed(i)' <=> (HasFlushed(i) \/ (phase = "flush" /\ i = cur))
         /\ phase \in PastProtect => phase' \in PastProtect
         /\ phase \notin PastProtect => phase' \notin PastEntries
<1> USE DEF Loaded, HasRelocated, HasResolved, HasFlushed, Through, PastLoad,
    PastRelocate, PastResolve, PastEntries, PastProtect, PastFlush, Loop,
    Early, ModuleSteps
<1>1. CASE cur < Len(prog) /\ phase' = phase /\ cur' = cur + 1
  BY <1>1, DoneForModuleGoes
<1>2. CASE cur = Len(prog) /\ phase' = NextPhase(phase) /\ cur' = 1
  BY <1>2, DoneForModuleGoes, NextPhases
<1> QED
  BY <1>1, <1>2, DoneForModuleGoes

(* Every other step but a restart leaves the loader and all modules where  *)
(* they are.                                                               *)
LEMMA QuietStep ==
  ASSUME PlaceInv, [Next]_vars, ~LoaderStep, ~Restart
  PROVE  /\ UNCHANGED loader /\ cur' \in Mods
         /\ \/ phase' = "fatal"
            \/ phase \in Early /\ phase' \in Early \cup {"load"} /\ cur' = cur
            \/ phase \in PastFlush /\ phase' \in PastFlush
            \/ UNCHANGED <<phase, cur>>
<1> USE DEF PlaceInv, Early, PastFlush, Loop
<1>1. CASE ReadConfig \/ WriteConfig \/ SetScreenSize \/ EglInit
  BY <1>1 DEF ReadConfig, WriteConfig, SetScreenSize, EglInit
<1>2. CASE TlsSetupGuard \/ ObbOpen \/ ComputeViewport \/ Resume
  <2>1. 1 \in Mods
    BY ImageFacts
  <2> QED
    BY <1>2, <2>1, NextPhases
       DEF TlsSetupGuard, ObbOpen, ComputeViewport, Resume, Done, Fatal
<1>3. CASE LeaveLoop \/ UpdateKeys \/ UpdateTouch \/ Pace \/ Render \/ WriteZeros \/ Leave
  BY <1>3 DEF LeaveLoop, UpdateKeys, UpdateTouch, Pace, Render, WriteZeros, Leave
<1>4. CASE UNCHANGED vars
  BY <1>4 DEF vars
<1> QED
  BY <1>1, <1>2, <1>3, <1>4, NextCases DEF BootStep, LoaderStep

LEMMA QuietPlace ==
  ASSUME PlaceInv, [Next]_vars, ~LoaderStep, ~Restart, phase' # "fatal",
         NEW i \in Mods
  PROVE  /\ phase # "fatal"
         /\ Loaded(i)' <=> Loaded(i)
         /\ HasRelocated(i)' <=> HasRelocated(i)
         /\ HasResolved(i)' <=> HasResolved(i)
         /\ HasFlushed(i)' <=> HasFlushed(i)
         /\ phase' \in PastProtect <=> phase \in PastProtect
<1> USE DEF Loaded, HasRelocated, HasResolved, HasFlushed, Through, PastLoad,
    PastRelocate, PastResolve, PastEntries, PastProtect, PastFlush, Loop, Early
<1>1. ~(i < 1)
  BY ImageFacts DEF PlaceInv
<1> QED
  BY <1>1, QuietStep DEF PlaceInv

-----------------------------------------------------------------------------
(* Images.                                                                 *)

LEMMA SameImages ==
  ASSUME UNCHANGED prog, NEW i \in Mods
  PROVE  /\ LoadSize(prog[i])' = LoadSize(prog[i])
         /\ Copied(prog[i])' = Copied(prog[i])
         /\ RelocatedImage(i)' = RelocatedImage(i)
         /\ FinishedImage(i)' = FinishedImage(i)
<1>1. LoadSize(prog[i])' = LoadSize(prog[i])
  BY DEF LoadSize, AlignUp
<1>2. Copied(prog[i])' = Copied(prog[i])
  BY DEF Copied, LoadSize, AlignUp, Number
<1>3. RelocatedImage(i)' = RelocatedImage(i)
  BY <1>2 DEF RelocatedImage, ProcessRelr, ProcessRela, RelrEntry, Relocated, Rebased, Address, Sym, Number, RelrStep, FoldLeft, MapThenFoldSet
<1>4. FinishedImage(i)' = FinishedImage(i)
  BY <1>2 DEF FinishedImage, FinishedWord, ImportTarget, Sym, Address, Number, Definers, Definitions, Mods, Copied, LoadSize, AlignUp, RelrLocations, EntryLocations
<1> QED
  BY <1>1, <1>2, <1>3, <1>4

LEMMA PlaceStep ==
  ASSUME PlaceInv, [Next]_vars
  PROVE  PlaceInv' /\ UNCHANGED <<prog, heap>>
<1>1. UNCHANGED <<prog, heap>>
  BY NextCases DEF BootStep, ReadConfig, WriteConfig, SetScreenSize, EglInit,
     Load, Relocate, ResolveImports, ResolveEntryPoints, Map, Protect, Flush,
     TlsSetupGuard, Construct, FreeTemp, ObbOpen, ComputeViewport, Resume,
     SoLoad, SoLoadFails, SoRelocate, SoRelocateFatal, SoResolve, MapCode,
     SetPermission, SoFlushCaches, SoExecuteInitArray, SoFreeTemp, LeaveLoop,
     UpdateKeys, UpdateTouch, Pace, Render, WriteZeros, Leave, Restart, world,
     platform, loader, vars
<1>2. Mods' = Mods /\ 1 \in Mods /\ Len(prog) \in Mods
  BY <1>1, ImageFacts DEF PlaceInv, Mods
<1>3. prog' \in Programs /\ heap' \in HeapSizes
  BY <1>1 DEF PlaceInv
<1> SUFFICES PlaceInv'
  BY <1>1
<1>4. CASE Restart
  BY <1>2, <1>3, <1>4 DEF PlaceInv, Restart, Early
<1>5. CASE LoaderStep
  <2>1. DOMAIN mem' = DOMAIN mem /\ DOMAIN perm' = DOMAIN perm
    BY <1>5 DEF LoaderStep, Load, Relocate, ResolveImports, ResolveEntryPoints,
       Map, Protect, Flush, Construct, FreeTemp, SoLoad, SoLoadFails, SoRelocate,
       SoRelocateFatal, SoResolve, MapCode, SetPermission, SoFlushCaches,
       SoExecuteInitArray, SoFreeTemp, loader
  <2>2. CASE phase \in ModuleSteps /\ DoneForModule
    <3>1. cur' \in Mods /\ phase' \in {phase, NextPhase(phase)}
      BY <2>2, DoneForModuleGoes DEF PlaceInv
    <3>2. phase' \in Booting
      BY <2>2, <3>1, NextPhases DEF ModuleSteps, Booting
    <3> QED
      BY <1>2, <1>3, <2>1, <3>1, <3>2 DEF PlaceInv, Booting, Early
  <2>3. CASE Fatal
    BY <1>2, <1>3, <2>1, <2>3 DEF PlaceInv, Fatal, Early
  <2>4. CASE phase = "entries" /\ Done
    BY <1>2, <1>3, <2>1, <2>4, NextPhases DEF PlaceInv, Done, Early, Booting
  <2>5. CASE phase = "map" /\ phase' = NextPhase(phase) /\ UNCHANGED cur
    BY <1>2, <1>3, <2>1, <2>5, NextPhases DEF PlaceInv, Early, Booting
  <2>6. CASE phase = "protect" /\ UNCHANGED <<phase, cur>>
    BY <1>2, <1>3, <2>1, <2>6 DEF PlaceInv
  <2>7. CASE phase = "protect" /\ cur < Len(prog) /\ phase' = "map" /\ cur' = cur + 1
    <3>1. cur + 1 \in Mods
      BY <2>7, ImageFacts DEF PlaceInv
    <3> QED
      BY <1>2, <1>3, <2>1, <2>7, <3>1 DEF PlaceInv, Early, Booting
  <2>8. CASE phase = "protect" /\ Done
    BY <1>2, <1>3, <2>1, <2>8, NextPhases DEF PlaceInv, Done, Early, Booting
  <2> QED
    BY <1>5, <2>2, <2>3, <2>4, <2>5, <2>6, <2>7, <2>8
       DEF LoaderStep, Load, Relocate, ResolveImports, ResolveEntryPoints, Map,
           Protect, Flush, Construct, FreeTemp, ModuleSteps
<1>6. CASE ~LoaderStep /\ ~Restart
  <2>1. UNCHANGED <<mem, perm>>
    BY <1>6, QuietStep DEF loader
  <2>2. phase' \in Early => phase \in Early /\ cur' = cur
    BY <1>6, QuietStep DEF Early, PastFlush, Loop, PlaceInv
  <2>3. phase' \in Early \cup Booting \cup Loop \cup {"exited", "fatal"}
    BY <1>6, QuietStep DEF PlaceInv, Early, Booting, PastFlush
  <2> QED
    BY <1>2, <1>3, <1>6, <2>1, <2>2, <2>3, QuietStep DEF PlaceInv
<1> QED
  BY <1>1, <1>4, <1>5, <1>6

TypesKnown(i) ==
  \A k \in DOMAIN prog[i].rela : prog[i].rela[k].type \in KnownTypes

(* What is in module i's memory, and how many modules are registered. *)
ImageDue(i) ==
  IF HasResolved(i) THEN FinishedImage(i)
  ELSE IF HasRelocated(i) THEN RelocatedImage(i)
  ELSE IF Loaded(i) THEN Copied(prog[i]) ELSE <<>>
ListDue ==
  IF phase \in PastLoad THEN Len(prog) ELSE IF phase = "load" THEN cur - 1 ELSE 0

ImagesInv ==
  phase # "fatal" =>
    /\ soList = [k \in 1..ListDue |-> k]
    /\ \A i \in Mods : /\ mem[i] = ImageDue(i)
                       /\ HasRelocated(i) => TypesKnown(i)

LEMMA ImagesQuiet ==
  ASSUME PlaceInv, ImagesInv, [Next]_vars, ~LoaderStep, ~Restart
  PROVE  ImagesInv'
<1>1. SUFFICES ASSUME phase' # "fatal" PROVE ImagesInv'
  BY DEF ImagesInv
<1>2. UNCHANGED loader /\ phase # "fatal"
  BY <1>1, QuietStep, QuietPlace, ImageFacts DEF PlaceInv
<1>3. UNCHANGED <<prog, soList, mem>>
  BY <1>2 DEF loader
<1>4. Mods' = Mods /\ \A i \in Mods : TypesKnown(i)' = TypesKnown(i)
  BY <1>3 DEF Mods, TypesKnown
<1>5. \A i \in Mods : /\ ImageDue(i)' = ImageDue(i)
                      /\ HasRelocated(i)' <=> HasRelocated(i)
  BY <1>1, <1>3, SameImages, QuietPlace DEF ImageDue
<1>6. ListDue' = ListDue
  <2>1. phase \in Early => cur = 1
    BY DEF PlaceInv
  <2> QED
    BY <1>1, <1>3, <2>1, QuietStep DEF ListDue, Early, PastLoad, PastRelocate,
       PastResolve, PastEntries, PastProtect, PastFlush, Loop
<1> QED
  BY <1>2, <1>3, <1>4, <1>5, <1>6 DEF ImagesInv

(* A step of so_load, so_relocate or so_resolve brings module cur to its   *)
(* next image and leaves the others alone.                                 *)
LEMMA ImageAdvances ==
  ASSUME PlaceInv, ImagesInv, phase \in ModuleSteps, DoneForModule,
         UNCHANGED prog, DOMAIN mem' = Mods,
         \A j \in Mods \ {cur} : mem'[j] = mem[j],
         phase \notin {"load", "relocate", "resolve"} => mem'[cur] = mem[cur],
         phase = "load" => mem'[cur] = Copied(prog[cur]),
         phase = "relocate" => mem'[cur] = RelocatedImage(cur) /\ TypesKnown(cur),
         phase = "resolve" => mem'[cur] = FinishedImage(cur),
         soList' = IF phase = "load" THEN Append(soList, cur) ELSE soList
  PROVE  ImagesInv'
<1>1. phase # "fatal" /\ prog \in Programs /\ cur \in Mods
  BY DEF PlaceInv, ModuleSteps
<1>2. Mods' = Mods /\ \A i \in Mods : TypesKnown(i)' = TypesKnown(i)
  BY DEF Mods, TypesKnown
<1>3. ASSUME NEW i \in Mods
      PROVE  mem'[i] = ImageDue(i)' /\ (HasRelocated(i)' => TypesKnown(i))
  <2>1. mem[i] = ImageDue(i) /\ (HasRelocated(i) => TypesKnown(i))
    BY <1>1 DEF ImagesInv
  <2>2. /\ Loaded(i)' <=> (Loaded(i) \/ (phase = "load" /\ i = cur))
        /\ HasRelocated(i)' <=> (HasRelocated(i) \/ (phase = "relocate" /\ i = cur))
        /\ HasResolved(i)' <=> (HasResolved(i) \/ (phase = "resolve" /\ i = cur))
    BY <1>1, Progress
  <2>3. /\ Copied(prog[i])' = Copied(prog[i])
        /\ RelocatedImage(i)' = RelocatedImage(i)
        /\ FinishedImage(i)' = FinishedImage(i)
    BY SameImages
  <2>4. ImageDue(i)' = IF HasResolved(i)' THEN FinishedImage(i)
                       ELSE IF HasRelocated(i)' THEN RelocatedImage(i)
                       ELSE IF Loaded(i)' THEN Copied(prog[i]) ELSE <<>>
    BY <2>3 DEF ImageDue
  <2>5. /\ phase \in {"load", "relocate"} => ~HasResolved(i)
        /\ phase = "load" => ~HasRelocated(i)
    BY DEF HasResolved, HasRelocated, Through, PastRelocate, PastResolve,
       PastEntries, PastProtect, PastFlush, Loop
  <2>6. i = cur \/ mem'[i] = mem[i]
    OBVIOUS
  <2> HIDE DEF ModuleSteps
  <2> QED
    BY <2>1, <2>2, <2>4, <2>5, <2>6 DEF ImageDue
<1>4. soList' = [k \in 1..ListDue' |-> k]
  <2>1. soList = [k \in 1..ListDue |-> k]
    BY <1>1 DEF ImagesInv
  <2>2. Len(prog) \in Nat \ {0} /\ Mods = 1..Len(prog)
    BY <1>1, ImageFacts
  <2>3. \/ cur < Len(prog) /\ phase' = phase /\ cur' = cur + 1
        \/ cur = Len(prog) /\ phase' = NextPhase(phase) /\ cur' = 1
    BY <1>1, DoneForModuleGoes
  <2>4. CASE phase = "load"
    <3>1. ListDue = cur - 1 /\ ListDue' = cur
      BY <1>1, <2>2, <2>3, <2>4, NextPhases DEF ListDue, PastLoad, PastRelocate,
         PastResolve, PastEntries, PastProtect, PastFlush, Loop
    <3>2. Append([k \in 1..(cur - 1) |-> k], cur) = [k \in 1..cur |-> k]
      BY <1>1, <2>2
    <3> QED
      BY <2>1, <2>4, <3>1, <3>2
  <2>5. CASE phase # "load"
    <3>1. phase \in PastLoad /\ phase' \in PastLoad
      BY <2>3, <2>5, NextPhases DEF ModuleSteps, PastLoad, PastRelocate,
         PastResolve, PastEntries, PastProtect, PastFlush, Loop
    <3> QED
      BY <2>1, <2>5, <3>1 DEF ListDue
  <2> QED
    BY <2>4, <2>5
<1> QED
  BY <1>2, <1>3, <1>4 DEF ImagesInv

LEMMA RegisteredInOrder ==
  ASSUME ImagesInv, phase \in PastLoad
  PROVE  InLoadOrder
BY DEF ImagesInv, ListDue, InLoadOrder, PastLoad, PastRelocate, PastResolve,
   PastEntries, PastProtect, PastFlush, Loop

(* From "entries" to "flush" the images are finished. *)
LEMMA ImagesKept ==
  ASSUME PlaceInv, ImagesInv, phase \in {"entries", "map", "protect"},
         phase' \in {"map", "protect", "flush"}, UNCHANGED <<prog, mem, soList>>
  PROVE  ImagesInv'
<1> USE DEF PastLoad, PastRelocate, PastResolve, PastEntries, PastProtect
<1>1. Mods' = Mods /\ \A i \in Mods : TypesKnown(i)' = TypesKnown(i)
  BY DEF Mods, TypesKnown
<1>2. \A i \in Mods : /\ HasResolved(i) /\ HasRelocated(i)
                      /\ HasResolved(i)' /\ HasRelocated(i)'
  BY DEF HasResolved, HasRelocated, Through
<1>3. \A i \in Mods : ImageDue(i)' = ImageDue(i)
  BY <1>2, SameImages DEF ImageDue
<1>4. ListDue' = ListDue
  BY DEF ListDue
<1> QED
  BY <1>1, <1>2, <1>3, <1>4 DEF ImagesInv

(* What so_relocate and so_resolve find. *)
LEMMA CurrentImage ==
  ASSUME PlaceInv, ImagesInv
  PROVE  /\ phase = "relocate" => mem[cur] = Copied(prog[cur])
         /\ phase = "resolve" => mem[cur] = RelocatedImage(cur) /\ TypesKnown(cur)
<1>1. cur \in Mods /\ ~(cur < cur)
  BY ImageFacts DEF PlaceInv
<1> QED
  BY <1>1 DEF ImagesInv, ImageDue, HasResolved, HasRelocated, Loaded, Through,
     PastLoad, PastRelocate, PastResolve, PastEntries, PastProtect, PastFlush, Loop

LEMMA ImagesStep ==
  ASSUME PlaceInv, ImagesInv, [Next]_vars
  PROVE  ImagesInv'
<1>1. SUFFICES ASSUME phase' # "fatal" PROVE ImagesInv'
  BY DEF ImagesInv
<1>2. prog \in Programs /\ cur \in Mods /\ DOMAIN mem = Mods
  BY DEF PlaceInv
<1>3. CASE ~LoaderStep /\ ~Restart
  BY <1>3, ImagesQuiet
<1>4. CASE Restart
  <2>1. /\ phase' = "config" /\ soList' = <<>> /\ mem' = [i \in Mods |-> <<>>]
        /\ UNCHANGED prog
    BY <1>4 DEF Restart
  <2>2. Mods' = Mods /\ \A i \in Mods : mem'[i] = <<>>
    BY <2>1 DEF Mods
  <2>3. ListDue' = 0 /\ [k \in 1..0 |-> k] = <<>>
    BY <2>1 DEF ListDue, PastLoad, PastRelocate, PastResolve, PastEntries,
       PastProtect, PastFlush, Loop
  <2>4. \A i \in Mods : ImageDue(i)' = <<>> /\ ~HasRelocated(i)'
    BY <2>1 DEF ImageDue, HasResolved, HasRelocated, Loaded, Through, PastLoad,
       PastRelocate, PastResolve, PastEntries, PastProtect, PastFlush, Loop
  <2> QED
    BY <2>1, <2>2, <2>3, <2>4 DEF ImagesInv
<1>5. CASE Load
  <2>1. phase = "load" /\ SoLoad(cur, HeapSoLimit) /\ DoneForModule
    BY <1>1, <1>5 DEF Load, Fatal
  <2>2. /\ UNCHANGED prog /\ mem' = [mem EXCEPT ![cur] = Copied(prog[cur])]
        /\ soList' = Append(soList, cur)
    BY <2>1 DEF SoLoad
  <2>3. /\ DOMAIN mem' = Mods /\ \A j \in Mods \ {cur} : mem'[j] = mem[j]
        /\ mem'[cur] = Copied(prog[cur])
    BY <1>2, <2>2
  <2> QED
    BY <2>1, <2>2, <2>3, ImageAdvances DEF ModuleSteps
<1>6. CASE Relocate
  <2>1. phase = "relocate" /\ SoRelocate(cur) /\ DoneForModule
    BY <1>1, <1>6 DEF Relocate, Fatal
  <2>2. mem[cur] = Copied(prog[cur])
    BY <2>1, CurrentImage
  <2>3. /\ UNCHANGED <<prog, soList>> /\ TypesKnown(cur)
        /\ mem' = [mem EXCEPT ![cur] = RelocatedImage(cur)]
    BY <2>1, <2>2 DEF SoRelocate, TypesKnown, RelocatedImage
  <2>4. /\ DOMAIN mem' = Mods /\ \A j \in Mods \ {cur} : mem'[j] = mem[j]
        /\ mem'[cur] = RelocatedImage(cur)
    BY <1>2, <2>3
  <2> QED
    BY <2>1, <2>3, <2>4, ImageAdvances DEF ModuleSteps
<1>7. CASE ResolveImports
  <2>1. phase = "resolve" /\ SoResolve(cur) /\ DoneForModule
    BY <1>7 DEF ResolveImports
  <2>2. mem[cur] = RelocatedImage(cur) /\ TypesKnown(cur)
    BY <2>1, CurrentImage
  <2>3. InLoadOrder
    BY <2>1, RegisteredInOrder DEF PastLoad, PastRelocate
  <2>4. BindImports(cur, mem[cur]) = FinishedImage(cur)
    BY <1>2, <2>2, <2>3, ImageFinished DEF TypesKnown
  <2>5. /\ UNCHANGED <<prog, soList>>
        /\ mem' = [mem EXCEPT ![cur] = FinishedImage(cur)]
    BY <2>1, <2>4 DEF SoResolve
  <2>6. /\ DOMAIN mem' = Mods /\ \A j \in Mods \ {cur} : mem'[j] = mem[j]
        /\ mem'[cur] = FinishedImage(cur)
    BY <1>2, <2>5
  <2> QED
    BY <2>1, <2>5, <2>6, ImageAdvances DEF ModuleSteps
<1>8. CASE Flush \/ Construct \/ FreeTemp
  <2>1. /\ phase \in {"flush", "construct", "freeTemp"} /\ DoneForModule
        /\ UNCHANGED <<prog, mem, soList>>
    BY <1>8 DEF Flush, Construct, FreeTemp, SoFlushCaches, SoExecuteInitArray,
       SoFreeTemp
  <2> QED
    BY <1>2, <2>1, ImageAdvances DEF ModuleSteps
<1>9. CASE ResolveEntryPoints \/ Map \/ Protect
  <2>1. UNCHANGED <<prog, mem, soList>>
    BY <1>9 DEF ResolveEntryPoints, Map, Protect, MapCode, SetPermission, loader
  <2>2. phase \in {"entries", "map", "protect"} /\ phase' \in {"map", "protect", "flush"}
    BY <1>1, <1>9, NextPhases DEF ResolveEntryPoints, Map, Protect, Done, Fatal
  <2> QED
    BY <2>1, <2>2, ImagesKept
<1> QED
  BY <1>3, <1>4, <1>5, <1>6, <1>7, <1>8, <1>9 DEF LoaderStep

-----------------------------------------------------------------------------
(* Permissions.                                                            *)

(* Pages are set module after module, in two phases that alternate. *)
HasProtected(i) == phase \in PastProtect \/ (phase \in {"map", "protect"} /\ i < cur)
PermDue(i) ==
  IF HasProtected(i) THEN Protected(i)
  ELSE IF phase = "protect" /\ i = cur THEN HalfProtected(i)
  ELSE perm[i] = <<>>
PermInv == phase # "fatal" => \A i \in Mods : PermDue(i)

LEMMA SamePages ==
  ASSUME UNCHANGED prog, NEW i \in Mods
  PROVE  /\ Pages(i)' = Pages(i) /\ XPages(i)' = XPages(i)
         /\ UNCHANGED perm[i] =>
              /\ Protected(i)' <=> Protected(i)
              /\ HalfProtected(i)' <=> HalfProtected(i)
<1>1. Pages(i)' = Pages(i) /\ XPages(i)' = XPages(i)
  BY DEF Pages, XPages, LoadSize, AlignUp
<1>2. \A pg : PageType(i, pg)' = PageType(i, pg)
  BY <1>1 DEF PageType
<1>3. ASSUME UNCHANGED perm[i] PROVE Protected(i)' <=> Protected(i)
  BY <1>1, <1>2, <1>3 DEF Protected
<1>4. ASSUME UNCHANGED perm[i] PROVE HalfProtected(i)' <=> HalfProtected(i)
  BY <1>1, <1>2, <1>4 DEF HalfProtected, Right, InTurn
<1> QED
  BY <1>1, <1>3, <1>4

(* A page that is set stays so: what PermissionOnce says of a step. *)
PermStep ==
  \A i \in Mods : perm[i] # <<>> /\ perm'[i] # <<>> =>
    \A pg \in Pages(i) : perm'[i][pg] # perm[i][pg] => perm[i][pg] = "fresh"

LEMMA PermKept ==
  ASSUME UNCHANGED perm
  PROVE  PermStep
BY DEF PermStep

LEMMA PermStepHolds ==
  ASSUME PlaceInv, PermInv, [Next]_vars
  PROVE  PermInv' /\ PermStep
<1> USE DEF PastLoad, PastRelocate, PastResolve, PastEntries, PastProtect,
    PastFlush, Loop
<1>1. /\ prog \in Programs /\ cur \in Mods /\ DOMAIN perm = Mods
      /\ Mods = 1..Len(prog) /\ Len(prog) \in Nat \ {0}
  BY ImageFacts DEF PlaceInv
<1>2. UNCHANGED prog /\ Mods' = Mods
  BY PlaceStep DEF Mods
<1>3. CASE ~LoaderStep /\ ~Restart
  <2>1. UNCHANGED perm
    BY <1>3, QuietStep DEF loader
  <2>2. ASSUME phase' # "fatal", NEW i \in Mods PROVE PermDue(i)'
    <3>1. phase # "fatal" /\ (phase' \in PastProtect <=> phase \in PastProtect)
      BY <1>3, <2>2, QuietPlace
    <3>2. \/ phase \in Early /\ phase' \in Early \cup {"load"}
          \/ phase \in PastFlush /\ phase' \in PastFlush
          \/ UNCHANGED <<phase, cur>>
      BY <1>3, <2>2, QuietStep
    <3>3. /\ HasProtected(i)' <=> HasProtected(i)
          /\ (phase = "protect" /\ i = cur)' <=> (phase = "protect" /\ i = cur)
      BY <3>1, <3>2 DEF HasProtected, Early
    <3>4. PermDue(i)
      BY <2>2, <3>1 DEF PermInv
    <3> QED
      BY <1>2, <2>1, <3>3, <3>4, SamePages DEF PermDue
  <2> QED
    BY <1>2, <2>1, <2>2, PermKept DEF PermInv
<1>4. CASE Restart
  <2>1. phase' = "config" /\ \A i \in Mods : perm'[i] = <<>>
    BY <1>4 DEF Restart
  <2>2. \A i \in Mods : PermDue(i)'
    BY <2>1 DEF PermDue, HasProtected
  <2> QED
    BY <1>2, <2>1, <2>2 DEF PermInv, PermStep
<1>5. CASE Load \/ Relocate \/ ResolveImports \/ ResolveEntryPoints
  <2>1. /\ UNCHANGED perm
        /\ phase \in {"load", "relocate", "resolve", "entries"}
        /\ \/ phase' \in {"fatal", "load", "relocate", "resolve", "entries"}
           \/ phase' = "map" /\ cur' = 1
    BY <1>5, NextPhases DEF Load, Relocate, ResolveImports, ResolveEntryPoints,
       SoLoad, SoLoadFails, SoRelocate, SoRelocateFatal, SoResolve, loader,
       DoneForModule, Done, Fatal
  <2>2. ASSUME phase' # "fatal", NEW i \in Mods PROVE PermDue(i)'
    <3>1. perm[i] = <<>>
      BY <2>1 DEF PermInv, PermDue, HasProtected
    <3>2. ~HasProtected(i)' /\ phase' # "protect"
      BY <1>1, <2>1, <2>2 DEF HasProtected
    <3> QED
      BY <2>1, <3>1, <3>2 DEF PermDue
  <2> QED
    BY <1>2, <2>1, <2>2, PermKept DEF PermInv
<1>6. CASE Map
  <2>1. CASE UNCHANGED loader /\ Fatal
    BY <2>1, PermKept DEF loader, Fatal, PermInv
  <2>2. CASE MapCode(cur) /\ phase' = NextPhase(phase) /\ UNCHANGED cur
    <3>1. phase = "map" /\ phase' = "protect"
      BY <1>6, <2>2, NextPhases DEF Map
    <3>2. HalfProtected(cur)' /\ \A j \in Mods \ {cur} : perm'[j] = perm[j]
      BY <1>1, <2>2, MapCodeMaps
    <3>3. ASSUME NEW i \in Mods PROVE PermDue(i)'
      <4>1. PermDue(i)
        BY <3>1 DEF PermInv
      <4>2. /\ HasProtected(i)' <=> HasProtected(i)
            /\ HasProtected(i) <=> i < cur
        BY <2>2, <3>1 DEF HasProtected
      <4>3. CASE i = cur
        BY <1>1, <2>2, <3>1, <3>2, <4>2, <4>3 DEF PermDue
      <4>4. CASE i # cur
        BY <1>2, <2>2, <3>1, <3>2, <4>1, <4>2, <4>4, SamePages DEF PermDue
      <4> QED
        BY <4>3, <4>4
    <3>4. perm[cur] = <<>>
      BY <2>2 DEF MapCode
    <3> QED
      BY <1>2, <3>2, <3>3, <3>4 DEF PermInv, PermStep
  <2> QED
    BY <1>6, <2>1, <2>2 DEF Map
<1>7. CASE Protect
  <2>1. CASE UNCHANGED loader /\ Fatal
    BY <2>1, PermKept DEF loader, Fatal, PermInv
  <2>2. CASE SetPermission(cur) /\ ~(UNCHANGED loader /\ Fatal)
    <3> PICK c \in Mods : c = cur
      BY <1>1
    <3>1. phase = "protect" /\ HalfProtected(c)
      BY <1>1, <1>7 DEF Protect, PermInv, PermDue, HasProtected
    <3>2. /\ \A j \in Mods \ {c} : perm'[j] = perm[j]
          /\ \A pg \in Pages(c) : perm'[c][pg] # perm[c][pg] => perm[c][pg] = "fresh"
          /\ LastRun(c) => Protected(c)'
          /\ ~LastRun(c) => HalfProtected(c)'
      <4>1. SetPermission(c)
        BY <2>2
      <4> QED
        BY <1>1, <3>1, <4>1, SetPermissionSets
    <3>3. PermStep
      BY <3>2 DEF PermStep
    <3>4. \/ ~LastRun(c) /\ UNCHANGED <<phase, cur>>
          \/ LastRun(c) /\ cur < Len(prog) /\ phase' = "map" /\ cur' = cur + 1
          \/ LastRun(c) /\ cur = Len(prog) /\ phase' = "flush"
      BY <1>1, <1>7, <2>2, <3>1, NextPhases DEF Protect, Done
    <3>5. ASSUME NEW i \in Mods PROVE PermDue(i)'
      <4>1. PermDue(i)
        BY <3>1 DEF PermInv
      <4>2. HasProtected(i) <=> i < c
        BY <3>1 DEF HasProtected
      <4>3. CASE ~LastRun(c) /\ UNCHANGED <<phase, cur>>
        <5>1. HasProtected(i)' <=> i < c
          BY <3>1, <4>3 DEF HasProtected
        <5>2. CASE i = c
          BY <1>1, <3>1, <3>2, <4>3, <5>1, <5>2 DEF PermDue
        <5>3. CASE i # c
          BY <1>2, <3>1, <3>2, <4>1, <4>2, <4>3, <5>1, <5>3, SamePages DEF PermDue
        <5> QED
          BY <5>2, <5>3
      <4>4. CASE LastRun(c) /\ cur < Len(prog) /\ phase' = "map" /\ cur' = cur + 1
        <5>1. HasProtected(i)' <=> (i < c \/ i = c)
          BY <1>1, <4>4 DEF HasProtected
        <5>2. CASE i = c
          BY <3>2, <4>4, <5>1, <5>2 DEF PermDue
        <5>3. CASE i # c
          BY <1>2, <3>1, <3>2, <4>1, <4>2, <4>4, <5>1, <5>3, SamePages DEF PermDue
        <5> QED
          BY <5>2, <5>3
      <4>5. CASE LastRun(c) /\ cur = Len(prog) /\ phase' = "flush"
        <5>1. HasProtected(i)'
          BY <4>5 DEF HasProtected
        <5>2. i < c \/ i = c
          BY <1>1, <4>5
        <5>3. CASE i = c
          BY <3>2, <4>5, <5>1, <5>3 DEF PermDue
        <5>4. CASE i # c
          BY <1>2, <3>2, <4>1, <4>2, <5>1, <5>2, <5>4, SamePages DEF PermDue
        <5> QED
          BY <5>3, <5>4
      <4> QED
        BY <3>4, <4>3, <4>4, <4>5
    <3> QED
      BY <1>2, <3>3, <3>5 DEF PermInv
  <2> QED
    BY <1>7, <2>1, <2>2 DEF Protect
<1>8. CASE Flush \/ Construct \/ FreeTemp
  <2>1. /\ UNCHANGED perm /\ phase \in {"flush", "construct", "freeTemp"}
        /\ DoneForModule
    BY <1>8 DEF Flush, Construct, FreeTemp, SoFlushCaches, SoExecuteInitArray,
       SoFreeTemp
  <2>2. phase' \in PastProtect
    <3>1. phase \in ModuleSteps /\ phase \in PastProtect
      BY <2>1 DEF ModuleSteps
    <3> QED
      BY <1>1, <2>1, <3>1, Progress
  <2>3. ASSUME NEW i \in Mods PROVE PermDue(i)'
    <3>1. HasProtected(i) /\ HasProtected(i)' /\ PermDue(i)
      BY <2>1, <2>2 DEF HasProtected, PermInv
    <3> QED
      BY <1>2, <2>1, <3>1, SamePages DEF PermDue
  <2> QED
    BY <1>2, <2>1, <2>3, PermKept DEF PermInv
<1> QED
  BY <1>3, <1>4, <1>5, <1>6, <1>7, <1>8 DEF LoaderStep

-----------------------------------------------------------------------------
(* What may be read, and what the engine's code finds when it runs.        *)

PastGuard == PastFlush \ {"guard"}
NeedsFiles == {"relocate", "resolve", "entries", "map", "protect", "flush",
               "guard", "construct"}
ReadyInv ==
  /\ temp \subseteq Mods /\ ~misread
  /\ phase \in NeedsFiles => Mods \subseteq temp
  /\ phase = "load" => \A i \in Mods : i < cur => i \in temp
  /\ \A i \in Mods : HasFlushed(i) => i \in flushed
  /\ phase \in PastGuard => guard

(* Until all entry points are found no module is mapped. *)
LEMMA NothingLockedOut ==
  ASSUME PermInv, phase \in {"relocate", "resolve", "entries"}
  PROVE  \A i \in Mods : ~LockedOut(i)
BY DEF PermInv, PermDue, HasProtected, LockedOut, PastProtect, PastFlush, Loop

LEMMA ReadyQuiet ==
  ASSUME PlaceInv, ReadyInv, [Next]_vars, ~LoaderStep, ~Restart
  PROVE  ReadyInv'
<1>1. UNCHANGED loader
  BY QuietStep
<1>2. UNCHANGED <<prog, temp, misread, flushed>> /\ Mods' = Mods
  BY <1>1 DEF loader, Mods
<1>3. CASE phase' = "fatal"
  BY <1>2, <1>3 DEF ReadyInv, NeedsFiles, HasFlushed, Through, PastFlush,
     PastGuard, Loop
<1>4. CASE phase' # "fatal"
  <2>1. \A i \in Mods : HasFlushed(i)' <=> HasFlushed(i)
    BY <1>4, QuietPlace
  <2>2. phase' \in NeedsFiles => phase \in NeedsFiles
    BY <1>4, QuietStep, NextPhases, NextCases DEF NeedsFiles, Early, PastFlush, Loop,
       TlsSetupGuard, ObbOpen, ComputeViewport, Resume, LeaveLoop, UpdateKeys,
       UpdateTouch, Pace, Render, WriteZeros, Leave, vars, Done, Fatal,
       BootStep, LoaderStep, ReadConfig, WriteConfig, SetScreenSize, EglInit
  <2>3. phase' \in PastGuard => guard'
    <3>1. CASE TlsSetupGuard
      BY <3>1 DEF TlsSetupGuard
    <3>2. CASE ~TlsSetupGuard
      <4>1. UNCHANGED guard
        BY <3>2, NextCases DEF BootStep, LoaderStep, ReadConfig, WriteConfig,
           SetScreenSize, EglInit, ObbOpen, ComputeViewport, Resume, LeaveLoop,
           UpdateKeys, UpdateTouch, Pace, Render, WriteZeros, Leave, world, vars
      <4>2. phase' \in PastGuard => phase \in PastGuard
        <5>1. CASE phase = "guard"
          BY <3>2, <5>1, NextCases DEF BootStep, LoaderStep, ReadConfig,
             WriteConfig, SetScreenSize, EglInit, ObbOpen, ComputeViewport, Resume,
             LeaveLoop, UpdateKeys, UpdateTouch, Pace, Render, WriteZeros, Leave,
             vars, PastGuard
        <5>2. CASE phase # "guard"
          BY <1>4, <5>2, QuietStep DEF PastGuard, PastFlush, Loop, Early
        <5> QED
          BY <5>1, <5>2
      <4> QED
        BY <4>1, <4>2 DEF ReadyInv
    <3> QED
      BY <3>1, <3>2
  <2>4. phase' = "load" => \A i \in Mods : i < cur' => i \in temp
    <3>1. CASE phase \in Early
      <4>1. cur = 1 /\ \A i \in Mods : ~(i < 1)
        BY <3>1, ImageFacts DEF PlaceInv
      <4> QED
        BY <1>4, <3>1, <4>1, QuietStep DEF Early, PastFlush, Loop
    <3>2. CASE phase \notin Early
      BY <1>4, <3>2, QuietStep DEF PastFlush, Loop, ReadyInv
    <3> QED
      BY <3>1, <3>2
  <2> QED
    BY <1>2, <2>1, <2>2, <2>3, <2>4 DEF ReadyInv
<1> QED
  BY <1>3, <1>4

(* A step made for module cur that leaves the files and the caches alone,  *)
(* or adds cur to them.                                                    *)
LEMMA ReadyAdvances ==
  ASSUME PlaceInv, ReadyInv, phase \in ModuleSteps, DoneForModule,
         UNCHANGED <<prog, guard>>, ~misread',
         phase = "load" => temp' = temp \cup {cur},
         phase = "freeTemp" => temp' = temp \ {cur},
         phase \notin {"load", "freeTemp"} => temp' = temp,
         flushed' = IF phase = "flush" THEN flushed \cup {cur} ELSE flushed
  PROVE  ReadyInv'
<1>1. prog \in Programs /\ cur \in Mods /\ Mods' = Mods
  BY DEF PlaceInv, Mods
<1>2. /\ \/ cur < Len(prog) /\ phase' = phase /\ cur' = cur + 1
         \/ cur = Len(prog) /\ phase' = NextPhase(phase) /\ cur' = 1
      /\ \A i \in Mods : i < cur + 1 <=> (i < cur \/ i = cur)
      /\ \A i \in Mods : cur = Len(prog) => (i < cur \/ i = cur)
  BY <1>1, DoneForModuleGoes
<1>3. temp' \subseteq Mods' /\ ~misread'
  BY <1>1 DEF ReadyInv, ModuleSteps
<1>4. \A i \in Mods : HasFlushed(i)' => i \in flushed'
  BY <1>1, Progress DEF ReadyInv
<1>5. phase' \in PastGuard => guard'
  <2>1. phase' \in PastGuard => phase \in PastGuard
    BY <1>2, NextPhases DEF PastGuard, PastFlush, Loop, ModuleSteps
  <2> QED
    BY <2>1 DEF ReadyInv
<1>6. phase' = "load" => \A i \in Mods : i < cur' => i \in temp'
  BY <1>2, NextPhases DEF ReadyInv, ModuleSteps
<1>7. phase' \in NeedsFiles => Mods \subseteq temp'
  <2>1. CASE phase = "load"
    BY <1>2, <2>1, NextPhases DEF ReadyInv, NeedsFiles
  <2>2. CASE phase # "load"
    <3>1. phase' \in NeedsFiles => phase \in NeedsFiles /\ phase # "freeTemp"
      BY <1>2, <2>2, NextPhases DEF NeedsFiles, ModuleSteps
    <3> QED
      BY <2>2, <3>1 DEF ReadyInv
  <2> QED
    BY <2>1, <2>2
<1> QED
  BY <1>1, <1>3, <1>4, <1>5, <1>6, <1>7 DEF ReadyInv

LEMMA ReadyStep ==
  ASSUME PlaceInv, ImagesInv, PermInv, ReadyInv, [Next]_vars
  PROVE  ReadyInv'
<1>1. prog \in Programs /\ cur \in Mods /\ UNCHANGED prog /\ Mods' = Mods
  BY PlaceStep DEF PlaceInv, Mods
<1>2. CASE ~LoaderStep /\ ~Restart
  BY <1>2, ReadyQuiet
<1>3. CASE Restart
  BY <1>1, <1>3 DEF Restart, ReadyInv, NeedsFiles, HasFlushed, Through,
     PastFlush, PastGuard, Loop
<1>4. ASSUME Fatal, UNCHANGED <<temp, misread, flushed>> PROVE ReadyInv'
  BY <1>1, <1>4 DEF Fatal, ReadyInv, NeedsFiles, HasFlushed, Through,
     PastFlush, PastGuard, Loop
<1>5. CASE Load
  <2>1. CASE SoLoad(cur, HeapSoLimit) /\ DoneForModule
    <3>1. /\ phase = "load" /\ temp' = temp \cup {cur}
          /\ UNCHANGED <<prog, guard, flushed, misread>>
      BY <1>5, <2>1 DEF Load, SoLoad, world
    <3> QED
      BY <2>1, <3>1, ReadyAdvances DEF ReadyInv, ModuleSteps
  <2>2. CASE SoLoadFails(cur, HeapSoLimit) /\ Fatal
    BY <1>4, <2>2 DEF SoLoadFails
  <2> QED
    BY <1>5, <2>1, <2>2 DEF Load
<1>6. CASE Relocate
  <2>1. CASE SoRelocate(cur) /\ DoneForModule
    <3>1. phase = "relocate" /\ UNCHANGED <<prog, temp, guard, flushed>>
      BY <1>6, <2>1 DEF Relocate, SoRelocate, world
    <3>2. ~LockedOut(cur) /\ cur \in temp
      BY <1>1, <3>1, NothingLockedOut DEF ReadyInv, NeedsFiles
    <3>3. ~misread'
      BY <2>1, <3>2 DEF SoRelocate, Reads, ReadyInv
    <3> QED
      BY <2>1, <3>1, <3>3, ReadyAdvances DEF ModuleSteps
  <2>2. CASE SoRelocateFatal(cur) /\ Fatal
    BY <1>4, <2>2 DEF SoRelocateFatal, loader
  <2> QED
    BY <1>6, <2>1, <2>2 DEF Relocate
<1>7. CASE ResolveImports
  <2>1. /\ phase = "resolve" /\ UNCHANGED <<prog, temp, guard, flushed>>
        /\ SoResolve(cur) /\ DoneForModule
    BY <1>7 DEF ResolveImports, SoResolve, world
  <2>2. \A i \in Mods : ~LockedOut(i) /\ i \in temp
    BY <1>1, <2>1, NothingLockedOut DEF ReadyInv, NeedsFiles
  <2>3. \A k \in DOMAIN soList : soList[k] \in Mods
    <3>1. InLoadOrder
      BY <2>1, RegisteredInOrder DEF PastLoad, PastRelocate
    <3> QED
      BY <1>1, <3>1, ImageFacts DEF InLoadOrder
  <2>4. ~misread'
    BY <1>1, <2>1, <2>2, <2>3 DEF SoResolve, Reads, ReadyInv
  <2> QED
    BY <2>1, <2>4, ReadyAdvances DEF ModuleSteps
<1>8. CASE ResolveEntryPoints
  <2>1. /\ phase = "entries" /\ UNCHANGED <<temp, guard, flushed>>
        /\ Reads({}, {Len(prog)})
        /\ phase' = "map" \/ Fatal
    BY <1>8, NextPhases DEF ResolveEntryPoints, world, Done
  <2>2. Len(prog) \in Mods
    BY <1>1, ImageFacts
  <2>3. ~misread'
    BY <2>1, <2>2, NothingLockedOut DEF Reads, ReadyInv
  <2>4. CASE phase' = "map"
    BY <1>1, <2>1, <2>3, <2>4 DEF ReadyInv, NeedsFiles, HasFlushed, Through,
       PastFlush, PastGuard, Loop
  <2>5. CASE Fatal
    BY <1>1, <2>1, <2>3, <2>5 DEF Fatal, ReadyInv, NeedsFiles, HasFlushed,
       Through, PastFlush, PastGuard, Loop
  <2> QED
    BY <2>1, <2>4, <2>5
<1>9. CASE Map \/ Protect
  <2>1. UNCHANGED <<temp, misread, flushed, guard>> /\ phase \in {"map", "protect"}
    BY <1>9 DEF Map, Protect, MapCode, SetPermission, loader, world
  <2>2. \/ Fatal
        \/ phase' \in {"map", "protect"}
        \/ phase' = "flush" /\ cur' = 1
    BY <1>9, NextPhases DEF Map, Protect, Done
  <2>3. CASE Fatal
    BY <1>4, <2>1, <2>3
  <2>4. CASE phase' \in {"map", "protect"} \/ (phase' = "flush" /\ cur' = 1)
    <3>1. \A i \in Mods : ~(i < 1)
      BY <1>1, ImageFacts
    <3>2. /\ phase' \in NeedsFiles /\ phase' # "load" /\ phase' \notin PastGuard
          /\ \A i \in Mods : ~HasFlushed(i)'
      BY <2>4, <3>1 DEF NeedsFiles, HasFlushed, Through, PastFlush, PastGuard, Loop
    <3>3. Mods \subseteq temp
      BY <2>1 DEF ReadyInv, NeedsFiles
    <3> QED
      BY <1>1, <2>1, <3>2, <3>3 DEF ReadyInv
  <2> QED
    BY <2>2, <2>3, <2>4
<1>10. CASE Flush
  <2>1. /\ phase = "flush" /\ UNCHANGED <<prog, temp, misread, guard>>
        /\ flushed' = flushed \cup {cur} /\ DoneForModule
    BY <1>10 DEF Flush, SoFlushCaches, world
  <2> QED
    BY <2>1, ReadyAdvances DEF ModuleSteps, ReadyInv
<1>11. CASE Construct
  <2>1. /\ phase = "construct" /\ UNCHANGED <<prog, temp, flushed, guard>>
        /\ Reads({cur}, {}) /\ DoneForModule
    BY <1>11 DEF Construct, SoExecuteInitArray, world
  <2>2. cur \in temp
    BY <1>1, <2>1 DEF ReadyInv, NeedsFiles
  <2>3. ~misread'
    BY <2>1, <2>2 DEF Reads, ReadyInv
  <2> QED
    BY <2>1, <2>3, ReadyAdvances DEF ModuleSteps
<1>12. CASE FreeTemp
  <2>1. /\ phase = "freeTemp" /\ UNCHANGED <<prog, flushed, misread, guard>>
        /\ temp' = temp \ {cur} /\ DoneForModule
    BY <1>12 DEF FreeTemp, SoFreeTemp, world
  <2> QED
    BY <2>1, ReadyAdvances DEF ModuleSteps, ReadyInv
<1> QED
  BY <1>2, <1>3, <1>5, <1>6, <1>7, <1>8, <1>9, <1>10, <1>11, <1>12 DEF LoaderStep

(* Sizes and kinds, which hold also after a step of the boot has failed.   *)
SizesInv ==
  /\ \A i \in Mods : mem[i] # <<>> =>
       /\ DOMAIN mem[i] = 0..(LoadSize(prog[i]) - 1)
       /\ LoadSize(prog[i]) <= HeapSoLimit
  /\ \A i \in Mods : perm[i] # <<>> => perm[i] \in [Pages(i) -> {"fresh", "rx", "rw"}]
  /\ \E n \in Nat : soList = [k \in 1..n |-> k]

LEMMA ImagesAreLarge ==
  ASSUME prog \in Programs, NEW i \in Mods
  PROVE  /\ Copied(prog[i]) # <<>>
         /\ DOMAIN Copied(prog[i]) = 0..(LoadSize(prog[i]) - 1)
         /\ DOMAIN RelocatedImage(i) = 0..(LoadSize(prog[i]) - 1)
         /\ DOMAIN FinishedImage(i) = 0..(LoadSize(prog[i]) - 1)
<1>1. DOMAIN Copied(prog[i]) = 0..(LoadSize(prog[i]) - 1)
  BY DEF Copied
<1>2. LoadSize(prog[i]) \in Nat /\ LoadSize(prog[i]) # 0
  <2>1. LoadSize(prog[i]) \in Nat /\ 0 \in Pages(i)
    BY LoadSizeIs, FirstPage
  <2>2. 0 \div PageWords = 0
    <3>1. 0 - (PageWords * 0) \in 0..(PageWords - 1)
      BY LoaderAssumption
    <3> QED
      BY <3>1, PageOf
  <2> QED
    BY <2>1, <2>2 DEF Pages
<1>3. 0 \in DOMAIN Copied(prog[i])
  BY <1>1, <1>2
<1>4. Copied(prog[i]) # <<>>
  BY <1>3
<1>5. RelocatedImage(i) \in [0..(LoadSize(prog[i]) - 1) -> Words]
  BY RelocatedIs
<1> QED
  BY <1>1, <1>4, <1>5 DEF FinishedImage

LEMMA SizesStep ==
  ASSUME PlaceInv, ImagesInv, SizesInv, [Next]_vars
  PROVE  SizesInv'
<1>1. /\ prog \in Programs /\ cur \in Mods /\ UNCHANGED <<prog, heap>> /\ Mods' = Mods
      /\ DOMAIN mem = Mods /\ DOMAIN perm = Mods
  BY PlaceStep DEF PlaceInv, Mods
<1>2. UNCHANGED HeapSoLimit
  BY <1>1 DEF HeapSoLimit, FakeHeap, AlignUp
<1>3. \A i \in Mods : LoadSize(prog[i])' = LoadSize(prog[i]) /\ Pages(i)' = Pages(i)
  BY <1>1, SameImages, SamePages
<1>4. \A i \in Mods : mem'[i] # <<>> =>
        /\ DOMAIN mem'[i] = 0..(LoadSize(prog[i]) - 1)
        /\ LoadSize(prog[i]) <= HeapSoLimit
  <2>1. CASE UNCHANGED mem
    BY <2>1 DEF SizesInv
  <2>2. CASE Restart
    BY <2>2 DEF Restart
  <2>3. CASE Load
    <3>1. \/ UNCHANGED mem
          \/ /\ LoadSize(prog[cur]) <= HeapSoLimit
             /\ mem' = [mem EXCEPT ![cur] = Copied(prog[cur])]
      BY <2>3 DEF Load, SoLoad, SoLoadFails
    <3> QED
      BY <1>1, <2>1, <3>1, ImagesAreLarge DEF SizesInv
  <2>4. CASE Relocate /\ ~UNCHANGED mem
    <3>1. phase = "relocate" /\ SoRelocate(cur)
      BY <2>4 DEF Relocate, SoRelocateFatal, loader
    <3>2. mem[cur] = Copied(prog[cur])
      BY <3>1, CurrentImage
    <3>3. mem' = [mem EXCEPT ![cur] = RelocatedImage(cur)]
      BY <3>1, <3>2 DEF SoRelocate, RelocatedImage
    <3>4. LoadSize(prog[cur]) <= HeapSoLimit
      BY <1>1, <3>2, ImagesAreLarge DEF SizesInv
    <3> QED
      BY <1>1, <3>3, <3>4, ImagesAreLarge DEF SizesInv
  <2>5. CASE ResolveImports
    <3>1. phase = "resolve" /\ SoResolve(cur) /\ DoneForModule
      BY <2>5 DEF ResolveImports
    <3>2. mem[cur] = RelocatedImage(cur) /\ TypesKnown(cur)
      BY <3>1, CurrentImage
    <3>3. InLoadOrder
      BY <3>1, RegisteredInOrder DEF PastLoad, PastRelocate
    <3>4. mem' = [mem EXCEPT ![cur] = FinishedImage(cur)]
      BY <1>1, <3>1, <3>2, <3>3, ImageFinished DEF SoResolve, TypesKnown
    <3>5. LoadSize(prog[cur]) <= HeapSoLimit
      <4>1. RelocatedImage(cur) # <<>>
        <5>1. DOMAIN RelocatedImage(cur) = DOMAIN Copied(prog[cur])
          BY <1>1, ImagesAreLarge
        <5>2. 0 \in DOMAIN Copied(prog[cur])
          BY <1>1, ImagesAreLarge, LoadSizeIs
        <5> QED
          BY <5>1, <5>2
      <4> QED
        BY <1>1, <3>2, <4>1 DEF SizesInv
    <3> QED
      BY <1>1, <3>4, <3>5, ImagesAreLarge DEF SizesInv
  <2>6. CASE ~(Load \/ Relocate \/ ResolveImports \/ Restart)
    <3>1. CASE LoaderStep
      BY <2>1, <2>6, <3>1 DEF LoaderStep, ResolveEntryPoints, Map, Protect,
         Flush, Construct, FreeTemp, MapCode, SetPermission, SoFlushCaches,
         SoExecuteInitArray, SoFreeTemp, loader
    <3>2. CASE ~LoaderStep
      BY <2>1, <2>6, <3>2, QuietStep DEF loader
    <3> QED
      BY <3>1, <3>2
  <2> QED
    BY <2>1, <2>2, <2>3, <2>4, <2>5, <2>6
<1>5. \A i \in Mods : perm'[i] # <<>> => perm'[i] \in [Pages(i) -> {"fresh", "rx", "rw"}]
  <2>1. CASE UNCHANGED perm
    BY <2>1 DEF SizesInv
  <2>2. CASE Restart
    BY <2>2 DEF Restart
  <2>3. CASE Map /\ ~UNCHANGED perm
    <3>1. perm' = [perm EXCEPT ![cur] = [pg \in Pages(cur) |-> "fresh"]]
      BY <2>3 DEF Map, MapCode, loader
    <3> QED
      BY <1>1, <3>1 DEF SizesInv
  <2>4. CASE Protect /\ ~UNCHANGED perm
    <3>1. /\ perm[cur] # <<>>
          /\ perm' = [perm EXCEPT ![cur] =
               [pg \in Pages(cur) |->
                  IF pg \in RunOf(cur) THEN Pass(cur) ELSE perm[cur][pg]]]
      BY <1>1, <2>4 DEF Protect, SetPermission, loader
    <3>2. perm[cur] \in [Pages(cur) -> {"fresh", "rx", "rw"}]
      BY <1>1, <3>1 DEF SizesInv
    <3>3. Pass(cur) \in {"rx", "rw"}
      BY DEF Pass
    <3> QED
      BY <1>1, <3>1, <3>2, <3>3 DEF SizesInv
  <2>5. CASE ~(Map \/ Protect \/ Restart)
    <3>1. CASE LoaderStep
      BY <2>1, <2>5, <3>1 DEF LoaderStep, Load, Relocate, ResolveImports,
         ResolveEntryPoints, Flush, Construct, FreeTemp, SoLoad, SoLoadFails,
         SoRelocate, SoRelocateFatal, SoResolve, SoFlushCaches,
         SoExecuteInitArray, SoFreeTemp, loader
    <3>2. CASE ~LoaderStep
      BY <2>1, <2>5, <3>2, QuietStep DEF loader
    <3> QED
      BY <3>1, <3>2
  <2> QED
    BY <2>1, <2>2, <2>3, <2>4, <2>5
<1>6. \E n \in Nat : soList' = [k \in 1..n |-> k]
  <2>1. CASE phase' = "fatal"
    <3>1. UNCHANGED soList
      <4>1. CASE LoaderStep
        BY <1>1, <2>1, <4>1, NextPhases, DoneForModuleGoes DEF LoaderStep, Load,
           Relocate, ResolveImports, ResolveEntryPoints, Map, Protect, Flush,
           Construct, FreeTemp, SoLoadFails, SoRelocate, SoRelocateFatal,
           SoResolve, MapCode, SetPermission, SoFlushCaches, SoExecuteInitArray,
           SoFreeTemp, loader, ModuleSteps
      <4>2. CASE Restart
        BY <2>1, <4>2 DEF Restart
      <4>3. CASE ~LoaderStep /\ ~Restart
        BY <4>3, QuietStep DEF loader
      <4> QED
        BY <4>1, <4>2, <4>3
    <3> QED
      BY <3>1 DEF SizesInv
  <2>2. CASE phase' # "fatal"
    <3>1. ImagesInv' /\ PlaceInv'
      BY ImagesStep, PlaceStep
    <3>2. soList' = [k \in 1..ListDue' |-> k]
      BY <2>2, <3>1 DEF ImagesInv
    <3>3. ListDue' \in Nat
      <4>1. Len(prog') \in Nat /\ cur' - 1 \in Nat
        BY <1>1, <3>1, ImageFacts DEF PlaceInv
      <4> QED
        BY <4>1 DEF ListDue
    <3> QED
      BY <3>2, <3>3
  <2> QED
    BY <2>1, <2>2
<1> QED
  BY <1>1, <1>2, <1>3, <1>4, <1>5, <1>6 DEF SizesInv

BootInv == PlaceInv /\ ImagesInv /\ PermInv /\ ReadyInv /\ SizesInv

LEMMA BootInit == Init => BootInv
<1> SUFFICES ASSUME Init PROVE BootInv
  OBVIOUS
<1> USE DEF Init, Fresh, LoaderInit, PastLoad, PastRelocate, PastResolve,
    PastEntries, PastProtect, PastFlush, PastGuard, Loop, Early, Through
<1>1. prog \in Programs /\ 1 \in Mods /\ phase = "config"
  BY ImageFacts
<1>2. /\ PlaceInv
      /\ \A i \in Mods : mem[i] = <<>> /\ perm[i] = <<>>
  BY <1>1 DEF PlaceInv
<1>3. ListDue = 0 /\ [k \in 1..0 |-> k] = <<>>
  BY <1>1 DEF ListDue
<1>4. ImagesInv
  BY <1>1, <1>2, <1>3 DEF ImagesInv, ImageDue, Loaded, HasRelocated, HasResolved
<1>5. PermInv
  BY <1>1, <1>2 DEF PermInv, PermDue, HasProtected
<1>6. ReadyInv
  BY <1>1 DEF ReadyInv, NeedsFiles, HasFlushed
<1>7. SizesInv
  BY <1>2, <1>3 DEF SizesInv
<1> QED
  BY <1>2, <1>4, <1>5, <1>6, <1>7 DEF BootInv

LEMMA BootStepHolds == BootInv /\ [Next]_vars => BootInv' /\ PermStep
BY PlaceStep, ImagesStep, PermStepHolds, ReadyStep, SizesStep DEF BootInv

(* A size of whole pages needs no rounding. *)
LEMMA WholePages ==
  ASSUME NEW n \in Nat, n % PageWords = 0
  PROVE  AlignUp(n) = n
<1> DEFINE q == n \div PageWords
<1>1. PageWords \in Nat \ {0} /\ n + PageWords - 1 \in Int
  BY LoaderAssumption
<1>2. q \in Int /\ n = PageWords * q
  BY <1>1
<1> HIDE DEF q
<1>3. (n + PageWords - 1) - (PageWords * q) \in 0..(PageWords - 1)
  BY <1>1, <1>2
<1>4. (n + PageWords - 1) \div PageWords = q
  BY <1>1, <1>2, <1>3, PageOf
<1>5. AlignUp(n) = q * PageWords
  BY <1>4 DEF AlignUp
<1> QED
  BY <1>1, <1>2, <1>5

(* The subtraction of main.c:69 wraps for no heap of whole pages and for   *)
(* none that reaches MEMORY_MB.                                            *)
LEMMA LimitOf ==
  ASSUME heap \in HeapSizes, heap % PageWords = 0 \/ heap >= MemoryCap
  PROVE  /\ AlignUp(FakeHeap) \in Nat
         /\ HeapSoLimit = heap - AlignUp(FakeHeap)
<1>1. /\ heap \in Nat /\ MemoryCap \in Nat /\ SizeRange \in Nat
      /\ heap < SizeRange /\ MemoryCap % PageWords = 0
  BY MainAssumption
<1>2. FakeHeap = IF heap <= MemoryCap THEN heap ELSE MemoryCap
  BY <1>1, MinOfTwo DEF FakeHeap
<1>3. FakeHeap \in Nat /\ FakeHeap <= heap /\ FakeHeap % PageWords = 0
  BY <1>1, <1>2
<1>4. AlignUp(FakeHeap) = FakeHeap
  BY <1>3, WholePages
<1>5. heap - FakeHeap \in 0..(SizeRange - 1)
  BY <1>1, <1>3
<1> HIDE DEF FakeHeap
<1>6. (heap - FakeHeap) % SizeRange = heap - FakeHeap
  BY <1>1, <1>5
<1> QED
  BY <1>3, <1>4, <1>6 DEF HeapSoLimit

(* Lines 61-70 and 352-374 of main.c: no read of a freed file image or of  *)
(* a buffer the mapping has taken, whatever the heap; and for a heap of    *)
(* whole pages, or one that reaches MEMORY_MB, no image beyond the         *)
(* loader's part of it, wherever the boot is broken off.                   *)
THEOREM LoaderKeepsToItsMemory == Spec => []LoaderStaysInItsMemory
<1>1. BootInv => LoaderStaysInItsMemory
  <2> SUFFICES ASSUME BootInv PROVE LoaderStaysInItsMemory
    OBVIOUS
  <2>1. ~misread
    BY DEF BootInv, ReadyInv
  <2>2. ASSUME heap % PageWords = 0 \/ heap >= MemoryCap, NEW i \in Mods, mem[i] # <<>>
        PROVE  AlignUp(FakeHeap) + LoadSize(prog[i]) <= heap
    <3>1. LoadSize(prog[i]) <= HeapSoLimit
      BY <2>2 DEF BootInv, SizesInv
    <3>2. heap \in HeapSizes /\ heap \in Nat /\ LoadSize(prog[i]) \in Nat
      BY LoadSizeIs, MainAssumption DEF BootInv, PlaceInv
    <3>3. AlignUp(FakeHeap) \in Nat /\ HeapSoLimit = heap - AlignUp(FakeHeap)
      BY <2>2, <3>2, LimitOf
    <3> QED
      BY <3>1, <3>2, <3>3
  <2> QED
    BY <2>1, <2>2 DEF LoaderStaysInItsMemory
<1> QED
  BY <1>1, BootInit, BootStepHolds, PTL DEF Spec

(* Lines 64-100 of so_util.c: the permission of a page is set once, from   *)
(* the state the mapping left, whatever segments share or skip pages.      *)
THEOREM PermissionsSetOnce == Spec => PermissionOnce
BY BootInit, BootStepHolds, PTL DEF Spec, PermissionOnce, PermStep

(* Lines 352-388 of main.c: when the first constructor runs, and from then *)
(* on, every word and every page of every module is finished, the caches   *)
(* know and the canary is there.                                           *)
THEOREM EngineFindsFinishedImage == Spec => []EngineSeesFinishedImage
<1>1. BootInv => EngineSeesFinishedImage
  <2> SUFFICES ASSUME BootInv, phase \in EngineRuns
               PROVE  /\ guard
                      /\ \A i \in Mods :
                           /\ i \in flushed
                           /\ \A a \in DOMAIN mem[i] : mem[i][a] = FinishedWord(i, a)
                           /\ \A pg \in Pages(i) :
                                perm[i][pg] = IF HoldsCode(i, pg) THEN "rx" ELSE "rw"
    BY DEF EngineSeesFinishedImage
  <2>1. phase \in PastGuard /\ phase \in PastFlush /\ phase # "fatal"
    BY DEF EngineRuns, PastGuard, PastFlush, Loop
  <2>2. guard
    BY <2>1 DEF BootInv, ReadyInv
  <2>3. ASSUME NEW i \in Mods
        PROVE  /\ i \in flushed /\ mem[i] = FinishedImage(i) /\ Protected(i)
    <3>1. HasFlushed(i) /\ HasResolved(i) /\ HasProtected(i)
      BY <2>1 DEF HasFlushed, HasResolved, HasProtected, Through, PastResolve,
         PastEntries, PastProtect
    <3> QED
      BY <2>1, <3>1 DEF BootInv, ReadyInv, ImagesInv, ImageDue, PermInv, PermDue
  <2>4. ASSUME NEW i \in Mods, NEW pg \in Pages(i)
        PROVE  perm[i][pg] = IF HoldsCode(i, pg) THEN "rx" ELSE "rw"
    <3>1. perm[i][pg] = IF pg \in XPages(i) THEN "rx" ELSE "rw"
      BY <2>3 DEF Protected, PageType
    <3>2. pg \in XPages(i) <=> HoldsCode(i, pg)
      BY XPagesHoldCode DEF BootInv, PlaceInv
    <3> QED
      BY <3>1, <3>2
  <2> QED
    BY <2>2, <2>3, <2>4 DEF FinishedImage
<1> QED
  BY <1>1, BootInit, BootStepHolds, PTL DEF Spec

-----------------------------------------------------------------------------
(* config.txt.                                                             *)

Settings == [screen_width : Int, screen_height : Int, widescreen : Int,
             language : Int]

LEMMA ParseVarIs ==
  ASSUME NEW c \in Settings, NEW line \in Lines
  PROVE  ParseVar(c, line) \in Settings
<1>1. line.value \in Int
  BY DEF Lines
<1>2. DOMAIN c = {"screen_width", "screen_height", "widescreen", "language"}
  BY DEF Settings
<1>3. CASE line.name \in DOMAIN c
  <2>1. ParseVar(c, line) = [c EXCEPT ![line.name] = line.value]
    BY <1>3 DEF ParseVar
  <2>2. \/ line.name = "screen_width" \/ line.name = "screen_height"
        \/ line.name = "widescreen" \/ line.name = "language"
    BY <1>2, <1>3
  <2> QED
    BY <1>1, <2>1, <2>2 DEF Settings
<1>4. CASE line.name \notin DOMAIN c
  BY <1>4 DEF ParseVar
<1> QED
  BY <1>3, <1>4

(* The values read_config passes through, line by line. *)
LEMMA ParseTrace ==
  ASSUME NEW file, file # NoFile, NEW n \in Nat, DOMAIN file = 1..n,
         \A k \in 1..n : file[k] \in Lines
  PROVE  \E g : /\ g[0] = Defaults /\ \A k \in 0..n : g[k] \in Settings
                /\ \A k \in 1..n : g[k] = ParseVar(g[k - 1], file[k])
                /\ Parsed(file) = g[n]
<1> DEFINE M == Settings
           step == [k \in 1..n |-> [c \in M |-> ParseVar(c, file[k])]]
           Steps(it) == it = [S \in SUBSET DOMAIN file |->
                                IF S = {} THEN Defaults
                                ELSE ParseVar(it[S \ {Max(S)}], file[Max(S)])]
<1>1. step \in [1..n -> [M -> M]] /\ Defaults \in M
  BY ParseVarIs DEF Defaults, Settings
<1> HIDE DEF M
<1>2. PICK it \in [SUBSET (1..n) -> M] : Iterates(it, n, Defaults, step)
  <2> HIDE DEF step
  <2> QED
    BY <1>1, IterExists
<1>3. \A S \in SUBSET (1..n) : S # {} => Max(S) \in 1..n
  BY MaxOfSegment
<1>4. Steps(it)
  <2>1. \A S \in SUBSET (1..n) : S # {} =>
          step[Max(S)][it[S \ {Max(S)}]]
            = ParseVar(it[S \ {Max(S)}], file[Max(S)])
    <3> TAKE S \in SUBSET (1..n)
    <3> HAVE S # {}
    <3>1. Max(S) \in 1..n /\ it[S \ {Max(S)}] \in M
      BY <1>3
    <3> QED
      BY <3>1
  <2> HIDE DEF step
  <2> QED
    BY <1>2, <2>1 DEF Iterates
<1>5. PICK f : Parsed(file) = f[DOMAIN file] /\ Steps(f)
  BY <1>4 DEF Parsed, FoldLeft, MapThenFoldSet
<1> DEFINE g == [k \in 0..n |-> f[1..k]]
<1>6. g[0] = Defaults
  BY <1>5
<1>7. \A k \in 1..n : g[k] = ParseVar(g[k - 1], file[k])
  <2> TAKE k \in 1..n
  <2>1. 1..k \in SUBSET DOMAIN file /\ k \in Nat \ {0} /\ k - 1 \in 0..n
    OBVIOUS
  <2>2. f[1..k] = ParseVar(f[1..(k - 1)], file[k])
    BY <1>5, <2>1, Segment
  <2> QED
    BY <2>1, <2>2
<1>8. Parsed(file) = g[n]
  BY <1>5
<1>9. \A k \in 0..n : g[k] \in M
  <2> HIDE DEF g
  <2>1. \A k \in 1..n : g[k - 1] \in M => g[k] \in M
    BY <1>7, ParseVarIs DEF M
  <2> QED
    BY <1>1, <1>6, <2>1, TraceStaysIn
<1> HIDE DEF g
<1> QED
  BY <1>6, <1>7, <1>8, <1>9 DEF M

LEMMA ParsedIs ==
  ASSUME NEW file, file = NoFile \/ file \in Seq(Lines)
  PROVE  Parsed(file) \in Settings
<1>1. CASE file = NoFile
  BY <1>1 DEF Parsed, Defaults, Settings
<1>2. CASE file # NoFile
  <2> DEFINE n == Len(file)
  <2>1. n \in Nat /\ DOMAIN file = 1..n /\ \A k \in 1..n : file[k] \in Lines
    BY <1>2
  <2> HIDE DEF n
  <2>2. PICK g : (\A k \in 0..n : g[k] \in Settings) /\ Parsed(file) = g[n]
    BY <1>2, <2>1, ParseTrace
  <2> QED
    BY <2>1, <2>2
<1> QED
  BY <1>1, <1>2

Setting(name, v) == [name |-> name, value |-> v]
Values(w, h, s, l) == [screen_width |-> w, screen_height |-> h,
                       widescreen |-> s, language |-> l]

LEMMA ParseVarSets ==
  ASSUME NEW w, NEW h, NEW s, NEW l, NEW v
  PROVE  /\ ParseVar(Values(w, h, s, l), Setting("screen_width", v))
              = Values(v, h, s, l)
         /\ ParseVar(Values(w, h, s, l), Setting("screen_height", v))
              = Values(w, v, s, l)
         /\ ParseVar(Values(w, h, s, l), Setting("widescreen", v))
              = Values(w, h, v, l)
         /\ ParseVar(Values(w, h, s, l), Setting("language", v))
              = Values(w, h, s, v)
<1> DEFINE c == Values(w, h, s, l)
<1>1. DOMAIN c = {"screen_width", "screen_height", "widescreen", "language"}
  BY DEF Values
<1>2. \A n \in DOMAIN c : ParseVar(c, Setting(n, v)) = [c EXCEPT ![n] = v]
  BY DEF ParseVar, Setting
<1>3. [c EXCEPT !["screen_width"] = v] = Values(v, h, s, l)
  BY DEF Values
<1>4. [c EXCEPT !["screen_height"] = v] = Values(w, v, s, l)
  BY DEF Values
<1>5. [c EXCEPT !["widescreen"] = v] = Values(w, h, v, l)
  BY DEF Values
<1>6. [c EXCEPT !["language"] = v] = Values(w, h, s, v)
  BY DEF Values
<1> HIDE DEF c
<1>7. /\ ParseVar(c, Setting("screen_width", v)) = Values(v, h, s, l)
      /\ ParseVar(c, Setting("screen_height", v)) = Values(w, v, s, l)
      /\ ParseVar(c, Setting("widescreen", v)) = Values(w, h, v, l)
      /\ ParseVar(c, Setting("language", v)) = Values(w, h, s, v)
  BY <1>1, <1>2, <1>3, <1>4, <1>5, <1>6
<1> QED
  BY <1>7 DEF c

(* What write_config prints, read_config reads. *)
LEMMA TextParses ==
  ASSUME NEW c \in Settings
  PROVE  ConfigText(c) \in Seq(Lines) /\ Parsed(ConfigText(c)) = c
<1> DEFINE l1 == Setting("screen_width", c.screen_width)
           l2 == Setting("screen_height", c.screen_height)
           l3 == Setting("widescreen", c.widescreen)
           l4 == Setting("language", c.language)
           file == ConfigText(c)
<1>1. /\ c.screen_width \in Int /\ c.screen_height \in Int
      /\ c.widescreen \in Int /\ c.language \in Int
  BY DEF Settings
<1>2. l1 \in Lines /\ l2 \in Lines /\ l3 \in Lines /\ l4 \in Lines
  BY <1>1 DEF Lines, Names, Setting
<1>3. file = <<l1, l2, l3, l4>>
  BY DEF ConfigText, Setting
<1>4. c = Values(c.screen_width, c.screen_height, c.widescreen, c.language)
  BY DEF Settings, Values
<1> HIDE DEF file
<1>5. ASSUME NEW g, g[0] = Defaults,
             g[1] = ParseVar(g[0], l1), g[2] = ParseVar(g[1], l2),
             g[3] = ParseVar(g[2], l3), g[4] = ParseVar(g[3], l4)
      PROVE  g[4] = c
  <2>1. g[0] = Values(-1, -1, 0, 3)
    BY <1>5 DEF Defaults, Values
  <2>2. g[1] = Values(c.screen_width, -1, 0, 3)
    <3>1. ParseVar(Values(-1, -1, 0, 3), l1)
            = Values(c.screen_width, -1, 0, 3)
      BY ParseVarSets
    <3> HIDE DEF l1
    <3> QED
      BY <1>5, <2>1, <3>1
  <2>3. g[2] = Values(c.screen_width, c.screen_height, 0, 3)
    <3>1. ParseVar(Values(c.screen_width, -1, 0, 3), l2)
            = Values(c.screen_width, c.screen_height, 0, 3)
      BY ParseVarSets
    <3> HIDE DEF l2
    <3> QED
      BY <1>5, <2>2, <3>1
  <2>4. g[3] = Values(c.screen_width, c.screen_height, c.widescreen, 3)
    <3>1. ParseVar(Values(c.screen_width, c.screen_height, 0, 3), l3)
            = Values(c.screen_width, c.screen_height, c.widescreen, 3)
      BY ParseVarSets
    <3> HIDE DEF l3
    <3> QED
      BY <1>5, <2>3, <3>1
  <2>5. g[4] = Values(c.screen_width, c.screen_height, c.widescreen, c.language)
    <3>1. ParseVar(Values(c.screen_width, c.screen_height, c.widescreen, 3), l4)
            = Values(c.screen_width, c.screen_height, c.widescreen, c.language)
      BY ParseVarSets
    <3> HIDE DEF l4
    <3> QED
      BY <1>5, <2>4, <3>1
  <2> QED
    BY <1>4, <2>5
<1> HIDE DEF file, l1, l2, l3, l4
<1>6. /\ file \in Seq(Lines) /\ Len(file) = 4 /\ DOMAIN file = 1..4
      /\ file[1] = l1 /\ file[2] = l2 /\ file[3] = l3 /\ file[4] = l4
  BY <1>2, <1>3
<1>7. file # NoFile /\ \A k \in 1..4 : file[k] \in Lines
  <2>1. file # NoFile
    BY <1>6, MainAssumption
  <2>2. \A k \in 1..4 : k = 1 \/ k = 2 \/ k = 3 \/ k = 4
    OBVIOUS
  <2> QED
    BY <1>2, <1>6, <2>1, <2>2
<1>8. PICK g : /\ g[0] = Defaults
               /\ \A k \in 1..4 : g[k] = ParseVar(g[k - 1], file[k])
               /\ Parsed(file) = g[4]
  <2>1. 4 \in Nat
    OBVIOUS
  <2>2. \E g : /\ g[0] = Defaults /\ \A k \in 0..4 : g[k] \in Settings
               /\ \A k \in 1..4 : g[k] = ParseVar(g[k - 1], file[k])
               /\ Parsed(file) = g[4]
    BY <1>6, <1>7, <2>1, ParseTrace
  <2> QED
    BY <2>2
<1>9. /\ g[1] = ParseVar(g[0], l1) /\ g[2] = ParseVar(g[1], l2)
      /\ g[3] = ParseVar(g[2], l3) /\ g[4] = ParseVar(g[3], l4)
  <2>1. /\ g[1] = ParseVar(g[1 - 1], file[1]) /\ g[2] = ParseVar(g[2 - 1], file[2])
        /\ g[3] = ParseVar(g[3 - 1], file[3]) /\ g[4] = ParseVar(g[4 - 1], file[4])
    BY <1>8
  <2>2. 1 - 1 = 0 /\ 2 - 1 = 1 /\ 3 - 1 = 2 /\ 4 - 1 = 3
    OBVIOUS
  <2> QED
    BY <1>6, <2>1, <2>2
<1>10. Parsed(file) = c
  BY <1>5, <1>8, <1>9
<1> QED
  BY <1>6, <1>10 DEF file

SettingsInv ==
  /\ cfg = NoFile \/ cfg \in Seq(Lines)
  /\ config \in Settings
  /\ phase = "writeConfig" => (config = wanted \/ spoiled)
  /\ SettingsKept

LEMMA SettingsInit == Init => SettingsInv
<1> SUFFICES ASSUME Init PROVE SettingsInv
  OBVIOUS
<1>1. cfg = NoFile \/ cfg \in Seq(Lines)
  BY MainAssumption DEF Init
<1>2. Defaults \in Settings
  BY DEF Defaults, Settings
<1> QED
  BY <1>1, <1>2 DEF Init, Fresh, SettingsInv, SettingsKept

LEMMA SettingsStep == SettingsInv /\ [Next]_vars => SettingsInv'
<1> SUFFICES ASSUME SettingsInv, [Next]_vars PROVE SettingsInv'
  OBVIOUS
<1>1. CASE ReadConfig
  <2>1. PICK file \in Found("config.txt", cfg) :
          /\ config' = Parsed(file)
          /\ \/ /\ phase' = "writeConfig" /\ cfg' = <<>>
                /\ spoiled' = (spoiled \/ file # cfg)
             \/ phase' = "screen" /\ UNCHANGED <<cfg, spoiled>>
    BY <1>1 DEF ReadConfig
  <2>2. phase = "config" /\ wanted' = wanted /\ (~spoiled => Parsed(cfg) = wanted)
    BY <1>1 DEF ReadConfig, SettingsInv, SettingsKept
  <2>3. config' \in Settings
    BY <2>1, ParsedIs DEF SettingsInv, Found
  <2>4. CASE phase' = "writeConfig" /\ cfg' = <<>> /\ spoiled' = (spoiled \/ file # cfg)
    <3>1. config' = wanted \/ spoiled'
      BY <2>1, <2>2, <2>4
    <3> QED
      BY <2>2, <2>3, <2>4, <3>1 DEF SettingsInv, SettingsKept
  <2>5. CASE phase' = "screen" /\ UNCHANGED <<cfg, spoiled>>
    BY <2>2, <2>3, <2>5 DEF SettingsInv, SettingsKept
  <2> QED
    BY <2>1, <2>4, <2>5
<1>2. CASE WriteConfig
  <2> DEFINE text == ConfigText(config)
  <2>1. PICK n \in 0..Len(text) :
          cfg' = SubSeq(text, 1, n) /\ spoiled' = (spoiled \/ n < Len(text))
    BY <1>2 DEF WriteConfig
  <2>2. /\ phase = "writeConfig" /\ phase' = "screen"
        /\ UNCHANGED <<config, wanted>>
    BY <1>2 DEF WriteConfig
  <2>3. text \in Seq(Lines) /\ Parsed(text) = config
    BY TextParses DEF SettingsInv
  <2> HIDE DEF text
  <2>4. cfg' \in Seq(Lines)
    BY <2>1, <2>3
  <2>5. n = Len(text) => cfg' = text
    BY <2>1, <2>3
  <2>6. ~spoiled' => ~spoiled /\ n = Len(text)
    <3>1. Len(text) \in Nat
      BY <2>3
    <3>2. n < Len(text) \/ n = Len(text)
      BY <2>1, <3>1
    <3> QED
      BY <2>1, <3>2, Zenon
  <2>7. ~spoiled' => Parsed(cfg') = config /\ config = wanted
    BY <2>2, <2>3, <2>5, <2>6 DEF SettingsInv
  <2>8. ~spoiled' => (Parsed(cfg))' = config /\ config = wanted
    BY <2>7 DEF Parsed
  <2> QED
    BY <2>2, <2>4, <2>8 DEF SettingsInv, SettingsKept
<1>3. CASE Restart
  <2>1. /\ UNCHANGED <<cfg, wanted>> /\ phase' = "config" /\ config' = Defaults
        /\ spoiled' = (spoiled \/ phase = "writeConfig")
    BY <1>3 DEF Restart
  <2>2. Defaults \in Settings
    BY DEF Defaults, Settings
  <2>3. ~spoiled' => Parsed(cfg) = wanted
    BY <2>1 DEF SettingsInv, SettingsKept
  <2> QED
    BY <2>1, <2>2, <2>3 DEF SettingsInv, SettingsKept
<1>4. CASE ~(ReadConfig \/ WriteConfig \/ Restart)
  <2>1. UNCHANGED settings
    BY <1>4, NextCases DEF BootStep, SetScreenSize, EglInit, Load, Relocate,
       ResolveImports, ResolveEntryPoints, Map, Protect, Flush, TlsSetupGuard,
       Construct, FreeTemp, ObbOpen, ComputeViewport, Resume, LeaveLoop,
       UpdateKeys, UpdateTouch, Pace, Render, WriteZeros, Leave, world, settings,
       vars
  <2>2. CASE UNCHANGED phase
    BY <2>1, <2>2 DEF SettingsInv, SettingsKept, settings
  <2>3. CASE phase # "writeConfig" /\ phase' # "writeConfig"
    BY <2>1, <2>3 DEF SettingsInv, SettingsKept, settings
  <2>4. UNCHANGED phase \/ (phase # "writeConfig" /\ phase' # "writeConfig")
    BY <1>4, NextCases, NextPhases DEF BootStep, SetScreenSize, EglInit, Load,
       Relocate, ResolveImports, ResolveEntryPoints, Map, Protect, Flush,
       TlsSetupGuard, Construct, FreeTemp, ObbOpen, ComputeViewport, Resume,
       LeaveLoop, UpdateKeys, UpdateTouch, Pace, Render, WriteZeros, Leave,
       Done, DoneForModule, Fatal, vars
  <2> QED
    BY <2>2, <2>3, <2>4
<1> QED
  BY <1>1, <1>2, <1>3, <1>4

(* Lines 45-103 of config.c: rewriting a file of the user's keeps what it  *)
(* says, through restarts, except a rewrite that is cut off or falls short *)
(* and one that begins because the file there was not opened.              *)
THEOREM SettingsAreKept == Spec => []SettingsKept
<1>1. SettingsInv => SettingsKept
  BY DEF SettingsInv
<1> QED
  BY <1>1, SettingsInit, SettingsStep, PTL DEF Spec

-----------------------------------------------------------------------------
(* The viewport.                                                           *)

DisplayInv ==
  /\ screen.w \in Nat \ {0} /\ screen.h \in Nat \ {0}
  /\ phase \in Loop \cup {"resume"} => view = Viewport

LEMMA DisplayStep ==
  ASSUME SettingsInv, DisplayInv, [Next]_vars
  PROVE  DisplayInv'
<1>1. ASSUME UNCHANGED <<config, screen>> PROVE Viewport' = Viewport
  BY <1>1 DEF Viewport, Pillarboxed, Aspect, Rounded
<1>2. CASE SetScreenSize
  <2>1. phase' \notin Loop \cup {"resume"}
    BY <1>2 DEF SetScreenSize, Loop
  <2>2. CASE UNCHANGED screen
    BY <2>1, <2>2 DEF DisplayInv
  <2>3. CASE screen' = ScreenSize(config.screen_width, config.screen_height)
    <3>1. config.screen_width \in Int /\ config.screen_height \in Int
      BY DEF SettingsInv, Settings
    <3>2. screen'.w \in Nat \ {0} /\ screen'.h \in Nat \ {0}
      BY <2>3, <3>1 DEF ScreenSize
    <3> QED
      BY <2>1, <3>2 DEF DisplayInv
  <2> QED
    BY <1>2, <2>2, <2>3 DEF SetScreenSize
<1>3. CASE Restart
  BY <1>3 DEF Restart, DisplayInv, FirstScreen, Loop
<1>4. CASE ComputeViewport
  <2>1. view' = Viewport /\ UNCHANGED <<config, screen>>
    BY <1>4 DEF ComputeViewport, settings
  <2> QED
    BY <1>1, <2>1 DEF DisplayInv
<1>5. CASE Render
  <2>1. view' \in {view, Viewport} /\ UNCHANGED <<config, screen>> /\ phase = "render"
    BY <1>5 DEF Render
  <2> QED
    BY <1>1, <2>1 DEF DisplayInv, Loop
<1>6. CASE ReadConfig \/ WriteConfig \/ EglInit
  <2>1. UNCHANGED display /\ phase' \notin Loop \cup {"resume"}
    BY <1>6 DEF ReadConfig, WriteConfig, EglInit, Loop
  <2> QED
    BY <2>1 DEF display, DisplayInv
<1>7. CASE LoaderStep \/ TlsSetupGuard \/ ObbOpen
  <2>1. UNCHANGED display
    BY <1>7 DEF LoaderStep, Load, Relocate, ResolveImports, ResolveEntryPoints,
       Map, Protect, Flush, Construct, FreeTemp, TlsSetupGuard, ObbOpen, world
  <2>2. phase' \notin Loop \cup {"resume"}
    BY <1>7, NextPhases DEF LoaderStep, Load, Relocate, ResolveImports,
       ResolveEntryPoints, Map, Protect, Flush, Construct, FreeTemp,
       TlsSetupGuard, ObbOpen, Done, DoneForModule, Fatal, Loop
  <2> QED
    BY <2>1, <2>2 DEF DisplayInv, display
<1>8. CASE UNCHANGED vars \/ Resume \/ LeaveLoop \/ UpdateKeys \/ UpdateTouch
           \/ Pace \/ WriteZeros \/ Leave
  <2>1. UNCHANGED <<config, screen, view>>
    BY <1>8 DEF vars, Resume, LeaveLoop, UpdateKeys, UpdateTouch, Pace,
       WriteZeros, Leave, world, settings, display
  <2>2. phase' \in Loop \cup {"resume"} => phase \in Loop \cup {"resume"}
    BY <1>8 DEF vars, Resume, LeaveLoop, UpdateKeys, UpdateTouch, Pace,
       WriteZeros, Leave, Loop
  <2> QED
    BY <1>1, <2>1, <2>2 DEF DisplayInv
<1> QED
  BY <1>2, <1>3, <1>4, <1>5, <1>6, <1>7, <1>8, NextCases DEF BootStep, LoaderStep

(* q is n / d, rounded. *)
Nearest(q, n, d) ==
  q \in Nat /\ 2 * (d * q) <= (2 * n) + d /\ (2 * n) + d < 2 * (d * q) + (2 * d)

LEMMA RoundedIs ==
  ASSUME NEW n \in Nat, NEW d \in {9, 16, 320, 480}
  PROVE  Nearest(Rounded(n, d), n, d)
<1> USE DEF Nearest
<1> DEFINE q == (2 * n + d) \div (2 * d)
<1>1. Rounded(n, d) = q
  BY DEF Rounded
<1>2. CASE d = 9
  BY <1>1, <1>2
<1>3. CASE d = 16
  BY <1>1, <1>3
<1>4. CASE d = 320
  BY <1>1, <1>4
<1>5. CASE d = 480
  BY <1>1, <1>5
<1> QED
  BY <1>2, <1>3, <1>4, <1>5

LEMMA HalfOf ==
  ASSUME NEW n \in Nat
  PROVE  n \div 2 \in Nat /\ n - 2 * (n \div 2) \in {0, 1}
OBVIOUS

(* One direction filled, the other rounded and centred. *)
LEMMA Fits ==
  ASSUME NEW full \in Nat \ {0}, NEW size \in Nat \ {0}, NEW across, NEW along,
         \/ across = 16 /\ along = 9
         \/ across = 9 /\ along = 16
         \/ across = 480 /\ along = 320
         \/ across = 320 /\ along = 480,
         full * across <= size * along
  PROVE  LET r == Rounded(full * across, along) IN
         /\ r \in Nat /\ r <= size
         /\ r * along - full * across \in Int
         /\ 2 * (r * along - full * across) <= along
         /\ 2 * (full * across - r * along) <= along
<1> DEFINE n == full * across
           r == Rounded(n, along)
<1>1. across \in Nat /\ along \in {9, 16, 320, 480} /\ n \in Nat
  OBVIOUS
<1>2. Nearest(r, n, along)
  <2> HIDE DEF n
  <2> QED
    BY <1>1, RoundedIs
<1> HIDE DEF r
<1>3. r <= size /\ r * along - full * across \in Int
           /\ 2 * (r * along - full * across) <= along
           /\ 2 * (full * across - r * along) <= along
  <2>1. CASE across = 16 /\ along = 9
    BY <1>2, <2>1 DEF Nearest
  <2>2. CASE across = 9 /\ along = 16
    BY <1>2, <2>2 DEF Nearest
  <2>3. CASE across = 480 /\ along = 320
    BY <1>2, <2>3 DEF Nearest
  <2>4. CASE across = 320 /\ along = 480
    BY <1>2, <2>4 DEF Nearest
  <2> QED
    BY <2>1, <2>2, <2>3, <2>4
<1> QED
  BY <1>2, <1>3 DEF Nearest, r

LEMMA ViewportIs ==
  ASSUME screen.w \in Nat \ {0}, screen.h \in Nat \ {0}, view = Viewport
  PROVE  /\ view.x >= 0 /\ view.y >= 0
         /\ view.w = screen.w \/ view.h = screen.h
         /\ screen.w - 2 * view.x - view.w \in {0, 1}
         /\ screen.h - 2 * view.y - view.h \in {0, 1}
         /\ LET skew == view.w * Aspect.h - view.h * Aspect.w IN
            Max({skew, -skew}) <= Max({Aspect.w, Aspect.h})
<1> DEFINE sw == screen.w
           sh == screen.h
           aw == Aspect.w
           ah == Aspect.h
<1>1. (aw = 16 /\ ah = 9) \/ (aw = 480 /\ ah = 320)
  BY DEF Aspect
<1>2. sw \in Nat \ {0} /\ sh \in Nat \ {0}
  OBVIOUS
<1>3. CASE Pillarboxed
  <2> DEFINE r == Rounded(sh * aw, ah)
  <2>1. view.x = (sw - r) \div 2 /\ view.y = 0 /\ view.w = r /\ view.h = sh
    BY <1>3 DEF Viewport
  <2>2. sh * aw <= sw * ah
    BY <1>1, <1>2, <1>3 DEF Pillarboxed
  <2> HIDE DEF sw, sh, aw, ah
  <2>3. /\ r \in Nat /\ r <= sw /\ r * ah - sh * aw \in Int
        /\ 2 * (r * ah - sh * aw) <= ah /\ 2 * (sh * aw - r * ah) <= ah
    BY <1>1, <1>2, <2>2, Fits
  <2> HIDE DEF r
  <2>4. sw - r \in Nat /\ (sw - r) \div 2 \in Nat /\ (sw - r) - 2 * ((sw - r) \div 2) \in {0, 1}
    BY <1>2, <2>3, HalfOf
  <2>5. sw - 2 * view.x - view.w \in {0, 1} /\ sh - 2 * view.y - view.h \in {0, 1}
    BY <1>2, <2>1, <2>3, <2>4
  <2> DEFINE skew == view.w * ah - view.h * aw
  <2>6. skew \in Int /\ skew <= ah /\ -skew <= ah
    BY <1>1, <1>2, <2>1, <2>3
  <2> HIDE DEF skew
  <2>7. Max({skew, -skew}) <= Max({aw, ah})
    BY <1>1, <2>6, MaxOfTwo
  <2> QED
    BY <2>1, <2>4, <2>5, <2>7 DEF sw, sh, aw, ah, skew
<1>4. CASE ~Pillarboxed
  <2> DEFINE r == Rounded(sw * ah, aw)
  <2>1. view.x = 0 /\ view.y = (sh - r) \div 2 /\ view.w = sw /\ view.h = r
    BY <1>4 DEF Viewport
  <2>2. sw * ah <= sh * aw
    BY <1>1, <1>2, <1>4 DEF Pillarboxed
  <2> HIDE DEF sw, sh, aw, ah
  <2>3. /\ r \in Nat /\ r <= sh /\ r * aw - sw * ah \in Int
        /\ 2 * (r * aw - sw * ah) <= aw /\ 2 * (sw * ah - r * aw) <= aw
    BY <1>1, <1>2, <2>2, Fits
  <2> HIDE DEF r
  <2>4. sh - r \in Nat /\ (sh - r) \div 2 \in Nat /\ (sh - r) - 2 * ((sh - r) \div 2) \in {0, 1}
    BY <1>2, <2>3, HalfOf
  <2>5. sw - 2 * view.x - view.w \in {0, 1} /\ sh - 2 * view.y - view.h \in {0, 1}
    BY <1>2, <2>1, <2>3, <2>4
  <2> DEFINE skew == view.w * ah - view.h * aw
  <2>6. skew \in Int /\ skew <= aw /\ -skew <= aw
    BY <1>1, <1>2, <2>1, <2>3
  <2> HIDE DEF skew
  <2>7. Max({skew, -skew}) <= Max({aw, ah})
    BY <1>1, <2>6, MaxOfTwo
  <2> QED
    BY <2>1, <2>4, <2>5, <2>7 DEF sw, sh, aw, ah, skew
<1> QED
  BY <1>3, <1>4

(* Lines 192-210 of jni_fake.c: for every screen set_screen_size can       *)
(* choose, the view lies on it, centred, and keeps the game's aspect to    *)
(* within a pixel.                                                         *)
THEOREM ViewFitsScreen == Spec => []ViewportFits
<1>1. Init => DisplayInv /\ SettingsInv
  <2>1. Init => DisplayInv
    BY DEF Init, Fresh, DisplayInv, FirstScreen, Loop
  <2> QED
    BY <2>1, SettingsInit
<1>2. DisplayInv => ViewportFits
  <2> SUFFICES ASSUME DisplayInv, phase \in Loop \cup {"resume"} PROVE ViewportFits
    BY DEF ViewportFits
  <2> QED
    BY ViewportIs DEF DisplayInv, ViewportFits
<1> QED
  BY <1>1, <1>2, SettingsStep, DisplayStep, PTL DEF Spec

-----------------------------------------------------------------------------
(* Types.                                                                  *)

LEMMA IntervalIsSmall == Interval \in 1..60
<1> DEFINE T == TargetFps
           q == 60 \div T
<1>1. T \in 1..120
  BY DEF TargetFps
<1> HIDE DEF T
<1>2. q \in Int /\ 60 = (T * q) + (60 % T) /\ 60 % T \in 0..(T - 1)
  BY <1>1
<1> HIDE DEF q
<1>3. q <= 60
  <2>1. CASE q > 60
    <3>1. T * q >= q
      BY <1>1, <1>2, <2>1
    <3> QED
      BY <1>1, <1>2, <2>1, <3>1
  <2> QED
    BY <1>2, <2>1
<1>4. Max({1, q}) = IF 1 >= q THEN 1 ELSE q
  BY <1>2, MaxOfTwo
<1>5. Max({1, q}) \in 1..60
  BY <1>2, <1>3, <1>4
<1> QED
  BY <1>5 DEF Interval, q, T

(* Of what TypeOK says, the parts no other invariant gives. *)
RestInv ==
  /\ keyMask \subseteq Range(KeyBit) /\ cont \subseteq Range(KeyBit)
  /\ eglInterval \in 0..60 /\ lastInterval \in 1..60
  /\ written \in 0..SaveSize

LEMMA RestStep == SaveInv /\ RestInv /\ [Next]_vars => RestInv'
<1> SUFFICES ASSUME SaveInv, RestInv, [Next]_vars PROVE RestInv'
  OBVIOUS
<1> USE DEF RestInv
<1>1. CASE EglInit
  BY <1>1 DEF EglInit, input, engine, saving
<1>2. CASE BootStep /\ ~EglInit
  <2>1. UNCHANGED eglInterval
    BY <1>2 DEF BootStep, ReadConfig, WriteConfig, SetScreenSize, Load,
       Relocate, ResolveImports, ResolveEntryPoints, Map, Protect, Flush,
       TlsSetupGuard, Construct, FreeTemp, ObbOpen, ComputeViewport, Resume,
       world, pacing
  <2> QED
    BY <1>2, <2>1, BootKeeps DEF input, engine, saving
<1>3. CASE UpdateKeys
  <2>1. keyMask' \subseteq Range(KeyBit)
    BY <1>3, MainAssumption DEF UpdateKeys, Range
  <2> QED
    BY <1>3, <2>1 DEF UpdateKeys, pacing, engine, saving
<1>4. CASE UpdateTouch
  BY <1>4 DEF UpdateTouch, TouchArrives, pacing, saving
<1>5. CASE Pace
  BY <1>5, IntervalIsSmall DEF Pace, input, engine, saving
<1>6. CASE Render
  BY <1>6, MainAssumption DEF Render, input, saving
<1>7. CASE WriteZeros
  <2>1. written' \in 0..SaveSize
    BY <1>7, ChunkFits, MainAssumption DEF WriteZeros, saving
  <2> QED
    BY <1>7, <2>1 DEF WriteZeros, input, pacing, engine
<1>8. CASE LeaveLoop \/ Leave
  BY <1>8 DEF LeaveLoop, Leave, world, input, pacing, engine, saving
<1>9. CASE Restart
  BY <1>9, MainAssumption DEF Restart
<1>10. CASE UNCHANGED vars
  BY <1>10 DEF vars, input, pacing, engine, saving
<1> QED
  BY <1>1, <1>2, <1>3, <1>4, <1>5, <1>6, <1>7, <1>8, <1>9, <1>10, NextCases

(* Through restarts, failures and rewrites, what main.c, the loader of     *)
(* so_util.c and the two files hold keeps its shape; no module is listed   *)
(* twice, no image is larger or smaller than so_load made it.              *)
THEOREM ShapesHold == Spec => []TypeOK
<1>1. Init => BootInv /\ SettingsInv /\ SaveInv /\ RestInv
  <2>1. Init => SaveInv
    BY DEF Init, Fresh, SaveInv
  <2>2. Init => RestInv
    BY MainAssumption DEF Init, Fresh, RestInv
  <2> QED
    BY <2>1, <2>2, BootInit, SettingsInit
<1>2. BootInv /\ SettingsInv /\ SaveInv /\ RestInv => TypeOK
  <2> SUFFICES ASSUME BootInv, SettingsInv, SaveInv, RestInv PROVE TypeOK
    OBVIOUS
  <2>1. phase \in {BootOrder[k] : k \in DOMAIN BootOrder} \cup Loop \cup
          {"config", "writeConfig", "screen", "egl", "exited", "fatal"}
    <3>1. Booting \subseteq {BootOrder[k] : k \in 1..14}
      BY DEF Booting, BootOrder
    <3>2. DOMAIN BootOrder = 1..14
      BY DEF BootOrder
    <3> QED
      BY <3>1, <3>2 DEF BootInv, PlaceInv, Early
  <2>2. IsInjective(soList)
    BY DEF BootInv, SizesInv, IsInjective
  <2>3. DOMAIN config = DOMAIN Defaults
    BY DEF SettingsInv, Settings, Defaults
  <2>4. cur \in Mods /\ temp \subseteq Mods
    BY DEF BootInv, PlaceInv, ReadyInv
  <2>5. \A i \in Mods :
          /\ mem[i] # <<>> => DOMAIN mem[i] = 0..(LoadSize(prog[i]) - 1)
          /\ perm[i] # <<>> => perm[i] \in [Pages(i) -> {"fresh", "rx", "rw"}]
    BY DEF BootInv, SizesInv
  <2>6. save # NoFile => save.len \in 0..SaveSize
    BY DEF SaveInv, Files
  <2> QED
    BY <2>1, <2>2, <2>3, <2>4, <2>5, <2>6 DEF TypeOK, RestInv
<1>3. SaveInv /\ [Next]_vars => SaveInv'
  BY SaveStep
<1>4. BootInv /\ [Next]_vars => BootInv'
  BY BootStepHolds
<1> QED
  BY <1>1, <1>2, <1>3, <1>4, SettingsStep, RestStep, PTL DEF Spec
=============================================================================
