-------------------------------- MODULE Main --------------------------------
(***************************************************************************)
(* source/main.c from __libnx_initheap to __libnx_exit, over the loader of *)
(* SoLoader, with what it calls in config.c and the parts of jni_fake.c    *)
(* the main thread's frames depend on: the viewport, the key mask, setFPS, *)
(* appEnd and createSaveFile.  The program may be killed at any step and   *)
(* started again; config.txt and save.bin are all that lasts.              *)
(*                                                                         *)
(* main.c loads one module.  With several (so_util.c 8-11) each loader     *)
(* step is made for all of them, in load order, before the next.  The      *)
(* intro movie is MoviePlayer's subject, the archive Services'; both are   *)
(* steps here that only succeed or fail.                                   *)
(*                                                                         *)
(* An existing file that fails to open for reading may still open for      *)
(* writing (FailingOpens); a rewrite that falls short ends after a line.   *)
(* A heap that is not made of whole pages only comes from a host program   *)
(* that hands one over (envGetHeapOverrideSize).                           *)
(*                                                                         *)
(* External: the engine, whose render() gathers the key mask in cont and   *)
(* whose touch() clears it (comment at 200-203), and which makes at most   *)
(* one call back per frame.  A position is a point of the panel as seen in *)
(* the view of that moment; sizes of files and of the heap are small.      *)
(***************************************************************************)
EXTENDS SoLoader, Functions

CONSTANTS
  HeapSizes, MemoryCap,  \* heap sizes in words; MEMORY_MB
  SizeRange,             \* what a size_t counts to
  ConfigFiles,           \* what config.txt may hold: lines, or NoFile
  Boots,                 \* the programs, heaps and config.txt to try together
  NoFile, FailingOpens,  \* the files whose fopen for reading may fail
  EntryPoints,           \* the names main looks up in the engine
  Points, Origin,        \* of the touch panel; (0,0), where no finger is
  Buttons, KeyBit,       \* of the pad; the engine's bit for each
  Rates,                 \* arguments of setFPS
  SaveSize, Zeros        \* createSaveFile's size; the chunk it writes (4096)

(* The lines of config.txt: a name the program knows, or any other. *)
Names == {"screen_width", "screen_height", "widescreen", "language"}
Lines == [name : Names \cup STRING, value : Int]

ASSUME MainAssumption ==
  /\ MemoryCap \in Nat /\ MemoryCap % PageWords = 0
  /\ SizeRange \in Nat /\ HeapSizes \subseteq 0..(SizeRange - 1)
  /\ FailingOpens \subseteq {"config.txt", "save.bin"}
  /\ NoFile \notin Seq(Lines)
  /\ \A f \in ConfigFiles : f = NoFile \/ f \in Seq(Lines)
  /\ DOMAIN KeyBit = Buttons
  /\ SaveSize \in Nat /\ Zeros \in Nat
  /\ \A n \in 0..SaveSize, g \in BOOLEAN : [len |-> n, game |-> g] # NoFile

VARIABLES
  heap,          \* size of the heap libnx got
  phase, cur,    \* where main is, and at which module
  cfg, wanted,   \* config.txt, and what the user's own file said
  spoiled,       \* history: config.txt was cut off, or made from defaults
  config, screen, view, docked,
  guard,         \* tpidr_el0 points to a block with the canary
  keyMask, down, last,        \* g_key_mask, touch_down, touch_lx/ly
  target, lastInterval, eglInterval, quit,
  cont, contacts,             \* engine: gathered keys; arguments of touch()
  save, written, interrupted  \* save.bin, bytes to go; history of its making

platform == <<heap, docked>>
settings == <<cfg, wanted, spoiled, config>>
display == <<screen, view>>
input == <<keyMask, down, last>>
pacing == <<target, lastInterval, eglInterval>>
engine == <<cont, contacts>>
saving == <<save, written, interrupted>>
vars == <<loader, platform, phase, cur, settings, display, guard, input,
          pacing, quit, engine, saving>>

-----------------------------------------------------------------------------
(* __libnx_initheap: newlib's heap first, the rest for the load buffer.    *)
FakeHeap == Min({heap, MemoryCap})
\* Mutant: the part newlib has is not taken off.
HeapSoLimitWhole == heap
(* A difference of size_t, which wraps below zero. *)
HeapSoLimit == (heap - AlignUp(FakeHeap)) % SizeRange

(* read_config: defaults, then each line in turn; a name the program knows *)
(* no more asks for the file to be written anew, as does its absence.      *)
Defaults == [screen_width |-> -1, screen_height |-> -1, widescreen |-> 0,
             language |-> 3]
Retired == {"touchscreen", "controller_cursor", "show_fps"}
ParseVar(c, line) ==
  IF line.name \in DOMAIN c THEN [c EXCEPT ![line.name] = line.value] ELSE c
Parsed(file) ==
  IF file = NoFile THEN Defaults ELSE FoldLeft(ParseVar, Defaults, file)
NeedsRewrite(file) ==
  file # NoFile => \E k \in DOMAIN file : file[k].name \in Retired

\* Mutant: the language is not written.
ConfigTextShort(c) ==
  <<[name |-> "screen_width", value |-> c.screen_width],
    [name |-> "screen_height", value |-> c.screen_height],
    [name |-> "widescreen", value |-> c.widescreen]>>
(* What write_config prints. *)
ConfigText(c) ==
  <<[name |-> "screen_width", value |-> c.screen_width],
    [name |-> "screen_height", value |-> c.screen_height],
    [name |-> "widescreen", value |-> c.widescreen],
    [name |-> "language", value |-> c.language]>>

(* set_screen_size *)
ScreenSize(w, h) ==
  IF w <= 0 \/ h <= 0 \/ w > 1920 \/ h > 1080
  THEN IF docked THEN [w |-> 1920, h |-> 1080] ELSE [w |-> 1280, h |-> 720]
  ELSE [w |-> w, h |-> h]

Aspect == IF config.widescreen # 0 THEN [w |-> 16, h |-> 9]
                                   ELSE [w |-> 480, h |-> 320]
Rounded(n, d) == (2 * n + d) \div (2 * d)
\* Mutant: the comparison of the aspects is turned round.
PillarboxedWrong == screen.w * Aspect.h < screen.h * Aspect.w
(* The screen is wider than the game: bars to its left and right. *)
Pillarboxed == screen.w * Aspect.h >= screen.h * Aspect.w
(* jni_compute_viewport *)
Viewport ==
  LET w == IF Pillarboxed THEN Rounded(screen.h * Aspect.w, Aspect.h) ELSE screen.w
      h == IF Pillarboxed THEN screen.h ELSE Rounded(screen.w * Aspect.h, Aspect.w)
  IN [x |-> IF Pillarboxed THEN (screen.w - w) \div 2 ELSE 0,
      y |-> IF Pillarboxed THEN 0 ELSE (screen.h - h) \div 2, w |-> w, h |-> h]

-----------------------------------------------------------------------------
FirstScreen == [w |-> 1280, h |-> 720]
FirstView == [x |-> 0, y |-> 0, w |-> 1280, h |-> 720]

(* The memory of a program that starts. *)
Fresh ==
  /\ phase = "config" /\ cur = 1 /\ guard = FALSE /\ config = Defaults
  /\ screen = FirstScreen /\ view = FirstView
  /\ keyMask = {} /\ down = FALSE /\ last = Origin
  /\ target = 60 /\ lastInterval = 1 /\ eglInterval = 0 /\ quit = FALSE
  /\ cont = {} /\ contacts = <<>> /\ written = 0

Init ==
  /\ LoaderInit /\ Fresh
  /\ heap \in HeapSizes /\ docked \in BOOLEAN
  /\ cfg \in ConfigFiles /\ <<prog, heap, cfg>> \in Boots
  /\ wanted = Parsed(cfg) /\ spoiled = FALSE
  /\ save = NoFile /\ interrupted = FALSE

Running == phase \notin {"exited", "fatal"}

(* The program is killed and started again. *)
Restart ==
  /\ Running
  /\ LET empty == [i \in Mods |-> <<>>] IN
     /\ soList' = <<>> /\ temp' = {} /\ constructed' = {} /\ flushed' = {}
     /\ mem' = empty /\ perm' = empty /\ misread' = FALSE
  /\ phase' = "config" /\ cur' = 1 /\ guard' = FALSE /\ config' = Defaults
  /\ screen' = FirstScreen /\ view' = FirstView
  /\ keyMask' = {} /\ down' = FALSE /\ last' = Origin
  /\ target' = 60 /\ lastInterval' = 1 /\ eglInterval' = 0 /\ quit' = FALSE
  /\ cont' = {} /\ contacts' = <<>> /\ written' = 0
  /\ spoiled' = (spoiled \/ phase = "writeConfig")
  /\ interrupted' = (interrupted \/ phase = "saving")
  /\ docked' \in BOOLEAN
  /\ UNCHANGED <<prog, heap, cfg, wanted, save>>

(* The order of the calls main makes, from so_load on. *)
BootOrder ==
  <<"load", "relocate", "resolve", "entries", "map", "protect", "flush",
    "guard", "construct", "freeTemp", "obb", "viewport", "resume", "keys">>
NextPhase(p) == BootOrder[1 + CHOOSE k \in 1..(Len(BootOrder) - 1) : BootOrder[k] = p]

(* The end of a step of the boot; modules are taken one after the other. *)
Done == phase' = NextPhase(phase) /\ cur' = 1
DoneForModule ==
  IF cur < Len(prog) THEN cur' = cur + 1 /\ UNCHANGED phase ELSE Done
Fatal == phase' = "fatal" /\ UNCHANGED cur

world == <<platform, settings, display, guard, input, pacing, quit, engine,
           saving>>

(* What an fopen for reading finds: the file, or nothing. *)
Found(name, file) == IF name \in FailingOpens THEN {file, NoFile} ELSE {file}

(* read_config, and the fopen of write_config, which truncates the file or *)
(* fails.  A file that was not opened is taken for one that is not there.  *)
ReadConfig ==
  /\ phase = "config"
  /\ \E file \in Found("config.txt", cfg) :
       /\ config' = Parsed(file)
       /\ \/ /\ NeedsRewrite(file)
             /\ phase' = "writeConfig" /\ cfg' = <<>>
             /\ spoiled' = (spoiled \/ file # cfg)
          \/ phase' = "screen" /\ UNCHANGED <<cfg, spoiled>>
  /\ UNCHANGED <<loader, platform, cur, wanted, display, guard, input,
                 pacing, quit, engine, saving>>

(* Nobody asks whether the text reached the card. *)
WriteConfig ==
  /\ phase = "writeConfig"
  /\ \E n \in 0..Len(ConfigText(config)) :
       /\ cfg' = SubSeq(ConfigText(config), 1, n)
       /\ spoiled' = (spoiled \/ n < Len(ConfigText(config)))
  /\ phase' = "screen"
  /\ UNCHANGED <<loader, platform, cur, wanted, config, display, guard,
                 input, pacing, quit, engine, saving>>

(* check_syscalls and check_data may end the program. *)
SetScreenSize ==
  /\ phase = "screen"
  /\ \/ /\ screen' = ScreenSize(config.screen_width, config.screen_height)
        /\ phase' = "egl"
     \/ phase' = "fatal" /\ UNCHANGED screen
  /\ UNCHANGED <<loader, platform, cur, settings, view, guard, input, pacing,
                 quit, engine, saving>>

(* egl_init; the intro movie follows. *)
EglInit ==
  /\ phase = "egl"
  /\ \/ eglInterval' = 1 /\ phase' = "load"
     \/ phase' = "fatal" /\ UNCHANGED eglInterval
  /\ UNCHANGED <<loader, platform, cur, settings, display, guard, input,
                 target, lastInterval, quit, engine, saving>>

Load ==
  /\ phase = "load"
  /\ \/ SoLoad(cur, HeapSoLimit) /\ DoneForModule
     \/ SoLoadFails(cur, HeapSoLimit) /\ Fatal
  /\ UNCHANGED world

Relocate ==
  /\ phase = "relocate"
  /\ \/ SoRelocate(cur) /\ DoneForModule
     \/ SoRelocateFatal(cur) /\ Fatal
  /\ UNCHANGED world

ResolveImports == phase = "resolve" /\ SoResolve(cur) /\ DoneForModule /\ UNCHANGED world

(* resolve_entry_points, all in the last module, by so_find_addr_rx, which *)
(* does not return without an address: main's own test never fails.        *)
ResolveEntryPoints ==
  /\ phase = "entries"
  /\ Reads({}, {Len(prog)})
  /\ IF \A name \in EntryPoints : HasSymbol(Len(prog), name) THEN Done ELSE Fatal
  /\ UNCHANGED <<prog, soList, temp, mem, perm, flushed, constructed, world>>

(* so_finalize; each of its system calls may fail, and is fatal then. *)
Map ==
  /\ phase = "map"
  /\ \/ MapCode(cur) /\ phase' = NextPhase(phase) /\ UNCHANGED cur
     \/ UNCHANGED loader /\ Fatal
  /\ UNCHANGED world
Protect ==
  /\ phase = "protect"
  /\ \/ /\ SetPermission(cur)
        /\ IF ~LastRun(cur) THEN UNCHANGED <<phase, cur>>
           ELSE IF cur < Len(prog) THEN phase' = "map" /\ cur' = cur + 1
           ELSE Done
     \/ UNCHANGED loader /\ Fatal
  /\ UNCHANGED world

Flush == phase = "flush" /\ SoFlushCaches(cur) /\ DoneForModule /\ UNCHANGED world

TlsSetupGuard ==
  /\ phase = "guard" /\ guard' = TRUE /\ Done
  /\ UNCHANGED <<loader, platform, settings, display, input, pacing, quit,
                 engine, saving>>

Construct ==
  phase = "construct" /\ SoExecuteInitArray(cur) /\ DoneForModule /\ UNCHANGED world
FreeTemp == phase = "freeTemp" /\ SoFreeTemp(cur) /\ DoneForModule /\ UNCHANGED world

(* obb_open *)
ObbOpen ==
  /\ phase = "obb" /\ (Done \/ Fatal)
  /\ UNCHANGED <<loader, world>>

ComputeViewport ==
  /\ phase = "viewport" /\ view' = Viewport /\ Done
  /\ UNCHANGED <<loader, platform, settings, screen, guard, input, pacing,
                 quit, engine, saving>>

(* e_resume and e_setViewport *)
Resume == phase = "resume" /\ Done /\ UNCHANGED <<loader, world>>

-----------------------------------------------------------------------------
(* One turn of the loop.  appletMainLoop may answer FALSE at any of them.  *)
LeaveLoop ==
  /\ phase = "keys" /\ phase' = "leaving"
  /\ UNCHANGED <<loader, cur, world>>

(* update_keys: d-pad and stick share the bits of the directions. *)
UpdateKeys ==
  /\ phase = "keys" /\ ~quit
  /\ \E held \in SUBSET Buttons : keyMask' = {KeyBit[b] : b \in held}
  /\ phase' = "touch"
  /\ UNCHANGED <<loader, platform, cur, settings, display, guard, down, last,
                 pacing, quit, engine, saving>>

(* norm_in_view *)
Norm(p) == [at |-> p, within |-> view]
Contact(n, p, q) == [count |-> n, first |-> p, second |-> q]

\* Mutant: the engine is not called while no finger is down.
TouchArrivesSeldom(c) ==
  IF c.count > 0 \/ down THEN contacts' = <<c>> /\ cont' = {} ELSE UNCHANGED engine
(* The engine's touch() keeps its arguments and clears the gathered keys. *)
TouchArrives(c) == contacts' = <<c>> /\ cont' = {}

\* Mutant: the last position is only kept when the finger comes down.
LastPointFirst(ps) == IF ps = <<>> \/ down THEN last ELSE Norm(ps[1])
LastPoint(ps) == IF ps = <<>> THEN last ELSE Norm(ps[1])

(* update_touch: a release is reported where the last finger was. *)
UpdateTouch ==
  /\ phase = "touch"
  /\ \E ps \in SeqOf(Points, 2) :
       /\ down' = (ps # <<>>)
       /\ last' = LastPoint(ps)
       /\ TouchArrives(
            IF ps # <<>>
            THEN Contact(Len(ps), Norm(ps[1]), Norm(ps[Len(ps)]))
            ELSE IF down THEN Contact(0, last, last)
                 ELSE Contact(0, Origin, Origin))
  /\ phase' = "pace"
  /\ UNCHANGED <<loader, platform, cur, settings, display, guard, keyMask,
                 pacing, quit, saving>>

(* jni_get_target_fps *)
TargetFps == IF target \in 1..120 THEN target ELSE 60
Interval == Max({1, 60 \div TargetFps})
\* Mutant: the interval is only ever raised.
ChangesRaised == Interval > lastInterval
Changes == Interval # lastInterval

Pace ==
  /\ phase = "pace"
  /\ IF Changes THEN lastInterval' = Interval /\ eglInterval' = Interval
                ELSE UNCHANGED <<lastInterval, eglInterval>>
  /\ phase' = "render"
  /\ UNCHANGED <<loader, platform, cur, settings, display, guard, input,
                 target, quit, engine, saving>>

\* Mutant: the file is made anew whether or not it is there.
KeepsSaveNever == FALSE
(* ensure_save_file finds the file, if it can open it. *)
KeepsSave == save # NoFile

(* render() gathers the keys, and may call into call_void: setFPS, appEnd, *)
(* updateViewportSize, createSaveFile; or it saves the game.  (setLanguage *)
(* is Services': config is not written again, so nothing here reads it.)   *)
(* A createSaveFile that cannot open the file changes nothing.             *)
Render ==
  /\ phase = "render"
  /\ cont' = cont \cup keyMask
  /\ \/ /\ phase' = "keys"
        /\ target' \in Rates \cup {target} /\ quit' \in BOOLEAN /\ (~quit \/ quit')
        /\ view' \in {view, Viewport}
        /\ UNCHANGED <<config, saving>>
     \/ /\ phase' = "keys" /\ save # NoFile
        /\ save' = [save EXCEPT !.game = TRUE]
        /\ UNCHANGED <<config, view, target, quit, written, interrupted>>
     \/ /\ ~KeepsSave \/ "save.bin" \in FailingOpens
        /\ phase' = "saving" /\ save' = [len |-> 0, game |-> FALSE]
        /\ written' = 0 /\ interrupted' = FALSE
        /\ UNCHANGED <<config, view, target, quit>>
  /\ UNCHANGED <<loader, platform, cur, cfg, wanted, spoiled, screen, guard,
                 input, lastInterval, eglInterval, contacts>>

\* Mutant: every write is a whole chunk.
ChunkWhole == Zeros
Chunk == Min({SaveSize - written, Zeros})

(* The loop of ensure_save_file; a write may fall short and nobody asks.   *)
WriteZeros ==
  /\ phase = "saving"
  /\ IF written >= SaveSize THEN phase' = "keys" /\ UNCHANGED saving
     ELSE /\ written' = written + Chunk
          /\ \E n \in 0..Chunk :
               /\ save' = [save EXCEPT !.len = @ + n]
               /\ interrupted' = (interrupted \/ n < Chunk)
          /\ UNCHANGED phase
  /\ UNCHANGED <<loader, platform, cur, settings, display, guard, input,
                 pacing, quit, engine>>

(* pause(), release(), opensles_shutdown, egl_deinit, obb_close, exit *)
Leave ==
  /\ phase = "leaving" /\ phase' = "exited"
  /\ UNCHANGED <<loader, cur, world>>

Step ==
  \/ ReadConfig \/ WriteConfig \/ SetScreenSize \/ EglInit \/ Load
  \/ Relocate \/ ResolveImports \/ ResolveEntryPoints \/ Map \/ Protect
  \/ Flush \/ TlsSetupGuard \/ Construct \/ FreeTemp \/ ObbOpen
  \/ ComputeViewport \/ Resume \/ LeaveLoop \/ UpdateKeys \/ UpdateTouch
  \/ Pace \/ Render \/ WriteZeros \/ Leave
Next == Step \/ Restart
Spec == Init /\ [][Next]_vars

-----------------------------------------------------------------------------
(* Properties.                                                             *)

Loop == {"keys", "touch", "pace", "render", "saving", "leaving"}
EngineRuns == Loop \cup {"construct", "freeTemp", "obb", "viewport", "resume"}

(* The shapes of what main, the loader and the two files hold. *)
TypeOK ==
  /\ phase \in {BootOrder[k] : k \in DOMAIN BootOrder} \cup Loop \cup
       {"config", "writeConfig", "screen", "egl", "exited", "fatal"}
  /\ cur \in Mods /\ temp \subseteq Mods /\ IsInjective(soList)
  /\ \A i \in Mods : /\ mem[i] # <<>> => DOMAIN mem[i] = 0..(LoadSize(prog[i]) - 1)
                     /\ perm[i] # <<>> => perm[i] \in [Pages(i) -> {"fresh", "rx", "rw"}]
  /\ DOMAIN config = DOMAIN Defaults
  /\ keyMask \subseteq Range(KeyBit) /\ cont \subseteq Range(KeyBit)
  /\ eglInterval \in 0..60 /\ lastInterval \in 1..60
  /\ save # NoFile => save.len \in 0..SaveSize
  /\ written \in 0..SaveSize

(* When engine code runs, constructors first, every word of every module   *)
(* is what its segments, relocations and imports say it is, a page is      *)
(* executable if and only if code lies on it and writable otherwise, the   *)
(* caches know, and the canary that the code reads is there (main 369-372).*)
EngineSeesFinishedImage ==
  phase \in EngineRuns =>
    /\ guard
    /\ \A i \in Mods :
         /\ i \in flushed
         /\ \A a \in DOMAIN mem[i] : mem[i][a] = FinishedWord(i, a)
         /\ \A pg \in Pages(i) :
              perm[i][pg] = IF HoldsCode(i, pg) THEN "rx" ELSE "rw"

(* The loader reads no file image that has been freed, no load buffer the  *)
(* mapping has locked out (main 359-361), and puts no image where it would *)
(* overlap newlib's heap or the end of the heap (main 64-70), if the heap  *)
(* is made of whole pages or reaches MEMORY_MB.  Otherwise the page that   *)
(* main.c:68 rounds up to lies beyond the heap, the limit wraps in line    *)
(* 69, and so_load takes any image.                                        *)
LoaderStaysInItsMemory ==
  /\ ~misread
  /\ heap % PageWords = 0 \/ heap >= MemoryCap =>
       \A i \in Mods : mem[i] # <<>> =>
         AlignUp(FakeHeap) + LoadSize(prog[i]) <= heap

(* The kernel refuses to make written pages executable (so_util 64-68):    *)
(* the permission of a page is set once, from the state the mapping left.  *)
PermissionOnce ==
  [][\A i \in Mods : perm[i] # <<>> /\ perm'[i] # <<>> =>
       \A pg \in Pages(i) : perm'[i][pg] # perm[i][pg] => perm[i][pg] = "fresh"]_vars

(* Whatever restarts and rewrites there are, config.txt says what the      *)
(* user's own file said, unless a rewrite was cut off or fell short        *)
(* (config 92-100), or began because the file there was not opened (config *)
(* 55-57, main 325-326).                                                   *)
SettingsKept == phase # "writeConfig" /\ ~spoiled => Parsed(cfg) = wanted

(* The view lies on the screen, fills it in one direction, is centred and  *)
(* has the game's aspect to within a pixel (jni_fake 192-210).             *)
ViewportFits ==
  phase \in Loop \cup {"resume"} =>
    /\ view.x >= 0 /\ view.y >= 0
    /\ view.w = screen.w \/ view.h = screen.h
    /\ screen.w - 2 * view.x - view.w \in {0, 1}
    /\ screen.h - 2 * view.y - view.h \in {0, 1}
    /\ LET skew == view.w * Aspect.h - view.h * Aspect.w IN
       Max({skew, -skew}) <= Max({Aspect.w, Aspect.h})

(* After a frame the engine has gathered the keys held now and no key of   *)
(* an earlier frame: "held directions latch" otherwise (main 200-203).     *)
NoLatchedKeys == phase \in {"keys", "saving"} => cont = keyMask

(* The engine hears of a release at the position it last heard a touch at  *)
(* (main 225-229).                                                         *)
ReleaseAtLastPress ==
  [][\A c \in ToSet(contacts), d \in ToSet(contacts') :
       c.count > 0 /\ d.count = 0 => d.first = c.first]_contacts

(* When a frame is rendered the display is paced at the rate of the last   *)
(* setFPS, if vertical blanks allow it (main 399-413).                     *)
RateMatchesTarget ==
  phase = "render" /\ 60 % TargetFps = 0 => eglInterval * TargetFps = 60

(* A save file is never taken back: what the game stored stays, through    *)
(* restarts, and a file shorter than asked for comes only from a restart   *)
(* or a failed write while it was made (jni_fake 409-413).  This holds     *)
(* while an existing save.bin can be opened for reading; a createSaveFile  *)
(* that cannot, but can open it for writing, empties it.                   *)
SavesKept ==
  /\ [][save # NoFile /\ save.game => save' # NoFile /\ save'.game]_save
  /\ [](phase # "saving" /\ save # NoFile /\ ~interrupted => save.len = SaveSize)
=============================================================================
