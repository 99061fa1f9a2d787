# Verification of ff4tay_nx

TLA+ models, TLC runs and TLAPS proofs for the Nintendo Switch wrapper of
*Final Fantasy IV: The After Years* (`source/*.c`). The wrapper loads the
Android engine `libff4a.so` and plays Android to it: JNI, OpenSL ES, bionic,
the asset manager and, before all that, an intro movie. The engine is not part
of the repository; its behaviour enters as an external client, and each module's
header says what is assumed of it.

## Inventory

| Part | State | Operations | Module |
| --- | --- | --- | --- |
| Buffer-queue players (`opensles.c` 168-353, 480-684) | `g_players`, `g_reg_lock`, `g_dev`; per player the ring `q`, `cur`, `playing`, `cb`, `lock` | create, Destroy, Enqueue, Clear, RegisterCallback, SetPlayState, audio callback | `OpenSLES` |
| Movie sound (`opensles.c` 221-230, 286-306, 360-476, 755-767) | `g_movie_*` ring and counters, ownership of the device | begin, queue, set_paused, readings, end, shutdown, mix_movie | `MovieAudio` |
| Movie player (`movie_player.c`, `main.c` 277-302) | `mp`: flags, ring of video frames, clock | play, is_playing, render, stop, decoder thread | `MoviePlayer` |
| JNI references (`jni_fake.c` 61-134, 415-507) | `locals`, `frames`, one lock | register, Delete/New refs, Push/PopLocalFrame | `JniLocals` |
| Asset calls of the engine (`jni_fake.c` 215-330), OBB reader (`obb.c`), AAssets (`libc_shim.c`) | archive file and its position, `g_lock`, language, open assets | loadFile, loadSound, setLanguage, AAsset open/read/seek/close, obb_open, obb_close | `Services` |
| ELF loader (`so_util.c`) | list of modules, load buffer, page permissions | load, relocate, resolve, finalize, flush, construct, look up | `SoLoader` |
| Main, configuration, saves, viewport, keys (`main.c`, `config.c`, `jni_fake.c`) | heap split, `config.txt`, `save.bin`, touch and key state, swap interval | boot order, loop, read and write config, createSaveFile, setFPS | `Main` |
| pthread shims (`imports.c` 89-210, `libc_shim.c` 764-791) | one word of engine memory per mutex, condition, rwlock, once | init, lock, wait, broadcast, once, create, destroy | `PthreadShim` |
| Other libc shims, text, errors, utilities | none that matters | translations, rendering, messages | not modelled |

How they interact: the main thread runs the boot (loader, archive, movie) and
then the engine's frames; the engine's worker threads come in through JNI,
OpenSL ES, AAssets and pthreads; SDL's audio thread mixes the movie and the
players and calls back into the engine; the movie has a decoder thread. What is
shared: the audio device (movie and players), the one archive file, the one
table of JNI references, `config.language`, the key mask.

What is hard: three kinds of threads meet in the sound code with four locks and
several unlocked reads; the callback re-enters the file it was called from; the
movie ends by three unsynchronised observations; references of all threads share
one table and one stack of marks; native locks are made lazily without a lock
around the making; a kill may cut off a rewrite of `config.txt` or the making of
a save; the loader's steps depend on an order nothing but `main` keeps.
`PROJECT.json` lists every hazard at its line.

What makes each part correct:

* players: the audio thread never touches a dead player, buffers play in order and once, nobody waits in a circle;
* movie sound: the ring holds exactly the unplayed frames, the device returns to its state before the movie;
* movie player: frames in order, nothing freed under the decoder, stop always ends, the movie ends only at its end and does end;
* references: freed once, not early, not never;
* services: each request gets its own first candidate although all share one file position;
* loader: engine code runs only over a finished image, and the loader stays in its memory;
* main: settings and saves survive restarts, keys do not latch, releases match presses, pacing follows the last request;
* pthread shims: locks exclude, no sleeper is left behind, an initialiser runs once, calls return.

## Modules

| Module | What it is |
| --- | --- |
| `OpenSLES` | players, registry and audio thread in full interleaving |
| `BufferQueue` | what a buffer-queue player promises; `OpenSLES` implements it under the mapping `Contract` |
| `MovieAudio` | the movie's PCM ring and the device |
| `MoviePlayer` | main thread, decoder and clock, composed with `MovieAudio` (`A!...`) |
| `JniLocals` | the reference table against the JNI contract |
| `Services` | archive, asset calls and assets, composed with `JniLocals` (extends it) |
| `SoLoader` | the loader's steps over images of words |
| `Main` | `main.c` over `SoLoader`, with configuration, saves and input |
| `PthreadShim` | words, native objects and the calls between them |
| `*Proofs` | inductive invariants and theorems: `OpenSLESProofs`, `OpenSLESRefinement` (extends it), `MoviePlayerProofs`, `JniLocalsProofs`, `ServicesProofs` (extends it), `SoLoaderProofs`, `MainProofs` (extends it), `PthreadShimProofs` |
| `MC*` | constants and bounds for TLC |

### OpenSLES

A step of the audio thread is one piece of `audio_callback`/`mix_player` that
another thread can observe: `apc` names the place (`head` is the test at line
249, `cbWait`/`cbBody` the engine's callback, `pop` the locked section,
`install` lines 266-268, `sample` 271-282). `plock[p]` is held across steps
only by Clear, whose two halves surround the mixer's unlocked use of `cur`;
every other locked section is one step. `life[p]` follows an address from
`calloc` to `free`: `new` (not yet registered), `live`, `dying` (Destroy
called), `unlinked`, `free`. A buffer is its length in frames; gain, channels
and sample values are abstracted. `playing` and `cb`, which the mixer reads
without the lock, change in single steps.

External: the engine's sound mutex `em`, which the comment at lines 238-242
describes, and a callback that enqueues at most one buffer. Engine threads use
a player only while it is live, and destroy it only when no other thread is
inside a call on it, as OpenSL ES demands; they register a callback or take it
back (NULL) at any time. `EngineClears` and
`LifecycleUnderMutex` say what else the engine does. SDL's refusal to open a
second device is modelled with the overwritten handle.

### MovieAudio and MoviePlayer

A PCM frame is its serial number, so order, loss and repetition are visible and
samples are not. `mix_movie` is cut between its test of `g_movie_lock` and the
lock. `MoviePlayer` cuts `movie_clock` at each of its three readings, the end
of `decoder_main` at each of its three unlocked stores, and `movie_stop` at
each call. Files are sequences of video frames and sound packets in
demultiplexing order; a failing open, codec, resampler or thread creation is a
nondeterministic outcome. Time is counted in sound frames, and video frame k is
due at `(k-1)*VDUR`. `movie_pause` and `movie_resume` have no caller in the
repository and are left out. A surface lost, a button pressed and the system's
exit request are one action, `Quit`: all three lead to `movie_stop`. After
the last session the main thread may run `opensles_shutdown` to its end.

### JniLocals and Services

The table, its top and the marks are the code's; `owner`, `level` and
`globals` (how many global references an object has) record what JNI promises
for each reference and are not read by the modelled calls. `level` is reset when
an object's memory is given out again. Stale slots above the top keep their
contents, as in the code. `NewLocalRef` makes a local reference to a promoted
object; a second local reference to an object that has one is left out, since
`owner` knows only one.

JNI allows more than the registry can stand. Which of the dangerous uses the
engine makes is a matter of constants: `FrameUsers`, the threads that push and
pop frames; `MaxGlobals`, how many global references it holds to one object;
and `Habits`: `"outer"`, it deletes or promotes references of outer frames;
`"return"`, a promoted reference is the result of `PopLocalFrame`; `"early"`, it
deletes a global reference before the local one it was made from. The run
`services` has no habit and one global reference to an object; what goes wrong
otherwise is said under *Violated statements*.

`Services` adds the callers of the registry: `loadFile` and `loadSound` try
a list of candidate paths, each look-up, seek and read under `g_lock` in steps
of its own, and return a registered reference. `fpos` is the position of the one
file; between two users it is wherever the last one left it, shown as 0,
so that a read without a seek gets nothing. A blob is encrypted with its
offset, so a read from a wrong position does not inflate: that is what the
model keeps of zlib and the cipher. Assets are memory copies of a blob or plain
files. A language out of range counts as English, as at `jni_fake.c` 257.

### SoLoader and Main

Memory is words of 8 bytes; a word is a number, an address in a module or a
native function. `FinishedWord` says what each word should be from segments,
relocations and imports alone; the code's `so_relocate` and `so_resolve` are the
sequence of writes they make, RELR with its bitmaps included. `so_finalize`
works through the pages run by run. `main.c` loads one module; the header of
`so_util.c` (lines 8-11) promises several, so the runs also load a donor that
defines what the game imports, each step made for all modules before the next.

`Main` is the boot order as one `phase`, with a fatal exit where the code has
one, then the loop: keys, touch, pacing, one render. The engine's side is small:
`render` gathers the key mask and makes at most one call back. The program may
be killed at any step and restarted; `config.txt` and `save.bin` last,
`save.bin` grows chunk by chunk, and `config.txt` is empty between the `fopen`
that truncates it and the `fclose` that flushes the few lines. No result of a
write is looked at, so a save may stay short and a rewritten `config.txt` may
end after any of its lines. `FailingOpens` names the files that may exist and
still not open for reading; `read_config` and `ensure_save_file` take such a file
for absent and overwrite it. `spoiled` and `interrupted` record that a file was
cut off, fell short or was made from defaults in this way. `HeapSoLimit` is the
difference of `size_t` at `main.c:69`, modulo `SizeRange`: it wraps for a heap
below `MEMORY_MB` that is not made of whole pages.

### PthreadShim

A call is a test of the word, an allocation, a store and the native call, each
a step; `pthread_mutex_init`, `pthread_cond_init` and the two destroys are calls
too. Threads run scripts of calls. The engine is assumed disciplined where the
code relies on it (`Entitled`, `Untouched`, `Quiet`, `LastUse` in the module): it
unlocks what it holds, nests only recursive mutexes, uses a condition under its
mutex, initialises and destroys objects nobody else uses. Nothing in the code
keeps two first calls on one mutex or rwlock apart (`imports.c` 121-143,
`libc_shim.c` 764-771): `FirstUsesApart` says whether the engine does, and the
run `contended` shows what happens when it does not. First calls on a
*condition* are not assumed apart, its mutex keeps them so. `Offer` is the
allocator; giving the lowest free address back first makes reuse happen at once.

## Runs

| Run | Question | Bounds |
| --- | --- | --- |
| `players` | life cycle of players against the mixer | 2 threads, 2 players, 1 registry slot, 1 buffer, ring of 2 |
| `queue` | refinement and liveness of one queue | 1 thread, 2 buffers (shorter and longer than a period), ring of 3, period 2 |
| `clear` | can Clear pull a buffer from under the mixer (violated) | as `queue`, ring of 2 |
| `nested` | can the callback's mutex close a cycle (violated) | 1 thread, 2 players |
| `movie` | safety of player, sound path and shutdown | all files of up to 3 units, 2 sessions, 2 video slots, PCM ring 4, period 2, packets of 3; 4.6 million states |
| `movielive` | does stop end, does the movie end, does queueing return | 1 video slot, PCM ring 2, period 1, packets of 2; files of 4 units with at most one sound packet, of 3 with two |
| `shutdown` | is `g_movie_lock` alive when mixed (violated) | ring 4, period 2, packets 1, 3, 5, at most 8 frames queued |
| `services` | shared archive and registry | 1 loader thread, 1 reader, 3 references, table of 2, 2 marks, no habit, 3 blobs, 1 plain file, languages ja and one out of range |
| `boot` | heap, loader, configuration, input, pacing, saves, restarts | 7 programs, pages of 4 words, bitmaps of 2, heaps of 24, 26 and 60 words with a cap of 28, sizes modulo 256, 4 config files, 2 touch points, 2 buttons on one bit, rates 20 and 200, saves of 3 with chunks of 2, every file that exists opens |
| `pthread` | locks, sleepers, once, termination | 3 threads, 2 mutexes (one statically recursive), 1 condition, 1 rwlock, 1 once word, 5 addresses, 2 scripts per thread, `FirstUsesApart` |
| `contended` | do locks exclude when first calls on one overlap (violated) | as `pthread`, without `FirstUsesApart` |
| `workers` | two threads, one pushing frames (violated) | 2 threads, 4 objects, table of 3, 2 marks, no habit |

Six configurations beside the runs can be given to TLC by hand. Two hold:
`loaders.cfg` (`MCServices`: `RegistrySound` with two loader threads and no
frames) and `settings.cfg` (`MCMain`: `SettingsKept` with a `config.txt` that may
fail to open). Four end in a counterexample, described below: `promote.cfg`,
`popglobal.cfg`, `early.cfg` (`MCJniLocals`) and `remake.cfg` (`MCMain`).

Why these bounds are enough: one registry slot is both the full and the
reused registry, and two threads with two players give every pair of creator,
destroyer and mixer; a ring of 3 slots (2 usable) wraps and fills, and a buffer
longer than a period spans two callbacks; packets of 3 wrap a PCM ring of 4 at
every offset and do not fit behind each other; three units hold every order of
frames and sound around an underrun and a full video ring, and the second session
meets everything the first leaves behind; four units on one slot reach the jam
between decoder, clock and ring, two packets on a ring of two make the decoder
wait for room. A table of two fills with the third object; a blob that exists
in ja and en, one in en only and one shared give every length of the candidate
list. Heaps of 24 and 60 words lie on both sides of the cap, the small one
is too small for the program, and 26 words are no whole pages; the programs have a gap between segments, cleared
data, every relocation type, an unknown one, an import found nowhere, a missing
entry point, two code runs, a donor, no symbol table. Two buttons on one bit are
what makes a key mask a union. Two waiters on one condition, a recursive
nest and a destroy with reuse of the address occur in the scripts. What the
theorems cover they cover for every size.

`MaxQueued`, `MaxTick`, `MaxSessions`, `MaxUnits`, `MaxDepth` and `AssetSize`
are bounds of the models, not of the code. `shutdown` and `boot` turn deadlock
checking off because the program exits, `services` because the archive is
closed and its threads stop, `pthread` and `contended` because scripts end (the
further configurations of the same modules for the same reasons).

`NaturalEndIsTheEnd` holds although the three observations are not taken
together because of an order: the decoder sets `decode_eof` after its last
queued frame, and both rings only drain from then on.

### Violated statements

Five statements of comments do not hold in the runs; each has a run with one
property and a finding in `PROJECT.json`: Clear touches `cur` (`clear`), the
engine's callback runs under `g_reg_lock` (`nested`), shutdown destroys
`g_movie_lock` before the device is closed (`shutdown`), the marks of all
threads share one stack (`workers`), and lazily made locks do not exclude when
two first calls on one overlap (`contended`: both find a rwlock's word empty, one
stores its object and reads, the other's store replaces the object, and a writer
enters beside the reader). `nested` rests on the engine creating
or destroying players while it holds the mutex its callback takes, `workers` on a
second thread making references while the first has a frame open, `contended` on
threads contending for a lock that has not been used. The comments
at those lines name these situations, the engine itself is not in the repository.

Four more are shown by the configurations beside the runs; they are the reason
for the hypotheses of the theorems:

* `promote.cfg`, `GlobalsSurvive` with the habit `"outer"`: `NewGlobalRef` and
  `DeleteLocalRef` move the last entry into the gap without regard to the marks
  (`jni_fake.c` 100, 477); the table is then shorter than the mark of the open
  frame, `PopLocalFrame` brings stale entries back, and a later pop frees an
  object that has become global, against line 474, "so it survives frame pops".
* `popglobal.cfg`, `GlobalsSurvive` with `"return"`: `PopLocalFrame` registers a
  promoted result again (503-504), and deleting the local reference, or the next
  pop, frees the global one.
* `early.cfg`, `LocalsSurvive` with `"early"`: `DeleteGlobalRef` (481) frees the
  object under the local reference it was promoted from. With `MaxGlobals = 2`
  it frees it under the second global reference too (`GlobalsSurvive`).
* `remake.cfg`, `SavesKept` with a `save.bin` that may fail to open for reading:
  `createSaveFile` truncates it (`jni_fake.c` 412-414), against line 413, "keep
  existing saves intact".

### Fairness

Steps of a thread inside a call are weakly fair: the kernel schedules it. SDL
calls back for ever once the device is open, so the audio thread is weakly fair
between periods too. Acquiring a lock that others release again and again
(`g_reg_lock`, a player's lock, the engine's mutex) is strongly fair, as is closing
the device, which waits for a callback to finish and after which SDL starts no
other. The engine leaves its own critical section. In `pthread` each thread's
step is weakly fair; a waiter that is woken asks for its flag again. Nothing is
assumed of the engine's wish to call anything, of a button press, or of spurious
wake-ups. `QueueAdvances` and `SoundQueueReturns` are conditional on an audible
player and an unpaused session, which the code cannot force.

`MovieEnds` carries a condition on the file, `CloselyInterleaved`. A file that
demands more video frames than the ring holds before enough sound has arrived
to start the clock, or to reach those frames, stops the player: the decoder waits at
`movie_player.c:128` for a slot, the loop for the clock, the clock for sound.
A player's button still ends it (`StopTerminates` is checked on such files too).

## Proofs

The theorems hold for all values of the constants that the modules' named ASSUMEs
admit. Every invariant below was checked with TLC on the run's instance first.

`OpenSLESProofs`: `TypeOK`, `AudioTouchesOnlyLivePlayers`, `RegistrySound`,
`SilentOnlyWhenFull`. `AudioTouchesOnlyLivePlayers` is not inductive. It holds
because unlinking needs `g_reg_lock`, which the audio thread holds for a whole
walk; `IInv` says so (`LockHeld`), ties the player being mixed to the registry
slot under the loop index (`MixesRegistered`), says that registered players are
live or dying and occur once (`RegistrySound`, `RegistryBounded`), and ties what
an engine thread is doing to its player's life (`OperationsAgree`). Types need
two more facts: an occupied ring slot holds a buffer (`RingsFilled`), and the loop
body runs only while frames are wanted (`FramesWanted`).

`OpenSLESRefinement`: without Clear the players implement `BufferQueue`
(`QueueContractKept`: `Spec => Implements`). Ring lemmas come first: the ring's
contents are a sequence to which `bq_Enqueue` appends unless it is full
(`PutAppends`) and whose head the pop takes (`DropFirstTakesHead`), wherever the
indices wrap. Then each step maps to one of the contract's or to a stutter: the
end of a buffer to `Finish`, the callback's return to `Notify`, the pop (not the
later installation) to `Start`, `RegisterCallback` to `Listen`. `Finish` owes a
call exactly when a callback is registered at that moment, neither `Start` nor
`Destroy` is possible while one is owed, and only `Destroy` ends a queue: code
that skipped a completion or dropped a queue would not implement it. The mapping needs `IInv`, for the mixed player
is never an address `calloc` is just handing out, and two facts that Clear would
break: nothing plays between a buffer's end and the next installation
(`NothingPlays`), and nobody clears (`NobodyClears`).

`MoviePlayerProofs`: the sound path of the composed player implements
`MovieAudio` (`SoundPathRefined`: `Spec => A!Spec`; every step of decoder and
main thread maps to a step of `MovieAudio` or a stutter), hence
`SoundRingHoldsUnplayed` and `SoundDeviceHandedBack`; and `TypeOK`,
`FramesInOrder`, `SessionOutlivesDecoder`, `ClockNeverGoesBack` and
`NaturalEndIsTheEnd`. The last is the deepest: it needs that what the decoder
has read is all in a ring, in its hands, or played (`AllDelivered`), that it
reaches its end only with the file read (`LoopFits`), that `decode_eof` is set
only after that (`ClockRuns`), and that both rings hold what they should.
`ClockNeverGoesBack` needs what each of `movie_clock`'s readings may still assume of
the earlier ones, among them that an empty PCM ring stays empty once the
decoder has finished.

`JniLocalsProofs`: `TypeOK`, `RegistrySound`, `GlobalsSurvive`,
`LocalsSurvive`, `NothingLeaks`, under `Disciplined`: frames are used by one
thread alone and no deeper than there are marks, or not at all; no habit
(`"outer"`, `"return"`, `"early"`); at most one global reference to an object.
The run `workers` and the configurations `promote.cfg`, `popglobal.cfg` and
`early.cfg` show that each part is needed. Not
inductive: the proof says which marks each entry lies between (`EntriesFramed`,
which a removal keeps because the entry it moves belongs to the innermost frame
too) and accounts for every valid local reference (`LocalsAccounted`).

`PthreadShimProofs`: `TypeOK`, `LocksExclude`, `SleepersReachable` under
`FirstUsesApart`, which the run `contended` shows to be needed, and
`InitialiserRunsOnce` without it, for any scripts and any allocator. At the centre, native
objects and the engine's own account agree (`MutexAgrees`, `RwAgrees`); an object
must never be replaced behind a word in use (`StoresAlone`), which for conditions
needs that the mutexes exclude: the two are proved together.

`ServicesProofs`: every behaviour of `Services` is one of `JniLocals`
(`ReferencesHandled`), so the four reference properties hold, under `Disciplined`,
with `loadFile` and `loadSound` among the callers (`ReferencesSafe`); and `ServicesTypeOK`,
`FirstCandidateServed`, `OwnLanguageFirst`. The invariant says that a call
between its seek and its read holds `g_lock` and finds the file position at its
own candidate, and that the candidates it has passed exist nowhere unless
a read failed. English stands last in every list that names another language.
The assumptions: directory names of the shared trees are no languages, and the
archive is a sequence.

`SoLoaderProofs` is about one module's image, whatever order main calls things
in. `ImageFinished`: copying, `so_relocate` with its packed entries and
`so_resolve` leave every word as `FinishedWord` has it. The three loops over tables
are folds in the model; what a fold computes cannot be shown by the library's
induction theorems here, so the module first shows that the sequence of a fold's
intermediate results exists (`IterExists`, by well-foundedness of the numbers) and
then reads off, for each word, the one entry that writes it (`ChangedOnce`;
`RelaResult`, `RelrResult`, `BindResult`). `XPagesHoldCode`: the page map of `so_finalize` is exact although segments
begin and end inside pages. `SetPermissionSets`: a run of pages holds only fresh
pages of one kind, because while the executable pass works nothing else has been
set (`HalfProtected`), and the last run leaves every page right.

`MainProofs`, the boot: `EngineSeesFinishedImage`, `PermissionOnce`,
`LoaderStaysInItsMemory` and most of `TypeOK` (the rest is the files' invariants
below and `RestInv`) follow from one invariant, `BootInv`, which says for each phase and each module how far that module has come: at what place
main is (`PlaceInv`); which image each module has and how many are registered, in
load order (`ImagesInv`, on `ImageFinished`); which pages are set (`PermInv`, on
`SetPermissionSets`); that file images are there while they are read, the
caches flushed and the canary set (`ReadyInv`); and that images are as large as
so_load made them and within the limit it was given (`SizesInv`). That the limit
is right is arithmetic on `HeapSoLimit` (`WholePages`, `LimitOf`): the
subtraction wraps for no heap of whole pages and for none that reaches
`MEMORY_MB`, and the part of `LoaderStaysInItsMemory` about the heap says so; for
another heap, which only a host program can hand over, the code takes images of
any size. None of the four is inductive alone: that
the right donor is found in `so_resolve` needs that all modules are registered
and none is locked out by then.

The loop and the files: `NoLatchedKeys`, `ReleaseAtLastPress`, `RateMatchesTarget`,
`SavesKept`, `SettingsKept`, `ViewportFits`, each with a small invariant of its
own: outside a frame the engine's keys are the mask (`KeysInv`); the engine's
last contact is what `main.c` remembers (`TouchInv`); `lastInterval` is only a guess
until `egl_init`, and the display's own interval from then on (`PaceInv`); while a
save is being made its length is what has been written unless a write fell
short (`SaveInv`; the theorem supposes that an existing `save.bin` opens for
reading); while `config.txt` is being rewritten memory still has what the
user wanted unless the file is `spoiled` (`SettingsInv`; reading back what was written gives the settings,
`TextParses`); the view is the one `jni_compute_viewport` computes for a screen
with positive sides (`DisplayInv`). The boot steps are shown once to touch none
of the loop's variables (`BootKeeps`). `ViewportFits` is then arithmetic: rounding to
the nearest errs by half a line at most, and a side that fits the screen before
it is rounded fits it afterwards (`Fits`). The code rounds in single
precision, the model exactly; for every screen up to 1920 x 1080, which is all
`set_screen_size` admits, with and without a fused multiply-add, the two agree
(compared exhaustively with a C program).

Assumptions on constants. `LoaderAssumption`: pages and bitmaps are not empty.
`ImagesAssumption`: an image has at least one segment, none of them empty, every
relocation but RELATIVE names a symbol, and no word is relocated twice, neither
by two `.rela` entries nor by two packed ones nor by one of each. That is what a
static linker emits; the code relies on it, since a second RELR location adds the
base twice and a relocation's addend ignores what the word held. Nothing is
assumed of the order of tables, of where segments lie, of overlaps, or of
offsets. `MainAssumption`: sizes are numbers below `SizeRange`, `MEMORY_MB` is
made of whole pages, files are lists of lines, and each button of the pad has a
bit; `NoFile` is no file.

Only model-checked: the liveness properties and fairness, out of the prover's
reach. Every safety property of a passing run is proved, the
references, locks and saves under the hypotheses named above.

## Plan

1. Done: the sound core (`OpenSLES`, `BufferQueue`, `MovieAudio`), the movie
   player, the references and their callers, the loader and main, the pthread
   shims; proofs for all of them.
2. Done: `OpenSLES` implements `BufferQueue` as a theorem.
3. A composition of `OpenSLES` and `MovieAudio` over the one device, for players
   created while a movie plays and for the lost device handle at shutdown.
4. `get_id`'s pool with two threads; local references counted per object.
5. Done: proofs about `Services`, and about all of `SoLoader` and `Main`: boot,
   images, permissions, memory, settings, viewport, input, pacing, saves.

## Not modelled

`so_unload`, `hook_arm64`, `so_find_addr`, `so_find_import` and
`so_dl_iterate_phdr` (no caller in this program, or no change of state);
`get_id`'s pool, arrays, strings, the function tables and the getters of
`jni_fake.c`; a second local reference to one object; a `config.txt` cut off within
a line; the callback's context next to the callback. GL drawing, fonts, textures and libav's
decoding: pure computation. The libc shims and their fake FILEs, locales, wide
strings and layouts: translations without state of their own. Message boxes and
logging. trylock, signal, timedwait and semaphores, which the engine does not
import. Weak memory effects: all interleavings are sequentially consistent. The
engine and the kernel: external.
