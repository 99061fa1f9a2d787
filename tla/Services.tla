------------------------------ MODULE Services ------------------------------
(***************************************************************************)
(* What the engine's threads ask of the archive main.obb (source/obb.c),   *)
(* through loadFile and loadSound (jni_fake.c), whose results are local    *)
(* references of JniLocals, and through assets (AAsset_*, libc_shim.c).    *)
(*                                                                         *)
(* The archive is a sequence of blobs; a blob's offset is its index, its   *)
(* path a pair of a directory and a name.  Reading moves the one position  *)
(* of the one file.  A blob is encrypted with its own offset: read at any  *)
(* other position it does not inflate, and counts as absent.  A malloc,    *)
(* seek or read may fail at any time.                                      *)
(*                                                                         *)
(* External: the engine.  Loaders call loadFile and loadSound; Readers use *)
(* assets, one at a time; all have stopped when main closes the archive.   *)
(***************************************************************************)
EXTENDS JniLocals, Sequences, FiniteSetsExt

CONSTANTS
  Readers,     \* threads that use assets
  Archive,     \* the paths of the blobs, in file order
  Loose,       \* paths of plain files in the game's directory
  Files, Sounds, AssetPaths,  \* what the engine asks for
  Languages,   \* arguments of setLanguage; below, EN if out of range
  Known, EN,   \* the languages of the array langs; LANG_EN
  AssetSize    \* length of every blob and file

Root == ""     \* the directory of a path without one

ASSUME ServicesAssumption ==
  /\ EN \in Known /\ {Root, "files", "sound"} \cap Known = {}
  /\ Readers \cap Threads = {} /\ NoRef \notin Readers
  /\ DOMAIN Archive = 1..Len(Archive) /\ Len(Archive) \in Nat
  /\ AssetSize \in Nat

VARIABLES
  opened, closed,  \* g_file and g_entries are there; not any more
  fpos,      \* the position of g_file; 0 wherever the last reader left it
  holder,    \* who has g_lock, or NoRef
  language,  \* config.language
  call,      \* the call each thread is in
  asset      \* the asset each reader has open, or NoAsset

archive == <<opened, closed, fpos, holder>>
svars == <<archive, language, call, asset>>
allVars == <<vars, svars>>

Users == Threads \cup Readers
Idle == [pc |-> "idle"]
NoAsset == [kind |-> "none"]

ServicesInit ==
  /\ Init
  /\ opened = FALSE /\ closed = FALSE /\ fpos = 0 /\ holder = NoRef
  /\ language \in Languages
  /\ call = [t \in Users |-> Idle] /\ asset = [t \in Readers |-> NoAsset]

(* obb_open: the header and the table are read; main gives up if it fails. *)
ObbOpen ==
  /\ ~opened /\ ~closed
  /\ opened' = TRUE
  /\ UNCHANGED <<vars, closed, fpos, holder, language, call, asset>>

(* obb_close, without the lock; lookups find nothing from then on. *)
ObbClose ==
  /\ opened /\ \A t \in Users : call[t] = Idle
  /\ opened' = FALSE /\ closed' = TRUE
  /\ UNCHANGED <<vars, fpos, holder, language, call, asset>>

-----------------------------------------------------------------------------
(* Where load_file_array and load_sound_array look, in order. *)
InLanguages == IF language \in Known THEN language ELSE EN
Localized(name) ==
  IF InLanguages = EN THEN <<<<EN, name>>>>
  ELSE <<<<InLanguages, name>>, <<EN, name>>>>
\* Mutant: the English file is asked for first.
FileCandidatesEnglish(name) ==
  <<<<Root, name>>, <<"files", name>>, <<EN, name>>>>
    \o (IF InLanguages = EN THEN <<>> ELSE <<<<InLanguages, name>>>>)
FileCandidates(name) ==
  <<<<Root, name>>, <<"files", name>>>> \o Localized(name)
SoundCandidates(name) == <<<<"sound", name>>, <<Root, name>>>>

(* find: the entry's offset, 0 for none. *)
Find(path) == Max({0} \cup {k \in DOMAIN Archive : Archive[k] = path})

Begin(t, paths) ==
  /\ opened /\ call[t] = Idle
  /\ call' = [call EXCEPT ![t] = [pc |-> "find", paths |-> paths, k |-> 1,
                                  got |-> 0, failed |-> FALSE]]
  /\ UNCHANGED <<vars, archive, language, asset>>

LoadFile(t) == \E name \in Files : Begin(t, FileCandidates(name))
LoadSound(t) == \E name \in Sounds : Begin(t, SoundCandidates(name))

(* The candidate was not there or could not be read: try the next.  A      *)
(* failure looks the same as an absence to the caller.                     *)
Tried(c, failed) ==
  IF c.k < Len(c.paths)
  THEN [c EXCEPT !.pc = "find", !.k = @ + 1, !.failed = @ \/ failed]
  ELSE [c EXCEPT !.pc = "return", !.failed = @ \/ failed]
Missed(t, failed) == call' = [call EXCEPT ![t] = Tried(@, failed)]

\* Mutant: obb_read without its lock.
GLockFreeAlways == TRUE
GLockFree == holder = NoRef

(* obb_read, as far as the seek. *)
ObbSeek(t) ==
  /\ call[t].pc = "find" /\ GLockFree
  /\ LET c == call[t]
         e == Find(c.paths[c.k])
     IN \/ /\ e # 0
           /\ holder' = t /\ fpos' = e
           /\ call' = [call EXCEPT ![t].pc = "read"]
        \/ Missed(t, e # 0) /\ UNCHANGED <<holder, fpos>>
  /\ UNCHANGED <<vars, opened, closed, language, asset>>

(* Its read, decryption and inflation, and the release of the lock. *)
ObbRead(t) ==
  /\ call[t].pc = "read"
  /\ LET c == call[t]
     IN \/ /\ fpos = Find(c.paths[c.k])
           /\ call' = [call EXCEPT ![t].pc = "return", ![t].got = fpos]
        \/ fpos # Find(c.paths[c.k]) /\ Missed(t, FALSE)
        \/ Missed(t, TRUE)
  /\ fpos' = 0
  /\ holder' = NoRef
  /\ UNCHANGED <<vars, opened, closed, language, asset>>

Returns(t) == call[t].pc = "return" /\ call' = [call EXCEPT ![t] = Idle]

(* The buffer is adopted by a new array, which is registered. *)
ReturnArray(t) ==
  /\ Returns(t)
  /\ IF call[t].got # 0 THEN New(t) ELSE UNCHANGED vars
  /\ UNCHANGED <<archive, language, asset>>

-----------------------------------------------------------------------------
(* AAssetManager_open: the archive first, then a plain file. *)
AssetOpen(t) ==
  /\ asset[t] = NoAsset
  /\ \E path \in AssetPaths : Begin(t, <<path>>)

AssetOpened(t) ==
  /\ Returns(t)
  /\ LET path == call[t].paths[1] IN
     \/ /\ call[t].got # 0
        /\ asset' = [asset EXCEPT ![t] = [kind |-> "memory", pos |-> 0]]
     \/ /\ call[t].got = 0 /\ path \in Loose
        /\ asset' = [asset EXCEPT ![t] = [kind |-> "file"]]
     \/ call[t].got = 0 /\ UNCHANGED asset
  /\ UNCHANGED <<vars, archive, language>>

Open(t) == asset[t] # NoAsset /\ call[t] = Idle /\ opened
(* The position of a plain file is the C library's, not the asset's. *)
InMemory(t) == Open(t) /\ asset[t].kind = "memory"
Moves(t, np) == asset' = [asset EXCEPT ![t].pos = np]

\* Mutant: the rest of a memory asset does not limit the read.
ReadableAll(a, count) == count
(* What a read of count bytes gets. *)
Readable(a, count) == Min({count, Max({0, AssetSize - a.pos})})

AssetRead(t) ==
  /\ InMemory(t)
  /\ \E count \in 0..AssetSize : Moves(t, asset[t].pos + Readable(asset[t], count))
  /\ UNCHANGED <<vars, archive, language, call>>

(* AAsset_seek; a position outside the memory is refused. *)
AssetSeek(t) ==
  /\ InMemory(t)
  /\ \E base \in {0, asset[t].pos, AssetSize}, off \in {-1, 0, 1} :
       base + off \in 0..AssetSize /\ Moves(t, base + off)
  /\ UNCHANGED <<vars, archive, language, call>>

AssetClose(t) ==
  /\ Open(t)
  /\ asset' = [asset EXCEPT ![t] = NoAsset]
  /\ UNCHANGED <<vars, archive, language, call>>

SetLanguage(t) ==
  /\ opened /\ call[t] = Idle
  /\ language' \in Languages
  /\ UNCHANGED <<vars, archive, call, asset>>

-----------------------------------------------------------------------------
(* The calls of JniLocals, by a thread that is in no other. *)
Local(t) ==
  /\ opened /\ call[t] = Idle
  /\ \/ New(t) \/ PushLocalFrame(t)
     \/ \E r \in Refs : \/ DeleteLocalRef(t, r) \/ NewLocalRef(t, r)
                        \/ NewGlobalRef(t, r) \/ DeleteGlobalRef(r)
     \/ \E result \in Refs \cup {NoRef} : PopLocalFrame(t, result)
  /\ UNCHANGED svars

ServicesNext ==
  \/ ObbOpen \/ ObbClose
  \/ \E t \in Threads : \/ LoadFile(t) \/ LoadSound(t) \/ ReturnArray(t)
                        \/ SetLanguage(t) \/ Local(t)
  \/ \E t \in Users : ObbSeek(t) \/ ObbRead(t)
  \/ \E t \in Readers : \/ AssetOpen(t) \/ AssetOpened(t) \/ AssetRead(t)
                        \/ AssetSeek(t) \/ AssetClose(t)
ServicesSpec == ServicesInit /\ [][ServicesNext]_allVars

-----------------------------------------------------------------------------
(* Properties, beside those of JniLocals.                                  *)

(* A position of the archive, a call and an asset are what they can be;    *)
(* a memory asset is never positioned outside its memory, from which the   *)
(* next read would copy (libc_shim 657-664).                               *)
ServicesTypeOK ==
  /\ TypeOK
  /\ fpos \in 0..Len(Archive) /\ holder \in Users \cup {NoRef}
  /\ language \in Languages
  /\ \A t \in Users : call[t] # Idle =>
       /\ call[t].pc \in {"find", "read", "return"}
       /\ call[t].k \in DOMAIN call[t].paths
  /\ \A t \in Readers : asset[t].kind = "memory" => asset[t].pos \in 0..AssetSize

(* Several threads read one file (obb.c 32): each gets the blob of the     *)
(* first of its candidates that exists, unless a call failed meanwhile;    *)
(* nobody gets another's bytes, or none because another moved the file.    *)
FirstCandidateServed ==
  \A t \in Users : LET c == call[t] IN
    c # Idle /\ c.pc = "return" /\ ~c.failed =>
      LET there == {k \in DOMAIN c.paths : Find(c.paths[k]) # 0} IN
      c.got = IF there = {} THEN 0 ELSE Find(c.paths[Min(there)])

(* English is only the last resort (jni_fake 242-245): unless a read       *)
(* failed, a file that exists in the language in force when it was asked   *)
(* for is not served in English.                                           *)
OwnLanguageFirst ==
  \A t \in Threads : LET c == call[t] IN
    c # Idle /\ c.pc = "return" /\ ~c.failed =>
      \A k \in DOMAIN c.paths :
        c.paths[k][1] \in Known \ {EN} /\ Find(c.paths[k]) # 0 =>
          c.got # Find(<<EN, c.paths[k][2]>>)
=============================================================================
