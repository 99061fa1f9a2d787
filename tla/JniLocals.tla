----------------------------- MODULE JniLocals -----------------------------
(***************************************************************************)
(* The local-reference registry of source/jni_fake.c: the table that       *)
(* decides when the fake Java objects handed to the engine are freed.      *)
(*                                                                         *)
(* One table and one stack of frame marks serve every thread; each call    *)
(* holds locals_lock for its whole effect and is a single step.  Slots     *)
(* above locals_top keep their old contents, as in the code.  Classes and  *)
(* method IDs are never registered and are left out.                       *)
(*                                                                         *)
(* External: the engine, which uses references as JNI allows.  owner and   *)
(* level record what the JNI contract says of each reference, not what the *)
(* code knows: a local reference belongs to one thread and is valid until  *)
(* it is deleted or the frame it was made in is popped; a global one until *)
(* it is deleted.  JNI allows more than the code can stand: FrameUsers,    *)
(* MaxGlobals and Habits say which of the dangerous uses the engine makes. *)
(* A second local reference to an object that has one is not modelled.     *)
(***************************************************************************)
EXTENDS Integers, FiniteSets

CONSTANTS
  Threads,
  Refs,          \* addresses the allocator hands out for fake objects
  NoRef,
  MAX_LOCALS, MAX_FRAMES,
  MaxDepth,      \* how deep a thread nests its local frames
  FrameUsers,    \* the threads that push and pop local frames
  MaxGlobals,    \* how many global references to one object it holds
  Habits         \* "outer": deletes/promotes references of outer frames;
                 \* "return": a promoted reference is the result of a pop;
                 \* "early": a global reference goes before the local one

ASSUME LocalsAssumption ==
  /\ NoRef \notin Refs /\ NoRef \notin Threads
  /\ MAX_LOCALS \in Nat \ {0} /\ MAX_FRAMES \in Nat \ {0}
  /\ MaxDepth \in Nat /\ FrameUsers \subseteq Threads
  /\ MaxGlobals \in Nat
  /\ Habits \subseteq {"outer", "return", "early"}

VARIABLES
  live,              \* addresses that hold an object now
  locals, localsTop,
  marks, frameTop,   \* frames, frame_top
  owner, level,      \* contract: whose local reference, made in which frame
  globals,           \* contract: how many global references name an object
  depth,             \* contract: frames thread t has pushed and not popped
  unregistered       \* history: made while the table was full

table == <<locals, localsTop>>
contract == <<owner, level, globals>>
vars == <<live, table, marks, frameTop, contract, depth, unregistered>>

Init ==
  /\ live = {}
  /\ locals = [i \in 0..(MAX_LOCALS - 1) |-> NoRef]
  /\ localsTop = 0
  /\ marks = [i \in 0..(MAX_FRAMES - 1) |-> 0]
  /\ frameTop = 0
  /\ owner = [r \in Refs |-> NoRef]
  /\ level = [r \in Refs |-> 0]
  /\ globals = [r \in Refs |-> 0]
  /\ depth = [t \in Threads |-> 0]
  /\ unregistered = {}

-----------------------------------------------------------------------------
Promoted == {r \in Refs : globals[r] > 0}

LastIndexOf(r) ==
  CHOOSE i \in 0..(localsTop - 1) :
    locals[i] = r /\ \A j \in (i + 1)..(localsTop - 1) : locals[j] # r

\* Mutant: the table is shortened and nothing is moved.
RemoveNoMove(r) ==
  IF \E i \in 0..(localsTop - 1) : locals[i] = r
  THEN localsTop' = localsTop - 1 /\ UNCHANGED locals
  ELSE UNCHANGED table
(* The last entry takes the place of the one that is removed. *)
Remove(r) ==
  IF \E i \in 0..(localsTop - 1) : locals[i] = r
  THEN /\ locals' = [locals EXCEPT ![LastIndexOf(r)] = locals[localsTop - 1]]
       /\ localsTop' = localsTop - 1
  ELSE UNCHANGED table

\* Mutant: the last slot of the table is used twice over.
RoomLate == localsTop <= MAX_LOCALS
(* A constructor makes an object and registers it; a full table leaks it. *)
Room == localsTop < MAX_LOCALS

New(t) ==
  \E r \in Refs \ live :
    /\ live' = live \cup {r}
    /\ IF Room
       THEN /\ locals' = [locals EXCEPT ![localsTop] = r]
            /\ localsTop' = localsTop + 1
            /\ UNCHANGED unregistered
       ELSE /\ UNCHANGED table
            /\ unregistered' = unregistered \cup {r}
    /\ owner' = [owner EXCEPT ![r] = t]
    /\ level' = [level EXCEPT ![r] = depth[t]]
    /\ UNCHANGED <<marks, frameTop, globals, depth>>

(* The references thread t may delete or promote. *)
Usable(t, r) == /\ owner[r] = t
                /\ level[r] = depth[t] \/ "outer" \in Habits

(* DeleteLocalRef frees what it finds in the table; a reference that has   *)
(* been promoted is not there any more.                                    *)
DeleteLocalRef(t, r) ==
  /\ Usable(t, r)
  /\ owner' = [owner EXCEPT ![r] = NoRef]
  /\ live' = IF \E i \in 0..(localsTop - 1) : locals[i] = r
             THEN live \ {r} ELSE live
  /\ Remove(r)
  /\ level' = [level EXCEPT ![r] = 0]
  /\ UNCHANGED <<marks, frameTop, globals, depth, unregistered>>

(* The references thread t may promote. *)
Promotable(t, r) == /\ Usable(t, r) \/ r \in Promoted
                    /\ globals[r] < MaxGlobals

\* Mutant: a promoted reference stays in the table.
NewGlobalRefKept(t, r) ==
  /\ Promotable(t, r)
  /\ globals' = [globals EXCEPT ![r] = @ + 1]
  /\ UNCHANGED <<live, table, marks, frameTop, owner, level, depth,
                 unregistered>>

(* The global reference is the object itself, taken out of the table.  The *)
(* local one stays valid too, until it is deleted or its frame popped.     *)
NewGlobalRef(t, r) ==
  /\ Promotable(t, r)
  /\ globals' = [globals EXCEPT ![r] = @ + 1]
  /\ Remove(r)
  /\ UNCHANGED <<live, marks, frameTop, owner, level, depth, unregistered>>

(* Whatever other references there are, the object is freed.               *)
DeleteGlobalRef(r) ==
  /\ r \in Promoted
  /\ owner[r] = NoRef \/ "early" \in Habits
  /\ globals' = [globals EXCEPT ![r] = @ - 1]
  /\ live' = live \ {r}
  /\ unregistered' = unregistered \ {r}
  /\ UNCHANGED <<table, marks, frameTop, owner, level, depth>>

(* A local reference to a global one's object: the argument is returned.   *)
NewLocalRef(t, r) ==
  /\ r \in Promoted
  /\ owner[r] = NoRef
  /\ owner' = [owner EXCEPT ![r] = t]
  /\ level' = [level EXCEPT ![r] = depth[t]]
  /\ UNCHANGED <<live, table, marks, frameTop, globals, depth, unregistered>>

(* With every mark in use the frame is not recorded, and SL_OK returned. *)
PushLocalFrame(t) ==
  /\ t \in FrameUsers
  /\ depth[t] < MaxDepth
  /\ IF frameTop < MAX_FRAMES
     THEN /\ marks' = [marks EXCEPT ![frameTop] = localsTop]
          /\ frameTop' = frameTop + 1
     ELSE UNCHANGED <<marks, frameTop>>
  /\ depth' = [depth EXCEPT ![t] = @ + 1]
  /\ UNCHANGED <<live, table, contract, unregistered>>

Mark == IF frameTop > 0 THEN marks[frameTop - 1] ELSE 0

\* Mutant: the popped references are dropped without freeing them.
PoppedNone(result) == {}
\* Mutant: the result is freed with the rest.
PoppedAll(result) == {locals[i] : i \in Mark..(localsTop - 1)}
Popped(result) == {locals[i] : i \in Mark..(localsTop - 1)} \ {result}

(* Everything above the mark is freed but the result, which becomes a      *)
(* reference of the frame below.                                           *)
Kept(result) == result # NoRef /\ Mark < MAX_LOCALS
PopTable(result) ==
  IF Kept(result)
  THEN /\ locals' = [locals EXCEPT ![Mark] = result]
       /\ localsTop' = Mark + 1
  ELSE /\ localsTop' = Mark
       /\ UNCHANGED locals

Leaving(t) == {r \in Refs : owner[r] = t /\ level[r] = depth[t]}

(* What a pop may hand to the frame below. *)
Returnable(t) ==
  {r \in Leaving(t) \cup {g \in Promoted : owner[g] = NoRef} :
     r \in Promoted => "return" \in Habits}

PopLocalFrame(t, result) ==
  /\ depth[t] > 0
  /\ result \in {NoRef} \cup Returnable(t)
  /\ live' = live \ Popped(result)
  /\ PopTable(result)
  /\ frameTop' = IF frameTop > 0 THEN frameTop - 1 ELSE 0
  /\ owner' = [r \in Refs |-> IF r = result THEN t
                              ELSE IF r \in Leaving(t) THEN NoRef ELSE owner[r]]
  /\ level' = [r \in Refs |-> IF r = result THEN depth[t] - 1
                              ELSE IF r \in Leaving(t) THEN 0 ELSE level[r]]
  /\ depth' = [depth EXCEPT ![t] = @ - 1]
  /\ unregistered' = IF Kept(result) THEN unregistered \ {result}
                     ELSE unregistered \cup ({result} \ {NoRef})
  /\ UNCHANGED <<marks, globals>>

Next ==
  \/ \E t \in Threads :
       \/ New(t) \/ PushLocalFrame(t)
       \/ \E r \in Refs :
            DeleteLocalRef(t, r) \/ NewGlobalRef(t, r) \/ NewLocalRef(t, r)
       \/ \E result \in Refs \cup {NoRef} : PopLocalFrame(t, result)
  \/ \E r \in Refs : DeleteGlobalRef(r)

Spec == Init /\ [][Next]_vars

-----------------------------------------------------------------------------
(* Properties.                                                             *)

(* Every variable of the registry keeps its type. *)
TypeOK ==
  /\ live \subseteq Refs
  /\ locals \in [0..(MAX_LOCALS - 1) -> Refs \cup {NoRef}]
  /\ localsTop \in 0..MAX_LOCALS
  /\ marks \in [0..(MAX_FRAMES - 1) -> 0..MAX_LOCALS]
  /\ frameTop \in 0..MAX_FRAMES
  /\ owner \in [Refs -> Threads \cup {NoRef}]
  /\ level \in [Refs -> 0..MaxDepth]
  /\ globals \in [Refs -> 0..MaxGlobals]
  /\ depth \in [Threads -> 0..MaxDepth]
  /\ unregistered \subseteq Refs

(* The table names each object at most once, only objects that exist, and  *)
(* no global reference: otherwise the next pop or DeleteLocalRef frees an  *)
(* object twice, or frees the object that has taken its address since.     *)
(* For an engine that has no such habit, whose frames are one thread's.    *)
RegistrySound ==
  /\ \A i \in 0..(localsTop - 1) :
       locals[i] \in live /\ locals[i] \notin Promoted
  /\ \A i, j \in 0..(localsTop - 1) : locals[i] = locals[j] => i = j

(* Line 474: a promoted reference "survives frame pops": no global         *)
(* reference is freed before DeleteGlobalRef.  The code keeps this only    *)
(* for an engine without the habits "outer" and "return", and with at most *)
(* one global reference to an object.                                      *)
GlobalsSurvive == Promoted \subseteq live

(* Lines 55-58: a local reference that is neither deleted nor of a popped  *)
(* frame has its object, however frames nest and results are handed down;  *)
(* for an engine whose frames are one thread's and that is never "early".  *)
LocalsSurvive == \A r \in Refs : owner[r] # NoRef => r \in live

(* The reason the registry exists (55-58): what no reference names any     *)
(* more is freed, except what was made while the table was full.           *)
NothingLeaks ==
  \A r \in live : owner[r] # NoRef \/ r \in Promoted \/ r \in unregistered
=============================================================================
