---------------------------- MODULE PthreadShim ----------------------------
(***************************************************************************)
(* The pthread wrappers of source/imports.c and the rwlocks of             *)
(* source/libc_shim.c.  The engine's objects are words of its own memory;  *)
(* the first call on a word allocates a native object and stores its       *)
(* address there: a test, an allocation, a store and a second reading of   *)
(* the word, with no lock around them.  A word that holds Null or bionic's *)
(* initialiser of a recursive mutex has no object yet.  Allocations that   *)
(* fail are left out, and so are the calls the engine does not import      *)
(* (trylock, signal, timedwait, the semaphores).                           *)
(*                                                                         *)
(* External: the native objects behind the words, and the engine, whose    *)
(* threads each run a script of calls.  It initialises and destroys an     *)
(* object while nobody else uses it, unlocks what it holds, nests only     *)
(* recursive mutexes, and uses a condition while it holds the mutex that   *)
(* belongs to it; a waiter asks again until the broadcaster has raised a   *)
(* flag.  With FirstUsesApart it also makes no two first calls on a mutex  *)
(* or a rwlock at the same time, which nothing in the wrappers sees to.    *)
(***************************************************************************)
EXTENDS Integers, Sequences, FiniteSets, Functions

CONSTANTS
  Threads, MainThread, Nobody,
  Mutexes, Conds, RwLocks, Onces,  \* words of the engine's memory
  StaticRecursive,   \* the mutexes that start as 0x4000
  MutexOf,           \* the mutex each condition is used with
  Objects,           \* addresses the allocator gives out
  Offer(_),          \* which of the free addresses it may give out next
  Scripts,           \* the scripts each thread may run
  FirstUsesApart     \* whether first calls on one lock never overlap

Null == 0
RecursiveStatic == 16384           \* 0x4000
DestroyAbove == 32768              \* 0x8000: lower words are no addresses
Kinds == {"normal", "recursive"}
Words == Mutexes \cup Conds \cup RwLocks
Lockable == Mutexes \cup RwLocks

Calls ==
  [op : {"init"}, on : Mutexes, kind : Kinds]
    \cup [op : {"lock", "unlock", "destroy"}, on : Mutexes]
    \cup [op : {"rdlock", "wrlock", "rwunlock"}, on : RwLocks]
    \cup [op : {"wait", "broadcast", "condinit", "conddestroy"}, on : Conds]
    \cup [op : {"once"}, on : Onces]
    \cup [op : {"create"}, on : Threads]

ASSUME ShimAssumption ==
  /\ MainThread \in Threads /\ Nobody \notin Threads
  /\ Mutexes \cap Conds = {} /\ RwLocks \cap (Mutexes \cup Conds) = {}
  /\ StaticRecursive \subseteq Mutexes /\ MutexOf \in [Conds -> Mutexes]
  /\ Objects \subseteq {o \in Nat : o > DestroyAbove}
  /\ \A S \in SUBSET Objects : Offer(S) \subseteq S
  /\ \A t \in Threads : \A s \in Scripts[t] : s \in Seq(Calls)
  /\ FirstUsesApart \in BOOLEAN

VARIABLES
  word,     \* what each word of the engine holds
  object,   \* the native object at each address
  once,     \* words of pthread_once
  ran,      \* how often each initialiser has been started
  life,     \* of each thread: "none", "created", "running"
  guard,    \* threads whose tpidr_el0 points to a canary
  todo,     \* calls left of each thread's script
  pc,       \* where in its call a thread is
  fresh,    \* the object its call has allocated and not yet stored
  holds,    \* engine: how often each thread has been given each lock
  flags     \* engine: conditions that have come true
native == <<word, object, fresh>>
threads == <<life, guard>>
vars == <<native, once, ran, threads, todo, pc, holds, flags>>

ObjectType == [owner : Threads \cup {Nobody}, depth : Nat, kind : Kinds,
               readers : SUBSET Threads, asleep : SUBSET Threads]
NewObject(kind) == [owner |-> Nobody, depth |-> 0, kind |-> kind,
                         readers |-> {}, asleep |-> {}]

Init ==
  /\ word = [w \in Words |-> IF w \in StaticRecursive THEN RecursiveStatic ELSE Null]
  /\ object = [o \in Objects |-> NewObject("normal")]
  /\ once = [w \in Onces |-> 0] /\ ran = [w \in Onces |-> 0]
  /\ life = [t \in Threads |-> IF t = MainThread THEN "running" ELSE "none"]
  /\ guard = {MainThread}
  /\ todo \in [Threads -> UNION {Scripts[t] : t \in Threads}]
  /\ \A t \in Threads : todo[t] \in Scripts[t]
  /\ pc = [t \in Threads |-> "call"]
  /\ fresh = [t \in Threads |-> Null]
  /\ holds = [t \in Threads |-> [w \in Lockable |-> 0]]
  /\ flags = {}

-----------------------------------------------------------------------------
At(t, place, ops) ==
  life[t] = "running" /\ pc[t] = place /\ todo[t] # <<>> /\ Head(todo[t]).op \in ops
On(t) == Head(todo[t]).on
GoTo(t, place) == pc' = [pc EXCEPT ![t] = place] /\ UNCHANGED todo
Return(t) == pc' = [pc EXCEPT ![t] = "call"] /\ todo' = [todo EXCEPT ![t] = Tail(@)]

Unused == Objects \ (Range(word) \cup Range(fresh))

\* Mutant: the static value is overwritten by a default initialisation.
KindLost(w) == "normal"
(* Only the static value asks a lazily made mutex to be recursive. *)
Kind(w) == IF word[w] = RecursiveStatic THEN "recursive" ELSE "normal"

\* Mutant: a call on a condition never looks whether there is an object.
NoObjectYetCond(w) == w \in Conds \/ word[w] \in {Null, RecursiveStatic}
\* Mutant: a static recursive mutex gets an object at every call.
NoObjectYetStatic(w) == w \in StaticRecursive \/ word[w] \in {Null, RecursiveStatic}
NoObjectYet(w) == word[w] \in {Null, RecursiveStatic}

NativeCalls == {"lock", "unlock", "rdlock", "wrlock", "rwunlock", "wait", "broadcast"}

(* External: what the engine must hold for its call. *)
Entitled(t) ==
  /\ At(t, pc[t], {"unlock", "rwunlock"}) => holds[t][On(t)] > 0
  /\ At(t, pc[t], {"rdlock", "wrlock"}) => holds[t][On(t)] = 0
  /\ At(t, pc[t], {"wait", "broadcast"}) => holds[t][MutexOf[On(t)]] = 1

(* External: with FirstUsesApart, no second first call on a lock. *)
Alone(t) ==
  FirstUsesApart /\ On(t) \in Lockable =>
    \A u \in Threads : At(u, "store", NativeCalls) => On(u) # On(t)

(* A call tests the word, and allocates when there is no object. *)
Test(t) ==
  /\ At(t, "call", NativeCalls) /\ Entitled(t) /\ Alone(t)
  /\ Head(todo[t]).op = "wait" => On(t) \notin flags
  /\ IF NoObjectYet(On(t))
     THEN /\ \E o \in Offer(Unused) :
               /\ fresh' = [fresh EXCEPT ![t] = o]
               /\ object' = [object EXCEPT ![o] = NewObject(Kind(On(t)))]
          /\ GoTo(t, "store")
     ELSE GoTo(t, "use") /\ UNCHANGED <<fresh, object>>
  /\ UNCHANGED <<word, once, ran, threads, holds, flags>>

Store(t) ==
  /\ At(t, "store", NativeCalls)
  /\ word' = [word EXCEPT ![On(t)] = fresh[t]]
  /\ fresh' = [fresh EXCEPT ![t] = Null]
  /\ GoTo(t, "use")
  /\ UNCHANGED <<object, once, ran, threads, holds, flags>>

-----------------------------------------------------------------------------
(* The native calls, on the object the word holds now. *)
MayLock(t, o) ==
  \/ object[o].owner = Nobody
  \/ object[o].owner = t /\ object[o].kind = "recursive"

Owned(x, t, depth) == [x EXCEPT !.owner = t, !.depth = depth]
Take(t, w) ==
  /\ MayLock(t, word[w])
  /\ object' = [object EXCEPT ![word[w]] = Owned(@, t, @.depth + 1)]
  /\ holds' = [holds EXCEPT ![t][w] = @ + 1]

Lock(t) ==
  /\ At(t, "use", {"lock"}) /\ Take(t, On(t)) /\ Return(t)
  /\ UNCHANGED <<word, fresh, once, ran, threads, flags>>

(* A mutex of another owner refuses, and the wrapper hands the error on. *)
Released(t, x) ==
  IF x.owner # t THEN x
  ELSE Owned(x, IF x.depth = 1 THEN Nobody ELSE t, x.depth - 1)

Unlock(t) ==
  /\ At(t, "use", {"unlock"})
  /\ object' = [object EXCEPT ![word[On(t)]] = Released(t, @)]
  /\ holds' = [holds EXCEPT ![t][On(t)] = @ - 1]
  /\ Return(t) /\ UNCHANGED <<word, fresh, once, ran, threads, flags>>

ReadLock(t) ==
  /\ At(t, "use", {"rdlock"}) /\ object[word[On(t)]].owner = Nobody
  /\ object' = [object EXCEPT ![word[On(t)]].readers = @ \cup {t}]
  /\ holds' = [holds EXCEPT ![t][On(t)] = @ + 1]
  /\ Return(t) /\ UNCHANGED <<word, fresh, once, ran, threads, flags>>

WriteLock(t) ==
  /\ At(t, "use", {"wrlock"})
  /\ object[word[On(t)]].owner = Nobody /\ object[word[On(t)]].readers = {}
  /\ object' = [object EXCEPT ![word[On(t)]].owner = t]
  /\ holds' = [holds EXCEPT ![t][On(t)] = @ + 1]
  /\ Return(t) /\ UNCHANGED <<word, fresh, once, ran, threads, flags>>

(* The write side if this thread holds it, the read side otherwise. *)
RwReleased(t, x) ==
  IF x.owner = t THEN [x EXCEPT !.owner = Nobody]
  ELSE [x EXCEPT !.readers = @ \ {t}]

RwUnlock(t) ==
  /\ At(t, "use", {"rwunlock"})
  /\ object' = [object EXCEPT ![word[On(t)]] = RwReleased(t, @)]
  /\ holds' = [holds EXCEPT ![t][On(t)] = @ - 1]
  /\ Return(t) /\ UNCHANGED <<word, fresh, once, ran, threads, flags>>

(* Waiting gives the mutex back and falls asleep in one step. *)
Wait(t) ==
  LET m == MutexOf[On(t)] IN
  /\ At(t, "use", {"wait"})
  /\ object' = [object EXCEPT ![word[On(t)]].asleep = @ \cup {t},
                              ![word[m]] = Released(t, @)]
  /\ holds' = [holds EXCEPT ![t][m] = @ - 1]
  /\ GoTo(t, "asleep") /\ UNCHANGED <<word, fresh, once, ran, threads, flags>>

Relock(t) ==
  /\ At(t, "awake", {"wait"}) /\ Take(t, MutexOf[On(t)]) /\ GoTo(t, "call")
  /\ UNCHANGED <<word, fresh, once, ran, threads, flags>>

(* External: a waiter that finds its condition true does not wait. *)
Satisfied(t) ==
  /\ At(t, "call", {"wait"}) /\ On(t) \in flags /\ Return(t)
  /\ UNCHANGED <<native, once, ran, threads, holds, flags>>

(* The broadcast wakes the threads asleep on the object the word holds. *)
Broadcast(t) ==
  /\ At(t, "use", {"broadcast"})
  /\ pc' = [u \in Threads |-> IF u = t THEN "call"
            ELSE IF u \in object[word[On(t)]].asleep THEN "awake" ELSE pc[u]]
  /\ todo' = [todo EXCEPT ![t] = Tail(@)]
  /\ object' = [object EXCEPT ![word[On(t)]].asleep = {}]
  /\ flags' = flags \cup {On(t)}
  /\ UNCHANGED <<word, fresh, once, ran, threads, holds>>

-----------------------------------------------------------------------------
(* External: nobody else is inside a call on w or sleeps on its object,    *)
(* nobody holds it, and a word to be destroyed is not used again.          *)
Untouched(t, w) ==
  \A u \in Threads \ {t} : pc[u] # "call" =>
    On(u) # w /\ (Head(todo[u]).op = "wait" => MutexOf[On(u)] # w)
Quiet(t, w) == Untouched(t, w) /\ \A u \in Threads : holds[u][w] = 0
LastUse(t) == \A u \in Threads \ {t} : \A c \in Range(todo[u]) : c.on # On(t)

(* An attribute asks for a recursive mutex; nobody else uses the word. *)
InitMutex(t) ==
  /\ At(t, "call", {"init"}) /\ Quiet(t, On(t))
  /\ \E o \in Offer(Unused) :
       /\ object' = [object EXCEPT ![o] = NewObject(Head(todo[t]).kind)]
       /\ word' = [word EXCEPT ![On(t)] = o]
  /\ Return(t) /\ UNCHANGED <<fresh, once, ran, threads, holds, flags>>

(* A word that never got an object, static or null, keeps its value.       *)
DestroyMutex(t) ==
  /\ At(t, "call", {"destroy"}) /\ Quiet(t, On(t)) /\ LastUse(t)
  /\ word' = [word EXCEPT ![On(t)] = IF @ > DestroyAbove THEN Null ELSE @]
  /\ Return(t) /\ UNCHANGED <<object, fresh, once, ran, threads, holds, flags>>

(* A condition takes no attribute and has no static value. *)
InitCond(t) ==
  /\ At(t, "call", {"condinit"}) /\ Untouched(t, On(t))
  /\ \E o \in Offer(Unused) :
       /\ object' = [object EXCEPT ![o] = NewObject("normal")]
       /\ word' = [word EXCEPT ![On(t)] = o]
  /\ Return(t) /\ UNCHANGED <<fresh, once, ran, threads, holds, flags>>

DestroyCond(t) ==
  /\ At(t, "call", {"conddestroy"}) /\ Untouched(t, On(t)) /\ LastUse(t)
  /\ word' = [word EXCEPT ![On(t)] = Null]
  /\ Return(t) /\ UNCHANGED <<object, fresh, once, ran, threads, holds, flags>>

\* Mutant: the word is read but never set.
OnceTakenNever(w) == UNCHANGED once
(* An atomic exchange; a second caller returns although it still runs. *)
OnceTaken(w) == once' = [once EXCEPT ![w] = 1]

Once(t) ==
  /\ At(t, "call", {"once"})
  /\ OnceTaken(On(t))
  /\ IF once[On(t)] = 0
     THEN ran' = [ran EXCEPT ![On(t)] = @ + 1] /\ GoTo(t, "initialising")
     ELSE Return(t) /\ UNCHANGED ran
  /\ UNCHANGED <<native, threads, holds, flags>>

Initialised(t) ==
  /\ At(t, "initialising", {"once"}) /\ Return(t)
  /\ UNCHANGED <<native, once, ran, threads, holds, flags>>

Create(t) ==
  /\ At(t, "call", {"create"}) /\ life[On(t)] = "none"
  /\ life' = [life EXCEPT ![On(t)] = "created"]
  /\ Return(t) /\ UNCHANGED <<native, once, ran, guard, holds, flags>>

\* Mutant: threads of the engine get no stack-guard block.
TrampolineBare(t) ==
  /\ life[t] = "created" /\ life' = [life EXCEPT ![t] = "running"]
  /\ UNCHANGED <<native, once, ran, guard, todo, pc, holds, flags>>
(* The trampoline sets tpidr_el0 of the new thread before its entry runs. *)
Trampoline(t) ==
  /\ life[t] = "created"
  /\ guard' = guard \cup {t}
  /\ life' = [life EXCEPT ![t] = "running"]
  /\ UNCHANGED <<native, once, ran, todo, pc, holds, flags>>

Step(t) ==
  \/ Test(t) \/ Store(t)
  \/ Lock(t) \/ Unlock(t) \/ ReadLock(t) \/ WriteLock(t) \/ RwUnlock(t)
  \/ Wait(t) \/ Relock(t) \/ Satisfied(t) \/ Broadcast(t)
  \/ InitMutex(t) \/ DestroyMutex(t) \/ InitCond(t) \/ DestroyCond(t)
  \/ Once(t) \/ Initialised(t) \/ Create(t) \/ Trampoline(t)
Next == \E t \in Threads : Step(t)

(* The scheduler runs every thread that can go on. *)
Spec == Init /\ [][Next]_vars /\ \A t \in Threads : WF_vars(Step(t))

-----------------------------------------------------------------------------
(* Every word holds one of its static values or an address of its own, a   *)
(* thread that runs has its canary, and only its calls wait and store.     *)
TypeOK ==
  /\ word \in [Words -> Objects \cup {Null, RecursiveStatic}]
  /\ object \in [Objects -> ObjectType]
  /\ once \in [Onces -> {0, 1}] /\ ran \in [Onces -> Nat]
  /\ life \in [Threads -> {"none", "created", "running"}]
  /\ {t \in Threads : life[t] = "running"} \subseteq guard
  /\ pc \in [Threads -> {"call", "store", "use", "asleep", "awake",
                         "initialising"}]
  /\ fresh \in [Threads -> Objects \cup {Null}]
  /\ \A t \in Threads : pc[t] = "store" <=> fresh[t] # Null
  /\ todo \in [Threads -> Seq(Calls)]
  /\ holds \in [Threads -> [Lockable -> Nat]]

(* What the engine was promised: whoever is given a mutex or the write     *)
(* side of a rwlock shares it with nobody.  The object behind the word is  *)
(* made by whichever call comes first, so this holds while the first calls *)
(* on a lock do not overlap (FirstUsesApart) and fails when they do: the   *)
(* second store replaces an object that is already locked.  Writing is     *)
(* being the owner of the object the word holds now.                       *)
LocksExclude ==
  /\ \A w \in Mutexes : \A t, u \in Threads :
       holds[t][w] > 0 /\ holds[u][w] > 0 => t = u
  /\ \A w \in RwLocks : \A t, u \in Threads :
       /\ holds[t][w] > 0 /\ holds[u][w] > 0 /\ t # u
       => object[word[w]].owner = Nobody

(* A thread asleep in a condition sleeps on the object its word holds, so  *)
(* the next broadcast reaches it: no waiter is left behind on an object    *)
(* that another first call has replaced.                                   *)
SleepersReachable ==
  \A t \in Threads : pc[t] = "asleep" =>
    word[On(t)] \in Objects /\ t \in object[word[On(t)]].asleep

(* However many threads come to a pthread_once together, its initialiser   *)
(* is started at most once.                                                *)
InitialiserRunsOnce == \A w \in Onces : ran[w] <= 1

(* Every call returns: a recursive mutex locked again by its holder, a     *)
(* condition somebody broadcasts, a lock whose holder lets go.             *)
CallsReturn == \A t \in Threads : pc[t] # "call" ~> pc[t] = "call"
=============================================================================
