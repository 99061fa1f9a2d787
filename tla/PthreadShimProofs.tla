------------------------- MODULE PthreadShimProofs -------------------------
(***************************************************************************)
(* Proofs about PthreadShim, for any threads, words, scripts of calls and  *)
(* allocator: its types, that the locks behind the engine's words exclude, *)
(* that a sleeper sleeps where the next broadcast looks, and that an       *)
(* initialiser runs once.  The first three need an engine whose first      *)
(* calls on one lock do not overlap (FirstUsesApart), and follow from one  *)
(* inductive invariant; the last holds whatever the engine does.           *)
(* At its centre, the native objects and the engine's own account of what  *)
(* it holds agree (MutexAgrees, RwAgrees); for that an object must never   *)
(* be replaced behind a word in use, so a first call must be alone with    *)
(* its word (StoresAlone).  For a mutex or a rwlock that is the engine's   *)
(* doing; for a condition it follows from LocksExclude: what keeps two     *)
(* first calls on it apart is the mutex both hold.                         *)
(***************************************************************************)
EXTENDS PthreadShim, TLAPS

-----------------------------------------------------------------------------
(* The inductive invariant.                                                *)

(* A thread between its call's first step and its native call. *)
Op(t) == Head(todo[t]).op
Inside(t) == pc[t] \in {"store", "use"}

(* Where a thread is fits the call it is in. *)
Places ==
  \A t \in Threads : pc[t] # "call" =>
    /\ life[t] = "running" /\ todo[t] # <<>>
    /\ Inside(t) => Op(t) \in NativeCalls
    /\ pc[t] \in {"asleep", "awake"} => Op(t) = "wait"
    /\ pc[t] = "initialising" => Op(t) = "once"

(* No two words, and no word and no call that is about to store, share an  *)
(* object; one that is about to be stored is new.                          *)
Distinct ==
  /\ \A w, v \in Words : word[w] \in Objects /\ word[w] = word[v] => w = v
  /\ \A w \in Words, t \in Threads : fresh[t] \in Objects => word[w] # fresh[t]
  /\ \A t, u \in Threads : fresh[t] \in Objects /\ fresh[t] = fresh[u] => t = u
Idle(x) == x.owner = Nobody /\ x.depth = 0 /\ x.readers = {} /\ x.asleep = {}
FreshIdle == \A t \in Threads : fresh[t] \in Objects => Idle(object[fresh[t]])

(* The first call on a word is alone from its test to its store. *)
StoresAlone ==
  \A t \in Threads : pc[t] = "store" =>
    /\ word[On(t)] \notin Objects
    /\ \A u \in Threads : pc[u] = "store" /\ On(u) = On(t) => u = t

(* The object a call is about to use is there. *)
UsesObject ==
  \A t \in Threads :
    /\ pc[t] = "use" => word[On(t)] \in Objects
    /\ pc[t] \in {"asleep", "awake"} => word[MutexOf[On(t)]] \in Objects

(* What the engine holds at the first step of a call it holds throughout. *)
HoldsOn ==
  \A t \in Threads : Inside(t) => Entitled(t)

(* A mutex is held by the owner of its object as often as that counts. *)
MutexAgrees ==
  \A w \in Mutexes : \A t \in Threads :
    holds[t][w] = IF word[w] \in Objects /\ object[word[w]].owner = t
                  THEN object[word[w]].depth ELSE 0
MutexCounts ==
  \A w \in Mutexes : word[w] \in Objects =>
    (object[word[w]].owner = Nobody <=> object[word[w]].depth = 0)
(* A rwlock is held once by the writer or the readers of its object. *)
RwAgrees ==
  \A w \in RwLocks : \A t \in Threads :
    holds[t][w] = IF /\ word[w] \in Objects
                     /\ object[word[w]].owner = t \/ t \in object[word[w]].readers
                  THEN 1 ELSE 0
RwExcludes ==
  \A w \in RwLocks : word[w] \in Objects =>
    (object[word[w]].owner = Nobody \/ object[word[w]].readers = {})

(* Whoever sleeps on the object of a condition waits for that condition. *)
SleepersKnown ==
  \A c \in Conds : word[c] \in Objects =>
    \A u \in object[word[c]].asleep : pc[u] = "asleep" /\ On(u) = c

(* A word of pthread_once is set when its initialiser starts. *)
OnceCounts == \A w \in Onces : ran[w] = once[w]

IInv ==
  /\ FirstUsesApart
  /\ TypeOK /\ Places /\ Distinct /\ FreshIdle
  /\ StoresAlone /\ UsesObject /\ HoldsOn
  /\ MutexAgrees /\ MutexCounts /\ RwAgrees /\ RwExcludes
  /\ SleepersReachable /\ SleepersKnown /\ OnceCounts

-----------------------------------------------------------------------------
(* The sorts of the words that calls name.                                 *)
Sorted(c) ==
  /\ c.op \in {"init", "lock", "unlock", "destroy"} => c.on \in Mutexes
  /\ c.op \in {"rdlock", "wrlock", "rwunlock"} => c.on \in RwLocks
  /\ c.op \in {"wait", "broadcast", "condinit", "conddestroy"} => c.on \in Conds
  /\ c.op = "once" => c.on \in Onces
  /\ c.op = "create" => c.on \in Threads
  /\ c.op = "init" => c.kind \in Kinds

LEMMA CallSorts == \A c \in Calls : Sorted(c)
BY DEF Calls, Sorted

(* The call a thread is in names a word of its sort, and the rest of its   *)
(* script is a script.                                                     *)
LEMMA HeadSorted ==
  ASSUME TypeOK, NEW t \in Threads, todo[t] # <<>>
  PROVE  Sorted(Head(todo[t])) /\ Tail(todo[t]) \in Seq(Calls)
<1>1. todo[t] \in Seq(Calls)
  BY DEF TypeOK
<1>2. Head(todo[t]) \in Calls /\ Tail(todo[t]) \in Seq(Calls)
  BY <1>1
<1> QED
  BY <1>2, CallSorts

(* A thread inside a native call is in one that names a word.              *)
LEMMA NativeSorted ==
  ASSUME TypeOK, Places, NEW t \in Threads, Inside(t)
  PROVE  On(t) \in Words
BY HeadSorted DEF Places, Inside, Op, On, Sorted, NativeCalls, Words

(* A static value is no address.                                           *)
LEMMA StaticsAreNoObjects ==
  /\ Null \notin Objects /\ RecursiveStatic \notin Objects
  /\ \A o \in Objects : o > DestroyAbove
BY ShimAssumption DEF Null, RecursiveStatic, DestroyAbove

(* Only threads sleep on an object.                                        *)
LEMMA SleepersAreThreads ==
  ASSUME TypeOK, NEW w \in Words, word[w] \in Objects
  PROVE  object[word[w]].asleep \subseteq Threads
BY DEF TypeOK, ObjectType

-----------------------------------------------------------------------------
(* Steps that touch neither words nor objects nor locks: the place of the  *)
(* thread changes between calls and initialisers only.                     *)
Aside(t) ==
  /\ UNCHANGED <<word, object, fresh, holds>>
  /\ pc[t] \in {"call", "initialising"}
  /\ pc' = [pc EXCEPT ![t] = pc'[t]] /\ pc'[t] \in {"call", "initialising"}
  /\ todo' \in {todo, [todo EXCEPT ![t] = Tail(todo[t])]}
  /\ \A u \in Threads \ {t} : life[u] = "running" => life'[u] = "running"

LEMMA AsideKeeps ==
  ASSUME IInv, NEW t \in Threads, Aside(t), TypeOK', OnceCounts',
         pc'[t] = "initialising" =>
           life'[t] = "running" /\ todo[t] # <<>> /\ Op(t) = "once" /\ todo' = todo
  PROVE  IInv'
<1> USE DEF IInv, Aside
<1>1. \A u \in Threads \ {t} : todo'[u] = todo[u] /\ pc'[u] = pc[u]
  BY DEF TypeOK
<1>2. Places'
  BY <1>1 DEF Places, Op, Inside, TypeOK
<1>3. Distinct' /\ FreshIdle'
  BY DEF Distinct, FreshIdle
<1>4. StoresAlone'
  BY <1>1 DEF StoresAlone, On
<1>5. UsesObject'
  BY <1>1 DEF UsesObject, On
<1>6. HoldsOn'
  <2> SUFFICES ASSUME NEW u \in Threads, Inside(u)' PROVE Entitled(u)'
    BY DEF HoldsOn
  <2>1. u # t /\ Inside(u) /\ Entitled(u) /\ life[u] = "running"
    BY <1>1 DEF Inside, HoldsOn, Places
  <2>2. At(u, pc[u], {"unlock", "rwunlock"})' => At(u, pc[u], {"unlock", "rwunlock"})
    BY <1>1, <2>1 DEF At
  <2> QED
    BY <1>1, <2>1 DEF Entitled, At, On
<1>7. MutexAgrees' /\ MutexCounts' /\ RwAgrees' /\ RwExcludes'
  BY DEF MutexAgrees, MutexCounts, RwAgrees, RwExcludes
<1>8. SleepersReachable'
  BY <1>1 DEF SleepersReachable, On
<1>9. SleepersKnown'
  BY <1>1, SleepersAreThreads DEF SleepersKnown, On, Words
<1> QED
  BY <1>2, <1>3, <1>4, <1>5, <1>6, <1>7, <1>8, <1>9

-----------------------------------------------------------------------------
(* Steps that give or take a lock: the object of one word becomes x, and   *)
(* the thread holds that word n times.                                     *)
LockStep(t, w, x, n) ==
  /\ object' = [object EXCEPT ![word[w]] = x]
  /\ holds' = [holds EXCEPT ![t][w] = n]
  /\ pc' = [pc EXCEPT ![t] = "call"]
  /\ todo' \in {todo, [todo EXCEPT ![t] = Tail(todo[t])]}
  /\ UNCHANGED <<word, fresh, once, ran, life, guard>>
(* The object and the engine go on agreeing about that word. *)
Agreed(t, w, x, n) ==
  /\ w \in Mutexes =>
       /\ \A u \in Threads : (IF u = t THEN n ELSE holds[u][w])
                             = IF x.owner = u THEN x.depth ELSE 0
       /\ x.owner = Nobody <=> x.depth = 0
  /\ w \in RwLocks =>
       /\ \A u \in Threads : (IF u = t THEN n ELSE holds[u][w])
                             = IF x.owner = u \/ u \in x.readers THEN 1 ELSE 0
       /\ x.owner = Nobody \/ x.readers = {}
Lawful(t, w, x, n) ==
  /\ w \in Lockable /\ word[w] \in Objects
  /\ pc[t] \in {"use", "awake"} /\ todo[t] # <<>>
  /\ x \in ObjectType /\ x.asleep = object[word[w]].asleep /\ n \in Nat

LEMMA LockStepKeeps ==
  ASSUME IInv, NEW t \in Threads, NEW w, NEW x, NEW n,
         Lawful(t, w, x, n), Agreed(t, w, x, n), LockStep(t, w, x, n)
  PROVE  IInv'
<1> USE DEF IInv
<1>1. \A u \in Threads \ {t} : todo'[u] = todo[u] /\ pc'[u] = pc[u]
  BY DEF TypeOK, LockStep
<1>2. \A u \in Threads \ {t} : holds'[u] = holds[u]
  BY DEF TypeOK, LockStep
<1>3. w \in Words /\ word[w] \in Objects
  BY DEF Lawful, Lockable, Words
<1>4. \A v \in Words : word'[v] = word[v] /\
        (word[v] \in Objects => object'[word[v]] = IF v = w THEN x ELSE object[word[v]])
  BY <1>3 DEF TypeOK, LockStep, Distinct
<1>5. \A u \in Threads, v \in Lockable :
        holds'[u][v] = IF u = t /\ v = w THEN n ELSE holds[u][v]
  BY DEF TypeOK, LockStep, Lawful
<1>6. pc'[t] = "call"
  BY DEF TypeOK, LockStep
<1>7. TypeOK'
  <2>1. object' \in [Objects -> ObjectType]
    BY DEF TypeOK, LockStep, Lawful
  <2>2. holds' \in [Threads -> [Lockable -> Nat]]
    BY DEF TypeOK, LockStep, Lawful
  <2>3. todo' \in [Threads -> Seq(Calls)]
    BY HeadSorted DEF TypeOK, LockStep, Lawful
  <2>4. \A u \in Threads : pc'[u] = "store" <=> fresh'[u] # Null
    BY <1>1, <1>6 DEF TypeOK, LockStep, Lawful
  <2> QED
    BY <2>1, <2>2, <2>3, <2>4 DEF TypeOK, LockStep
<1>8. Places'
  BY <1>1, <1>6 DEF Places, Op, Inside, TypeOK, LockStep
<1>9. Distinct'
  BY DEF Distinct, LockStep
<1>10. FreshIdle'
  BY <1>3 DEF Distinct, FreshIdle, LockStep, TypeOK
<1>11. StoresAlone'
  BY <1>1, <1>6 DEF StoresAlone, On, LockStep
<1>12. UsesObject'
  BY <1>1, <1>6 DEF UsesObject, On, LockStep
<1>13. HoldsOn'
  <2> SUFFICES ASSUME NEW u \in Threads, Inside(u)' PROVE Entitled(u)'
    BY DEF HoldsOn
  <2>1. u # t /\ Inside(u) /\ Entitled(u)
    BY <1>1, <1>6 DEF Inside, HoldsOn
  <2> QED
    BY <1>1, <1>2, <2>1 DEF Entitled, At, On, LockStep
<1>14. MutexAgrees' /\ MutexCounts'
  BY <1>4, <1>5 DEF MutexAgrees, MutexCounts, Agreed, Lawful, Words, Lockable
<1>15. RwAgrees' /\ RwExcludes'
  <2>1. ASSUME NEW v \in RwLocks, NEW u \in Threads
        PROVE  holds'[u][v] = IF word'[v] \in Objects
                   /\ (object'[word'[v]].owner = u \/ u \in object'[word'[v]].readers)
                 THEN 1 ELSE 0
    <3>1. CASE v = w
      BY <1>3, <1>4, <1>5, <3>1 DEF Agreed, Words, Lockable
    <3>2. CASE v # w
      BY <1>4, <1>5, <3>2 DEF RwAgrees, Words, Lockable
    <3> QED
      BY <3>1, <3>2
  <2>2. RwExcludes'
    BY <1>4 DEF RwExcludes, Agreed, Words
  <2> QED
    BY <2>1, <2>2 DEF RwAgrees
<1>16. \A v \in Words : word[v] \in Objects =>
         object'[word[v]].asleep = object[word[v]].asleep
  BY <1>4 DEF Lawful
<1>17. SleepersReachable'
  BY <1>1, <1>4, <1>6, <1>16, HeadSorted
  DEF SleepersReachable, On, Places, Op, Sorted, Words
<1>18. SleepersKnown'
  BY <1>1, <1>4, <1>16, SleepersAreThreads DEF SleepersKnown, On, Words, Lawful
<1>19. OnceCounts'
  BY DEF OnceCounts, LockStep
<1> QED
  BY <1>7, <1>8, <1>9, <1>10, <1>11, <1>12, <1>13, <1>14, <1>15, <1>17, <1>18, <1>19

(* An object with another owner and depth.                                 *)
LEMMA OwnedObject ==
  ASSUME NEW o \in ObjectType, NEW p \in Threads \cup {Nobody}, NEW d \in Nat
  PROVE  /\ Owned(o, p, d) \in ObjectType
         /\ Owned(o, p, d).owner = p /\ Owned(o, p, d).depth = d
         /\ Owned(o, p, d).readers = o.readers /\ Owned(o, p, d).asleep = o.asleep
<1>1. [o EXCEPT !.owner = p, !.depth = d] \in ObjectType
  BY DEF ObjectType
<1>2. [o EXCEPT !.owner = p, !.depth = d].owner = p
  BY DEF ObjectType
<1>3. [o EXCEPT !.owner = p, !.depth = d].depth = d
  BY DEF ObjectType
<1>4. [o EXCEPT !.owner = p, !.depth = d].readers = o.readers
  BY DEF ObjectType
<1>5. [o EXCEPT !.owner = p, !.depth = d].asleep = o.asleep
  BY DEF ObjectType
<1> QED
  BY <1>1, <1>2, <1>3, <1>4, <1>5 DEF Owned

(* Taking a mutex, in a lock or at the end of a wait (imports.c 126, 176). *)
LEMMA TakeKeeps ==
  ASSUME IInv, NEW t \in Threads, NEW w \in Mutexes, word[w] \in Objects,
         pc[t] \in {"use", "awake"}, todo[t] # <<>>, Take(t, w),
         pc' = [pc EXCEPT ![t] = "call"],
         todo' \in {todo, [todo EXCEPT ![t] = Tail(todo[t])]},
         UNCHANGED <<word, fresh, once, ran, threads>>
  PROVE  IInv'
<1> DEFINE o == object[word[w]]
           x == Owned(o, t, o.depth + 1)
           n == holds[t][w] + 1
<1>1. o \in ObjectType /\ w \in Lockable /\ w \in Words
  BY DEF IInv, TypeOK, Lockable, Words
<1>2. x \in ObjectType /\ x.asleep = o.asleep /\ x.owner = t /\ x.depth = o.depth + 1
  <2>1. o.depth + 1 \in Nat
    BY <1>1 DEF ObjectType
  <2> QED
    BY <1>1, <2>1, OwnedObject
<1>3. n \in Nat
  BY <1>1 DEF IInv, TypeOK
<1>4. LockStep(t, w, x, n)
  <2>1. object' = [object EXCEPT ![word[w]] = x]
    BY <1>1 DEF Take, IInv, TypeOK, ObjectType
  <2> QED
    BY <2>1 DEF Take, LockStep, threads
<1>5. Agreed(t, w, x, n)
  <2>1. w \notin RwLocks
    BY ShimAssumption
  <2>2. o.owner \in {Nobody, t} /\ o.depth \in Nat /\ Nobody # t
    BY <1>1, ShimAssumption DEF Take, MayLock, ObjectType
  <2>3. \A u \in Threads : holds[u][w] = IF o.owner = u THEN o.depth ELSE 0
    BY DEF IInv, MutexAgrees
  <2>4. o.owner = Nobody => o.depth = 0
    BY DEF IInv, MutexCounts
  <2> HIDE DEF o
  <2>5. \A u \in Threads : holds[u][w] = IF u = t THEN o.depth ELSE 0
    BY <2>2, <2>3, <2>4, ShimAssumption
  <2> QED
    BY <1>2, <2>1, <2>2, <2>5 DEF Agreed
<1>6. Lawful(t, w, x, n)
  BY <1>1, <1>2, <1>3 DEF Lawful
<1> QED
  BY <1>4, <1>5, <1>6, LockStepKeeps

LEMMA LockKeeps ==
  ASSUME IInv, NEW t \in Threads, Lock(t) PROVE IInv'
<1>1. On(t) \in Mutexes /\ word[On(t)] \in Objects
  BY HeadSorted DEF IInv, Lock, At, On, Sorted, UsesObject
<1> QED
  BY <1>1, TakeKeeps DEF Lock, At, Return

LEMMA RelockKeeps ==
  ASSUME IInv, NEW t \in Threads, Relock(t) PROVE IInv'
<1>1. On(t) \in Conds /\ word[MutexOf[On(t)]] \in Objects
  BY HeadSorted DEF IInv, Relock, At, On, Sorted, UsesObject
<1>2. MutexOf[On(t)] \in Mutexes
  BY <1>1, ShimAssumption
<1> QED
  BY <1>1, <1>2, TakeKeeps DEF Relock, At, GoTo

(* Giving a mutex back (imports.c 142).                                    *)
LEMMA ReleasedAgrees ==
  ASSUME IInv, NEW t \in Threads, NEW w \in Mutexes, holds[t][w] > 0
  PROVE  /\ word[w] \in Objects
         /\ LET x == Released(t, object[word[w]]) IN
            /\ x \in ObjectType /\ x.asleep = object[word[w]].asleep
            /\ holds[t][w] - 1 \in Nat
            /\ Agreed(t, w, x, holds[t][w] - 1)
<1> DEFINE o == object[word[w]]
           x == Released(t, o)
           p == IF o.depth = 1 THEN Nobody ELSE t
<1>1. word[w] \in Objects /\ o.owner = t /\ o.depth = holds[t][w]
  BY DEF IInv, MutexAgrees
<1>2. o \in ObjectType
  BY <1>1 DEF IInv, TypeOK
<1>3. x = Owned(o, p, o.depth - 1)
  BY <1>1 DEF Released
<1>4. o.depth \in Nat /\ o.depth > 0
  BY <1>1, <1>2 DEF ObjectType
<1>5. /\ x \in ObjectType /\ x.asleep = o.asleep
      /\ x.owner = p /\ x.depth = o.depth - 1
  <2> DEFINE d == o.depth - 1
  <2>1. d \in Nat /\ p \in Threads \cup {Nobody}
    BY <1>4
  <2>2. x = Owned(o, p, d)
    BY <1>3
  <2> HIDE DEF o, x, p, d
  <2>3. /\ Owned(o, p, d) \in ObjectType /\ Owned(o, p, d).asleep = o.asleep
        /\ Owned(o, p, d).owner = p /\ Owned(o, p, d).depth = d
    BY <1>2, <2>1, OwnedObject
  <2> QED
    BY <2>2, <2>3 DEF d
<1>6. \A u \in Threads : u # t => holds[u][w] = 0
  BY <1>1 DEF IInv, MutexAgrees
<1>7. w \notin RwLocks /\ Nobody \notin Threads
  BY ShimAssumption
<1>8. Agreed(t, w, x, holds[t][w] - 1)
  BY <1>1, <1>4, <1>5, <1>6, <1>7 DEF Agreed
<1> QED
  BY <1>1, <1>4, <1>5, <1>8

LEMMA UnlockKeeps ==
  ASSUME IInv, NEW t \in Threads, Unlock(t) PROVE IInv'
<1> DEFINE x == Released(t, object[word[On(t)]])
           n == holds[t][On(t)] - 1
<1>1. At(t, "use", {"unlock"}) /\ On(t) \in Mutexes
  BY HeadSorted DEF IInv, Unlock, At, On, Sorted
<1>2. holds[t][On(t)] > 0
  BY <1>1 DEF IInv, HoldsOn, Inside, Entitled, At
<1>3. /\ word[On(t)] \in Objects /\ x \in ObjectType
      /\ x.asleep = object[word[On(t)]].asleep
      /\ n \in Nat /\ Agreed(t, On(t), x, n)
  BY <1>1, <1>2, ReleasedAgrees
<1>4. LockStep(t, On(t), x, n)
  BY <1>3 DEF Unlock, LockStep, Return, threads
<1>5. Lawful(t, On(t), x, n)
  BY <1>1, <1>3 DEF Lawful, At, Lockable
<1> QED
  BY <1>3, <1>4, <1>5, LockStepKeeps

(* The two sides of a rwlock (libc_shim.c 773-791).                        *)
LEMMA ReadLockKeeps ==
  ASSUME IInv, NEW t \in Threads, ReadLock(t) PROVE IInv'
<1> DEFINE w == On(t)
           o == object[word[w]]
           x == [o EXCEPT !.readers = o.readers \cup {t}]
<1>1. At(t, "use", {"rdlock"}) /\ w \in RwLocks /\ word[w] \in Objects
  BY HeadSorted DEF IInv, ReadLock, At, On, Sorted, UsesObject
<1>2. o \in ObjectType /\ o.owner = Nobody /\ w \in Lockable /\ w \notin Mutexes
  BY <1>1, ShimAssumption DEF IInv, TypeOK, ReadLock, Lockable
<1>3. /\ x \in ObjectType /\ x.asleep = o.asleep
      /\ x.owner = Nobody /\ x.readers = o.readers \cup {t}
  <2> HIDE DEF o
  <2> QED
    BY <1>2 DEF ObjectType
<1>4. holds[t][w] = 0
  BY <1>1 DEF IInv, HoldsOn, Inside, Entitled, At
<1>5. LockStep(t, w, x, 1)
  BY <1>1, <1>4 DEF ReadLock, LockStep, Return, threads, IInv, TypeOK
<1>6. Agreed(t, w, x, 1)
  <2>1. \A u \in Threads : holds[u][w] = IF u \in o.readers THEN 1 ELSE 0
    BY <1>1, <1>2, ShimAssumption DEF IInv, RwAgrees
  <2> QED
    BY <1>2, <1>3, <2>1, ShimAssumption DEF Agreed
<1>7. Lawful(t, w, x, 1)
  BY <1>1, <1>2, <1>3 DEF Lawful, At
<1> QED
  BY <1>5, <1>6, <1>7, LockStepKeeps

LEMMA WriteLockKeeps ==
  ASSUME IInv, NEW t \in Threads, WriteLock(t) PROVE IInv'
<1> DEFINE w == On(t)
           o == object[word[w]]
           x == [o EXCEPT !.owner = t]
<1>1. At(t, "use", {"wrlock"}) /\ w \in RwLocks /\ word[w] \in Objects
  BY HeadSorted DEF IInv, WriteLock, At, On, Sorted, UsesObject
<1>2. /\ o \in ObjectType /\ o.owner = Nobody /\ o.readers = {}
      /\ w \in Lockable /\ w \notin Mutexes
  BY <1>1, ShimAssumption DEF IInv, TypeOK, WriteLock, Lockable
<1>3. /\ x \in ObjectType /\ x.asleep = o.asleep
      /\ x.owner = t /\ x.readers = {}
  <2> HIDE DEF o
  <2> QED
    BY <1>2 DEF ObjectType
<1>4. holds[t][w] = 0
  BY <1>1 DEF IInv, HoldsOn, Inside, Entitled, At
<1>5. LockStep(t, w, x, 1)
  BY <1>1, <1>4 DEF WriteLock, LockStep, Return, threads, IInv, TypeOK
<1>6. Agreed(t, w, x, 1)
  <2>1. \A u \in Threads : holds[u][w] = 0
    BY <1>1, <1>2, ShimAssumption DEF IInv, RwAgrees
  <2> QED
    BY <1>2, <1>3, <2>1, ShimAssumption DEF Agreed
<1>7. Lawful(t, w, x, 1)
  BY <1>1, <1>2, <1>3 DEF Lawful, At
<1> QED
  BY <1>5, <1>6, <1>7, LockStepKeeps

LEMMA RwUnlockKeeps ==
  ASSUME IInv, NEW t \in Threads, RwUnlock(t) PROVE IInv'
<1> DEFINE w == On(t)
           o == object[word[w]]
           x == RwReleased(t, o)
<1>1. At(t, "use", {"rwunlock"}) /\ w \in RwLocks /\ word[w] \in Objects
  BY HeadSorted DEF IInv, RwUnlock, At, On, Sorted, UsesObject
<1>2. o \in ObjectType /\ w \in Lockable /\ w \notin Mutexes
  BY <1>1, ShimAssumption DEF IInv, TypeOK, Lockable
<1>3. holds[t][w] > 0
  BY <1>1 DEF IInv, HoldsOn, Inside, Entitled, At
<1>4. holds[t][w] = 1 /\ (o.owner = t \/ t \in o.readers)
  BY <1>1, <1>3 DEF IInv, RwAgrees
<1>5. o.owner = Nobody \/ o.readers = {}
  BY <1>1 DEF IInv, RwExcludes
<1>6. /\ x \in ObjectType /\ x.asleep = o.asleep /\ x.owner = Nobody
      /\ x.readers = o.readers \ {t}
  <2> HIDE DEF o
  <2>1. CASE o.owner = t
    BY <1>2, <1>5, <2>1, ShimAssumption DEF RwReleased, ObjectType
  <2>2. CASE o.owner # t
    BY <1>2, <1>4, <1>5, <2>2 DEF RwReleased, ObjectType
  <2> QED
    BY <2>1, <2>2
<1>7. LockStep(t, w, x, 0)
  <2>1. holds' = [holds EXCEPT ![t][w] = 0]
    BY <1>2, <1>4 DEF RwUnlock, IInv, TypeOK
  <2> QED
    BY <1>1, <2>1 DEF RwUnlock, LockStep, Return, threads
<1>8. Agreed(t, w, x, 0)
  <2>1. \A u \in Threads : holds[u][w] = IF o.owner = u \/ u \in o.readers THEN 1 ELSE 0
    BY <1>1 DEF IInv, RwAgrees
  <2> HIDE DEF o, x, w
  <2>2. \A u \in Threads : u # t => (o.owner = u \/ u \in o.readers <=> u \in x.readers)
    BY <1>4, <1>5, <1>6, ShimAssumption
  <2> QED
    BY <1>2, <1>6, <2>1, <2>2, ShimAssumption DEF Agreed
<1>9. Lawful(t, w, x, 0)
  BY <1>1, <1>2, <1>6 DEF Lawful, At
<1> QED
  BY <1>7, <1>8, <1>9, LockStepKeeps

-----------------------------------------------------------------------------
(* Steps that leave the engine's locks alone: what a word is about stays,  *)
(* or nobody holds it and it gets a new object or none.                    *)
Same(w) ==
  /\ word'[w] = word[w]
  /\ word[w] \in Objects =>
       /\ object'[word[w]].owner = object[word[w]].owner
       /\ object'[word[w]].depth = object[word[w]].depth
       /\ object'[word[w]].readers = object[word[w]].readers
Free(w) ==
  /\ \A t \in Threads : holds[t][w] = 0
  /\ word'[w] \in Objects => Idle(object'[word'[w]])

LEMMA LocksStay ==
  ASSUME IInv, holds' = holds, \A w \in Lockable : Same(w) \/ Free(w)
  PROVE  MutexAgrees' /\ MutexCounts' /\ RwAgrees' /\ RwExcludes'
<1> USE DEF IInv
<1>1. ASSUME NEW w \in Mutexes
      PROVE  /\ \A t \in Threads :
                  holds'[t][w] = IF word'[w] \in Objects /\ object'[word'[w]].owner = t
                                 THEN object'[word'[w]].depth ELSE 0
             /\ word'[w] \in Objects =>
                  (object'[word'[w]].owner = Nobody <=> object'[word'[w]].depth = 0)
  <2>1. CASE Same(w)
    BY <2>1 DEF Same, MutexAgrees, MutexCounts
  <2>2. CASE Free(w)
    BY <2>2, ShimAssumption DEF Free, Idle
  <2> QED
    BY <2>1, <2>2 DEF Lockable
<1>2. ASSUME NEW w \in RwLocks
      PROVE  /\ \A t \in Threads :
                  holds'[t][w] = IF word'[w] \in Objects /\ (object'[word'[w]].owner = t
                                      \/ t \in object'[word'[w]].readers)
                                 THEN 1 ELSE 0
             /\ word'[w] \in Objects => (object'[word'[w]].owner = Nobody
                                      \/ object'[word'[w]].readers = {})
  <2>1. CASE Same(w)
    BY <2>1 DEF Same, RwAgrees, RwExcludes
  <2>2. CASE Free(w)
    BY <2>2, ShimAssumption DEF Free, Idle
  <2> QED
    BY <2>1, <2>2 DEF Lockable
<1> QED
  BY <1>1, <1>2 DEF MutexAgrees, MutexCounts, RwAgrees, RwExcludes

(* A word without an object is held by nobody.                             *)
LEMMA NoObjectNotHeld ==
  ASSUME IInv, NEW w \in Lockable, word[w] \notin Objects
  PROVE  \A t \in Threads : holds[t][w] = 0
BY DEF IInv, Lockable, MutexAgrees, RwAgrees

(* Whoever is given a mutex shares it with nobody.                         *)
LEMMA OneHolder ==
  ASSUME IInv, NEW w \in Mutexes, NEW t \in Threads, NEW u \in Threads,
         holds[t][w] > 0, holds[u][w] > 0
  PROVE  t = u
BY DEF IInv, MutexAgrees

(* The words that calls in the middle of something name.                   *)
LEMMA WordsNamed ==
  ASSUME TypeOK, Places, NEW t \in Threads
  PROVE  /\ Inside(t) => On(t) \in Words
         /\ pc[t] \in {"asleep", "awake"} =>
              /\ On(t) \in Conds /\ On(t) \in Words
              /\ MutexOf[On(t)] \in Mutexes /\ MutexOf[On(t)] \in Words
<1>1. Inside(t) => On(t) \in Words
  BY NativeSorted
<1>2. pc[t] \in {"asleep", "awake"} => On(t) \in Conds
  BY HeadSorted DEF Places, Op, On, Sorted
<1> QED
  BY <1>1, <1>2, ShimAssumption DEF Words

(* A free address is in no word and in no call.                            *)
LEMMA OfferedUnused ==
  ASSUME TypeOK, NEW o \in Offer(Unused)
  PROVE  /\ o \in Objects
         /\ \A w \in Words : word[w] # o
         /\ \A t \in Threads : fresh[t] # o
<1>1. Unused \in SUBSET Objects
  BY DEF Unused
<1>2. o \in Unused
  BY <1>1, ShimAssumption
<1> QED
  BY <1>2 DEF Unused, Range, TypeOK

LEMMA NewObjectIdle ==
  ASSUME NEW k \in Kinds
  PROVE  NewObject(k) \in ObjectType /\ Idle(NewObject(k))
BY DEF NewObject, ObjectType, Idle

-----------------------------------------------------------------------------
(* A call that finds no object is the only one about to store into its     *)
(* word: the engine sees to it for mutexes and rwlocks, and the mutex of a *)
(* condition does for its condition.                                       *)
LEMMA TestIsAlone ==
  ASSUME IInv, NEW t \in Threads, Test(t), NEW u \in Threads,
         pc[u] = "store", On(u) = On(t)
  PROVE  FALSE
<1>1. At(t, "call", NativeCalls) /\ Entitled(t) /\ Alone(t) /\ u # t /\ FirstUsesApart
  BY DEF Test, At, IInv
<1>2. Inside(u) /\ Entitled(u) /\ At(u, "store", NativeCalls)
  BY DEF IInv, Inside, HoldsOn, Places, At, Op
<1>3. On(u) \in Words
  BY <1>2, WordsNamed DEF IInv
<1>4. CASE On(t) \in Lockable
  BY <1>1, <1>2, <1>4 DEF Alone
<1>5. CASE On(t) \in Conds
  <2>1. Sorted(Head(todo[t])) /\ Sorted(Head(todo[u]))
    BY <1>1, <1>2, HeadSorted DEF IInv, At
  <2>2. Head(todo[t]).op \in {"wait", "broadcast"} /\ Head(todo[u]).op \in {"wait", "broadcast"}
    BY <1>1, <1>2, <1>5, <2>1, ShimAssumption DEF Sorted, At, NativeCalls, On
  <2>3. holds[t][MutexOf[On(t)]] = 1 /\ holds[u][MutexOf[On(t)]] = 1
    BY <1>1, <1>2, <2>2 DEF Entitled, At
  <2> QED
    BY <1>1, <1>5, <2>3, OneHolder, ShimAssumption
<1> QED
  BY <1>3, <1>4, <1>5 DEF Words, Lockable

(* The first step of a call: it has an object, or makes one.               *)
LEMMA TestKeeps ==
  ASSUME IInv, NEW t \in Threads, Test(t) PROVE IInv'
<1> USE DEF IInv
<1>1. At(t, "call", NativeCalls) /\ Entitled(t) /\ fresh[t] = Null
  BY DEF Test, At, TypeOK
<1>2. On(t) \in Words
  BY <1>1, HeadSorted DEF At, On, Sorted, NativeCalls, Words
<1>3. \A u \in Threads : todo'[u] = todo[u] /\ (u # t => pc'[u] = pc[u])
  BY DEF TypeOK, Test, GoTo
<1>4. /\ Null \notin Objects /\ RecursiveStatic \notin Objects
  BY StaticsAreNoObjects
<1>5. UNCHANGED <<word, holds, life>> /\ OnceCounts'
  BY DEF Test, threads, OnceCounts
<1>6. CASE NoObjectYet(On(t))
  <2>1. PICK o \in Offer(Unused) :
          /\ fresh' = [fresh EXCEPT ![t] = o]
          /\ object' = [object EXCEPT ![o] = NewObject(Kind(On(t)))]
    BY <1>6 DEF Test
  <2>2. pc'[t] = "store" /\ pc' = [pc EXCEPT ![t] = "store"]
    BY <1>6 DEF Test, GoTo, TypeOK
  <2>3. /\ o \in Objects
        /\ \A v \in Words : word[v] # o
        /\ \A u \in Threads : fresh[u] # o
    BY OfferedUnused
  <2>4. NewObject(Kind(On(t))) \in ObjectType /\ Idle(NewObject(Kind(On(t))))
    BY NewObjectIdle DEF Kind, Kinds
  <2>5. \A p \in Objects :
          object'[p] = IF p = o THEN NewObject(Kind(On(t))) ELSE object[p]
    BY <2>1, <2>3 DEF TypeOK
  <2>6. word[On(t)] \notin Objects
    BY <1>4, <1>6 DEF NoObjectYet
  <2>7. TypeOK'
    BY <1>1, <1>3, <1>4, <2>1, <2>2, <2>3, <2>4 DEF TypeOK, Test, GoTo, threads
  <2>8. Places'
    BY <1>1, <1>3, <1>5, <2>2 DEF Places, Op, Inside, At
  <2>9. Distinct'
    BY <1>5, <2>1, <2>3 DEF Distinct, TypeOK
  <2>10. FreshIdle'
    BY <2>1, <2>3, <2>4, <2>5 DEF FreshIdle, TypeOK
  <2>11. StoresAlone'
    BY <1>3, <1>5, <2>2, <2>6, TestIsAlone DEF StoresAlone, On
  <2>12. UsesObject'
    BY <1>3, <1>5, <2>2 DEF UsesObject, On
  <2>13. HoldsOn'
    BY <1>1, <1>3, <1>5, <2>2 DEF HoldsOn, Inside, Entitled, At, On
  <2>14. MutexAgrees' /\ MutexCounts' /\ RwAgrees' /\ RwExcludes'
    BY <1>5, <2>3, <2>5, LocksStay DEF Same, Lockable, Words
  <2>15. SleepersReachable'
    BY <1>3, <1>5, <2>2, <2>3, <2>5, WordsNamed DEF SleepersReachable, On
  <2>16. SleepersKnown'
    BY <1>1, <1>3, <1>5, <2>2, <2>3, <2>5, SleepersAreThreads DEF SleepersKnown, On, Words, At
  <2> QED
    BY <1>5, <2>7, <2>8, <2>9, <2>10, <2>11, <2>12, <2>13, <2>14, <2>15, <2>16
<1>7. CASE ~NoObjectYet(On(t))
  <2>1. pc'[t] = "use" /\ pc' = [pc EXCEPT ![t] = "use"] /\ UNCHANGED <<fresh, object>>
    BY <1>7 DEF Test, GoTo, TypeOK
  <2>2. word[On(t)] \in Objects
    BY <1>2, <1>7 DEF NoObjectYet, TypeOK
  <2>3. TypeOK'
    BY <1>1, <1>3, <2>1 DEF TypeOK, Test, GoTo, threads
  <2>4. Places'
    BY <1>1, <1>3, <1>5, <2>1 DEF Places, Op, Inside, At
  <2>5. Distinct' /\ FreshIdle'
    BY <1>5, <2>1 DEF Distinct, FreshIdle
  <2>6. StoresAlone'
    BY <1>3, <1>5, <2>1 DEF StoresAlone, On
  <2>7. UsesObject'
    BY <1>3, <1>5, <2>1, <2>2 DEF UsesObject, On
  <2>8. HoldsOn'
    BY <1>1, <1>3, <1>5, <2>1 DEF HoldsOn, Inside, Entitled, At, On
  <2>9. MutexAgrees' /\ MutexCounts' /\ RwAgrees' /\ RwExcludes'
    BY <1>5, <2>1, LocksStay DEF Same
  <2>10. SleepersReachable'
    BY <1>3, <1>5, <2>1 DEF SleepersReachable, On
  <2>11. SleepersKnown'
    BY <1>1, <1>3, <1>5, <2>1, SleepersAreThreads DEF SleepersKnown, On, Words, At
  <2> QED
    BY <1>5, <2>3, <2>4, <2>5, <2>6, <2>7, <2>8, <2>9, <2>10, <2>11
<1> QED
  BY <1>6, <1>7

(* The store of a first call: the word gets its object.                    *)
LEMMA StoreKeeps ==
  ASSUME IInv, NEW t \in Threads, Store(t) PROVE IInv'
<1> USE DEF IInv
<1> DEFINE w == On(t)
<1>1. At(t, "store", NativeCalls) /\ Inside(t) /\ w \in Words
  BY WordsNamed DEF Store, At, Inside
<1>2. fresh[t] \in Objects /\ Null \notin Objects
  BY <1>1, StaticsAreNoObjects DEF TypeOK, At
<1>3. /\ word' = [word EXCEPT ![w] = fresh[t]] /\ fresh' = [fresh EXCEPT ![t] = Null]
      /\ pc' = [pc EXCEPT ![t] = "use"] /\ pc'[t] = "use"
      /\ UNCHANGED <<object, once, ran, life, guard, holds, todo>>
  BY DEF Store, GoTo, threads, TypeOK
<1>4. \A u \in Threads \ {t} : pc'[u] = pc[u]
  BY <1>3 DEF TypeOK
<1>5. \A v \in Words : word'[v] = IF v = w THEN fresh[t] ELSE word[v]
  BY <1>3 DEF TypeOK
<1>6. word[w] \notin Objects /\ Idle(object[fresh[t]])
  BY <1>1, <1>2 DEF StoresAlone, FreshIdle, At
<1>7. TypeOK'
  BY <1>1, <1>2, <1>3, <1>4 DEF TypeOK
<1>8. Places'
  BY <1>1, <1>3, <1>4 DEF Places, Op, Inside, At
<1>9. Distinct'
  BY <1>2, <1>3, <1>5 DEF Distinct, TypeOK
<1>10. FreshIdle'
  BY <1>2, <1>3 DEF FreshIdle, TypeOK
<1>11. StoresAlone'
  <2> SUFFICES ASSUME NEW u \in Threads, pc'[u] = "store"
               PROVE  word'[On(u)] \notin Objects
                      /\ \A v \in Threads : pc'[v] = "store" /\ On(v) = On(u) => v = u
    BY <1>3 DEF StoresAlone, On
  <2>1. u # t /\ pc[u] = "store" /\ On(u) # w
    BY <1>1, <1>3, <1>4 DEF StoresAlone, At
  <2>2. On(u) \in Words
    BY <2>1, WordsNamed DEF Inside
  <2> QED
    BY <1>3, <1>4, <1>5, <2>1, <2>2 DEF StoresAlone
<1>12. UsesObject'
  <2> SUFFICES ASSUME NEW u \in Threads
               PROVE  /\ pc'[u] = "use" => word'[On(u)] \in Objects
                      /\ pc'[u] \in {"asleep", "awake"} => word'[MutexOf[On(u)]] \in Objects
    BY <1>3 DEF UsesObject, On
  <2>1. CASE u = t
    BY <1>1, <1>2, <1>3, <1>5, <2>1
  <2>2. CASE u # t
    BY <1>2, <1>4, <1>5, <2>2, WordsNamed DEF UsesObject, Inside
  <2> QED
    BY <2>1, <2>2
<1>13. HoldsOn'
  BY <1>1, <1>3, <1>4 DEF HoldsOn, Inside, Entitled, At, On
<1>14. MutexAgrees' /\ MutexCounts' /\ RwAgrees' /\ RwExcludes'
  <2>1. \A v \in Lockable : v # w => Same(v)
    BY <1>3, <1>5 DEF Same, Lockable, Words
  <2>2. w \in Lockable => Free(w)
    BY <1>1, <1>3, <1>5, <1>6, NoObjectNotHeld DEF Free, Idle
  <2> QED
    BY <1>3, <2>1, <2>2, LocksStay
<1>15. SleepersReachable'
  <2> SUFFICES ASSUME NEW u \in Threads, pc'[u] = "asleep"
               PROVE  word'[On(u)] \in Objects /\ u \in object'[word'[On(u)]].asleep
    BY <1>3 DEF SleepersReachable, On
  <2>1. pc[u] = "asleep" /\ On(u) \in Words
    BY <1>3, <1>4, WordsNamed
  <2>2. On(u) # w
    BY <1>6, <2>1 DEF SleepersReachable
  <2> QED
    BY <1>3, <1>5, <2>1, <2>2 DEF SleepersReachable
<1>16. SleepersKnown'
  <2> SUFFICES ASSUME NEW c \in Conds, word'[c] \in Objects,
                      NEW u \in object'[word'[c]].asleep
               PROVE  pc'[u] = "asleep" /\ On(u) = c
    BY <1>3 DEF SleepersKnown, On
  <2>1. c # w /\ c \in Words
    BY <1>3, <1>5, <1>6 DEF Idle, Words
  <2>2. u \in object[word[c]].asleep /\ word[c] \in Objects
    BY <1>3, <1>5, <2>1
  <2> QED
    BY <1>1, <1>4, <2>1, <2>2, SleepersAreThreads DEF SleepersKnown, At
<1> QED
  BY <1>3, <1>7, <1>8, <1>9, <1>10, <1>11, <1>12, <1>13, <1>14, <1>15, <1>16 DEF OnceCounts

(* Falling asleep: the mutex is given back and the waiter joins.           *)
LEMMA WaitKeeps ==
  ASSUME IInv, NEW t \in Threads, Wait(t) PROVE IInv'
<1> USE DEF IInv
<1> DEFINE c == On(t)
           m == MutexOf[c]
           n == holds[t][m] - 1
           x == Released(t, object[word[m]])
           y == [object[word[c]] EXCEPT !.asleep = object[word[c]].asleep \cup {t}]
<1>1. At(t, "use", {"wait"}) /\ Inside(t) /\ c \in Conds /\ c \in Words
  BY HeadSorted DEF Wait, At, On, Sorted, Words, Inside
<1>2. m \in Mutexes /\ m \in Lockable /\ m \in Words /\ m # c /\ c \notin Lockable
  BY <1>1, ShimAssumption DEF Lockable, Words
<1>3. holds[t][m] = 1
  BY <1>1 DEF HoldsOn, Entitled, At
<1>4. /\ word[m] \in Objects /\ x \in ObjectType /\ x.asleep = object[word[m]].asleep
      /\ n \in Nat /\ Agreed(t, m, x, n)
  BY <1>2, <1>3, ReleasedAgrees
<1>5. word[c] \in Objects /\ word[c] # word[m]
  BY <1>1, <1>2, <1>4 DEF UsesObject, At, Distinct
<1>6. /\ y \in ObjectType /\ y.asleep = object[word[c]].asleep \cup {t}
  <2> DEFINE o == object[word[c]]
  <2>1. o \in ObjectType
    BY <1>5 DEF TypeOK
  <2> HIDE DEF o
  <2>2. /\ [o EXCEPT !.asleep = o.asleep \cup {t}] \in ObjectType
        /\ [o EXCEPT !.asleep = o.asleep \cup {t}].asleep = o.asleep \cup {t}
    BY <2>1 DEF ObjectType
  <2> QED
    BY <2>2 DEF o
<1>7. \A p \in Objects :
        object'[p] = IF p = word[c] THEN y ELSE IF p = word[m] THEN x ELSE object[p]
  BY <1>4, <1>5 DEF Wait, TypeOK
<1>8. /\ object' \in [Objects -> ObjectType]
  <2>1. object' = [p \in Objects |->
                    IF p = word[c] THEN y ELSE IF p = word[m] THEN x ELSE object[p]]
    BY <1>4, <1>5 DEF Wait, TypeOK
  <2> QED
    BY <1>4, <1>6, <2>1 DEF TypeOK
<1> HIDE DEF x, y
<1>9. /\ holds' = [holds EXCEPT ![t][m] = n] /\ pc' = [pc EXCEPT ![t] = "asleep"]
      /\ UNCHANGED <<word, fresh, once, ran, life, guard, todo>>
  BY DEF Wait, GoTo, threads
<1>10. pc'[t] = "asleep" /\ \A u \in Threads \ {t} : pc'[u] = pc[u] /\ holds'[u] = holds[u]
  BY <1>9 DEF TypeOK
<1>11. \A u \in Threads, v \in Lockable :
         holds'[u][v] = IF u = t /\ v = m THEN n ELSE holds[u][v]
  BY <1>2, <1>9 DEF TypeOK
<1>12. TypeOK'
  <2>1. holds' \in [Threads -> [Lockable -> Nat]]
    BY <1>2, <1>4, <1>9 DEF TypeOK
  <2> QED
    BY <1>1, <1>8, <1>9, <1>10, <2>1 DEF TypeOK, At
<1>13. Places'
  BY <1>1, <1>9, <1>10 DEF Places, Op, Inside, At
<1>14. Distinct'
  BY <1>9 DEF Distinct
<1>15. FreshIdle'
  BY <1>1, <1>2, <1>7, <1>9 DEF FreshIdle, Distinct
<1>16. StoresAlone'
  BY <1>9, <1>10 DEF StoresAlone, On
<1>17. UsesObject'
  BY <1>4, <1>9, <1>10 DEF UsesObject, On
<1>18. HoldsOn'
  BY <1>9, <1>10 DEF HoldsOn, Inside, Entitled, At, On
<1>19. \A v \in Lockable : v # m /\ word[v] \in Objects => object'[word[v]] = object[word[v]]
  BY <1>1, <1>2, <1>7 DEF Distinct, Lockable, Words
<1>20. object'[word[m]] = x
  BY <1>4, <1>5, <1>7
<1>21. MutexAgrees' /\ MutexCounts'
  <2>1. ASSUME NEW v \in Mutexes, v # m
        PROVE  /\ \A u \in Threads : holds'[u][v] = holds[u][v]
               /\ word[v] \in Objects => object'[word[v]] = object[word[v]]
    BY <1>11, <1>19, <2>1 DEF Lockable
  <2>2. /\ \A u \in Threads : holds'[u][m] = IF x.owner = u THEN x.depth ELSE 0
        /\ x.owner = Nobody <=> x.depth = 0
    BY <1>2, <1>4, <1>11 DEF Agreed
  <2> QED
    BY <1>4, <1>9, <1>20, <2>1, <2>2 DEF MutexAgrees, MutexCounts
<1>22. RwAgrees' /\ RwExcludes'
  <2>1. ASSUME NEW v \in RwLocks
        PROVE  /\ \A u \in Threads : holds'[u][v] = holds[u][v]
               /\ word[v] \in Objects => object'[word[v]] = object[word[v]]
    BY <1>2, <1>11, <1>19, ShimAssumption DEF Lockable
  <2> QED
    BY <1>9, <2>1 DEF RwAgrees, RwExcludes
<1>23. \A d \in Conds : word[d] \in Objects =>
         object'[word[d]].asleep = IF d = c THEN object[word[d]].asleep \cup {t}
                                   ELSE object[word[d]].asleep
  <2> SUFFICES ASSUME NEW d \in Conds, word[d] \in Objects
               PROVE  object'[word[d]].asleep = IF d = c THEN object[word[d]].asleep \cup {t}
                                                ELSE object[word[d]].asleep
    OBVIOUS
  <2>1. CASE d = c
    BY <1>5, <1>6, <1>7, <2>1
  <2>2. CASE d # c
    <3>1. word[d] # word[c]
      BY <1>1, <1>5, <2>2 DEF Distinct, Words
    <3>2. object'[word[d]] = IF word[d] = word[m] THEN x ELSE object[word[d]]
      BY <1>7, <3>1
    <3> QED
      BY <1>4, <2>2, <3>2
  <2> QED
    BY <2>1, <2>2
<1>24. SleepersReachable'
  <2> SUFFICES ASSUME NEW u \in Threads, pc'[u] = "asleep"
               PROVE  word[On(u)] \in Objects /\ u \in object'[word[On(u)]].asleep
    BY <1>9 DEF SleepersReachable, On
  <2>1. CASE u = t
    BY <1>1, <1>5, <1>23, <2>1
  <2>2. CASE u # t
    <3>1. pc[u] = "asleep"
      BY <1>10, <2>2
    <3>2. On(u) \in Conds /\ word[On(u)] \in Objects /\ u \in object[word[On(u)]].asleep
      BY <3>1, WordsNamed DEF SleepersReachable
    <3> QED
      BY <1>23, <3>2
  <2> QED
    BY <2>1, <2>2
<1>25. SleepersKnown'
  <2> SUFFICES ASSUME NEW d \in Conds, word[d] \in Objects,
                      NEW u \in object'[word[d]].asleep
               PROVE  pc'[u] = "asleep" /\ On(u) = d
    BY <1>9 DEF SleepersKnown, On
  <2>1. CASE d = c /\ u = t
    BY <1>10, <2>1
  <2>2. CASE ~(d = c /\ u = t)
    <3>1. u \in object[word[d]].asleep
      BY <1>23, <2>2
    <3>2. pc[u] = "asleep" /\ On(u) = d /\ u \in Threads
      BY <3>1, SleepersAreThreads DEF SleepersKnown, Words
    <3> QED
      BY <1>1, <1>10, <3>2 DEF At
  <2> QED
    BY <2>1, <2>2
<1> QED
  BY <1>9, <1>12, <1>13, <1>14, <1>15, <1>16, <1>17, <1>18, <1>21, <1>22, <1>24, <1>25
  DEF OnceCounts

(* A broadcast wakes whoever sleeps on the object of its condition.        *)
LEMMA BroadcastKeeps ==
  ASSUME IInv, NEW t \in Threads, Broadcast(t) PROVE IInv'
<1> USE DEF IInv
<1> DEFINE c == On(t)
           sleepers == object[word[c]].asleep
<1>1. At(t, "use", {"broadcast"}) /\ c \in Conds /\ c \in Words /\ pc[t] = "use"
  BY HeadSorted DEF Broadcast, At, On, Sorted, Words
<1>2. word[c] \in Objects /\ sleepers \subseteq Threads
  BY <1>1, SleepersAreThreads DEF UsesObject
<1>3. \A u \in sleepers : pc[u] = "asleep" /\ On(u) = c /\ u # t
  BY <1>1, <1>2 DEF SleepersKnown
<1>4. \A u \in Threads : pc'[u] = IF u = t THEN "call"
                                  ELSE IF u \in sleepers THEN "awake" ELSE pc[u]
  BY DEF Broadcast
<1>5. /\ object' = [object EXCEPT ![word[c]].asleep = {}]
      /\ todo' = [todo EXCEPT ![t] = Tail(todo[t])]
      /\ UNCHANGED <<word, fresh, once, ran, life, guard, holds>>
  BY DEF Broadcast, threads
<1>6. \A u \in Threads \ {t} : todo'[u] = todo[u]
  BY <1>5 DEF TypeOK
<1>7. \A p \in Objects :
        /\ object'[p].owner = object[p].owner /\ object'[p].depth = object[p].depth
        /\ object'[p].readers = object[p].readers
        /\ object'[p].asleep = IF p = word[c] THEN {} ELSE object[p].asleep
  BY <1>2, <1>5 DEF TypeOK, ObjectType
<1>8. TypeOK'
  <2>1. [object[word[c]] EXCEPT !.asleep = {}] \in ObjectType
    <3> DEFINE o == object[word[c]]
    <3>1. o \in ObjectType
      BY <1>2 DEF TypeOK
    <3> HIDE DEF o
    <3>2. [o EXCEPT !.asleep = {}] \in ObjectType
      BY <3>1 DEF ObjectType
    <3> QED
      BY <3>2 DEF o
  <2>2. pc' \in [Threads -> {"call", "store", "use", "asleep", "awake", "initialising"}]
    BY DEF TypeOK, Broadcast
  <2>3. \A u \in Threads : pc'[u] = "store" <=> fresh'[u] # Null
    BY <1>1, <1>3, <1>4, <1>5 DEF TypeOK
  <2>4. todo' \in [Threads -> Seq(Calls)]
    BY <1>1, <1>5, HeadSorted DEF TypeOK, At
  <2> QED
    BY <1>2, <1>5, <2>1, <2>2, <2>3, <2>4 DEF TypeOK
<1>9. Places'
  BY <1>3, <1>4, <1>5, <1>6 DEF Places, Op, Inside
<1>10. Distinct'
  BY <1>5 DEF Distinct
<1>11. FreshIdle'
  <2> SUFFICES ASSUME NEW u \in Threads, fresh[u] \in Objects
               PROVE  Idle(object'[fresh[u]])
    BY <1>5 DEF FreshIdle
  <2>1. Idle(object[fresh[u]]) /\ fresh[u] # word[c]
    BY <1>1 DEF FreshIdle, Distinct
  <2> QED
    BY <1>7, <2>1 DEF Idle
<1>12. \A u \in Threads : Inside(u)' => Inside(u) /\ u # t /\ pc'[u] = pc[u]
  BY <1>3, <1>4 DEF Inside
<1>13. StoresAlone'
  <2>1. \A u \in Threads : pc'[u] = "store" => pc[u] = "store" /\ On(u)' = On(u)
    BY <1>4, <1>6 DEF On
  <2> QED
    BY <1>5, <2>1 DEF StoresAlone
<1>14. UsesObject'
  BY <1>3, <1>4, <1>5, <1>6 DEF UsesObject, On
<1>15. HoldsOn'
  BY <1>5, <1>6, <1>12 DEF HoldsOn, Entitled, At, On
<1>16. MutexAgrees' /\ MutexCounts' /\ RwAgrees' /\ RwExcludes'
  BY <1>5, <1>7, LocksStay DEF Same
<1>17. SleepersReachable'
  <2> SUFFICES ASSUME NEW u \in Threads, pc'[u] = "asleep"
               PROVE  word[On(u)] \in Objects /\ u \in object'[word[On(u)]].asleep
    BY <1>4, <1>5, <1>6 DEF SleepersReachable, On
  <2>1. pc[u] = "asleep" /\ u \notin sleepers /\ On(u) \in Words
    BY <1>4, WordsNamed
  <2> QED
    BY <1>1, <1>2, <1>7, <2>1 DEF SleepersReachable, Distinct
<1>18. SleepersKnown'
  <2> SUFFICES ASSUME NEW d \in Conds, word[d] \in Objects,
                      NEW u \in object'[word[d]].asleep
               PROVE  pc'[u] = "asleep" /\ On(u)' = d
    BY <1>5 DEF SleepersKnown
  <2>1. word[d] # word[c] /\ u \in object[word[d]].asleep
    BY <1>7
  <2>2. pc[u] = "asleep" /\ On(u) = d /\ u \in Threads
    BY <2>1, SleepersAreThreads DEF SleepersKnown, Words
  <2>3. u # t /\ u \notin sleepers
    BY <1>1, <1>3, <2>1, <2>2
  <2> QED
    BY <1>4, <1>6, <2>2, <2>3 DEF On
<1> QED
  BY <1>5, <1>8, <1>9, <1>10, <1>11, <1>13, <1>14, <1>15, <1>16, <1>17, <1>18 DEF OnceCounts

-----------------------------------------------------------------------------
(* Giving a mutex or a condition an object, or taking it away, while       *)
(* nobody else uses it.                                                    *)
Rebind(t, w, o) ==
  /\ w \in Mutexes \cup Conds /\ Untouched(t, w) /\ pc[t] = "call" /\ todo[t] # <<>>
  /\ w \in Mutexes => \A u \in Threads : holds[u][w] = 0
  /\ word' = [word EXCEPT ![w] = o]
  /\ pc' = [pc EXCEPT ![t] = "call"] /\ todo' = [todo EXCEPT ![t] = Tail(todo[t])]
  /\ UNCHANGED <<fresh, once, ran, life, guard, holds>>

LEMMA RebindKeeps ==
  ASSUME IInv, NEW t \in Threads, NEW w, NEW o, Rebind(t, w, o),
         object' \in [Objects -> ObjectType],
         \A v \in Words : word[v] \in Objects => object'[word[v]] = object[word[v]],
         \A u \in Threads : fresh[u] \in Objects => object'[fresh[u]] = object[fresh[u]],
         o \in Objects \cup {Null, RecursiveStatic},
         o \in Objects =>
           /\ Idle(object'[o])
           /\ \A v \in Words : word[v] # o
           /\ \A u \in Threads : fresh[u] # o
  PROVE  IInv'
<1> USE DEF IInv
<1>1. w \in Words /\ (w \in Lockable <=> w \in Mutexes)
  BY ShimAssumption DEF Rebind, Words, Lockable
<1>2. word'[w] = o /\ \A v \in Words : v # w => word'[v] = word[v]
  BY <1>1 DEF Rebind, TypeOK
<1>3. /\ pc[t] = "call" /\ pc' = pc
      /\ \A u \in Threads : pc[u] # "call" => todo'[u] = todo[u] /\ u # t
      /\ UNCHANGED <<fresh, once, ran, life, guard, holds>>
  BY DEF Rebind, TypeOK
<1>4. \A u \in Threads : pc[u] # "call" =>
        On(u) # w /\ (Op(u) = "wait" => MutexOf[On(u)] # w)
  BY <1>3 DEF Rebind, Untouched, Op
<1>5. \A u \in Threads :
        /\ Inside(u) => On(u) \in Words /\ word'[On(u)] = word[On(u)]
        /\ pc[u] \in {"asleep", "awake"} =>
             /\ word'[On(u)] = word[On(u)] /\ On(u) \in Words
             /\ word'[MutexOf[On(u)]] = word[MutexOf[On(u)]]
  <2> TAKE u \in Threads
  <2>1. pc[u] \in {"asleep", "awake"} => Op(u) = "wait"
    BY DEF Places
  <2> QED
    BY <1>2, <1>4, <2>1, WordsNamed DEF Inside
<1>6. TypeOK'
  <2>1. word' \in [Words -> Objects \cup {Null, RecursiveStatic}]
    BY <1>1 DEF TypeOK, Rebind
  <2>2. todo' \in [Threads -> Seq(Calls)]
    BY HeadSorted DEF TypeOK, Rebind
  <2> QED
    BY <1>3, <2>1, <2>2 DEF TypeOK
<1>7. Places'
  BY <1>3 DEF Places, Op, Inside
<1>8. Distinct'
  BY <1>1, <1>2, <1>3 DEF Distinct
<1>9. FreshIdle'
  BY <1>3 DEF FreshIdle
<1>10. StoresAlone'
  BY <1>3, <1>5 DEF StoresAlone, On, Inside
<1>11. UsesObject'
  BY <1>3, <1>5 DEF UsesObject, On, Inside
<1>12. HoldsOn'
  BY <1>3 DEF HoldsOn, Inside, Entitled, At, On
<1>13. MutexAgrees' /\ MutexCounts' /\ RwAgrees' /\ RwExcludes'
  <2>1. \A v \in Lockable : v # w => Same(v)
    BY <1>2 DEF Same, Lockable, Words
  <2>2. w \in Lockable => Free(w)
    BY <1>1, <1>2 DEF Free, Rebind
  <2> QED
    BY <1>3, <2>1, <2>2, LocksStay
<1>14. SleepersReachable'
  BY <1>3, <1>5 DEF SleepersReachable, On
<1>15. SleepersKnown'
  <2> SUFFICES ASSUME NEW c \in Conds, word'[c] \in Objects,
                      NEW u \in object'[word'[c]].asleep
               PROVE  pc'[u] = "asleep" /\ On(u)' = c
    BY DEF SleepersKnown
  <2>1. c # w
    BY <1>2 DEF Idle
  <2>2. word'[c] = word[c] /\ u \in object[word[c]].asleep
    BY <1>2, <2>1 DEF Words
  <2> QED
    BY <1>3, <2>2, SleepersAreThreads DEF SleepersKnown, On, Words
<1> QED
  BY <1>3, <1>6, <1>7, <1>8, <1>9, <1>10, <1>11, <1>12, <1>13, <1>14, <1>15 DEF OnceCounts

LEMMA InitMutexKeeps ==
  ASSUME IInv, NEW t \in Threads, InitMutex(t) PROVE IInv'
<1>1. /\ At(t, "call", {"init"}) /\ Quiet(t, On(t))
      /\ On(t) \in Mutexes /\ Head(todo[t]).kind \in Kinds
  BY HeadSorted DEF IInv, InitMutex, At, On, Sorted
<1>2. PICK o \in Offer(Unused) :
        /\ object' = [object EXCEPT ![o] = NewObject(Head(todo[t]).kind)]
        /\ word' = [word EXCEPT ![On(t)] = o]
  BY DEF InitMutex
<1>3. /\ o \in Objects
      /\ \A v \in Words : word[v] # o
      /\ \A u \in Threads : fresh[u] # o
  BY OfferedUnused DEF IInv
<1>4. NewObject(Head(todo[t]).kind) \in ObjectType /\ Idle(NewObject(Head(todo[t]).kind))
  BY <1>1, NewObjectIdle
<1>5. /\ object' \in [Objects -> ObjectType]
      /\ \A p \in Objects : p # o => object'[p] = object[p]
      /\ object'[o] = NewObject(Head(todo[t]).kind)
  BY <1>2, <1>3, <1>4 DEF IInv, TypeOK
<1>6. Rebind(t, On(t), o)
  BY <1>1, <1>2 DEF Rebind, Quiet, InitMutex, Return, At, threads
<1> QED
  BY <1>3, <1>4, <1>5, <1>6, RebindKeeps

LEMMA DestroyMutexKeeps ==
  ASSUME IInv, NEW t \in Threads, DestroyMutex(t) PROVE IInv'
<1> DEFINE o == IF word[On(t)] > DestroyAbove THEN Null ELSE word[On(t)]
<1>1. /\ At(t, "call", {"destroy"}) /\ Quiet(t, On(t)) /\ On(t) \in Mutexes
  BY HeadSorted DEF IInv, DestroyMutex, At, On, Sorted
<1>2. word' = [word EXCEPT ![On(t)] = o] /\ object' = object
  BY DEF DestroyMutex
<1>3. o \notin Objects /\ o \in Objects \cup {Null, RecursiveStatic}
  BY <1>1, StaticsAreNoObjects DEF IInv, TypeOK, Words
<1>4. Rebind(t, On(t), o)
  BY <1>1, <1>2 DEF Rebind, Quiet, DestroyMutex, Return, At, threads
<1>5. object' \in [Objects -> ObjectType]
  BY <1>2 DEF IInv, TypeOK
<1> QED
  BY <1>2, <1>3, <1>4, <1>5, RebindKeeps

(* The same for a condition (imports.c 145-153, 165-172): whoever slept on *)
(* its object would be inside a call on it.                                *)
LEMMA InitCondKeeps ==
  ASSUME IInv, NEW t \in Threads, InitCond(t) PROVE IInv'
<1>1. At(t, "call", {"condinit"}) /\ Untouched(t, On(t)) /\ On(t) \in Conds
  BY HeadSorted DEF IInv, InitCond, At, On, Sorted
<1>2. PICK o \in Offer(Unused) :
        /\ object' = [object EXCEPT ![o] = NewObject("normal")]
        /\ word' = [word EXCEPT ![On(t)] = o]
  BY DEF InitCond
<1>3. /\ o \in Objects
      /\ \A v \in Words : word[v] # o
      /\ \A u \in Threads : fresh[u] # o
  BY OfferedUnused DEF IInv
<1>4. NewObject("normal") \in ObjectType /\ Idle(NewObject("normal"))
  BY NewObjectIdle DEF Kinds
<1>5. /\ object' \in [Objects -> ObjectType]
      /\ \A p \in Objects : p # o => object'[p] = object[p]
      /\ object'[o] = NewObject("normal")
  BY <1>2, <1>3, <1>4 DEF IInv, TypeOK
<1>6. Rebind(t, On(t), o)
  BY <1>1, <1>2, ShimAssumption DEF Rebind, InitCond, Return, At, threads
<1> QED
  BY <1>3, <1>4, <1>5, <1>6, RebindKeeps

LEMMA DestroyCondKeeps ==
  ASSUME IInv, NEW t \in Threads, DestroyCond(t) PROVE IInv'
<1>1. At(t, "call", {"conddestroy"}) /\ Untouched(t, On(t)) /\ On(t) \in Conds
  BY HeadSorted DEF IInv, DestroyCond, At, On, Sorted
<1>2. word' = [word EXCEPT ![On(t)] = Null] /\ object' = object
  BY DEF DestroyCond
<1>3. Rebind(t, On(t), Null)
  BY <1>1, <1>2, ShimAssumption DEF Rebind, DestroyCond, Return, At, threads
<1>4. object' \in [Objects -> ObjectType]
  BY <1>2 DEF IInv, TypeOK
<1> QED
  BY <1>2, <1>3, <1>4, StaticsAreNoObjects, RebindKeeps

-----------------------------------------------------------------------------
(* The calls that use no lock, and threads that start.                     *)
LEMMA ScriptShortens ==
  ASSUME TypeOK, NEW t \in Threads, todo[t] # <<>>,
         todo' \in {todo, [todo EXCEPT ![t] = Tail(todo[t])]}
  PROVE  todo' \in [Threads -> Seq(Calls)]
BY HeadSorted DEF TypeOK

LEMMA SatisfiedKeeps ==
  ASSUME IInv, NEW t \in Threads, Satisfied(t) PROVE IInv'
<1>1. At(t, "call", {"wait"}) /\ pc' = pc
  BY DEF Satisfied, At, Return, IInv, TypeOK
<1>2. TypeOK'
  BY <1>1, ScriptShortens DEF Satisfied, At, Return, native, threads, IInv, TypeOK
<1>3. Aside(t) /\ OnceCounts'
  BY <1>1 DEF Satisfied, At, Return, native, threads, IInv, Aside, TypeOK, OnceCounts
<1> QED
  BY <1>1, <1>2, <1>3, AsideKeeps DEF At

LEMMA OnceKeeps ==
  ASSUME IInv, NEW t \in Threads, Once(t) PROVE IInv'
<1>1. At(t, "call", {"once"}) /\ On(t) \in Onces
  BY HeadSorted DEF Once, IInv, At, On, Sorted
<1>2. \/ pc' = [pc EXCEPT ![t] = "initialising"] /\ todo' = todo
      \/ pc' = pc /\ todo' = [todo EXCEPT ![t] = Tail(todo[t])]
  BY <1>1 DEF Once, At, Return, GoTo, IInv, TypeOK
<1>3. once' = [once EXCEPT ![On(t)] = 1]
      /\ ran' = IF once[On(t)] = 0 THEN [ran EXCEPT ![On(t)] = ran[On(t)] + 1] ELSE ran
  BY DEF Once, OnceTaken
<1>4. once' \in [Onces -> {0, 1}] /\ ran' \in [Onces -> Nat] /\ OnceCounts'
  BY <1>1, <1>3 DEF IInv, TypeOK, OnceCounts
<1>5. TypeOK'
  <2>1. todo' \in [Threads -> Seq(Calls)]
    BY <1>1, <1>2, ScriptShortens DEF At, IInv
  <2>2. pc' \in [Threads -> {"call", "store", "use", "asleep", "awake", "initialising"}]
        /\ \A u \in Threads : pc'[u] = "store" <=> pc[u] = "store"
    BY <1>1, <1>2 DEF At, IInv, TypeOK
  <2> QED
    BY <1>4, <2>1, <2>2 DEF Once, native, threads, IInv, TypeOK
<1>6. Aside(t)
  <2>1. pc[t] = "call" /\ pc' = [pc EXCEPT ![t] = pc'[t]] /\ pc'[t] \in {"call", "initialising"}
    BY <1>1, <1>2 DEF At, IInv, TypeOK
  <2> QED
    BY <1>2, <2>1 DEF Once, native, threads, Aside
<1>7. pc'[t] = "initialising" =>
        life'[t] = "running" /\ todo[t] # <<>> /\ Op(t) = "once" /\ todo' = todo
  BY <1>1, <1>2 DEF Once, threads, At, Op
<1> QED
  BY <1>4, <1>5, <1>6, <1>7, AsideKeeps

LEMMA InitialisedKeeps ==
  ASSUME IInv, NEW t \in Threads, Initialised(t) PROVE IInv'
<1>1. At(t, "initialising", {"once"}) /\ pc' = [pc EXCEPT ![t] = "call"] /\ pc'[t] = "call"
  BY DEF Initialised, Return, IInv, TypeOK
<1>2. TypeOK'
  <2>1. todo' \in [Threads -> Seq(Calls)]
    BY <1>1, ScriptShortens DEF Initialised, Return, At, IInv
  <2> QED
    BY <1>1, <2>1 DEF Initialised, At, native, threads, IInv, TypeOK
<1>3. Aside(t) /\ OnceCounts'
  BY <1>1 DEF Initialised, At, Return, native, threads, IInv, Aside, OnceCounts
<1> QED
  BY <1>1, <1>2, <1>3, AsideKeeps

LEMMA CreateKeeps ==
  ASSUME IInv, NEW t \in Threads, Create(t) PROVE IInv'
<1>1. At(t, "call", {"create"}) /\ pc' = pc /\ On(t) \in Threads /\ life[On(t)] = "none"
  BY HeadSorted DEF Create, At, Return, IInv, TypeOK, On, Sorted
<1>2. /\ life' \in [Threads -> {"none", "created", "running"}]
      /\ \A u \in Threads : life'[u] = "running" <=> life[u] = "running"
  BY <1>1 DEF Create, IInv, TypeOK
<1>3. TypeOK'
  <2>1. todo' \in [Threads -> Seq(Calls)]
    BY <1>1, ScriptShortens DEF Create, Return, At, IInv
  <2> QED
    BY <1>1, <1>2, <2>1 DEF Create, native, IInv, TypeOK
<1>4. Aside(t) /\ OnceCounts'
  BY <1>1, <1>2 DEF Create, At, Return, native, IInv, Aside, TypeOK, OnceCounts
<1> QED
  BY <1>1, <1>3, <1>4, AsideKeeps DEF At

LEMMA TrampolineKeeps ==
  ASSUME IInv, NEW t \in Threads, Trampoline(t) PROVE IInv'
<1>1. pc[t] = "call" /\ pc' = pc /\ todo' = todo
  BY DEF Trampoline, IInv, Places
<1>2. life' \in [Threads -> {"none", "created", "running"}]
      /\ {u \in Threads : life'[u] = "running"} \subseteq guard'
  BY DEF Trampoline, IInv, TypeOK
<1>3. TypeOK'
  BY <1>1, <1>2 DEF Trampoline, native, IInv, TypeOK
<1>4. Aside(t) /\ OnceCounts'
  BY <1>1 DEF Trampoline, native, IInv, Aside, TypeOK, OnceCounts
<1> QED
  BY <1>1, <1>3, <1>4, AsideKeeps

-----------------------------------------------------------------------------
LEMMA InitIInv == FirstUsesApart /\ Init => IInv
<1> SUFFICES ASSUME FirstUsesApart, Init PROVE IInv
  OBVIOUS
<1> USE DEF Init
<1>1. \A w \in Words : word[w] \notin Objects
  BY StaticsAreNoObjects
<1>2. \A t \in Threads : pc[t] = "call" /\ fresh[t] \notin Objects /\ fresh[t] = Null
  BY StaticsAreNoObjects
<1>3. \A t \in Threads, w \in Lockable : holds[t][w] = 0
  OBVIOUS
<1>4. TypeOK
  <2>1. object \in [Objects -> ObjectType]
    BY NewObjectIdle DEF Kinds
  <2>2. todo \in [Threads -> Seq(Calls)]
    BY ShimAssumption
  <2>3. {t \in Threads : life[t] = "running"} \subseteq guard
    OBVIOUS
  <2> QED
    BY <1>2, <2>1, <2>2, <2>3 DEF TypeOK
<1>5. Places /\ Distinct /\ FreshIdle
  BY <1>1, <1>2 DEF Places, Distinct, FreshIdle
<1>6. StoresAlone /\ UsesObject /\ HoldsOn
  BY <1>2 DEF StoresAlone, UsesObject, HoldsOn, Inside
<1>7. MutexAgrees /\ MutexCounts /\ RwAgrees /\ RwExcludes
  BY <1>1, <1>3 DEF MutexAgrees, MutexCounts, RwAgrees, RwExcludes, Lockable, Words
<1>8. SleepersReachable /\ SleepersKnown /\ OnceCounts
  BY <1>1, <1>2 DEF SleepersReachable, SleepersKnown, OnceCounts, Words
<1> QED
  BY <1>4, <1>5, <1>6, <1>7, <1>8 DEF IInv

LEMMA NextIInv == IInv /\ [Next]_vars => IInv'
<1> SUFFICES ASSUME IInv, [Next]_vars PROVE IInv'
  OBVIOUS
<1>1. ASSUME NEW t \in Threads, Step(t) PROVE IInv'
  BY <1>1, TestKeeps, StoreKeeps, LockKeeps, UnlockKeeps, ReadLockKeeps, WriteLockKeeps,
     RwUnlockKeeps, WaitKeeps, RelockKeeps, SatisfiedKeeps, BroadcastKeeps, InitMutexKeeps,
     DestroyMutexKeeps, InitCondKeeps, DestroyCondKeeps, OnceKeeps, InitialisedKeeps, CreateKeeps, TrampolineKeeps
  DEF Step
<1>2. CASE UNCHANGED vars
  <2> USE <1>2 DEF vars, native, threads, IInv
  <2>1. TypeOK' /\ Places' /\ Distinct' /\ FreshIdle'
    BY DEF TypeOK, Places, Distinct, FreshIdle, Op, Inside
  <2>2. StoresAlone' /\ UsesObject' /\ HoldsOn'
    BY DEF StoresAlone, UsesObject, HoldsOn, On, Inside, Entitled, At
  <2>3. MutexAgrees' /\ MutexCounts' /\ RwAgrees' /\ RwExcludes'
    BY DEF MutexAgrees, MutexCounts, RwAgrees, RwExcludes
  <2>4. SleepersReachable' /\ SleepersKnown' /\ OnceCounts'
    BY DEF SleepersReachable, SleepersKnown, OnceCounts, On
  <2> QED
    BY <2>1, <2>2, <2>3, <2>4
<1> QED
  BY <1>1, <1>2 DEF Next

(* If no two first calls on one mutex or rwlock overlap, every reachable   *)
(* state is well typed, as the code's words and objects are, whatever the  *)
(* threads run and the allocator gives out.                                *)
THEOREM TypeCorrect == FirstUsesApart /\ Spec => []TypeOK
<1>1. IInv => TypeOK
  BY DEF IInv
<1> QED
  BY <1>1, InitIInv, NextIInv, PTL DEF Spec

(* If no two first calls on one mutex or rwlock overlap, the engine's      *)
(* locks exclude: the objects made at the first call on a word are never   *)
(* made twice for it (imports.c 121-143, libc_shim.c 764-791).  Without    *)
(* that condition they do not, and the code has nothing that enforces it.  *)
THEOREM LocksExcludeAlways == FirstUsesApart /\ Spec => []LocksExclude
<1>1. IInv => LocksExclude
  <2> SUFFICES ASSUME IInv PROVE LocksExclude
    OBVIOUS
  <2>1. \A w \in Mutexes : \A t, u \in Threads :
          holds[t][w] > 0 /\ holds[u][w] > 0 => t = u
    BY OneHolder
  <2>2. ASSUME NEW w \in RwLocks, NEW t \in Threads, NEW u \in Threads,
               holds[t][w] > 0, holds[u][w] > 0, t # u
        PROVE  object[word[w]].owner = Nobody
    BY <2>2 DEF IInv, RwAgrees, RwExcludes
  <2> QED
    BY <2>1, <2>2 DEF LocksExclude
<1> QED
  BY <1>1, InitIInv, NextIInv, PTL DEF Spec

(* Under the same condition no waiter is left behind on an object that its *)
(* condition's word no longer holds: the mutex the engine holds keeps the  *)
(* first calls on the condition apart (imports.c 145-177).                 *)
THEOREM SleepersReachableAlways == FirstUsesApart /\ Spec => []SleepersReachable
<1>1. IInv => SleepersReachable
  BY DEF IInv
<1> QED
  BY <1>1, InitIInv, NextIInv, PTL DEF Spec

(* pthread_once starts an initialiser once (imports.c 184-189), whatever   *)
(* the engine's first calls on its locks do.                               *)
THEOREM InitialiserRunsOnceAlways == Spec => []InitialiserRunsOnce
<1> DEFINE Counted == once \in [Onces -> {0, 1}] /\ ran \in [Onces -> Nat] /\ OnceCounts
<1>1. Init => Counted
  BY DEF Init, OnceCounts
<1>2. Counted /\ [Next]_vars => Counted'
  <2> SUFFICES ASSUME Counted, [Next]_vars PROVE Counted'
    OBVIOUS
  <2>1. ASSUME NEW t \in Threads, Once(t) PROVE Counted'
    <3> DEFINE w == On(t)
    <3>1. /\ once' = [once EXCEPT ![w] = 1]
          /\ ran' = IF once[w] = 0 THEN [ran EXCEPT ![w] = ran[w] + 1] ELSE ran
      BY <2>1 DEF Once, OnceTaken
    <3> HIDE DEF w
    <3>2. CASE w \notin Onces
      <4>1. once' = once /\ ran' = ran
        BY <3>1, <3>2
      <4> QED
        BY <4>1 DEF OnceCounts
    <3>3. CASE w \in Onces
      BY <3>1, <3>3 DEF OnceCounts
    <3> QED
      BY <3>2, <3>3
  <2>2. ASSUME UNCHANGED <<once, ran>> PROVE Counted'
    BY <2>2 DEF OnceCounts
  <2>3. ASSUME NEW t \in Threads, Step(t), ~Once(t) PROVE UNCHANGED <<once, ran>>
    BY <2>3 DEF Step, Test, Store, Lock, Unlock, ReadLock, WriteLock, RwUnlock, Wait,
       Relock, Satisfied, Broadcast, InitMutex, DestroyMutex, InitCond, DestroyCond,
       Initialised, Create, Trampoline
  <2>4. UNCHANGED vars => UNCHANGED <<once, ran>>
    BY DEF vars
  <2> QED
    BY <2>1, <2>2, <2>3, <2>4 DEF Next
<1>3. Counted => InitialiserRunsOnce
  BY DEF OnceCounts, InitialiserRunsOnce
<1> QED
  BY <1>1, <1>2, <1>3, PTL DEF Spec
=============================================================================
