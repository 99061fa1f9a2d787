-------------------------- MODULE JniLocalsProofs --------------------------
(***************************************************************************)
(* The reference registry is sound for tables, stacks of marks and sets of *)
(* objects of every size, for engines that keep the discipline the code    *)
(* does not check: frames are used by one thread alone and no deeper than  *)
(* there are marks (without frames any number of threads will do), an      *)
(* object has at most one global reference, deleted after the local one,   *)
(* and a pop's result is no promoted reference.  The runs promote,         *)
(* workers, popglobal and early show what happens otherwise.               *)
(*                                                                         *)
(* The properties are not inductive by themselves.  A pop frees the right  *)
(* objects only if every entry lies between the marks of the frame its     *)
(* reference was made in (EntriesFramed), which a removal keeps only       *)
(* because the entry it moves is of the innermost frame as well; and it    *)
(* leaks none only if every valid local reference is an entry, is global,  *)
(* or found the table full (LocalsAccounted).                              *)
(***************************************************************************)
EXTENDS JniLocals, TLAPS

Disciplined ==
  /\ MaxDepth = 0 \/ \A t, u \in Threads : t = u
  /\ Habits = {} /\ MaxGlobals <= 1
  /\ MaxDepth <= MAX_FRAMES

Entry == 0..(localsTop - 1)
InTable(r) == \E i \in Entry : locals[i] = r

FramesCounted == \A t \in Threads : depth[t] = frameTop
MarksRise ==
  \A k \in 0..(frameTop - 1) :
    marks[k] <= localsTop /\ \A j \in 0..k : marks[j] <= marks[k]
(* Entry i lies between the marks of frame l. *)
Framed(i, l) ==
  /\ l <= frameTop
  /\ l > 0 => marks[l - 1] <= i
  /\ l < frameTop => i < marks[l]
EntriesFramed ==
  \A i \in Entry :
    /\ owner[locals[i]] # NoRef /\ locals[i] \notin unregistered
    /\ Framed(i, level[locals[i]])
LocalsAccounted ==
  \A r \in Refs : owner[r] # NoRef =>
    level[r] <= frameTop /\ (r \in Promoted \/ r \in unregistered \/ InTable(r))

IInv ==
  /\ Disciplined /\ TypeOK /\ FramesCounted /\ MarksRise
  /\ EntriesFramed /\ RegistrySound /\ LocalsAccounted
  /\ LocalsSurvive /\ GlobalsSurvive /\ unregistered \subseteq live /\ NothingLeaks

-----------------------------------------------------------------------------
(* The entries of the table are references, and different ones.            *)
LEMMA EntriesAreRefs ==
  ASSUME TypeOK, NEW i \in Entry
  PROVE  i \in 0..(MAX_LOCALS - 1) /\ locals[i] \in Refs \cup {NoRef}
BY LocalsAssumption DEF TypeOK, Entry

(* What changes in globals is what changes in the promoted references.     *)
LEMMA GlobalsCount ==
  ASSUME TypeOK, NEW r \in Refs
  PROVE  /\ globals' = globals => Promoted' = Promoted
         /\ Disciplined /\ globals[r] < MaxGlobals /\ globals' = [globals EXCEPT ![r] = @ + 1]
              => /\ r \notin Promoted /\ Promoted' = Promoted \cup {r}
                 /\ globals' \in [Refs -> 0..MaxGlobals]
         /\ Disciplined /\ r \in Promoted /\ globals' = [globals EXCEPT ![r] = @ - 1]
              => /\ Promoted' = Promoted \ {r}
                 /\ globals' \in [Refs -> 0..MaxGlobals]
<1>1. globals \in [Refs -> 0..MaxGlobals] /\ MaxGlobals \in Nat
  BY LocalsAssumption DEF TypeOK
<1>2. ASSUME NEW k \in 0..MaxGlobals, globals' = [globals EXCEPT ![r] = k]
      PROVE  /\ globals' \in [Refs -> 0..MaxGlobals]
             /\ k > 0 => Promoted' = Promoted \cup {r}
             /\ k = 0 => Promoted' = Promoted \ {r}
  BY <1>1, <1>2 DEF Promoted
<1>3. globals' = globals => Promoted' = Promoted
  BY DEF Promoted
<1>4. ASSUME Disciplined, globals[r] < MaxGlobals,
             globals' = [globals EXCEPT ![r] = @ + 1]
      PROVE  /\ r \notin Promoted /\ Promoted' = Promoted \cup {r}
             /\ globals' \in [Refs -> 0..MaxGlobals]
  <2>1. globals[r] = 0 /\ globals[r] + 1 \in 0..MaxGlobals /\ globals[r] + 1 > 0
    BY <1>1, <1>4 DEF Disciplined
  <2> QED
    BY <1>1, <1>2, <1>4, <2>1 DEF Promoted
<1>5. ASSUME Disciplined, r \in Promoted, globals' = [globals EXCEPT ![r] = @ - 1]
      PROVE  /\ Promoted' = Promoted \ {r}
             /\ globals' \in [Refs -> 0..MaxGlobals]
  <2>1. globals[r] = 1 /\ globals[r] - 1 = 0 /\ globals[r] - 1 \in 0..MaxGlobals
    BY <1>1, <1>5 DEF Disciplined, Promoted
  <2> QED
    BY <1>1, <1>2, <1>5, <2>1
<1> QED
  BY <1>3, <1>4, <1>5

LEMMA EntriesLive ==
  ASSUME IInv, NEW i \in Entry
  PROVE  locals[i] \in Refs /\ locals[i] \in live /\ locals[i] \notin Promoted
BY DEF IInv, TypeOK, RegistrySound, Entry

(* The search from the top finds the one entry that holds r.               *)
LEMMA LastIndexFound ==
  ASSUME IInv, NEW r, InTable(r)
  PROVE  LastIndexOf(r) \in Entry /\ locals[LastIndexOf(r)] = r
<1>1. PICK k \in Entry : locals[k] = r
  BY DEF InTable
<1>2. \A j \in (k + 1)..(localsTop - 1) : locals[j] # r
  BY <1>1 DEF IInv, RegistrySound, Entry, TypeOK
<1>3. \E i \in 0..(localsTop - 1) :
        locals[i] = r /\ \A j \in (i + 1)..(localsTop - 1) : locals[j] # r
  BY <1>1, <1>2 DEF Entry
<1> QED
  BY <1>3 DEF LastIndexOf, Entry

(* A removal from the innermost frame leaves every other entry in its      *)
(* frame: what moves is the last entry, of the innermost frame as well.    *)
Shrunk(r) ==
  /\ localsTop' \in 0..MAX_LOCALS
  /\ locals' \in [0..(MAX_LOCALS - 1) -> Refs \cup {NoRef}]
  /\ \A k \in 0..(frameTop - 1) : marks[k] <= localsTop'
  /\ \A i \in 0..(localsTop' - 1) :
       /\ locals'[i] # r
       /\ \E j \in Entry : locals'[i] = locals[j]
       /\ Framed(i, level[locals'[i]])
  /\ \A i, j \in 0..(localsTop' - 1) : locals'[i] = locals'[j] => i = j
  /\ \A q \in Refs : q # r /\ InTable(q) => InTable(q)'

LEMMA RemoveShrinks ==
  ASSUME IInv, NEW r \in Refs, level[r] = frameTop, Remove(r)
  PROVE  Shrunk(r)
<1> USE DEF IInv
<1>0. localsTop \in 0..MAX_LOCALS /\ MAX_LOCALS \in Nat /\ frameTop \in Nat
  BY LocalsAssumption DEF TypeOK
<1>1. CASE ~InTable(r)
  <2>1. UNCHANGED table
    BY <1>1 DEF Remove, InTable, Entry
  <2>2. locals' = locals /\ localsTop' = localsTop
    BY <2>1 DEF table
  <2>3. \A i \in Entry : locals[i] # r
    BY <1>1 DEF InTable
  <2> QED
    BY <2>2, <2>3 DEF Shrunk, Entry, TypeOK, MarksRise, EntriesFramed, RegistrySound, InTable
<1>2. CASE InTable(r)
  <2> DEFINE k == LastIndexOf(r)
             n == localsTop - 1
  <2>1. k \in Entry /\ locals[k] = r
    BY <1>2, LastIndexFound
  <2>2. locals' = [locals EXCEPT ![k] = locals[n]] /\ localsTop' = n
    BY <1>2 DEF Remove, InTable, Entry
  <2> HIDE DEF k
  <2>3. n \in Entry /\ n \in Nat /\ k \in 0..n /\ k \in 0..(MAX_LOCALS - 1)
    BY <1>0, <2>1 DEF Entry
  <2>4. \A i \in 0..(n - 1) : i \in Entry /\ i # n /\
          locals'[i] = IF i = k THEN locals[n] ELSE locals[i]
    BY <1>0, <2>2, <2>3 DEF TypeOK, Entry
  <2>5. Framed(k, frameTop)
    BY <2>1 DEF EntriesFramed
  <2>6. \A l \in 0..(frameTop - 1) : marks[l] <= n /\ marks[l] <= k /\ marks[l] \in Nat
    <3> TAKE l \in 0..(frameTop - 1)
    <3>1. frameTop - 1 \in 0..(frameTop - 1) /\ l \in 0..(frameTop - 1)
      BY <1>0
    <3>2. marks[l] <= marks[frameTop - 1] /\ marks[frameTop - 1] <= k
      BY <1>0, <2>5, <3>1 DEF MarksRise, Framed
    <3>3. marks[l] \in Nat /\ marks[frameTop - 1] \in Nat
      BY <1>0, <3>1, LocalsAssumption DEF TypeOK
    <3> QED
      BY <2>3, <3>2, <3>3
  <2>7. locals' \in [0..(MAX_LOCALS - 1) -> Refs \cup {NoRef}]
    BY <2>2, <2>3, EntriesAreRefs DEF TypeOK
  <2>8. ASSUME NEW i \in 0..(n - 1) PROVE Framed(i, level[locals'[i]])
    <3>1. CASE i # k
      BY <2>4, <3>1 DEF EntriesFramed
    <3>2. CASE i = k
      <4>1. Framed(n, level[locals[n]])
        BY <2>3 DEF EntriesFramed
      <4>2. locals[n] \in Refs
        BY <2>3, EntriesLive
      <4>3. level[locals[n]] \in Nat
        BY <4>2, LocalsAssumption DEF TypeOK
      <4>4. level[locals[n]] = frameTop
        <5> SUFFICES ASSUME level[locals[n]] < frameTop PROVE FALSE
          BY <1>0, <4>1, <4>3 DEF Framed
        <5>1. n < marks[level[locals[n]]]
          BY <4>1 DEF Framed
        <5>2. level[locals[n]] \in 0..(frameTop - 1)
          BY <1>0, <4>3
        <5> QED
          BY <2>3, <2>6, <5>1, <5>2
      <4> QED
        BY <2>4, <2>5, <3>2, <4>4
    <3> QED
      BY <3>1, <3>2
  <2>9. \A i \in 0..(n - 1) : locals'[i] # r /\ \E j \in Entry : locals'[i] = locals[j]
    BY <2>1, <2>3, <2>4 DEF RegistrySound, Entry
  <2>10. \A i, j \in 0..(n - 1) : locals'[i] = locals'[j] => i = j
    BY <2>3, <2>4 DEF RegistrySound, Entry
  <2>11. ASSUME NEW q \in Refs, q # r, InTable(q) PROVE InTable(q)'
    <3>1. PICK i \in Entry : locals[i] = q
      BY <2>11 DEF InTable
    <3>2. i # k
      BY <2>1, <2>11, <3>1
    <3>3. CASE i = n
      <4>1. k \in 0..(n - 1) /\ locals'[k] = q
        BY <2>3, <2>4, <3>1, <3>2, <3>3
      <4> QED
        BY <2>2, <4>1 DEF InTable, Entry
    <3>4. CASE i # n
      <4>1. i \in 0..(n - 1) /\ locals'[i] = q
        BY <1>0, <2>4, <3>1, <3>2, <3>4 DEF Entry
      <4> QED
        BY <2>2, <4>1 DEF InTable, Entry
    <3> QED
      BY <3>3, <3>4
  <2>12. n \in 0..MAX_LOCALS
    BY <1>0, <2>3
  <2> QED
    BY <2>2, <2>6, <2>7, <2>8, <2>9, <2>10, <2>11, <2>12 DEF Shrunk
<1> QED
  BY <1>1, <1>2

(* A reference the thread may use is a local one of the innermost frame.   *)
LEMMA UsableIsInnermost ==
  ASSUME IInv, NEW t \in Threads, NEW r \in Refs, Usable(t, r)
  PROVE  /\ owner[r] # NoRef /\ r \in live /\ level[r] = frameTop
         /\ r \in Promoted \/ r \in unregistered \/ InTable(r)
BY LocalsAssumption DEF IInv, Disciplined, FramesCounted, Usable, LocalsSurvive, LocalsAccounted

-----------------------------------------------------------------------------
(* One lemma for each action: it keeps every part of the invariant.        *)
LEMMA NewKeeps ==
  ASSUME IInv, NEW t \in Threads, New(t)
  PROVE  IInv'
<1>0. /\ Disciplined /\ TypeOK /\ FramesCounted /\ MarksRise
      /\ EntriesFramed /\ RegistrySound /\ LocalsAccounted
      /\ LocalsSurvive /\ GlobalsSurvive /\ unregistered \subseteq live /\ NothingLeaks
  BY DEF IInv
<1>1. PICK r \in Refs \ live :
        /\ live' = live \cup {r}
        /\ IF Room
           THEN /\ locals' = [locals EXCEPT ![localsTop] = r]
                /\ localsTop' = localsTop + 1
                /\ UNCHANGED unregistered
           ELSE /\ UNCHANGED table
                /\ unregistered' = unregistered \cup {r}
        /\ owner' = [owner EXCEPT ![r] = t]
        /\ level' = [level EXCEPT ![r] = depth[t]]
        /\ UNCHANGED <<marks, frameTop, globals, depth>>
  BY <1>0 DEF New
<1>2. /\ localsTop \in 0..MAX_LOCALS /\ MAX_LOCALS \in Nat /\ frameTop \in Nat
      /\ depth[t] = frameTop /\ t # NoRef /\ r # NoRef /\ Promoted' = Promoted
  BY <1>0, <1>1, LocalsAssumption, GlobalsCount DEF TypeOK, FramesCounted
<1>3. owner[r] = NoRef /\ r \notin Promoted /\ r \notin unregistered
  BY <1>0 DEF LocalsSurvive, GlobalsSurvive
<1>4. \A i \in Entry : locals[i] # r /\ locals[i] \in Refs
  BY <1>0, EntriesLive
<1>5. \A q \in Refs : /\ owner'[q] = IF q = r THEN t ELSE owner[q]
                      /\ level'[q] = IF q = r THEN frameTop ELSE level[q]
  BY <1>0, <1>1, <1>2 DEF TypeOK
<1>6. Disciplined' /\ FramesCounted'
  BY <1>0, <1>1 DEF Disciplined, FramesCounted
<1>7. TypeOK'
  <2>1. CASE Room
    BY <1>0, <1>1, <1>2, <2>1 DEF TypeOK, Room
  <2>2. CASE ~Room
    BY <1>0, <1>1, <1>2, <2>2 DEF TypeOK, table
  <2> QED
    BY <1>0, <2>1, <2>2
<1>8. CASE Room
  <2>1. localsTop \in 0..(MAX_LOCALS - 1)
    BY <1>0, <1>2, <1>8 DEF Room
  <2>2. \A i \in Entry : locals'[i] = locals[i]
    <3>1. \A i \in Entry : i \in 0..(MAX_LOCALS - 1) /\ i # localsTop
      BY <1>0, <1>2, EntriesAreRefs DEF Entry
    <3> QED
      BY <1>0, <1>1, <1>8, <2>1, <3>1 DEF TypeOK
  <2>3. locals'[localsTop] = r
    BY <1>0, <1>1, <1>8, <2>1 DEF TypeOK
  <2>4. Entry' = Entry \cup {localsTop} /\ localsTop \notin Entry
    BY <1>0, <1>1, <1>2, <1>8 DEF Entry
  <2>5. MarksRise'
    <3>1. localsTop' = localsTop + 1 /\ \A k \in 0..(frameTop - 1) : marks[k] \in Nat
      BY <1>0, <1>1, <1>2, <1>8, LocalsAssumption DEF TypeOK
    <3> QED
      BY <1>0, <1>1, <1>2, <3>1 DEF MarksRise
  <2>6. \A i \in Entry' : Framed(i, level'[locals'[i]])
    <3>1. Framed(localsTop, frameTop)
      BY <1>0, <1>2 DEF Framed, MarksRise
    <3> QED
      BY <1>0, <1>4, <1>5, <2>2, <2>3, <2>4, <3>1 DEF EntriesFramed
  <2>7. EntriesFramed'
    <3>1. \A i \in Entry' : owner'[locals'[i]] # NoRef /\ locals'[i] \notin unregistered'
      BY <1>0, <1>1, <1>2, <1>3, <1>4, <1>5, <1>8, <2>2, <2>3, <2>4 DEF EntriesFramed
    <3> QED
      BY <1>0, <1>1, <2>6, <3>1 DEF EntriesFramed, Framed
  <2>8. RegistrySound'
    <3>1. \A i \in Entry' : locals'[i] \in live' /\ locals'[i] \notin Promoted'
      BY <1>0, <1>1, <1>2, <1>3, <2>2, <2>3, <2>4, EntriesLive
    <3>2. \A i, j \in Entry' : locals'[i] = locals'[j] => i = j
      BY <1>0, <1>4, <2>2, <2>3, <2>4 DEF RegistrySound, Entry
    <3> QED
      BY <1>0, <3>1, <3>2 DEF RegistrySound, Entry
  <2>9. LocalsAccounted'
    <3>1. \A q \in Refs : InTable(q) \/ q = r => InTable(q)'
      BY <1>0, <2>2, <2>3, <2>4 DEF InTable
    <3> QED
      BY <1>0, <1>1, <1>2, <1>5, <1>8, <3>1 DEF LocalsAccounted
  <2>10. LocalsSurvive' /\ GlobalsSurvive' /\ (unregistered \subseteq live)' /\ NothingLeaks'
    BY <1>0, <1>1, <1>2, <1>5, <1>8 DEF LocalsSurvive, GlobalsSurvive, NothingLeaks, TypeOK
  <2> QED
    BY <1>6, <1>7, <2>5, <2>7, <2>8, <2>9, <2>10 DEF IInv
<1>9. CASE ~Room
  <2>1. locals' = locals /\ localsTop' = localsTop /\ Entry' = Entry
    BY <1>0, <1>1, <1>9 DEF table, Entry
  <2>2. MarksRise' /\ RegistrySound'
    BY <1>0, <1>1, <1>2, <1>3, <2>1 DEF MarksRise, RegistrySound
  <2>3. EntriesFramed'
    BY <1>0, <1>1, <1>4, <1>5, <1>9, <2>1 DEF EntriesFramed, Framed
  <2>4. LocalsAccounted'
    BY <1>0, <1>1, <1>2, <1>5, <1>9, <2>1 DEF LocalsAccounted, InTable
  <2>5. LocalsSurvive' /\ GlobalsSurvive' /\ (unregistered \subseteq live)' /\ NothingLeaks'
    BY <1>0, <1>1, <1>2, <1>5, <1>9 DEF LocalsSurvive, GlobalsSurvive, NothingLeaks, TypeOK
  <2> QED
    BY <1>6, <1>7, <2>2, <2>3, <2>4, <2>5 DEF IInv
<1> QED
  BY <1>8, <1>9

(* Of the freed reference nothing is left in the table; one that was not   *)
(* there is global, or was never registered, and stays alive.              *)
LEMMA DeleteLocalRefKeeps ==
  ASSUME IInv, NEW t \in Threads, NEW r \in Refs, DeleteLocalRef(t, r)
  PROVE  IInv'
<1>0. /\ Disciplined /\ TypeOK /\ FramesCounted /\ MarksRise
      /\ EntriesFramed /\ RegistrySound /\ LocalsAccounted
      /\ LocalsSurvive /\ GlobalsSurvive /\ unregistered \subseteq live /\ NothingLeaks
  BY DEF IInv
<1>1. /\ Usable(t, r) /\ Remove(r) /\ Promoted' = Promoted
      /\ UNCHANGED <<marks, frameTop, globals, depth, unregistered>>
  BY <1>0, GlobalsCount DEF DeleteLocalRef
<1>2. /\ owner' = [owner EXCEPT ![r] = NoRef] /\ level' = [level EXCEPT ![r] = 0]
      /\ live' = IF InTable(r) THEN live \ {r} ELSE live
  BY <1>0 DEF DeleteLocalRef, InTable, Entry
<1>3. /\ owner[r] # NoRef /\ r \in live /\ level[r] = frameTop
      /\ r \in Promoted \/ r \in unregistered \/ InTable(r)
  BY <1>0, <1>1, UsableIsInnermost
<1>4. Shrunk(r)
  BY <1>0, <1>1, <1>3, RemoveShrinks
<1>5. InTable(r) => r \notin Promoted /\ r \notin unregistered
  BY <1>0 DEF InTable, RegistrySound, EntriesFramed, Entry
<1>6. \A q \in Refs : /\ owner'[q] = IF q = r THEN NoRef ELSE owner[q]
                      /\ level'[q] = IF q = r THEN 0 ELSE level[q]
  BY <1>0, <1>2 DEF TypeOK
<1>7. \A i \in Entry' : /\ locals'[i] \in Refs /\ locals'[i] # r /\ locals'[i] \in live
                        /\ locals'[i] \notin Promoted
                        /\ owner[locals'[i]] # NoRef /\ locals'[i] \notin unregistered
                        /\ Framed(i, level[locals'[i]])
  BY <1>0, <1>4, EntriesLive DEF Shrunk, EntriesFramed, Entry
<1>8. Disciplined' /\ FramesCounted'
  BY <1>0, <1>1 DEF Disciplined, FramesCounted
<1>9. TypeOK'
  BY <1>0, <1>1, <1>2, <1>4, LocalsAssumption DEF TypeOK, Shrunk
<1>10. MarksRise'
  BY <1>0, <1>1, <1>4 DEF MarksRise, Shrunk
<1>11. EntriesFramed'
  BY <1>0, <1>1, <1>6, <1>7 DEF EntriesFramed, Framed
<1>12. RegistrySound'
  <2>1. \A i \in Entry' : locals'[i] \in live' /\ locals'[i] \notin Promoted'
    BY <1>0, <1>1, <1>2, <1>7
  <2> QED
    BY <1>0, <1>4, <2>1 DEF RegistrySound, Shrunk, Entry
<1>13. LocalsAccounted'
  BY <1>0, <1>1, <1>4, <1>6 DEF LocalsAccounted, Shrunk
<1>14. LocalsSurvive' /\ GlobalsSurvive' /\ (unregistered \subseteq live)'
  BY <1>0, <1>1, <1>2, <1>5, <1>6 DEF LocalsSurvive, GlobalsSurvive
<1>15. NothingLeaks'
  BY <1>0, <1>1, <1>2, <1>3, <1>6 DEF NothingLeaks, TypeOK
<1> QED
  BY <1>8, <1>9, <1>10, <1>11, <1>12, <1>13, <1>14, <1>15 DEF IInv

(* Promotion moves the reference from the table to the global ones.        *)
LEMMA NewGlobalRefKeeps ==
  ASSUME IInv, NEW t \in Threads, NEW r \in Refs, NewGlobalRef(t, r)
  PROVE  IInv'
<1>0. /\ Disciplined /\ TypeOK /\ FramesCounted /\ MarksRise
      /\ EntriesFramed /\ RegistrySound /\ LocalsAccounted
      /\ LocalsSurvive /\ GlobalsSurvive /\ unregistered \subseteq live /\ NothingLeaks
  BY DEF IInv
<1>1. /\ Usable(t, r) /\ Remove(r) /\ Promoted' = Promoted \cup {r}
      /\ globals' \in [Refs -> 0..MaxGlobals]
      /\ UNCHANGED <<live, marks, frameTop, owner, level, depth, unregistered>>
  BY <1>0, GlobalsCount DEF NewGlobalRef, Promotable
<1>2. r \in live /\ level[r] = frameTop
  BY <1>0, <1>1, UsableIsInnermost
<1>3. Shrunk(r)
  BY <1>0, <1>1, <1>2, RemoveShrinks
<1>4. \A i \in Entry' : /\ locals'[i] # r /\ locals'[i] \in live
                        /\ locals'[i] \notin Promoted
                        /\ owner[locals'[i]] # NoRef /\ locals'[i] \notin unregistered
                        /\ Framed(i, level[locals'[i]])
  BY <1>0, <1>3, EntriesLive DEF Shrunk, EntriesFramed, Entry
<1>5. Disciplined' /\ FramesCounted'
  BY <1>0, <1>1 DEF Disciplined, FramesCounted
<1>6. TypeOK'
  BY <1>0, <1>1, <1>3 DEF TypeOK, Shrunk
<1>7. MarksRise'
  BY <1>0, <1>1, <1>3 DEF MarksRise, Shrunk
<1>8. EntriesFramed'
  BY <1>0, <1>1, <1>4 DEF EntriesFramed, Framed
<1>9. RegistrySound'
  <2>1. \A i \in Entry' : locals'[i] \in live' /\ locals'[i] \notin Promoted'
    BY <1>0, <1>1, <1>4
  <2> QED
    BY <1>0, <1>3, <2>1 DEF RegistrySound, Shrunk, Entry
<1>10. LocalsAccounted'
  BY <1>0, <1>1, <1>3 DEF LocalsAccounted, Shrunk
<1>11. LocalsSurvive' /\ GlobalsSurvive' /\ (unregistered \subseteq live)' /\ NothingLeaks'
  BY <1>0, <1>1, <1>2 DEF LocalsSurvive, GlobalsSurvive, NothingLeaks
<1> QED
  BY <1>5, <1>6, <1>7, <1>8, <1>9, <1>10, <1>11 DEF IInv

(* What is freed is a global reference no local one names: not an entry.   *)
LEMMA DeleteGlobalRefKeeps ==
  ASSUME IInv, NEW r \in Refs, DeleteGlobalRef(r)
  PROVE  IInv'
<1>0. /\ Disciplined /\ TypeOK /\ FramesCounted /\ MarksRise
      /\ EntriesFramed /\ RegistrySound /\ LocalsAccounted
      /\ LocalsSurvive /\ GlobalsSurvive /\ unregistered \subseteq live /\ NothingLeaks
  BY DEF IInv
<1>1. /\ r \in Promoted /\ owner[r] = NoRef /\ Promoted' = Promoted \ {r}
      /\ globals' \in [Refs -> 0..MaxGlobals]
      /\ live' = live \ {r} /\ unregistered' = unregistered \ {r}
      /\ UNCHANGED <<table, marks, frameTop, owner, level, depth>>
  BY <1>0, GlobalsCount DEF DeleteGlobalRef, Disciplined
<1>2. locals' = locals /\ localsTop' = localsTop /\ Entry' = Entry
  BY <1>0, <1>1 DEF table, Entry
<1>3. \A i \in Entry : locals[i] # r
  BY <1>0, <1>1 DEF RegistrySound, Entry
<1>4. Disciplined' /\ FramesCounted' /\ MarksRise'
  BY <1>0, <1>1, <1>2 DEF Disciplined, FramesCounted, MarksRise
<1>5. TypeOK'
  BY <1>0, <1>1, <1>2 DEF TypeOK
<1>6. EntriesFramed'
  BY <1>0, <1>1, <1>2 DEF EntriesFramed, Framed
<1>7. RegistrySound'
  <2>1. \A i \in Entry : locals[i] \in live' /\ locals[i] \notin Promoted'
    BY <1>0, <1>1, <1>3, EntriesLive
  <2> QED
    BY <1>0, <1>2, <2>1 DEF RegistrySound, Entry
<1>8. LocalsAccounted'
  BY <1>0, <1>1, <1>2 DEF LocalsAccounted, InTable
<1>9. LocalsSurvive' /\ GlobalsSurvive' /\ (unregistered \subseteq live)' /\ NothingLeaks'
  BY <1>0, <1>1 DEF LocalsSurvive, GlobalsSurvive, NothingLeaks
<1> QED
  BY <1>4, <1>5, <1>6, <1>7, <1>8, <1>9 DEF IInv

(* A local reference to a promoted object is of the innermost frame, and   *)
(* the table does not know it.                                             *)
LEMMA NewLocalRefKeeps ==
  ASSUME IInv, NEW t \in Threads, NEW r \in Refs, NewLocalRef(t, r)
  PROVE  IInv'
<1>0. /\ Disciplined /\ TypeOK /\ FramesCounted /\ MarksRise
      /\ EntriesFramed /\ RegistrySound /\ LocalsAccounted
      /\ LocalsSurvive /\ GlobalsSurvive /\ unregistered \subseteq live /\ NothingLeaks
  BY DEF IInv
<1>1. /\ r \in Promoted /\ r \in live /\ Promoted' = Promoted
      /\ owner' = [owner EXCEPT ![r] = t] /\ level' = [level EXCEPT ![r] = depth[t]]
      /\ UNCHANGED <<live, table, marks, frameTop, globals, depth, unregistered>>
  BY <1>0, GlobalsCount DEF NewLocalRef, GlobalsSurvive
<1>2. locals' = locals /\ localsTop' = localsTop /\ Entry' = Entry
  BY <1>1 DEF table, Entry
<1>3. depth[t] = frameTop /\ frameTop \in Nat /\ depth[t] \in 0..MaxDepth /\ t # NoRef
  BY <1>0, LocalsAssumption DEF TypeOK, FramesCounted
<1>4. \A q \in Refs : /\ owner'[q] = IF q = r THEN t ELSE owner[q]
                      /\ level'[q] = IF q = r THEN frameTop ELSE level[q]
  BY <1>0, <1>1, <1>3 DEF TypeOK
<1>5. \A i \in Entry : locals[i] \in Refs /\ locals[i] # r
  BY <1>0, <1>1, EntriesLive
<1>6. Disciplined' /\ FramesCounted' /\ MarksRise' /\ RegistrySound'
  BY <1>0, <1>1, <1>2 DEF Disciplined, FramesCounted, MarksRise, RegistrySound
<1>7. TypeOK'
  BY <1>0, <1>1, <1>2, <1>3 DEF TypeOK
<1>8. EntriesFramed'
  BY <1>0, <1>1, <1>2, <1>4, <1>5 DEF EntriesFramed, Framed
<1>9. LocalsAccounted'
  BY <1>0, <1>1, <1>2, <1>3, <1>4 DEF LocalsAccounted, InTable
<1>10. LocalsSurvive' /\ GlobalsSurvive' /\ (unregistered \subseteq live)' /\ NothingLeaks'
  BY <1>0, <1>1, <1>3, <1>4 DEF LocalsSurvive, GlobalsSurvive, NothingLeaks, TypeOK
<1> QED
  BY <1>6, <1>7, <1>8, <1>9, <1>10 DEF IInv

(* The new frame starts at the top of the table, above every entry; there  *)
(* is a mark for it, so the code records it.                               *)
LEMMA PushLocalFrameKeeps ==
  ASSUME IInv, NEW t \in Threads, PushLocalFrame(t)
  PROVE  IInv'
<1>0. /\ Disciplined /\ TypeOK /\ FramesCounted /\ MarksRise
      /\ EntriesFramed /\ RegistrySound /\ LocalsAccounted
      /\ LocalsSurvive /\ GlobalsSurvive /\ unregistered \subseteq live /\ NothingLeaks
  BY DEF IInv
<1>1. /\ localsTop \in 0..MAX_LOCALS /\ MAX_LOCALS \in Nat
      /\ frameTop \in 0..MAX_FRAMES /\ MAX_FRAMES \in Nat /\ MaxDepth \in Nat
      /\ depth[t] = frameTop /\ MaxDepth <= MAX_FRAMES
  BY <1>0, LocalsAssumption DEF TypeOK, FramesCounted, Disciplined
<1>2. frameTop < MaxDepth /\ frameTop < MAX_FRAMES
  BY <1>1 DEF PushLocalFrame
<1>3. /\ marks' = [marks EXCEPT ![frameTop] = localsTop] /\ frameTop' = frameTop + 1
      /\ depth' = [depth EXCEPT ![t] = @ + 1]
      /\ UNCHANGED <<live, table, contract, unregistered>>
  BY <1>2 DEF PushLocalFrame
<1>4. /\ locals' = locals /\ localsTop' = localsTop /\ Entry' = Entry
      /\ owner' = owner /\ level' = level /\ globals' = globals
      /\ live' = live /\ unregistered' = unregistered /\ Promoted' = Promoted
  BY <1>3 DEF table, contract, Entry, Promoted
<1>5. /\ \A k \in 0..(frameTop - 1) : marks'[k] = marks[k] /\ marks[k] \in Nat
      /\ marks'[frameTop] = localsTop
  BY <1>0, <1>1, <1>2, <1>3 DEF TypeOK
<1>6. Disciplined' /\ RegistrySound' /\ LocalsSurvive' /\ GlobalsSurvive'
      /\ (unregistered \subseteq live)' /\ NothingLeaks'
  BY <1>0, <1>4 DEF Disciplined, RegistrySound, LocalsSurvive, GlobalsSurvive, NothingLeaks
<1>7. TypeOK'
  <2>1. depth' \in [Threads -> 0..MaxDepth]
    BY <1>0, <1>1, <1>2, <1>3 DEF TypeOK
  <2>2. marks' \in [0..(MAX_FRAMES - 1) -> 0..MAX_LOCALS]
    BY <1>0, <1>1, <1>3 DEF TypeOK
  <2>3. frameTop' \in 0..MAX_FRAMES
    BY <1>1, <1>2, <1>3
  <2> QED
    BY <1>0, <1>4, <2>1, <2>2, <2>3 DEF TypeOK
<1>8. FramesCounted'
  <2>1. \A u \in Threads : u = t
    BY <1>0, <1>1, <1>2 DEF Disciplined
  <2> QED
    BY <1>0, <1>1, <1>3, <2>1 DEF FramesCounted, TypeOK
<1>9. MarksRise'
  BY <1>0, <1>1, <1>3, <1>4, <1>5 DEF MarksRise
<1>10. EntriesFramed'
  <2>1. ASSUME NEW i \in Entry PROVE Framed(i, level[locals[i]])'
    <3>1. Framed(i, level[locals[i]]) /\ locals[i] \in Refs
      BY <1>0, EntriesLive DEF EntriesFramed
    <3>2. level[locals[i]] \in Nat /\ level'[locals'[i]] = level[locals[i]]
      BY <1>0, <1>1, <1>4, <3>1 DEF TypeOK
    <3>3. i \in Nat /\ i < localsTop
      BY <1>1 DEF Entry
    <3> QED
      BY <1>1, <1>3, <1>5, <3>1, <3>2, <3>3 DEF Framed
  <2> QED
    BY <1>0, <1>4, <2>1 DEF EntriesFramed
<1>11. LocalsAccounted'
  <2>1. \A r \in Refs : level[r] \in Nat
    BY <1>0, <1>1 DEF TypeOK
  <2>2. \A r : InTable(r)' <=> InTable(r)
    BY <1>4 DEF InTable
  <2> QED
    BY <1>0, <1>1, <1>3, <1>4, <2>1, <2>2 DEF LocalsAccounted
<1> QED
  BY <1>6, <1>7, <1>8, <1>9, <1>10, <1>11 DEF IInv

(* The entries from the mark on are those of the innermost frame.          *)
LEMMA MarkDivides ==
  ASSUME IInv, frameTop > 0
  PROVE  /\ Mark \in 0..localsTop /\ frameTop \in 0..MAX_FRAMES
         /\ \A k \in 0..(frameTop - 1) : marks[k] \in Nat /\ marks[k] <= Mark
         /\ \A i \in Entry : level[locals[i]] \in Nat
                             /\ (level[locals[i]] = frameTop <=> Mark <= i)
<1>0. TypeOK /\ MarksRise /\ EntriesFramed
  BY DEF IInv
<1>1. /\ localsTop \in 0..MAX_LOCALS /\ MAX_LOCALS \in Nat
      /\ frameTop \in 0..MAX_FRAMES /\ MAX_FRAMES \in Nat /\ MaxDepth \in Nat
  BY <1>0, LocalsAssumption DEF TypeOK
<1>2. Mark = marks[frameTop - 1] /\ frameTop - 1 \in 0..(frameTop - 1)
  BY <1>1 DEF Mark
<1>3. \A k \in 0..(frameTop - 1) : marks[k] \in Nat /\ marks[k] <= Mark
  BY <1>0, <1>1, <1>2 DEF TypeOK, MarksRise
<1>4. Mark \in 0..localsTop
  BY <1>0, <1>1, <1>2, <1>3 DEF MarksRise
<1>5. ASSUME NEW i \in Entry
      PROVE  level[locals[i]] \in Nat /\ (level[locals[i]] = frameTop <=> Mark <= i)
  <2>1. Framed(i, level[locals[i]]) /\ locals[i] \in Refs
    BY <1>0, EntriesLive DEF EntriesFramed
  <2>2. level[locals[i]] \in Nat /\ i \in Nat
    BY <1>0, <1>1, <2>1 DEF TypeOK, Entry
  <2>3. level[locals[i]] <= frameTop
    BY <2>1 DEF Framed
  <2>4. CASE level[locals[i]] = frameTop
    BY <1>2, <2>1, <2>2, <2>4 DEF Framed
  <2>5. CASE level[locals[i]] < frameTop
    <3>1. level[locals[i]] \in 0..(frameTop - 1)
      BY <1>1, <2>2, <2>5
    <3>2. i < marks[level[locals[i]]]
      BY <2>1, <2>5 DEF Framed
    <3> QED
      BY <1>1, <1>3, <1>4, <2>2, <2>5, <3>1, <3>2
  <2> QED
    BY <1>1, <2>2, <2>3, <2>4, <2>5
<1> QED
  BY <1>1, <1>3, <1>4, <1>5

(* A pop cuts the table at the mark: exactly the references of the frame   *)
(* go, but the result, which takes the slot at the mark and belongs to the *)
(* frame below from then on.                                               *)
LEMMA PopLocalFrameKeeps ==
  ASSUME IInv, NEW t \in Threads, NEW result \in Refs \cup {NoRef},
         PopLocalFrame(t, result)
  PROVE  IInv'
<1>0. /\ Disciplined /\ TypeOK /\ FramesCounted /\ MarksRise
      /\ EntriesFramed /\ RegistrySound /\ LocalsAccounted
      /\ LocalsSurvive /\ GlobalsSurvive /\ unregistered \subseteq live /\ NothingLeaks
  BY DEF IInv
<1>1. /\ localsTop \in 0..MAX_LOCALS /\ MAX_LOCALS \in Nat /\ MAX_FRAMES \in Nat
      /\ MaxDepth \in Nat /\ depth[t] = frameTop /\ frameTop > 0
      /\ depth[t] \in 0..MaxDepth /\ t # NoRef /\ NoRef \notin Refs
  BY <1>0, LocalsAssumption DEF TypeOK, FramesCounted, PopLocalFrame
<1>2. /\ Mark \in 0..localsTop /\ frameTop \in 0..MAX_FRAMES
      /\ \A k \in 0..(frameTop - 1) : marks[k] \in Nat /\ marks[k] <= Mark
      /\ \A i \in Entry : level[locals[i]] \in Nat
                          /\ (level[locals[i]] = frameTop <=> Mark <= i)
  BY <1>1, MarkDivides
<1>3. /\ live' = live \ Popped(result) /\ PopTable(result) /\ frameTop' = frameTop - 1
      /\ depth' = [depth EXCEPT ![t] = @ - 1]
      /\ marks' = marks /\ globals' = globals /\ Promoted' = Promoted
      /\ unregistered' = IF Kept(result) THEN unregistered \ {result}
                         ELSE unregistered \cup ({result} \ {NoRef})
  BY <1>1, <1>2 DEF PopLocalFrame, Promoted
<1>4. /\ owner' = [q \in Refs |-> IF q = result THEN t
                                  ELSE IF q \in Leaving(t) THEN NoRef ELSE owner[q]]
      /\ level' = [q \in Refs |-> IF q = result THEN depth[t] - 1
                                  ELSE IF q \in Leaving(t) THEN 0 ELSE level[q]]
  BY DEF PopLocalFrame
<1>5. \A u \in Threads : u = t
  BY <1>0, <1>1 DEF Disciplined
<1>6. \A q \in Refs : owner[q] # NoRef => (q \in Leaving(t) <=> level[q] = frameTop)
  BY <1>0, <1>1, <1>5 DEF Leaving, TypeOK
<1>7. result # NoRef => /\ result \in Leaving(t) /\ result \notin Promoted
                        /\ result \in live /\ result \in Refs /\ owner[result] = t
  BY <1>0, <1>1 DEF PopLocalFrame, Returnable, Disciplined, Leaving, LocalsSurvive
<1>8. \A i \in Entry : /\ locals[i] \in Refs /\ locals[i] \in live /\ locals[i] # NoRef
                       /\ locals[i] \notin Promoted /\ locals[i] \notin unregistered
                       /\ owner[locals[i]] # NoRef
                       /\ (locals[i] \in Leaving(t) <=> Mark <= i)
  BY <1>0, <1>1, <1>2, <1>6, EntriesLive DEF EntriesFramed
<1>9. Popped(result) = {locals[i] : i \in {j \in Entry : Mark <= j}} \ {result}
  BY <1>1, <1>2 DEF Popped, Entry
<1>10. \A q \in Popped(result) : q \in Leaving(t) /\ q # result
                                 /\ q \notin Promoted /\ q \notin unregistered
  BY <1>8, <1>9
<1>11. /\ localsTop' = IF Kept(result) THEN Mark + 1 ELSE Mark
       /\ localsTop' \in 0..MAX_LOCALS
       /\ locals' \in [0..(MAX_LOCALS - 1) -> Refs \cup {NoRef}]
       /\ \A i \in Entry : i < Mark => locals'[i] = locals[i]
       /\ Kept(result) => locals'[Mark] = result
  <2>1. CASE Kept(result)
    <3>1. Mark \in 0..(MAX_LOCALS - 1) /\ locals' = [locals EXCEPT ![Mark] = result]
          /\ localsTop' = Mark + 1
      BY <1>1, <1>2, <1>3, <2>1 DEF PopTable, Kept
    <3>2. \A i \in Entry : i \in 0..(MAX_LOCALS - 1)
      BY <1>0, EntriesAreRefs
    <3> QED
      BY <1>0, <1>1, <1>2, <2>1, <3>1, <3>2 DEF TypeOK
  <2>2. CASE ~Kept(result)
    BY <1>0, <1>1, <1>2, <1>3, <2>2 DEF PopTable, TypeOK
  <2> QED
    BY <2>1, <2>2
<1>12. Entry' = {i \in Entry : i < Mark} \cup (IF Kept(result) THEN {Mark} ELSE {})
  BY <1>1, <1>2, <1>11 DEF Entry
<1>13. Kept(result) => result # NoRef
  BY DEF Kept
<1>14. Disciplined'
  BY <1>0 DEF Disciplined
<1>15. TypeOK'
  <2>1. live' \subseteq Refs /\ unregistered' \subseteq Refs
        /\ globals' \in [Refs -> 0..MaxGlobals]
    BY <1>0, <1>3, <1>7, <1>13 DEF TypeOK
  <2>2. owner' \in [Refs -> Threads \cup {NoRef}]
    BY <1>0, <1>4 DEF TypeOK
  <2>3. level' \in [Refs -> 0..MaxDepth]
    BY <1>0, <1>1, <1>4 DEF TypeOK
  <2>4. depth' \in [Threads -> 0..MaxDepth]
    BY <1>0, <1>1, <1>3 DEF TypeOK
  <2>5. frameTop' \in 0..MAX_FRAMES
    BY <1>1, <1>2, <1>3
  <2>6. marks' \in [0..(MAX_FRAMES - 1) -> 0..MAX_LOCALS]
    BY <1>0, <1>3 DEF TypeOK
  <2> QED
    BY <1>11, <2>1, <2>2, <2>3, <2>4, <2>5, <2>6 DEF TypeOK
<1>16. FramesCounted'
  BY <1>0, <1>1, <1>3, <1>5 DEF FramesCounted, TypeOK
<1>17. MarksRise'
  <2>1. localsTop' \in Nat /\ Mark <= localsTop'
    BY <1>1, <1>2, <1>11
  <2> QED
    BY <1>0, <1>1, <1>2, <1>3, <2>1 DEF MarksRise
<1>18. EntriesFramed'
  <2>1. ASSUME NEW i \in Entry, i < Mark
        PROVE  (owner[locals[i]] # NoRef /\ locals[i] \notin unregistered
                /\ Framed(i, level[locals[i]]))'
    <3>1. locals'[i] = locals[i] /\ locals[i] \in Refs /\ locals[i] \notin Leaving(t)
      BY <1>1, <1>2, <1>8, <1>11, <2>1 DEF Entry
    <3>2. locals[i] # result
      BY <1>7, <1>8, <3>1
    <3>3. owner'[locals[i]] = owner[locals[i]] /\ level'[locals[i]] = level[locals[i]]
      BY <1>4, <3>1, <3>2
    <3>4. locals'[i] \notin unregistered' /\ owner'[locals'[i]] # NoRef
      BY <1>3, <1>8, <3>1, <3>2, <3>3
    <3>5. Framed(i, level[locals[i]]) /\ level[locals[i]] # frameTop /\ level[locals[i]] \in Nat
      BY <1>0, <1>1, <1>2, <2>1 DEF EntriesFramed, Entry
    <3>6. Framed(i, level[locals[i]])'
      BY <1>1, <1>2, <1>3, <3>1, <3>3, <3>5 DEF Framed
    <3> QED
      BY <3>4, <3>6
  <2>2. ASSUME NEW i, i = Mark, Kept(result)
        PROVE  (owner[locals[i]] # NoRef /\ locals[i] \notin unregistered
                /\ Framed(i, level[locals[i]]))'
    <3>1. locals'[i] = result /\ result \in Refs
      BY <1>7, <1>11, <1>13, <2>2
    <3>2. owner'[result] = t /\ level'[result] = frameTop - 1
      BY <1>1, <1>4, <1>7, <1>13, <2>2, <3>1
    <3>3. \A k \in 0..(frameTop - 1) : marks'[k] <= i
      BY <1>2, <1>3, <2>2
    <3>4. Framed(i, level[locals[i]])'
      BY <1>1, <1>2, <1>3, <3>1, <3>2, <3>3 DEF Framed
    <3> QED
      BY <1>1, <1>3, <2>2, <3>1, <3>2, <3>4
  <2>3. \A i \in Entry' :
          /\ owner'[locals'[i]] # NoRef /\ locals'[i] \notin unregistered'
          /\ Framed(i, level[locals[i]])'
    <3> TAKE i \in Entry'
    <3>1. CASE i \in Entry /\ i < Mark
      BY <2>1, <3>1
    <3>2. CASE i = Mark /\ Kept(result)
      BY <2>2, <3>2
    <3> QED
      BY <1>12, <3>1, <3>2
  <2> QED
    BY <2>3 DEF EntriesFramed
<1>19. RegistrySound'
  <2>1. \A i \in Entry' : locals'[i] \in live' /\ locals'[i] \notin Promoted'
    <3>1. ASSUME NEW i \in Entry, i < Mark
          PROVE  locals'[i] \in live' /\ locals'[i] \notin Promoted'
      <4>1. locals'[i] = locals[i] /\ locals[i] \notin Leaving(t)
        BY <1>1, <1>2, <1>8, <1>11, <3>1 DEF Entry
      <4> QED
        BY <1>3, <1>8, <1>10, <4>1
    <3>2. Kept(result) => result \in live' /\ result \notin Promoted'
      BY <1>3, <1>7, <1>10, <1>13
    <3> QED
      BY <1>11, <1>12, <3>1, <3>2
  <2>2. \A i, j \in Entry' : locals'[i] = locals'[j] => i = j
    <3>1. \A i \in Entry : i < Mark => locals[i] # result
      BY <1>1, <1>2, <1>7, <1>8 DEF Entry
    <3>2. \A i, j \in Entry : locals[i] = locals[j] => i = j
      BY <1>0 DEF RegistrySound, Entry
    <3> QED
      BY <1>11, <1>12, <3>1, <3>2
  <2> QED
    BY <2>1, <2>2 DEF RegistrySound, Entry
<1>20. \A q \in Refs : owner'[q] # NoRef =>
         \/ q = result /\ result # NoRef
         \/ q \notin Leaving(t) /\ q # result /\ owner[q] # NoRef /\ level'[q] = level[q]
  BY <1>1, <1>4
<1>21. LocalsAccounted'
  <2>1. ASSUME NEW q \in Refs, q = result
        PROVE  level'[q] <= frameTop' /\ (q \in unregistered' \/ InTable(q)')
    <3>1. level'[q] = frameTop - 1 /\ result # NoRef
      BY <1>1, <1>4, <2>1
    <3>2. CASE Kept(result)
      BY <1>1, <1>2, <1>3, <1>11, <1>12, <2>1, <3>1, <3>2 DEF InTable
    <3>3. CASE ~Kept(result)
      BY <1>1, <1>2, <1>3, <2>1, <3>1, <3>3
    <3> QED
      BY <3>2, <3>3
  <2>2. ASSUME NEW q \in Refs, q \notin Leaving(t), q # result, owner[q] # NoRef,
               level'[q] = level[q]
        PROVE  /\ level'[q] <= frameTop'
               /\ q \in Promoted' \/ q \in unregistered' \/ InTable(q)'
    <3>1. level[q] \in Nat /\ level[q] <= frameTop /\ level[q] # frameTop
      BY <1>0, <1>1, <1>6, <2>2 DEF LocalsAccounted, TypeOK
    <3>2. q \in Promoted \/ q \in unregistered \/ InTable(q)
      BY <1>0, <2>2 DEF LocalsAccounted
    <3>3. ASSUME InTable(q) PROVE InTable(q)'
      <4>1. PICK i \in Entry : locals[i] = q
        BY <3>3 DEF InTable
      <4>2. i < Mark
        BY <1>1, <1>2, <1>8, <2>2, <4>1 DEF Entry
      <4>3. i \in Entry' /\ locals'[i] = q
        BY <1>11, <1>12, <4>1, <4>2
      <4> QED
        BY <4>3 DEF InTable
    <3> QED
      BY <1>1, <1>2, <1>3, <2>2, <3>1, <3>2, <3>3
  <2> QED
    BY <1>20, <2>1, <2>2 DEF LocalsAccounted
<1>22. LocalsSurvive'
  BY <1>0, <1>3, <1>7, <1>10, <1>20 DEF LocalsSurvive
<1>23. GlobalsSurvive' /\ (unregistered \subseteq live)'
  BY <1>0, <1>3, <1>7, <1>10 DEF GlobalsSurvive
<1>24. NothingLeaks'
  <2>1. SUFFICES ASSUME NEW q \in live', owner'[q] = NoRef, q \notin Promoted
                 PROVE  q \in unregistered'
    BY <1>3 DEF NothingLeaks
  <2>2. q \in live /\ q \in Refs /\ q \notin Popped(result)
    BY <1>0, <1>3, <2>1 DEF TypeOK
  <2>3. q # result
    BY <1>1, <1>4, <1>7, <2>1, <2>2
  <2>4. CASE q \in unregistered
    BY <1>3, <2>3, <2>4
  <2>5. CASE q \notin unregistered
    <3>1. owner[q] # NoRef
      BY <1>0, <2>1, <2>2, <2>5 DEF NothingLeaks
    <3>2. InTable(q)
      BY <1>0, <2>1, <2>2, <2>5, <3>1 DEF LocalsAccounted
    <3>3. q \in Leaving(t)
      BY <1>4, <2>1, <2>2, <2>3, <3>1
    <3>4. q \in Popped(result)
      BY <1>8, <1>9, <2>3, <3>2, <3>3 DEF InTable
    <3> QED
      BY <2>2, <3>4
  <2> QED
    BY <2>4, <2>5
<1> QED
  BY <1>3, <1>14, <1>15, <1>16, <1>17, <1>18, <1>19, <1>21, <1>22, <1>23, <1>24 DEF IInv

-----------------------------------------------------------------------------
LEMMA InitIInv == Disciplined /\ Init => IInv
<1> SUFFICES ASSUME Disciplined, Init PROVE IInv
  OBVIOUS
<1>1. TypeOK
  BY LocalsAssumption DEF Init, TypeOK
<1>2. FramesCounted /\ MarksRise /\ EntriesFramed /\ RegistrySound /\ LocalsAccounted
  BY DEF Init, FramesCounted, MarksRise, EntriesFramed, RegistrySound, LocalsAccounted, Entry
<1>3. LocalsSurvive /\ GlobalsSurvive /\ unregistered \subseteq live /\ NothingLeaks
  BY DEF Init, LocalsSurvive, GlobalsSurvive, NothingLeaks, Promoted
<1> QED
  BY <1>1, <1>2, <1>3 DEF IInv

LEMMA NextIInv == IInv /\ [Next]_vars => IInv'
<1> SUFFICES ASSUME IInv, [Next]_vars PROVE IInv'
  OBVIOUS
<1>1. ASSUME NEW t \in Threads, New(t) PROVE IInv'
  BY <1>1, NewKeeps
<1>2. ASSUME NEW t \in Threads, PushLocalFrame(t) PROVE IInv'
  BY <1>2, PushLocalFrameKeeps
<1>3. ASSUME NEW t \in Threads, NEW r \in Refs, DeleteLocalRef(t, r) PROVE IInv'
  BY <1>3, DeleteLocalRefKeeps
<1>4. ASSUME NEW t \in Threads, NEW r \in Refs, NewGlobalRef(t, r) PROVE IInv'
  BY <1>4, NewGlobalRefKeeps
<1>5. ASSUME NEW t \in Threads, NEW result \in Refs \cup {NoRef}, PopLocalFrame(t, result)
      PROVE  IInv'
  BY <1>5, PopLocalFrameKeeps
<1>6. ASSUME NEW r \in Refs, DeleteGlobalRef(r) PROVE IInv'
  BY <1>6, DeleteGlobalRefKeeps
<1>7. ASSUME NEW t \in Threads, NEW r \in Refs, NewLocalRef(t, r) PROVE IInv'
  BY <1>7, NewLocalRefKeeps
<1>8. CASE UNCHANGED vars
  <2>1. /\ UNCHANGED <<live, locals, localsTop, marks, frameTop>>
        /\ UNCHANGED <<owner, level, globals, depth, unregistered>>
    BY <1>8 DEF vars, table, contract
  <2>2. Entry' = Entry
    BY <2>1 DEF Entry
  <2> QED
    BY <2>1, <2>2 DEF IInv, Disciplined, TypeOK, FramesCounted, MarksRise,
      EntriesFramed, Framed, RegistrySound, LocalsAccounted, InTable,
      LocalsSurvive, GlobalsSurvive, NothingLeaks, Promoted
<1> QED
  BY <1>1, <1>2, <1>3, <1>4, <1>5, <1>6, <1>7, <1>8 DEF Next

(* Every variable of the registry keeps its type, whatever the sizes of    *)
(* the table and of the stack of marks.                                    *)
THEOREM TypeCorrect == Disciplined /\ Spec => []TypeOK
<1>1. IInv => TypeOK
  BY DEF IInv
<1> QED
  BY InitIInv, NextIInv, <1>1, PTL DEF Spec

(* Lines 66-106 and 472-507: for a disciplined engine (which returns no    *)
(* promoted reference from a pop) no object is twice in the table, and no  *)
(* entry is freed or promoted, so nothing is freed twice.                  *)
THEOREM RegistrySoundAlways == Disciplined /\ Spec => []RegistrySound
<1>1. IInv => RegistrySound
  BY DEF IInv
<1> QED
  BY InitIInv, NextIInv, <1>1, PTL DEF Spec

(* Lines 472-507: for a disciplined engine no frame pop and no deletion of *)
(* a local reference frees an object that has been promoted.               *)
THEOREM GlobalsSurviveAlways == Disciplined /\ Spec => []GlobalsSurvive
<1>1. IInv => GlobalsSurvive
  BY DEF IInv
<1> QED
  BY InitIInv, NextIInv, <1>1, PTL DEF Spec

(* Lines 94-106 and 481-507: for a disciplined engine (which deletes a     *)
(* global reference after the local one) a local reference that is neither *)
(* deleted nor of a popped frame still has its object.                     *)
THEOREM LocalsSurviveAlways == Disciplined /\ Spec => []LocalsSurvive
<1>1. IInv => LocalsSurvive
  BY DEF IInv
<1> QED
  BY InitIInv, NextIInv, <1>1, PTL DEF Spec

(* Lines 55-58: for a disciplined engine an object whose last reference    *)
(* has gone is freed, unless the table was full when it was made or handed *)
(* to the frame below.                                                     *)
THEOREM NothingLeaksAlways == Disciplined /\ Spec => []NothingLeaks
<1>1. IInv => NothingLeaks
  BY DEF IInv
<1> QED
  BY InitIInv, NextIInv, <1>1, PTL DEF Spec
=============================================================================
