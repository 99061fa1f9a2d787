--------------------------- MODULE SoLoaderProofs ---------------------------
(***************************************************************************)
(* What the loader's functions compute, for any images that a linker can   *)
(* make: relocations and import binding, each a loop over a table in the   *)
(* code and a fold in SoLoader, leave in every word of a module what       *)
(* FinishedWord says; the runs of so_finalize set every page once.         *)
(***************************************************************************)
EXTENDS SoLoader, WellFoundedInduction, TLAPS

-----------------------------------------------------------------------------
(* Least and greatest numbers, and induction up to a bound.                *)

LEMMA LeastNat ==
  ASSUME NEW S \in SUBSET Nat, S # {}
  PROVE  \E n \in S : \A k \in S : n <= k
<1>1. PICK n \in S : \A k \in S : <<k, n>> \notin OpToRel(<, Nat)
  BY NatLessThanWellFounded, WFMin
<1>2. \A k \in S : n <= k
  <2>1. SUFFICES ASSUME NEW k \in S, k < n PROVE FALSE
    OBVIOUS
  <2>2. <<k, n>> \in Nat \X Nat /\ <<k, n>>[1] < <<k, n>>[2]
    BY <2>1
  <2> QED
    BY <1>1, <2>2 DEF OpToRel
<1> QED
  BY <1>2

LEMMA MinOfNats ==
  ASSUME NEW S \in SUBSET Nat, S # {}
  PROVE  Min(S) \in S /\ \A k \in S : Min(S) <= k
BY LeastNat DEF Min

LEMMA MaxOfBounded ==
  ASSUME NEW S \in SUBSET Nat, S # {}, NEW b \in Nat, \A k \in S : k <= b
  PROVE  Max(S) \in S /\ \A k \in S : k <= Max(S)
<1> DEFINE Below == {n \in Nat : b - n \in S}
<1>1. PICK s \in S : TRUE
  OBVIOUS
<1>2. \A k \in S : b - k \in Nat /\ b - (b - k) = k
  OBVIOUS
<1>3. Below \in SUBSET Nat /\ b - s \in Below
  BY <1>1, <1>2
<1>4. PICK n \in Below : \A k \in Below : n <= k
  <2> HIDE DEF Below
  <2> QED
    BY <1>3, LeastNat
<1>5. b - n \in S /\ \A k \in S : b - n >= k
  <2>1. ASSUME NEW k \in S PROVE b - n >= k
    <3>1. b - k \in Below
      BY <1>2
    <3>2. n <= b - k
      BY <1>4, <3>1
    <3> QED
      BY <3>2
  <2> QED
    BY <1>4, <2>1
<1>6. Max(S) \in S /\ \A k \in S : Max(S) >= k
  BY <1>5 DEF Max
<1> QED
  BY <1>6

LEMMA MaxOfSegment ==
  ASSUME NEW n \in Nat, NEW S \in SUBSET (1..n), S # {}
  PROVE  Max(S) \in 1..n
<1>1. S \in SUBSET Nat /\ \A k \in S : k <= n
  OBVIOUS
<1>2. Max(S) \in S
  BY <1>1, MaxOfBounded
<1> QED
  BY <1>2

LEMMA MaxIs ==
  ASSUME NEW S \in SUBSET Int, NEW m \in S, \A k \in S : k <= m
  PROVE  Max(S) = m
<1>1. \A k \in S : m >= k
  OBVIOUS
<1>2. ASSUME NEW x \in S, \A k \in S : x >= k PROVE x = m
  BY <1>2
<1> QED
  BY <1>1, <1>2 DEF Max

LEMMA InductionUpTo ==
  ASSUME NEW n \in Nat, NEW T, 0 \in T,
         \A k \in 1..n : k - 1 \in T => k \in T
  PROVE  \A k \in 0..n : k \in T
<1> DEFINE Out == {k \in 0..n : k \notin T}
<1>1. SUFFICES ASSUME Out # {} PROVE FALSE
  OBVIOUS
<1>2. Out \in SUBSET Nat
  OBVIOUS
<1>3. PICK k \in Out : \A j \in Out : k <= j
  <2> HIDE DEF Out
  <2> QED
    BY <1>1, <1>2, LeastNat
<1>4. k \in 1..n /\ k - 1 \in 0..n /\ k - 1 \notin Out
  BY <1>3
<1> QED
  BY <1>3, <1>4

(* The initial segments that a fold from the left works through. *)
LEMMA Segment ==
  ASSUME NEW k \in Nat \ {0}
  PROVE  Max(1..k) = k /\ (1..k) \ {k} = 1..(k - 1) /\ 1..k # {}
<1>1. k \in 1..k /\ \A j \in 1..k : k >= j
  OBVIOUS
<1>2. Max(1..k) = k
  BY <1>1 DEF Max
<1> QED
  BY <1>1, <1>2

-----------------------------------------------------------------------------
(* Folds.  A recursive definition means something only if a function       *)
(* satisfies it: IterExists is that fact for a fold over 1..n.             *)

Iterates(it, n, base, step) ==
  it = [S \in SUBSET (1..n) |->
          IF S = {} THEN base ELSE step[Max(S)][it[S \ {Max(S)}]]]

LEMMA IterExists ==
  ASSUME NEW M, NEW n \in Nat, NEW base \in M, NEW step \in [1..n -> [M -> M]]
  PROVE  \E it \in [SUBSET (1..n) -> M] : Iterates(it, n, base, step)
<1> DEFINE Good(k, it) ==
             /\ it \in [SUBSET (1..k) -> M]
             /\ \A S \in SUBSET (1..k) :
                  it[S] = IF S = {} THEN base ELSE step[Max(S)][it[S \ {Max(S)}]]
           T == {k \in 0..n : \E it : Good(k, it)}
<1>1. 0 \in T
  <2> DEFINE it0 == [S \in SUBSET (1..0) |-> base]
  <2>1. \A S \in SUBSET (1..0) : S = {}
    OBVIOUS
  <2>2. Good(0, it0)
    BY <2>1
  <2> HIDE DEF Good
  <2> QED
    BY <2>2
<1>2. ASSUME NEW k \in 1..n, k - 1 \in T PROVE k \in T
  <2>1. PICK it : Good(k - 1, it)
    BY <1>2
  <2> DEFINE new == [S \in SUBSET (1..k) |->
                       IF k \in S THEN step[k][it[S \ {k}]] ELSE it[S]]
  <2>2. \A S \in SUBSET (1..k) : S \ {k} \in SUBSET (1..(k - 1))
    OBVIOUS
  <2>3. \A S \in SUBSET (1..k) : k \notin S => S \in SUBSET (1..(k - 1))
    OBVIOUS
  <2>4. \A S \in SUBSET (1..k) : new[S] \in M
    <3> TAKE S \in SUBSET (1..k)
    <3>1. it[S \ {k}] \in M
      BY <2>1, <2>2
    <3>2. step[k] \in [M -> M]
      OBVIOUS
    <3>3. step[k][it[S \ {k}]] \in M
      BY <3>1, <3>2
    <3>4. k \notin S => it[S] \in M
      BY <2>1, <2>3
    <3> QED
      BY <3>3, <3>4
  <2>5. ASSUME NEW S \in SUBSET (1..k), S # {}
        PROVE  new[S] = step[Max(S)][new[S \ {Max(S)}]]
    <3>1. CASE k \in S
      <4>1. S \in SUBSET Int /\ \A j \in S : j <= k
        OBVIOUS
      <4>2. Max(S) = k
        BY <3>1, <4>1, MaxIs
      <4>3. new[S \ {k}] = it[S \ {k}]
        BY <2>2
      <4> QED
        BY <3>1, <4>2, <4>3
    <3>2. CASE k \notin S
      <4>1. S \in SUBSET (1..(k - 1)) /\ S \in SUBSET Nat
        BY <2>3, <3>2
      <4>2. new[S] = it[S] /\ it[S] = step[Max(S)][it[S \ {Max(S)}]]
        BY <2>1, <2>5, <3>2, <4>1
      <4>3. new[S \ {Max(S)}] = it[S \ {Max(S)}]
        BY <3>2
      <4> QED
        BY <4>2, <4>3
    <3> QED
      BY <3>1, <3>2
  <2>6. new[{}] = base
    BY <2>1
  <2>7. Good(k, new)
    <3> HIDE DEF new
    <3>1. new \in [SUBSET (1..k) -> M]
      BY <2>4 DEF new
    <3> QED
      BY <2>5, <2>6, <3>1
  <2> HIDE DEF Good
  <2> QED
    BY <2>7
<1>3. n \in T
  <2> HIDE DEF T
  <2>1. \A k \in 1..n : k - 1 \in T => k \in T
    BY <1>2
  <2>2. \A k \in 0..n : k \in T
    BY <1>1, <2>1, InductionUpTo
  <2> QED
    BY <2>2
<1>4. PICK it : Good(n, it)
  BY <1>3
<1>5. Iterates(it, n, base, step)
  BY <1>4 DEF Iterates
<1> QED
  BY <1>4, <1>5

LEMMA TraceStaysIn ==
  ASSUME NEW n \in Nat, NEW M, NEW g, g[0] \in M,
         \A k \in 1..n : g[k - 1] \in M => g[k] \in M
  PROVE  \A k \in 0..n : g[k] \in M
<1> DEFINE T == {k \in 0..n : g[k] \in M}
<1>1. 0 \in T /\ \A k \in 1..n : k - 1 \in T => k \in T
  OBVIOUS
<1>2. \A k \in 0..n : k \in T
  <2> HIDE DEF T
  <2> QED
    BY <1>1, InductionUpTo
<1> QED
  BY <1>2

(* The values a fold passes through, entry by entry: first for .rela.      *)
LEMMA RelaTrace ==
  ASSUME NEW i, NEW M, NEW m0 \in M, NEW n \in Nat,
         DOMAIN prog[i].rela = 1..n,
         \A m \in M, k \in 1..n : Relocated(i, m, prog[i].rela[k]) \in M
  PROVE  \E g : /\ g[0] = m0 /\ \A k \in 0..n : g[k] \in M
                /\ \A k \in 1..n : g[k] = Relocated(i, g[k - 1], prog[i].rela[k])
                /\ ProcessRela(i, m0) = g[n]
<1> DEFINE s == prog[i].rela
           step == [k \in 1..n |-> [m \in M |-> Relocated(i, m, s[k])]]
           Steps(it) == it = [S \in SUBSET DOMAIN s |->
                                IF S = {} THEN m0
                                ELSE Relocated(i, it[S \ {Max(S)}], s[Max(S)])]
<1>1. step \in [1..n -> [M -> M]]
  OBVIOUS
<1>2. PICK it \in [SUBSET (1..n) -> M] : Iterates(it, n, m0, step)
  <2> HIDE DEF step
  <2> QED
    BY <1>1, IterExists
<1>3. \A S \in SUBSET (1..n) : S # {} => Max(S) \in 1..n
  BY MaxOfSegment
<1>4. Steps(it)
  <2>1. \A S \in SUBSET (1..n) : S # {} =>
          step[Max(S)][it[S \ {Max(S)}]]
            = Relocated(i, it[S \ {Max(S)}], s[Max(S)])
    <3> TAKE S \in SUBSET (1..n)
    <3> HAVE S # {}
    <3>1. Max(S) \in 1..n /\ it[S \ {Max(S)}] \in M
      BY <1>3
    <3> QED
      BY <3>1
  <2> HIDE DEF step
  <2> QED
    BY <1>2, <2>1 DEF Iterates
<1>5. PICK f : ProcessRela(i, m0) = f[DOMAIN s] /\ Steps(f)
  BY <1>4 DEF ProcessRela, FoldLeft, MapThenFoldSet
<1> DEFINE g == [k \in 0..n |-> f[1..k]]
<1>6. g[0] = m0
  BY <1>5
<1>7. \A k \in 1..n : g[k] = Relocated(i, g[k - 1], s[k])
  <2> TAKE k \in 1..n
  <2>1. 1..k \in SUBSET DOMAIN s /\ k \in Nat \ {0} /\ k - 1 \in 0..n
    OBVIOUS
  <2>2. Max(1..k) = k /\ (1..k) \ {k} = 1..(k - 1) /\ 1..k # {}
    BY <2>1, Segment
  <2>3. f[1..k] = IF 1..k = {} THEN m0
                  ELSE Relocated(i, f[(1..k) \ {Max(1..k)}], s[Max(1..k)])
    BY <1>5, <2>1, Zenon
  <2>4. f[1..k] = Relocated(i, f[1..(k - 1)], s[k])
    BY <2>2, <2>3, Zenon
  <2> QED
    BY <2>1, <2>4
<1>8. ProcessRela(i, m0) = g[n]
  BY <1>5
<1>9. \A k \in 0..n : g[k] \in M
  <2> HIDE DEF g
  <2>1. \A k \in 1..n : g[k - 1] \in M => g[k] \in M
    BY <1>7
  <2> QED
    BY <1>6, <2>1, TraceStaysIn
<1> HIDE DEF g
<1> QED
  BY <1>6, <1>7, <1>8, <1>9

(* A value that changes in no step, and one that changes in a single step. *)
LEMMA ChangedNever ==
  ASSUME NEW n \in Nat, NEW h, \A k \in 1..n : h[k] = h[k - 1]
  PROVE  \A k \in 0..n : h[k] = h[0]
<1> DEFINE M == {h[0]}
<1>1. h[0] \in M /\ \A k \in 1..n : h[k - 1] \in M => h[k] \in M
  OBVIOUS
<1>2. \A k \in 0..n : h[k] \in M
  <2> HIDE DEF M
  <2> QED
    BY <1>1, TraceStaysIn
<1> QED
  BY <1>2

LEMMA ChangedOnce ==
  ASSUME NEW n \in Nat, NEW h, NEW c \in 1..n,
         \A k \in 1..n : k # c => h[k] = h[k - 1]
  PROVE  h[c - 1] = h[0] /\ h[n] = h[c]
<1> DEFINE T == {k \in 0..n : h[k] = IF k < c THEN h[0] ELSE h[c]}
<1>1. 0 \in T
  OBVIOUS
<1>2. \A k \in 1..n : k - 1 \in T => k \in T
  OBVIOUS
<1>3. \A k \in 0..n : k \in T
  <2> HIDE DEF T
  <2> QED
    BY <1>1, <1>2, InductionUpTo
<1>4. c - 1 \in T /\ n \in T
  BY <1>3
<1> QED
  BY <1>4

-----------------------------------------------------------------------------
(* Images.                                                                 *)

Words ==
  [at : {"number", "wild"} \cup Table \cup {prog[i].name : i \in Mods}, off : Int]

LEMMA ImageFacts ==
  ASSUME prog \in Programs
  PROVE  /\ prog # <<>> /\ Len(prog) \in Nat \ {0} /\ Mods = 1..Len(prog)
         /\ \A i \in Mods : prog[i] \in Images /\ Relocatable(prog[i])
<1>1. prog # <<>> /\ prog \in Seq({img \in Images : Relocatable(img)})
  BY ImagesAssumption
<1> QED
  BY <1>1 DEF Mods

LEMMA RelaFacts ==
  ASSUME prog \in Programs, NEW i \in Mods
  PROVE  /\ Len(prog[i].rela) \in Nat
         /\ DOMAIN prog[i].rela = 1..Len(prog[i].rela)
         /\ \A k \in DOMAIN prog[i].rela :
              /\ prog[i].rela[k] \in Relocations
              /\ prog[i].rela[k].type # "RELATIVE" =>
                   Sym(i, prog[i].rela[k]) \in Symbols
         /\ \A j, k \in DOMAIN prog[i].rela :
              j # k => prog[i].rela[j].off # prog[i].rela[k].off
<1>1. prog[i] \in Images /\ Relocatable(prog[i])
  BY ImageFacts
<1>2. prog[i].rela \in Seq(Relocations) /\ prog[i].syms \in Seq(Symbols)
  BY <1>1 DEF Images
<1>3. \A k \in DOMAIN prog[i].syms : prog[i].syms[k] \in Symbols
  BY <1>2
<1> QED
  BY <1>1, <1>2, <1>3 DEF Relocatable, Sym

(* The word that a relocation leaves where w was. *)
RelocatedWord(i, r, w) ==
  CASE r.type = "ABS64" /\ Sym(i, r).undef -> Number(r.add)
    [] r.type = "RELATIVE" -> Address(i, r.add)
    [] r.type \in {"ABS64", "GLOB_DAT", "JUMP_SLOT"} /\ ~Sym(i, r).undef ->
         Address(i, Sym(i, r).val + r.add)
    [] OTHER -> w

LEMMA AddressIsWord ==
  ASSUME prog \in Programs, NEW i \in Mods, NEW a \in Int
  PROVE  Address(i, a) \in Words /\ Number(a) \in Words
BY DEF Address, Number, Words

LEMMA RelocatedAt ==
  ASSUME prog \in Programs, NEW i \in Mods, NEW A, NEW m \in [A -> Words],
         NEW k \in DOMAIN prog[i].rela
  PROVE  /\ Relocated(i, m, prog[i].rela[k])
              = [m EXCEPT ![prog[i].rela[k].off] = RelocatedWord(i, prog[i].rela[k], @)]
         /\ Relocated(i, m, prog[i].rela[k]) \in [A -> Words]
<1> DEFINE r == prog[i].rela[k]
<1>1. /\ r \in Relocations
      /\ r.type # "RELATIVE" => Sym(i, r) \in Symbols
  BY RelaFacts
<1> HIDE DEF r
<1>2. r.add \in Int
  BY <1>1 DEF Relocations
<1>3. r.type # "RELATIVE" => Sym(i, r).val + r.add \in Int
  BY <1>1, <1>2 DEF Symbols
<1>4. m = [m EXCEPT ![r.off] = @]
  OBVIOUS
<1>5. Relocated(i, m, r) = [m EXCEPT ![r.off] = RelocatedWord(i, r, @)]
  BY <1>4 DEF Relocated, RelocatedWord
<1>6. \A w \in Words : RelocatedWord(i, r, w) \in Words
  BY <1>2, <1>3, AddressIsWord DEF RelocatedWord
<1>7. Relocated(i, m, r) \in [A -> Words]
  BY <1>5, <1>6
<1> QED
  BY <1>5, <1>7 DEF r

(* What the first loop of so_relocate leaves in each word. *)
LEMMA RelaResult ==
  ASSUME prog \in Programs, NEW i \in Mods, NEW A, NEW m0 \in [A -> Words]
  PROVE  /\ ProcessRela(i, m0) \in [A -> Words]
         /\ \A a \in A :
              /\ (\A k \in DOMAIN prog[i].rela : prog[i].rela[k].off # a)
                   => ProcessRela(i, m0)[a] = m0[a]
              /\ \A k \in DOMAIN prog[i].rela : prog[i].rela[k].off = a
                   => ProcessRela(i, m0)[a] = RelocatedWord(i, prog[i].rela[k], m0[a])
<1> DEFINE s == prog[i].rela
           n == Len(s)
<1>1. n \in Nat /\ DOMAIN s = 1..n
  BY RelaFacts
<1>2. \A j, k \in 1..n : j # k => s[j].off # s[k].off
  BY <1>1, RelaFacts
<1>3. \A m \in [A -> Words], k \in 1..n :
        /\ Relocated(i, m, s[k]) \in [A -> Words]
        /\ Relocated(i, m, s[k]) = [m EXCEPT ![s[k].off] = RelocatedWord(i, s[k], @)]
  <2> TAKE m \in [A -> Words], k \in 1..n
  <2>1. k \in DOMAIN prog[i].rela
    BY <1>1
  <2>2. /\ Relocated(i, m, prog[i].rela[k])
             = [m EXCEPT ![prog[i].rela[k].off] = RelocatedWord(i, prog[i].rela[k], @)]
        /\ Relocated(i, m, prog[i].rela[k]) \in [A -> Words]
    BY <2>1, RelocatedAt
  <2> QED
    BY <2>2
<1>4. PICK g : /\ g[0] = m0 /\ \A k \in 0..n : g[k] \in [A -> Words]
               /\ \A k \in 1..n : g[k] = Relocated(i, g[k - 1], s[k])
               /\ ProcessRela(i, m0) = g[n]
  <2> DEFINE M == [A -> Words]
  <2>1. \A m \in M, k \in 1..n : Relocated(i, m, s[k]) \in M
    BY <1>3
  <2> HIDE DEF n, M
  <2>2. \E g : /\ g[0] = m0 /\ \A k \in 0..n : g[k] \in M
               /\ \A k \in 1..n : g[k] = Relocated(i, g[k - 1], s[k])
               /\ ProcessRela(i, m0) = g[n]
    <3>1. m0 \in M
      BY DEF M
    <3> QED
      BY <1>1, <2>1, <3>1, RelaTrace
  <2> USE DEF M
  <2> QED
    BY <2>2
<1> HIDE DEF n, s
<1>5. \A k \in 1..n :
        g[k] = [g[k - 1] EXCEPT ![s[k].off] = RelocatedWord(i, s[k], @)]
  BY <1>1, <1>3, <1>4
<1>6. ASSUME NEW a \in A, NEW k \in 1..n, s[k].off # a
      PROVE  g[k][a] = g[k - 1][a]
  <2>1. g[k - 1] \in [A -> Words]
    BY <1>1, <1>4
  <2> QED
    BY <1>5, <1>6, <2>1
<1>7. ASSUME NEW a \in A, \A k \in 1..n : s[k].off # a
      PROVE  g[n][a] = m0[a]
  <2> DEFINE h == [k \in 0..n |-> g[k][a]]
  <2>1. \A k \in 1..n : h[k] = h[k - 1]
    BY <1>1, <1>6, <1>7
  <2>2. h[n] = g[n][a] /\ h[0] = m0[a]
    BY <1>1, <1>4
  <2> HIDE DEF h
  <2>3. n \in Nat /\ n \in 0..n
    BY <1>1
  <2>4. \A k \in 0..n : h[k] = h[0]
    BY <2>1, <2>3, ChangedNever
  <2> QED
    BY <2>2, <2>3, <2>4
<1>8. ASSUME NEW a \in A, NEW c \in 1..n, s[c].off = a
      PROVE  g[n][a] = RelocatedWord(i, s[c], m0[a])
  <2> DEFINE h == [k \in 0..n |-> g[k][a]]
  <2>1. \A k \in 1..n : k # c => h[k] = h[k - 1]
    BY <1>1, <1>2, <1>6, <1>8
  <2>2. h[n] = g[n][a] /\ h[0] = m0[a] /\ h[c] = g[c][a] /\ h[c - 1] = g[c - 1][a]
    BY <1>1, <1>4
  <2> HIDE DEF h
  <2>3. h[c - 1] = h[0] /\ h[n] = h[c]
    BY <1>1, <2>1, ChangedOnce
  <2>4. g[c][a] = RelocatedWord(i, s[c], g[c - 1][a])
    <3>1. g[c - 1] \in [A -> Words]
      BY <1>1, <1>4
    <3> QED
      BY <1>5, <1>8, <3>1
  <2> QED
    BY <2>2, <2>3, <2>4
<1>9. ProcessRela(i, m0) = g[n] /\ g[n] \in [A -> Words]
  BY <1>1, <1>4
<1> QED
  BY <1>1, <1>7, <1>8, <1>9 DEF s

-----------------------------------------------------------------------------
(* RELR.                                                                   *)

(* The word after the last location that entries 1..k stand for. *)
After(relr, k) ==
  LET base == Max({0} \cup {j \in 1..k : ~relr[j].bitmap})
  IN IF base = 0 THEN RelrBits * k
     ELSE relr[base].addr + 1 + RelrBits * (k - base)

LEMMA RelrFacts ==
  ASSUME prog \in Programs, NEW i \in Mods
  PROVE  /\ Len(prog[i].relr) \in Nat
         /\ DOMAIN prog[i].relr = 1..Len(prog[i].relr)
         /\ \A k \in DOMAIN prog[i].relr : prog[i].relr[k] \in RelrEntries
<1>1. prog[i].relr \in Seq(RelrEntries)
  BY ImageFacts DEF Images
<1> QED
  BY <1>1

LEMMA AfterNone == ASSUME NEW relr PROVE After(relr, 0) = 0
<1>1. {0} \cup {j \in 1..0 : ~relr[j].bitmap} = {0} /\ {0} \in SUBSET Int
  OBVIOUS
<1>2. Max({0}) = 0
  BY <1>1, MaxIs
<1> QED
  BY <1>1, <1>2, LoaderAssumption DEF After

LEMMA AfterStep ==
  ASSUME NEW relr, NEW k \in Nat \ {0}, \A j \in 1..k : relr[j].addr \in Nat
  PROVE  /\ relr[k].bitmap => After(relr, k) = After(relr, k - 1) + RelrBits
         /\ ~relr[k].bitmap => After(relr, k) = relr[k].addr + 1
         /\ After(relr, k) \in Int
<1> DEFINE Bases(n) == {0} \cup {j \in 1..n : ~relr[j].bitmap}
<1>1. Bases(k) \in SUBSET Nat /\ Bases(k) # {} /\ \A j \in Bases(k) : j <= k
  OBVIOUS
<1>2. Max(Bases(k)) \in 0..k
  <2> HIDE DEF Bases
  <2> QED
    BY <1>1, MaxOfBounded, SMTT(20)
<1>3. CASE relr[k].bitmap
  <2>1. Bases(k) = Bases(k - 1)
    BY <1>3
  <2> DEFINE base == Max(Bases(k))
  <2>2. After(relr, k) = IF base = 0 THEN RelrBits * k
                         ELSE relr[base].addr + 1 + RelrBits * (k - base)
    BY DEF After
  <2>3. After(relr, k - 1) = IF base = 0 THEN RelrBits * (k - 1)
                             ELSE relr[base].addr + 1 + RelrBits * (k - 1 - base)
    BY <2>1 DEF After
  <2> HIDE DEF base
  <2>4. base \in 0..k /\ RelrBits \in Nat
    BY <1>2, LoaderAssumption DEF base
  <2>5. base # 0 => relr[base].addr \in Nat
    BY <2>4
  <2>6. /\ RelrBits * k = RelrBits * (k - 1) + RelrBits
        /\ RelrBits * (k - base) = RelrBits * (k - 1 - base) + RelrBits
        /\ RelrBits * (k - 1) \in Int /\ RelrBits * (k - 1 - base) \in Int
    BY <2>4
  <2> QED
    BY <1>3, <2>2, <2>3, <2>4, <2>5, <2>6
<1>4. CASE ~relr[k].bitmap
  <2>1. k \in Bases(k) /\ Bases(k) \in SUBSET Int
    BY <1>1, <1>4
  <2>2. Max(Bases(k)) = k
    <3> HIDE DEF Bases
    <3> QED
      BY <1>1, <2>1, MaxIs
  <2>3. RelrBits * (k - k) = 0 /\ relr[k].addr + 1 \in Int
    BY LoaderAssumption
  <2> QED
    BY <1>4, <2>2, <2>3 DEF After
<1> QED
  BY <1>3, <1>4

LEMMA LocationsAfter ==
  ASSUME NEW relr, NEW k \in Nat \ {0}, relr[k].bitmap
  PROVE  EntryLocations(relr, k) = {After(relr, k - 1) + b - 1 : b \in relr[k].bits}
<1> DEFINE base == Max({0} \cup {j \in 1..(k - 1) : ~relr[j].bitmap})
           from == IF base = 0 THEN 0 ELSE relr[base].addr + 1
<1>1. EntryLocations(relr, k)
        = {from + RelrBits * (k - 1 - base) + b - 1 : b \in relr[k].bits}
  BY DEF EntryLocations
<1>2. After(relr, k - 1) = IF base = 0 THEN RelrBits * (k - 1)
                           ELSE relr[base].addr + 1 + RelrBits * (k - 1 - base)
  BY DEF After
<1> HIDE DEF base
<1>3. from + RelrBits * (k - 1 - base) = After(relr, k - 1)
  <2>1. CASE base = 0
    BY <1>2, <2>1, LoaderAssumption
  <2>2. CASE base # 0
    BY <1>2, <2>2
  <2> QED
    BY <2>1, <2>2
<1> QED
  BY <1>1, <1>3

LEMMA RelrTrace ==
  ASSUME NEW i, NEW M, NEW m0, [where |-> 0, m |-> m0] \in M, NEW n \in Nat,
         DOMAIN prog[i].relr = 1..n,
         \A st \in M, k \in 1..n : RelrEntry(i, st, prog[i].relr[k]) \in M
  PROVE  \E g : /\ g[0] = [where |-> 0, m |-> m0] /\ \A k \in 0..n : g[k] \in M
                /\ \A k \in 1..n : g[k] = RelrEntry(i, g[k - 1], prog[i].relr[k])
                /\ ProcessRelr(i, m0) = g[n].m
<1> DEFINE s == prog[i].relr
           st0 == [where |-> 0, m |-> m0]
           step == [k \in 1..n |-> [st \in M |-> RelrEntry(i, st, s[k])]]
           Steps(it) == it = [S \in SUBSET DOMAIN s |->
                                IF S = {} THEN st0
                                ELSE RelrEntry(i, it[S \ {Max(S)}], s[Max(S)])]
<1>1. step \in [1..n -> [M -> M]] /\ st0 \in M
  OBVIOUS
<1>2. PICK it \in [SUBSET (1..n) -> M] : Iterates(it, n, st0, step)
  <2> HIDE DEF step, st0
  <2> QED
    BY <1>1, IterExists
<1>3. \A S \in SUBSET (1..n) : S # {} => Max(S) \in 1..n
  BY MaxOfSegment
<1> HIDE DEF st0
<1>4. Steps(it)
  <2>1. \A S \in SUBSET (1..n) : S # {} =>
          step[Max(S)][it[S \ {Max(S)}]]
            = RelrEntry(i, it[S \ {Max(S)}], s[Max(S)])
    <3> TAKE S \in SUBSET (1..n)
    <3> HAVE S # {}
    <3>1. Max(S) \in 1..n /\ it[S \ {Max(S)}] \in M
      BY <1>3
    <3> QED
      BY <3>1
  <2> HIDE DEF step
  <2> QED
    BY <1>2, <2>1 DEF Iterates
<1>5. PICK f : ProcessRelr(i, m0) = f[DOMAIN s].m /\ Steps(f)
  BY <1>4 DEF ProcessRelr, FoldLeft, MapThenFoldSet, st0
<1> DEFINE g == [k \in 0..n |-> f[1..k]]
<1>6. g[0] = st0
  BY <1>5
<1>7. \A k \in 1..n : g[k] = RelrEntry(i, g[k - 1], s[k])
  <2> TAKE k \in 1..n
  <2>1. 1..k \in SUBSET DOMAIN s /\ k \in Nat \ {0} /\ k - 1 \in 0..n
    OBVIOUS
  <2>2. f[1..k] = RelrEntry(i, f[1..(k - 1)], s[k])
    BY <1>5, <2>1, Segment
  <2> QED
    BY <2>1, <2>2
<1>8. ProcessRelr(i, m0) = g[n].m
  BY <1>5
<1>9. \A k \in 0..n : g[k] \in M
  <2> HIDE DEF g
  <2>1. \A k \in 1..n : g[k - 1] \in M => g[k] \in M
    BY <1>7
  <2> QED
    BY <1>1, <1>6, <2>1, TraceStaysIn
<1> HIDE DEF g
<1> QED
  BY <1>6, <1>7, <1>8, <1>9 DEF st0

RebasedWord(i, w) ==
  IF w.at = "number" THEN Address(i, w.off) ELSE [at |-> "wild", off |-> 0]

LEMMA RebasedAt ==
  ASSUME prog \in Programs, NEW i \in Mods, NEW A, NEW m \in [A -> Words], NEW S
  PROVE  /\ Rebased(i, m, S) \in [A -> Words]
         /\ \A a \in A : Rebased(i, m, S)[a] =
              IF a \in S THEN RebasedWord(i, m[a]) ELSE m[a]
<1>1. \A w \in Words : RebasedWord(i, w) \in Words
  <2> TAKE w \in Words
  <2>1. w.off \in Int /\ [at |-> "wild", off |-> 0] \in Words
    BY DEF Words
  <2> QED
    BY <2>1, AddressIsWord DEF RebasedWord
<1>2. Rebased(i, m, S) =
        [a \in A |-> IF a \in S THEN RebasedWord(i, m[a]) ELSE m[a]]
  BY DEF Rebased, RebasedWord
<1> QED
  BY <1>1, <1>2

(* What so_process_relr leaves in each word. *)
LEMMA RelrResult ==
  ASSUME prog \in Programs, NEW i \in Mods, NEW A, NEW m0 \in [A -> Words]
  PROVE  /\ ProcessRelr(i, m0) \in [A -> Words]
         /\ \A a \in A : ProcessRelr(i, m0)[a] =
              IF a \in RelrLocations(prog[i].relr) THEN RebasedWord(i, m0[a])
              ELSE m0[a]
<1> DEFINE s == prog[i].relr
           n == Len(s)
           M == [where : Int, m : [A -> Words]]
           L(k) == EntryLocations(s, k)
<1>1. n \in Nat /\ DOMAIN s = 1..n /\ \A k \in 1..n : s[k] \in RelrEntries
  BY RelrFacts
<1>2. \A st \in M, k \in 1..n : RelrEntry(i, st, s[k]) \in M
  <2> TAKE st \in M, k \in 1..n
  <2>1. s[k].addr \in Nat /\ RelrStep \in Nat
    BY <1>1, LoaderAssumption DEF RelrEntries, RelrStep
  <2>2. st.m \in [A -> Words] /\ st.where \in Int
    OBVIOUS
  <2> HIDE DEF s, n
  <2>3. \A S : Rebased(i, st.m, S) \in [A -> Words]
    BY <2>2, RebasedAt
  <2> QED
    BY <2>1, <2>2, <2>3 DEF RelrEntry
<1>3. PICK g : /\ g[0] = [where |-> 0, m |-> m0] /\ \A k \in 0..n : g[k] \in M
               /\ \A k \in 1..n : g[k] = RelrEntry(i, g[k - 1], s[k])
               /\ ProcessRelr(i, m0) = g[n].m
  <2>1. [where |-> 0, m |-> m0] \in M
    OBVIOUS
  <2> HIDE DEF M, n
  <2> QED
    BY <1>1, <1>2, <2>1, RelrTrace
<1>4. \A k \in 0..n : g[k].where = After(s, k)
  <2> DEFINE T == {k \in 0..n : g[k].where = After(s, k)}
  <2>1. 0 \in T
    BY <1>1, <1>3, AfterNone
  <2>2. ASSUME NEW k \in 1..n, k - 1 \in T PROVE k \in T
    <3>1. /\ s[k].bitmap => After(s, k) = After(s, k - 1) + RelrBits
          /\ ~s[k].bitmap => After(s, k) = s[k].addr + 1
      <4>1. \A j \in 1..k : s[j].addr \in Nat
        BY <1>1 DEF RelrEntries
      <4> QED
        BY <1>1, <4>1, AfterStep, SMTT(20)
    <3>2. g[k] = RelrEntry(i, g[k - 1], s[k]) /\ g[k - 1].where = After(s, k - 1)
      BY <1>1, <1>3, <2>2
    <3>3. g[k].where = After(s, k)
      BY <3>1, <3>2 DEF RelrEntry, RelrStep
    <3> QED
      BY <3>3
  <2>3. \A k \in 1..n : k - 1 \in T => k \in T
    BY <2>2
  <2>4. \A k \in 0..n : k \in T
    <3> HIDE DEF T
    <3> QED
      BY <1>1, <2>1, <2>3, InductionUpTo
  <2> QED
    BY <2>4
<1>5. ASSUME NEW k \in 1..n
      PROVE  g[k].m = Rebased(i, g[k - 1].m, L(k))
  <2>1. k \in Nat \ {0} /\ k - 1 \in 0..n
    BY <1>1
  <2>2. g[k] = RelrEntry(i, g[k - 1], s[k]) /\ g[k - 1].where = After(s, k - 1)
    BY <1>3, <1>4, <2>1
  <2>3. CASE s[k].bitmap
    <3>1. L(k) = {g[k - 1].where + b - 1 : b \in s[k].bits}
      BY <2>1, <2>2, <2>3, LocationsAfter
    <3> HIDE DEF L
    <3> QED
      BY <2>2, <2>3, <3>1 DEF RelrEntry
  <2>4. CASE ~s[k].bitmap
    BY <2>2, <2>4 DEF RelrEntry, EntryLocations
  <2> QED
    BY <2>3, <2>4
<1>6. \A j, k \in 1..n : j # k => L(j) \cap L(k) = {}
  BY <1>1, ImageFacts DEF Relocatable
<1>7. RelrLocations(s) = UNION {L(k) : k \in 1..n}
  BY <1>1 DEF RelrLocations
<1>8. \A k \in 0..n : g[k].m \in [A -> Words]
  BY <1>3
<1> HIDE DEF n, s, L
<1>9. ASSUME NEW a \in A, NEW k \in 1..n
      PROVE  g[k].m[a] = IF a \in L(k) THEN RebasedWord(i, g[k - 1].m[a])
                         ELSE g[k - 1].m[a]
  <2>1. g[k - 1].m \in [A -> Words]
    BY <1>1, <1>8
  <2> QED
    BY <1>5, <2>1, RebasedAt
<1>10. ASSUME NEW a \in A, \A k \in 1..n : a \notin L(k)
       PROVE  g[n].m[a] = m0[a]
  <2> DEFINE h == [k \in 0..n |-> g[k].m[a]]
  <2>1. \A k \in 1..n : h[k] = h[k - 1]
    BY <1>1, <1>9, <1>10
  <2>2. h[n] = g[n].m[a] /\ h[0] = m0[a]
    BY <1>1, <1>3
  <2> HIDE DEF h
  <2>3. n \in Nat /\ n \in 0..n
    BY <1>1
  <2>4. \A k \in 0..n : h[k] = h[0]
    BY <2>1, <2>3, ChangedNever
  <2> QED
    BY <2>2, <2>3, <2>4
<1>11. ASSUME NEW a \in A, NEW c \in 1..n, a \in L(c)
       PROVE  g[n].m[a] = RebasedWord(i, m0[a])
  <2> DEFINE h == [k \in 0..n |-> g[k].m[a]]
  <2>1. \A k \in 1..n : k # c => h[k] = h[k - 1]
    BY <1>1, <1>6, <1>9, <1>11
  <2>2. h[n] = g[n].m[a] /\ h[0] = m0[a] /\ h[c] = RebasedWord(i, h[c - 1])
    BY <1>1, <1>3, <1>9, <1>11
  <2> HIDE DEF h
  <2>3. h[c - 1] = h[0] /\ h[n] = h[c]
    BY <1>1, <2>1, ChangedOnce
  <2> QED
    BY <2>2, <2>3
<1>12. ProcessRelr(i, m0) = g[n].m /\ g[n].m \in [A -> Words]
  BY <1>1, <1>3, <1>8
<1>13. ASSUME NEW a \in A
       PROVE  g[n].m[a] = IF a \in RelrLocations(s) THEN RebasedWord(i, m0[a])
                          ELSE m0[a]
  BY <1>7, <1>10, <1>11
<1> QED
  BY <1>12, <1>13 DEF s

-----------------------------------------------------------------------------
(* Imports.                                                                *)

InLoadOrder == soList = [k \in 1..Len(prog) |-> k]

LEMMA FirstDefinition ==
  ASSUME prog \in Programs, NEW i \in Mods, NEW name, Definers(i, name) # {}
  PROVE  LET j == Min(Definers(i, name)) IN
         /\ j \in Definers(i, name) /\ j \in Mods
         /\ prog[j].syms[Min(Definitions(j, name))].val \in Nat
<1> DEFINE js == Definers(i, name)
           j == Min(js)
<1>1. js \in SUBSET Nat /\ js # {}
  BY ImageFacts DEF Definers
<1>2. j \in js
  <2> HIDE DEF js
  <2> QED
    BY <1>1, MinOfNats
<1>3. j \in Mods /\ Definitions(j, name) # {}
  BY <1>2 DEF Definers
<1> HIDE DEF js, j
<1>4. prog[j].syms \in Seq(Symbols)
  BY <1>3, ImageFacts DEF Images
<1>5. Definitions(j, name) \in SUBSET Nat
  BY <1>4 DEF Definitions
<1>6. Min(Definitions(j, name)) \in Definitions(j, name)
  BY <1>3, <1>5, MinOfNats
<1>7. Min(Definitions(j, name)) \in DOMAIN prog[j].syms
  BY <1>6 DEF Definitions
<1> DEFINE d == Min(Definitions(j, name))
<1> HIDE DEF d
<1>8. d \in DOMAIN prog[j].syms
  BY <1>7 DEF d
<1>9. prog[j].syms[d] \in Symbols
  BY <1>4, <1>8
<1>10. prog[j].syms[d].val \in Nat
  BY <1>9 DEF Symbols
<1> QED
  BY <1>2, <1>3, <1>10 DEF js, j, d

LEMMA ImportTargetIsWord ==
  ASSUME prog \in Programs, NEW i \in Mods, NEW k \in DOMAIN prog[i].rela,
         prog[i].rela[k].type # "RELATIVE"
  PROVE  ImportTarget(i, prog[i].rela[k]) \in Words
<1> DEFINE r == prog[i].rela[k]
           name == Sym(i, r).name
           j == Min(Definers(i, name))
           v == prog[j].syms[Min(Definitions(j, name))].val
<1>1. r \in Relocations /\ Sym(i, r) \in Symbols
  BY RelaFacts
<1> HIDE DEF r
<1>2. r.add \in Int /\ r.off \in Nat
  BY <1>1 DEF Relocations
<1>3. CASE name \in Table
  BY <1>2, <1>3 DEF ImportTarget, Words, r
<1>4. CASE name \notin Table /\ Definers(i, name) = {}
  BY <1>2, <1>4, AddressIsWord DEF ImportTarget, r
<1>5. CASE name \notin Table /\ Definers(i, name) # {}
  <2>1. j \in Mods /\ v \in Nat
    BY <1>5, FirstDefinition
  <2>2. ImportTarget(i, r) = Address(j, v + r.add)
    BY <1>5 DEF ImportTarget
  <2> HIDE DEF j, v, name
  <2>3. v + r.add \in Int
    BY <1>2, <2>1
  <2> QED
    BY <2>1, <2>2, <2>3, AddressIsWord DEF r
<1> QED
  BY <1>3, <1>4, <1>5

LEMMA BoundIs ==
  ASSUME prog \in Programs, InLoadOrder, NEW i \in Mods, NEW A,
         NEW m \in [A -> Words], NEW k \in DOMAIN prog[i].rela
  PROVE  /\ Bound(i, m, prog[i].rela[k]) =
              IF prog[i].rela[k].type = "RELATIVE" \/ ~Sym(i, prog[i].rela[k]).undef
              THEN m
              ELSE [m EXCEPT ![prog[i].rela[k].off] = ImportTarget(i, prog[i].rela[k])]
         /\ Bound(i, m, prog[i].rela[k]) \in [A -> Words]
<1> DEFINE r == prog[i].rela[k]
           name == Sym(i, r).name
           js == Definers(i, name)
<1>1. CASE r.type = "RELATIVE" \/ ~Sym(i, r).undef
  BY <1>1 DEF Bound
<1>2. CASE ~(r.type = "RELATIVE" \/ ~Sym(i, r).undef)
  <2>1. Donors(i, name) = js
    <3>1. DOMAIN soList = Mods /\ \A j \in Mods : soList[j] = j
      BY ImageFacts DEF InLoadOrder
    <3>2. \A j \in Mods : Export(j, name) = Definitions(j, name)
      BY DEF Export, Definitions
    <3> QED
      BY <3>1, <3>2 DEF Donors, Definers
  <2>2. js # {} => Min(js) \in Mods /\ soList[Min(js)] = Min(js)
    <3>1. js # {} => Min(js) \in Mods
      BY FirstDefinition
    <3> QED
      BY <3>1, ImageFacts DEF InLoadOrder
  <2>3. r.add \in Int
    BY RelaFacts DEF Relocations
  <2> HIDE DEF r
  <2>4. Bound(i, m, r) = [m EXCEPT ![r.off] = ImportTarget(i, r)]
    <3> DEFINE v == CHOOSE v \in Resolve(i, name) : TRUE
    <3>0. Resolve(i, name) # {} =>
            Bound(i, m, r) = [m EXCEPT ![r.off] = [at |-> v.at, off |-> v.off + r.add]]
      BY <1>2 DEF Bound, r
    <3>1. CASE name \in Table
      <4>1. Resolve(i, name) = {[at |-> name, off |-> 0]}
        BY <3>1 DEF Resolve
      <4> HIDE DEF name
      <4>2. v = [at |-> name, off |-> 0]
        BY <4>1
      <4> HIDE DEF v
      <4>3. v.at = name /\ v.off + r.add = r.add
        BY <2>3, <4>2
      <4>4. ImportTarget(i, r) = [at |-> name, off |-> r.add]
        BY <3>1 DEF ImportTarget, name
      <4> QED
        BY <3>0, <4>1, <4>3, <4>4
    <3>2. CASE name \notin Table /\ js = {}
      BY <1>2, <2>1, <3>2 DEF Bound, Resolve, ImportTarget, r
    <3>3. CASE name \notin Table /\ js # {}
      <4> DEFINE j == Min(js)
                 val == prog[j].syms[Min(Definitions(j, name))].val
      <4>1. Resolve(i, name) = {Address(j, val)}
        <5>1. Export(j, name) = Definitions(j, name)
          BY DEF Export, Definitions
        <5> QED
          BY <2>1, <2>2, <3>3, <5>1 DEF Resolve
      <4>2. ImportTarget(i, r) = Address(j, val + r.add)
        BY <3>3 DEF ImportTarget
      <4> HIDE DEF name, j, val
      <4>3. v = Address(j, val)
        BY <4>1
      <4> HIDE DEF v
      <4>4. v.at = prog[j].name /\ v.off = val
        BY <4>3 DEF Address
      <4> QED
        BY <3>0, <4>1, <4>2, <4>4 DEF Address
    <3> QED
      BY <3>1, <3>2, <3>3
  <2>5. ImportTarget(i, r) \in Words
    BY <1>2, ImportTargetIsWord DEF r
  <2> QED
    BY <1>2, <2>4, <2>5 DEF r
<1> QED
  BY <1>1, <1>2

LEMMA BindTrace ==
  ASSUME NEW i, NEW M, NEW m0 \in M, NEW n \in Nat,
         DOMAIN prog[i].rela = 1..n,
         \A m \in M, k \in 1..n : Bound(i, m, prog[i].rela[k]) \in M
  PROVE  \E g : /\ g[0] = m0 /\ \A k \in 0..n : g[k] \in M
                /\ \A k \in 1..n : g[k] = Bound(i, g[k - 1], prog[i].rela[k])
                /\ BindImports(i, m0) = g[n]
<1> DEFINE s == prog[i].rela
           step == [k \in 1..n |-> [m \in M |-> Bound(i, m, s[k])]]
           Steps(it) == it = [S \in SUBSET DOMAIN s |->
                                IF S = {} THEN m0
                                ELSE Bound(i, it[S \ {Max(S)}], s[Max(S)])]
<1>1. step \in [1..n -> [M -> M]]
  OBVIOUS
<1>2. PICK it \in [SUBSET (1..n) -> M] : Iterates(it, n, m0, step)
  <2> HIDE DEF step
  <2> QED
    BY <1>1, IterExists
<1>3. \A S \in SUBSET (1..n) : S # {} => Max(S) \in 1..n
  BY MaxOfSegment
<1>4. Steps(it)
  <2>1. \A S \in SUBSET (1..n) : S # {} =>
          step[Max(S)][it[S \ {Max(S)}]]
            = Bound(i, it[S \ {Max(S)}], s[Max(S)])
    <3> TAKE S \in SUBSET (1..n)
    <3> HAVE S # {}
    <3>1. Max(S) \in 1..n /\ it[S \ {Max(S)}] \in M
      BY <1>3
    <3> QED
      BY <3>1
  <2> HIDE DEF step
  <2> QED
    BY <1>2, <2>1 DEF Iterates
<1>5. PICK f : BindImports(i, m0) = f[DOMAIN s] /\ Steps(f)
  BY <1>4 DEF BindImports, FoldLeft, MapThenFoldSet
<1> DEFINE g == [k \in 0..n |-> f[1..k]]
<1>6. g[0] = m0
  BY <1>5
<1>7. \A k \in 1..n : g[k] = Bound(i, g[k - 1], s[k])
  <2> TAKE k \in 1..n
  <2>1. 1..k \in SUBSET DOMAIN s /\ k \in Nat \ {0} /\ k - 1 \in 0..n
    OBVIOUS
  <2>2. Max(1..k) = k /\ (1..k) \ {k} = 1..(k - 1) /\ 1..k # {}
    BY <2>1, Segment
  <2>3. f[1..k] = IF 1..k = {} THEN m0
                  ELSE Bound(i, f[(1..k) \ {Max(1..k)}], s[Max(1..k)])
    BY <1>5, <2>1, Zenon
  <2>4. f[1..k] = Bound(i, f[1..(k - 1)], s[k])
    BY <2>2, <2>3, Zenon
  <2> QED
    BY <2>1, <2>4
<1>8. BindImports(i, m0) = g[n]
  BY <1>5
<1>9. \A k \in 0..n : g[k] \in M
  <2> HIDE DEF g
  <2>1. \A k \in 1..n : g[k - 1] \in M => g[k] \in M
    BY <1>7
  <2> QED
    BY <1>6, <2>1, TraceStaysIn
<1> HIDE DEF g
<1> QED
  BY <1>6, <1>7, <1>8, <1>9

(* What so_resolve leaves in each word. *)
LEMMA BindResult ==
  ASSUME prog \in Programs, InLoadOrder, NEW i \in Mods, NEW A,
         NEW m0 \in [A -> Words]
  PROVE  /\ BindImports(i, m0) \in [A -> Words]
         /\ \A a \in A :
              /\ (\A k \in DOMAIN prog[i].rela : prog[i].rela[k].off # a)
                   => BindImports(i, m0)[a] = m0[a]
              /\ \A k \in DOMAIN prog[i].rela : prog[i].rela[k].off = a
                   => BindImports(i, m0)[a] =
                        IF \/ prog[i].rela[k].type = "RELATIVE"
                           \/ ~Sym(i, prog[i].rela[k]).undef
                        THEN m0[a] ELSE ImportTarget(i, prog[i].rela[k])
<1> DEFINE s == prog[i].rela
           n == Len(s)
           Kept(k) == s[k].type = "RELATIVE" \/ ~Sym(i, s[k]).undef
<1>1. n \in Nat /\ DOMAIN s = 1..n
  BY RelaFacts
<1>2. \A j, k \in 1..n : j # k => s[j].off # s[k].off
  BY <1>1, RelaFacts
<1>3. \A m \in [A -> Words], k \in 1..n :
        /\ Bound(i, m, s[k]) \in [A -> Words]
        /\ Bound(i, m, s[k]) =
             IF Kept(k) THEN m ELSE [m EXCEPT ![s[k].off] = ImportTarget(i, s[k])]
  <2> TAKE m \in [A -> Words], k \in 1..n
  <2>1. k \in DOMAIN prog[i].rela
    BY <1>1
  <2>2. /\ Bound(i, m, prog[i].rela[k]) =
              IF prog[i].rela[k].type = "RELATIVE" \/ ~Sym(i, prog[i].rela[k]).undef
              THEN m
              ELSE [m EXCEPT ![prog[i].rela[k].off] = ImportTarget(i, prog[i].rela[k])]
        /\ Bound(i, m, prog[i].rela[k]) \in [A -> Words]
    BY <2>1, BoundIs
  <2> QED
    BY <2>2
<1>4. PICK g : /\ g[0] = m0 /\ \A k \in 0..n : g[k] \in [A -> Words]
               /\ \A k \in 1..n : g[k] = Bound(i, g[k - 1], s[k])
               /\ BindImports(i, m0) = g[n]
  <2> DEFINE M == [A -> Words]
  <2>1. \A m \in M, k \in 1..n : Bound(i, m, s[k]) \in M
    BY <1>3
  <2> HIDE DEF n, M
  <2>2. \E g : /\ g[0] = m0 /\ \A k \in 0..n : g[k] \in M
               /\ \A k \in 1..n : g[k] = Bound(i, g[k - 1], s[k])
               /\ BindImports(i, m0) = g[n]
    <3>1. m0 \in M
      BY DEF M
    <3> QED
      BY <1>1, <2>1, <3>1, BindTrace
  <2> USE DEF M
  <2> QED
    BY <2>2
<1> HIDE DEF n, s, Kept
<1>5. \A k \in 1..n :
        g[k] = IF Kept(k) THEN g[k - 1]
               ELSE [g[k - 1] EXCEPT ![s[k].off] = ImportTarget(i, s[k])]
  <2> TAKE k \in 1..n
  <2>1. g[k - 1] \in [A -> Words] /\ g[k] = Bound(i, g[k - 1], s[k])
    BY <1>1, <1>4
  <2> QED
    BY <1>3, <2>1
<1>6. ASSUME NEW a \in A, NEW k \in 1..n, s[k].off # a
      PROVE  g[k][a] = g[k - 1][a]
  <2>1. g[k - 1] \in [A -> Words]
    BY <1>1, <1>4
  <2> QED
    BY <1>5, <1>6, <2>1
<1>7. ASSUME NEW a \in A, \A k \in 1..n : s[k].off # a
      PROVE  g[n][a] = m0[a]
  <2> DEFINE h == [k \in 0..n |-> g[k][a]]
  <2>1. \A k \in 1..n : h[k] = h[k - 1]
    BY <1>1, <1>6, <1>7
  <2>2. h[n] = g[n][a] /\ h[0] = m0[a]
    BY <1>1, <1>4
  <2> HIDE DEF h
  <2>3. n \in Nat /\ n \in 0..n
    BY <1>1
  <2>4. \A k \in 0..n : h[k] = h[0]
    BY <2>1, <2>3, ChangedNever
  <2> QED
    BY <2>2, <2>3, <2>4
<1>8. ASSUME NEW a \in A, NEW c \in 1..n, s[c].off = a
      PROVE  g[n][a] = IF Kept(c) THEN m0[a] ELSE ImportTarget(i, s[c])
  <2> DEFINE h == [k \in 0..n |-> g[k][a]]
  <2>1. \A k \in 1..n : k # c => h[k] = h[k - 1]
    BY <1>1, <1>2, <1>6, <1>8
  <2>2. h[n] = g[n][a] /\ h[0] = m0[a] /\ h[c] = g[c][a] /\ h[c - 1] = g[c - 1][a]
    BY <1>1, <1>4
  <2> HIDE DEF h
  <2>3. h[c - 1] = h[0] /\ h[n] = h[c]
    BY <1>1, <2>1, ChangedOnce
  <2>4. g[c][a] = IF Kept(c) THEN g[c - 1][a] ELSE ImportTarget(i, s[c])
    <3>1. g[c - 1] \in [A -> Words]
      BY <1>1, <1>4
    <3> QED
      BY <1>5, <1>8, <3>1
  <2> QED
    BY <2>2, <2>3, <2>4
<1>9. BindImports(i, m0) = g[n] /\ g[n] \in [A -> Words]
  BY <1>1, <1>4
<1> QED
  BY <1>1, <1>7, <1>8, <1>9 DEF s, Kept

-----------------------------------------------------------------------------
(* Sizes and pages.                                                        *)

LEMMA Division ==
  ASSUME NEW a \in Int
  PROVE  /\ a \div PageWords \in Int
         /\ a - (PageWords * (a \div PageWords)) \in 0..(PageWords - 1)
<1>1. PageWords \in Nat \ {0}
  BY LoaderAssumption
<1> DEFINE q == a \div PageWords
<1>2. q \in Int /\ a = (PageWords * q) + (a % PageWords)
  BY <1>1
<1>3. a % PageWords \in 0..(PageWords - 1)
  BY <1>1
<1> HIDE DEF q
<1>4. PageWords * q \in Int
  BY <1>1, <1>2
<1>5. a - (PageWords * q) \in 0..(PageWords - 1)
  BY <1>1, <1>2, <1>3, <1>4
<1> QED
  BY <1>2, <1>5 DEF q

LEMMA Multiples ==
  ASSUME NEW p \in Int, NEW q \in Int, p < q
  PROVE  (PageWords * p) + PageWords <= PageWords * q
<1> DEFINE d == (q - p) - 1
<1>1. PageWords \in Nat \ {0} /\ d \in Nat /\ q = (p + 1) + d
  BY LoaderAssumption
<1> HIDE DEF d
<1>2. PageWords * d >= 0
  BY <1>1
<1>3. PageWords * q = ((PageWords * p) + PageWords) + (PageWords * d)
  BY <1>1
<1>4. PageWords * p \in Int /\ PageWords * d \in Int
  BY <1>1
<1> QED
  BY <1>1, <1>2, <1>3, <1>4

(* The page that a word is on. *)
LEMMA PageOf ==
  ASSUME NEW a \in Int, NEW q \in Int
  PROVE  /\ PageWords * q <= a <=> q <= a \div PageWords
         /\ a - (PageWords * q) \in 0..(PageWords - 1) => a \div PageWords = q
<1> DEFINE p == a \div PageWords
<1>1. /\ p \in Int /\ PageWords \in Nat \ {0}
      /\ a - (PageWords * p) \in 0..(PageWords - 1)
  BY Division, LoaderAssumption
<1> HIDE DEF p
<1>2. PageWords * p \in Int /\ PageWords * q \in Int
  BY <1>1
<1>3. CASE p < q
  <2>1. (PageWords * p) + PageWords <= PageWords * q
    BY <1>1, <1>3, Multiples
  <2> QED
    BY <1>1, <1>2, <1>3, <2>1 DEF p
<1>4. CASE q < p
  <2>1. (PageWords * q) + PageWords <= PageWords * p
    BY <1>1, <1>4, Multiples
  <2> QED
    BY <1>1, <1>2, <1>4, <2>1 DEF p
<1>5. CASE p = q
  BY <1>1, <1>2, <1>5 DEF p
<1> QED
  BY <1>1, <1>3, <1>4, <1>5

LEMMA PagesInOrder ==
  ASSUME NEW a \in Int, NEW b \in Int, a <= b
  PROVE  a \div PageWords <= b \div PageWords
<1> DEFINE p == a \div PageWords
<1>1. p \in Int /\ a - (PageWords * p) \in 0..(PageWords - 1)
  BY Division
<1> HIDE DEF p
<1>2. PageWords * p \in Int
  BY <1>1, LoaderAssumption
<1>3. PageWords * p <= b
  BY <1>1, <1>2, LoaderAssumption
<1>4. p <= b \div PageWords
  BY <1>1, <1>3, PageOf
<1> QED
  BY <1>4 DEF p

LEMMA AlignUpIs ==
  ASSUME NEW n \in Nat
  PROVE  /\ AlignUp(n) \in Nat /\ n <= AlignUp(n)
         /\ (n - 1) \div PageWords = AlignUp(n) \div PageWords - 1
<1> DEFINE q == (n + PageWords - 1) \div PageWords
<1>1. PageWords \in Nat \ {0} /\ n + PageWords - 1 \in Nat
  BY LoaderAssumption
<1>2. /\ q \in Int
      /\ (n + PageWords - 1) - (PageWords * q) \in 0..(PageWords - 1)
  BY <1>1, Division
<1>3. AlignUp(n) = q * PageWords
  BY DEF AlignUp
<1>4. 0 <= q
  <2>1. PageWords * 0 <= n + PageWords - 1
    BY <1>1
  <2> HIDE DEF q
  <2>2. 0 <= (n + PageWords - 1) \div PageWords
    BY <1>1, <2>1, PageOf
  <2> QED
    BY <2>2 DEF q
<1> HIDE DEF q
<1>5. q * PageWords = PageWords * q /\ PageWords * q \in Nat
  BY <1>1, <1>2, <1>4
<1>6. n <= PageWords * q
  BY <1>1, <1>2, <1>5
<1>7. AlignUp(n) \div PageWords = q
  <2>1. (PageWords * q) - (PageWords * q) \in 0..(PageWords - 1)
    BY <1>1, <1>5
  <2> QED
    BY <1>2, <1>3, <1>5, <2>1, PageOf
<1>8. (n - 1) \div PageWords = q - 1
  <2>1. PageWords * (q - 1) = (PageWords * q) - PageWords
    BY <1>1, <1>2
  <2>2. (n - 1) - (PageWords * (q - 1)) \in 0..(PageWords - 1)
    BY <1>1, <1>2, <1>5, <2>1
  <2> QED
    BY <1>2, <2>2, PageOf
<1> QED
  BY <1>3, <1>5, <1>6, <1>7, <1>8

LEMMA NumbersBounded ==
  ASSUME NEW n \in Nat, NEW f, \A k \in 1..n : f[k] \in Nat
  PROVE  \E b \in Nat : \A k \in 1..n : f[k] <= b
<1> DEFINE T == {k \in 0..n : \E b \in Nat : \A j \in 1..k : f[j] <= b}
<1>1. 0 \in T
  <2>1. 0 \in Nat /\ \A j \in 1..0 : f[j] <= 0
    OBVIOUS
  <2> QED
    BY <2>1
<1>2. ASSUME NEW k \in 1..n, k - 1 \in T PROVE k \in T
  <2>1. PICK b \in Nat : \A j \in 1..(k - 1) : f[j] <= b
    BY <1>2
  <2> DEFINE c == b + f[k]
  <2>2. c \in Nat /\ \A j \in 1..k : f[j] <= c
    <3>1. f[k] \in Nat
      OBVIOUS
    <3>2. \A j \in 1..k : f[j] \in Nat /\ (j = k \/ j \in 1..(k - 1))
      OBVIOUS
    <3> QED
      BY <2>1, <3>1, <3>2
  <2> HIDE DEF c
  <2> QED
    BY <2>2
<1>3. \A k \in 0..n : k \in T
  <2>1. \A k \in 1..n : k - 1 \in T => k \in T
    BY <1>2
  <2> HIDE DEF T
  <2> QED
    BY <1>1, <2>1, InductionUpTo
<1>4. n \in T
  <2> HIDE DEF T
  <2> QED
    BY <1>3
<1> QED
  BY <1>4

LEMMA LoadFacts ==
  ASSUME prog \in Programs, NEW i \in Mods
  PROVE  /\ Len(prog[i].load) \in Nat \ {0}
         /\ DOMAIN prog[i].load = 1..Len(prog[i].load)
         /\ \A s \in DOMAIN prog[i].load : prog[i].load[s] \in Segments
<1>1. prog[i].load \in Seq(Segments) /\ prog[i].load # <<>>
  BY ImageFacts DEF Images
<1> QED
  BY <1>1

(* Every segment lies in the buffer. *)
LEMMA LoadSizeIs ==
  ASSUME prog \in Programs, NEW i \in Mods
  PROVE  /\ LoadSize(prog[i]) \in Nat
         /\ \A s \in DOMAIN prog[i].load :
              AlignUp(prog[i].load[s].va + prog[i].load[s].msz) \div PageWords
                <= LoadSize(prog[i]) \div PageWords
<1> DEFINE l == prog[i].load
           n == Len(l)
           ends == {l[s].va + l[s].msz : s \in DOMAIN l}
<1>1. n \in Nat \ {0} /\ DOMAIN l = 1..n /\ \A s \in 1..n : l[s] \in Segments
  BY LoadFacts
<1>2. \A s \in 1..n : l[s].va + l[s].msz \in Nat
  BY <1>1 DEF Segments
<1> HIDE DEF l, n
<1>3. PICK b \in Nat : \A k \in 1..n : l[k].va + l[k].msz <= b
  <2> DEFINE f == [k \in 1..n |-> l[k].va + l[k].msz]
  <2>1. \A k \in 1..n : f[k] \in Nat
    BY <1>2
  <2>2. n \in Nat
    BY <1>1
  <2>3. \E b \in Nat : \A k \in 1..n : f[k] <= b
    <3> HIDE DEF f
    <3> QED
      BY <2>1, <2>2, NumbersBounded
  <2> QED
    BY <2>3
<1>4. ends \in SUBSET Nat /\ ends # {} /\ \A e \in ends : e <= b
  <2>1. 1 \in 1..n
    BY <1>1
  <2> QED
    BY <1>1, <1>2, <1>3, <2>1
<1>5. Max(ends) \in ends /\ \A e \in ends : e <= Max(ends)
  <2> HIDE DEF ends
  <2> QED
    BY <1>4, MaxOfBounded
<1>6. LoadSize(prog[i]) = AlignUp(Max(ends))
  BY DEF LoadSize, l
<1>7. Max(ends) \in Nat
  BY <1>4, <1>5
<1>8. LoadSize(prog[i]) \in Nat
  BY <1>6, <1>7, AlignUpIs
<1>9. ASSUME NEW e \in ends
      PROVE  AlignUp(e) \div PageWords <= LoadSize(prog[i]) \div PageWords
  <2> DEFINE m == Max(ends)
  <2>1. e \in Nat /\ m \in Nat /\ e <= m
    BY <1>4, <1>5, <1>7
  <2> HIDE DEF ends, m
  <2>2. (e - 1) \div PageWords <= (m - 1) \div PageWords
    BY <2>1, PagesInOrder
  <2>3. /\ (e - 1) \div PageWords = AlignUp(e) \div PageWords - 1
        /\ (m - 1) \div PageWords = AlignUp(m) \div PageWords - 1
        /\ AlignUp(e) \in Int /\ AlignUp(m) \in Int
    BY <2>1, AlignUpIs
  <2>4. AlignUp(e) \div PageWords \in Int /\ AlignUp(m) \div PageWords \in Int
    BY <2>3, Division
  <2>5. AlignUp(e) \div PageWords <= AlignUp(m) \div PageWords
    BY <2>2, <2>3, <2>4
  <2> QED
    BY <1>6, <2>5 DEF m
<1> QED
  BY <1>8, <1>9 DEF l

(* Lines 69-81 of so_util.c: is_x_page answers for the pages on which a    *)
(* word of an executable segment lies, and for no others, wherever in its  *)
(* pages a segment begins and ends.                                        *)
THEOREM XPagesHoldCode ==
  ASSUME prog \in Programs, NEW i \in Mods
  PROVE  /\ XPages(i) \subseteq Pages(i)
         /\ \A pg \in Pages(i) : pg \in XPages(i) <=> HoldsCode(i, pg)
<1> DEFINE first(s) == prog[i].load[s].va \div PageWords
           end(s) == prog[i].load[s].va + prog[i].load[s].msz
           X == {s \in DOMAIN prog[i].load : prog[i].load[s].x}
<1>1. ASSUME NEW s \in DOMAIN prog[i].load
      PROVE  /\ prog[i].load[s].va \in Nat /\ end(s) \in Nat
             /\ prog[i].load[s].va <= end(s) - 1
  BY LoadFacts DEF Segments
<1>2. ASSUME NEW s \in DOMAIN prog[i].load
      PROVE  /\ first(s) \in Nat
             /\ (end(s) - 1) \div PageWords \in Int
             /\ AlignUp(end(s)) \div PageWords - 1 = (end(s) - 1) \div PageWords
             /\ (end(s) - 1) \div PageWords <= LoadSize(prog[i]) \div PageWords - 1
  <2>1. /\ prog[i].load[s].va \in Nat /\ end(s) \in Nat
        /\ prog[i].load[s].va <= end(s) - 1
    BY <1>1
  <2>2. first(s) \in Int /\ 0 <= first(s)
    <3>1. PageWords * 0 <= prog[i].load[s].va
      BY <2>1, LoaderAssumption
    <3> QED
      BY <2>1, <3>1, Division, PageOf, SMTT(20)
  <2>3. AlignUp(end(s)) \div PageWords <= LoadSize(prog[i]) \div PageWords
    BY LoadSizeIs
  <2> HIDE DEF end, first
  <2>4. /\ (end(s) - 1) \div PageWords = AlignUp(end(s)) \div PageWords - 1
        /\ AlignUp(end(s)) \in Int
    BY <2>1, AlignUpIs
  <2>5. AlignUp(end(s)) \div PageWords \in Int /\ LoadSize(prog[i]) \in Int
    BY <2>4, Division, LoadSizeIs
  <2>6. LoadSize(prog[i]) \div PageWords \in Int
    BY <2>5, Division
  <2> QED
    BY <2>2, <2>3, <2>4, <2>5, <2>6
<1>3. XPages(i) = UNION {first(s)..((end(s) - 1) \div PageWords) : s \in X}
  <2>1. XPages(i) = UNION {first(s)..(AlignUp(end(s)) \div PageWords - 1) : s \in X}
    BY DEF XPages
  <2> HIDE DEF first, end
  <2> QED
    BY <1>2, <2>1
<1>4. XPages(i) \subseteq Pages(i)
  <2> HIDE DEF first, end
  <2> QED
    BY <1>2, <1>3, LoadSizeIs, Division DEF Pages
<1>5. \A pg : HoldsCode(i, pg) <=>
        \E s \in X : \E a \in prog[i].load[s].va..(end(s) - 1) :
          a \div PageWords = pg
  <2> DEFINE words(s) == prog[i].load[s].va..(prog[i].load[s].va + prog[i].load[s].msz - 1)
  <2>1. \A s \in X : words(s) = prog[i].load[s].va..(end(s) - 1)
    <3> TAKE s \in X
    <3>1. prog[i].load[s] \in Segments
      BY LoadFacts
    <3> QED
      BY <3>1 DEF Segments
  <2>2. \A pg : HoldsCode(i, pg) <=>
          \E s \in X : \E a \in words(s) : a \div PageWords = pg
    BY Zenon DEF HoldsCode
  <2> HIDE DEF words, X, end
  <2> QED
    BY <2>1, <2>2
<1>6. ASSUME NEW pg \in Pages(i), HoldsCode(i, pg) PROVE pg \in XPages(i)
  <2>1. PICK s \in X : \E a \in prog[i].load[s].va..(end(s) - 1) : a \div PageWords = pg
    BY <1>6, <1>5
  <2>2. PICK a \in prog[i].load[s].va..(end(s) - 1) : a \div PageWords = pg
    BY <2>1
  <2>3. /\ a \in Int /\ prog[i].load[s].va <= a /\ a <= end(s) - 1
        /\ prog[i].load[s].va \in Int /\ end(s) - 1 \in Int
    BY <1>1, <2>2
  <2>4. first(s) <= a \div PageWords /\ a \div PageWords <= (end(s) - 1) \div PageWords
    BY <2>3, PagesInOrder
  <2>5. pg \in Int /\ first(s) \in Int
    BY <2>2, <2>3, Division
  <2>6. pg \in first(s)..((end(s) - 1) \div PageWords)
    <3> HIDE DEF first, end
    <3> QED
      BY <1>2, <2>2, <2>4, <2>5
  <2> HIDE DEF first, end
  <2> QED
    BY <1>3, <2>6
<1>7. ASSUME NEW pg \in XPages(i) PROVE HoldsCode(i, pg)
  <2>1. PICK s \in X : pg \in first(s)..((end(s) - 1) \div PageWords)
    <3> HIDE DEF first, end
    <3> QED
      BY <1>3
  <2> DEFINE va == prog[i].load[s].va
  <2>2. va \in Nat /\ end(s) \in Nat /\ va <= end(s) - 1
    BY <1>1
  <2>3. pg \in Int /\ first(s) <= pg /\ pg <= (end(s) - 1) \div PageWords
    BY <2>1, <1>2
  <2>4. \E a \in va..(end(s) - 1) : a \div PageWords = pg
    <3>1. CASE pg = first(s)
      BY <2>2, <3>1
    <3>2. CASE pg # first(s)
      <4> DEFINE a == PageWords * pg
      <4>1. ~(pg <= va \div PageWords)
        <5>1. va \div PageWords \in Int
          BY <2>2, Division
        <5> QED
          BY <2>3, <3>2, <5>1
      <4>2. a \in Int /\ a - a \in 0..(PageWords - 1)
        BY <2>3, LoaderAssumption
      <4>3. a \div PageWords = pg
        BY <2>3, <4>2, PageOf
      <4>4. ~(a <= va)
        BY <2>2, <2>3, <4>1, PageOf
      <4>5. a <= end(s) - 1
        BY <2>2, <2>3, PageOf
      <4> HIDE DEF a, end
      <4>6. a \in va..(end(s) - 1)
        BY <2>2, <4>2, <4>4, <4>5
      <4> QED
        BY <4>3, <4>6
    <3> QED
      BY <3>1, <3>2
  <2> QED
    BY <1>5, <2>4
<1> QED
  BY <1>4, <1>6, <1>7

-----------------------------------------------------------------------------
(* The finished image.                                                     *)

LEMMA CopiedIs ==
  ASSUME prog \in Programs, NEW i \in Mods
  PROVE  /\ Copied(prog[i]) \in [0..(LoadSize(prog[i]) - 1) -> Words]
         /\ \A a \in 0..(LoadSize(prog[i]) - 1) : Copied(prog[i])[a].at = "number"
<1> DEFINE size == LoadSize(prog[i])
<1>1. size \in Nat
  BY LoadSizeIs
<1> HIDE DEF size
<1>2. \A a \in 0..(size - 1) :
        a \in Int /\ Copied(prog[i])[a] \in {Number(a), Number(0)}
  BY <1>1 DEF Copied, size
<1>3. \A a \in 0..(size - 1) : Copied(prog[i])[a] \in Words
  BY <1>2, AddressIsWord
<1>4. \A a \in 0..(size - 1) : Copied(prog[i])[a].at = "number"
  <2>1. \A n : Number(n).at = "number"
    BY DEF Number
  <2> QED
    BY <1>2, <2>1
<1>5. Copied(prog[i]) = [a \in 0..(size - 1) |-> Copied(prog[i])[a]]
  BY DEF Copied, size
<1>6. Copied(prog[i]) \in [0..(size - 1) -> Words]
  <2> DEFINE c == Copied(prog[i])
  <2>1. \A a \in 0..(size - 1) : c[a] \in Words
    BY <1>3
  <2>2. c = [a \in 0..(size - 1) |-> c[a]]
    BY <1>5
  <2> HIDE DEF c
  <2>3. c \in [0..(size - 1) -> Words]
    BY <2>1, <2>2
  <2> QED
    BY <2>3 DEF c
<1> QED
  BY <1>4, <1>6 DEF size

RelocatedImage(i) == ProcessRelr(i, ProcessRela(i, Copied(prog[i])))
FinishedImage(i) == [a \in DOMAIN Copied(prog[i]) |-> FinishedWord(i, a)]

(* No relocation lies at a word that the packed ones stand for. *)
LEMMA NotBoth ==
  ASSUME prog \in Programs, NEW i \in Mods, NEW k \in DOMAIN prog[i].rela
  PROVE  prog[i].rela[k].off \notin RelrLocations(prog[i].relr)
BY ImageFacts DEF Relocatable

LEMMA RelocatedIs ==
  ASSUME prog \in Programs, NEW i \in Mods
  PROVE  /\ RelocatedImage(i) \in [0..(LoadSize(prog[i]) - 1) -> Words]
         /\ \A a \in 0..(LoadSize(prog[i]) - 1) :
              /\ (\A k \in DOMAIN prog[i].rela : prog[i].rela[k].off # a)
                   => RelocatedImage(i)[a] =
                        IF a \in RelrLocations(prog[i].relr)
                        THEN Address(i, Copied(prog[i])[a].off)
                        ELSE Copied(prog[i])[a]
              /\ \A k \in DOMAIN prog[i].rela : prog[i].rela[k].off = a
                   => RelocatedImage(i)[a] =
                        RelocatedWord(i, prog[i].rela[k], Copied(prog[i])[a])
<1> DEFINE A == 0..(LoadSize(prog[i]) - 1)
           c == Copied(prog[i])
           m1 == ProcessRela(i, c)
           locations == RelrLocations(prog[i].relr)
<1>1. c \in [A -> Words] /\ \A a \in A : c[a].at = "number"
  BY CopiedIs
<1>2. RelocatedImage(i) = ProcessRelr(i, m1)
  BY DEF RelocatedImage
<1> HIDE DEF A, c
<1>3. /\ m1 \in [A -> Words]
      /\ \A a \in A :
           /\ (\A k \in DOMAIN prog[i].rela : prog[i].rela[k].off # a)
                => m1[a] = c[a]
           /\ \A k \in DOMAIN prog[i].rela : prog[i].rela[k].off = a
                => m1[a] = RelocatedWord(i, prog[i].rela[k], c[a])
  BY <1>1, RelaResult
<1> HIDE DEF m1
<1>4. /\ ProcessRelr(i, m1) \in [A -> Words]
      /\ \A a \in A : ProcessRelr(i, m1)[a] =
           IF a \in locations THEN RebasedWord(i, m1[a]) ELSE m1[a]
  BY <1>3, RelrResult
<1>5. ASSUME NEW a \in A, \A k \in DOMAIN prog[i].rela : prog[i].rela[k].off # a
      PROVE  RelocatedImage(i)[a] =
               IF a \in locations THEN Address(i, c[a].off) ELSE c[a]
  BY <1>1, <1>2, <1>3, <1>4, <1>5 DEF RebasedWord
<1>6. ASSUME NEW a \in A, NEW k \in DOMAIN prog[i].rela, prog[i].rela[k].off = a
      PROVE  RelocatedImage(i)[a] = RelocatedWord(i, prog[i].rela[k], c[a])
  <2>1. a \notin locations
    BY <1>6, NotBoth
  <2> QED
    BY <1>2, <1>3, <1>4, <1>6, <2>1
<1> QED
  BY <1>2, <1>4, <1>5, <1>6 DEF A, c

(* Lines 230-415 of so_util.c: after so_relocate and so_resolve every word *)
(* of a module is what its segments, relocations, packed relocations and   *)
(* imports say it is, whatever the order of the tables.                    *)
THEOREM ImageFinished ==
  ASSUME prog \in Programs, InLoadOrder, NEW i \in Mods,
         \A k \in DOMAIN prog[i].rela : prog[i].rela[k].type \in KnownTypes
  PROVE  BindImports(i, RelocatedImage(i)) = FinishedImage(i)
<1> DEFINE A == 0..(LoadSize(prog[i]) - 1)
           c == Copied(prog[i])
           m2 == RelocatedImage(i)
           s == prog[i].rela
           K == DOMAIN s
           locations == RelrLocations(prog[i].relr)
           m3 == BindImports(i, m2)
<1>1. DOMAIN c = A
  BY DEF Copied
<1>2. /\ m2 \in [A -> Words]
      /\ \A a \in A :
           /\ (\A k \in K : s[k].off # a)
                => m2[a] = IF a \in locations THEN Address(i, c[a].off) ELSE c[a]
           /\ \A k \in K : s[k].off = a => m2[a] = RelocatedWord(i, s[k], c[a])
  BY RelocatedIs
<1> HIDE DEF A, c, m2
<1>3. /\ m3 \in [A -> Words]
      /\ \A a \in A :
           /\ (\A k \in K : s[k].off # a) => m3[a] = m2[a]
           /\ \A k \in K : s[k].off = a
                => m3[a] = IF s[k].type = "RELATIVE" \/ ~Sym(i, s[k]).undef
                           THEN m2[a] ELSE ImportTarget(i, s[k])
  BY <1>2, BindResult
<1> HIDE DEF m3
<1>4. ASSUME NEW a \in A, \A k \in K : s[k].off # a
      PROVE  m3[a] = FinishedWord(i, a)
  <2>1. {k \in K : s[k].off = a} = {}
    BY <1>4
  <2>2. FinishedWord(i, a) = IF a \in locations THEN Address(i, c[a].off) ELSE c[a]
    BY <2>1 DEF FinishedWord, c
  <2> QED
    BY <1>2, <1>3, <1>4, <2>2
<1>5. ASSUME NEW a \in A, NEW k \in K, s[k].off = a
      PROVE  m3[a] = FinishedWord(i, a)
  <2> DEFINE rs == {j \in K : s[j].off = a}
  <2>1. rs = {k}
    BY <1>5, RelaFacts
  <2>2. rs # {} /\ (CHOOSE j \in rs : TRUE) = k
    BY <2>1
  <2>3. FinishedWord(i, a) =
          IF s[k].type = "RELATIVE" THEN Address(i, s[k].add)
          ELSE IF Sym(i, s[k]).undef THEN ImportTarget(i, s[k])
          ELSE Address(i, Sym(i, s[k]).val + s[k].add)
    BY <2>2 DEF FinishedWord
  <2>4. m3[a] = IF s[k].type = "RELATIVE" \/ ~Sym(i, s[k]).undef
                THEN RelocatedWord(i, s[k], c[a]) ELSE ImportTarget(i, s[k])
    BY <1>2, <1>3, <1>5
  <2>5. s[k].type \in KnownTypes
    OBVIOUS
  <2>6. CASE s[k].type = "RELATIVE"
    BY <2>3, <2>4, <2>6 DEF RelocatedWord
  <2>7. CASE s[k].type # "RELATIVE" /\ Sym(i, s[k]).undef
    BY <2>3, <2>4, <2>7
  <2>8. CASE s[k].type # "RELATIVE" /\ ~Sym(i, s[k]).undef
    BY <2>3, <2>4, <2>5, <2>8 DEF RelocatedWord, KnownTypes
  <2> QED
    BY <2>6, <2>7, <2>8
<1>6. \A a \in A : m3[a] = FinishedWord(i, a)
  BY <1>4, <1>5
<1>7. m3 = [a \in A |-> FinishedWord(i, a)]
  BY <1>3, <1>6
<1> QED
  BY <1>1, <1>7 DEF FinishedImage, c, m2, m3

-----------------------------------------------------------------------------
(* Permissions.                                                            *)

PageType(i, pg) == IF pg \in XPages(i) THEN "rx" ELSE "rw"
Protected(i) == perm[i] = [pg \in Pages(i) |-> PageType(i, pg)]
(* Each kind of page is set from the bottom up, each page to its own kind. *)
InTurn(i) ==
  \A p, q \in Pages(i) :
    (PageType(i, p) = PageType(i, q) /\ p < q /\ perm[i][q] # "fresh")
      => perm[i][p] # "fresh"
Right(i) == \A pg \in Pages(i) : perm[i][pg] \in {"fresh", PageType(i, pg)}
HalfProtected(i) ==
  /\ DOMAIN perm[i] = Pages(i) /\ perm[i] # <<>>
  /\ Right(i) /\ InTurn(i)
  /\ \E pg \in Pages(i) : perm[i][pg] = "fresh"

(* A run starts at a fresh page of its kind and holds nothing but fresh    *)
(* pages of that kind: none in it comes after one that is set.             *)
LEMMA RunIsFresh ==
  ASSUME prog \in Programs, NEW i \in Mods, HalfProtected(i)
  PROVE  \E first \in Pages(i) :
           /\ perm[i][first] = "fresh" /\ PageType(i, first) = Pass(i)
           /\ \A pg \in Pages(i) :
                perm[i][pg] = "fresh" /\ PageType(i, pg) = Pass(i) => first <= pg
           /\ RunOf(i) \subseteq Pages(i) /\ first \in RunOf(i)
           /\ \A pg \in RunOf(i) :
                perm[i][pg] = "fresh" /\ PageType(i, pg) = Pass(i)
           /\ \A pg \in RunOf(i), q \in Pages(i) :
                first <= q /\ q <= pg => q \in RunOf(i)
<1> DEFINE class == IF Pass(i) = "rx" THEN XPages(i) ELSE Pages(i) \ XPages(i)
           F == {pg \in class : perm[i][pg] = "fresh"}
           first == Min(F)
<1>1. RunOf(i) = {pg \in class : pg >= first /\ first..pg \subseteq class}
  BY DEF RunOf
<1>2. XPages(i) \subseteq Pages(i) /\ Pages(i) \subseteq Nat
  BY XPagesHoldCode DEF Pages
<1>3. Pass(i) \in {"rx", "rw"}
  BY DEF Pass
<1>4. \A pg \in Pages(i) : pg \in class <=> PageType(i, pg) = Pass(i)
  BY <1>2, <1>3 DEF PageType
<1>5. class \subseteq Pages(i)
  BY <1>2
<1>6. F # {}
  <2>1. PICK pg \in Pages(i) : perm[i][pg] = "fresh"
    BY DEF HalfProtected
  <2>2. CASE \E x \in XPages(i) : perm[i][x] = "fresh"
    BY <2>2 DEF Pass
  <2>3. CASE ~\E x \in XPages(i) : perm[i][x] = "fresh"
    BY <2>1, <2>3 DEF Pass
  <2> QED
    BY <2>2, <2>3
<1> HIDE DEF class
<1>7. first \in F /\ \A k \in F : first <= k
  <2>1. F \in SUBSET Nat
    BY <1>2, <1>5
  <2> HIDE DEF F
  <2> QED
    BY <1>6, <2>1, MinOfNats
<1> HIDE DEF first
<1>8. /\ first \in Pages(i) /\ first \in class /\ perm[i][first] = "fresh"
      /\ first \in Nat /\ PageType(i, first) = Pass(i)
  BY <1>2, <1>4, <1>5, <1>7
<1>9. first \in RunOf(i)
  BY <1>1, <1>8
<1>10. ASSUME NEW pg \in RunOf(i)
       PROVE  perm[i][pg] = "fresh" /\ PageType(i, pg) = Pass(i)
  <2>1. pg \in class /\ pg \in Pages(i) /\ pg >= first /\ pg \in Nat
    BY <1>1, <1>2, <1>5
  <2>2. PageType(i, pg) = PageType(i, first)
    BY <1>4, <1>8, <2>1
  <2>3. CASE pg = first
    BY <1>8, <2>3
  <2>4. CASE first < pg
    BY <1>8, <2>1, <2>2, <2>4 DEF HalfProtected, InTurn
  <2> QED
    BY <1>8, <2>1, <2>2, <2>3, <2>4
<1>11. ASSUME NEW pg \in RunOf(i), NEW q \in Pages(i), first <= q, q <= pg
       PROVE  q \in RunOf(i)
  <2>1. pg \in Nat /\ q \in Nat /\ first..pg \subseteq class
    BY <1>1, <1>2, <1>5
  <2>2. q \in first..pg /\ first..q \subseteq first..pg
    BY <1>8, <1>11, <2>1
  <2> QED
    BY <1>1, <1>8, <1>11, <2>1, <2>2
<1>12. \A pg \in Pages(i) :
         perm[i][pg] = "fresh" /\ PageType(i, pg) = Pass(i) => first <= pg
  BY <1>4, <1>7
<1>13. RunOf(i) \subseteq Pages(i)
  BY <1>1, <1>5
<1> QED
  BY <1>8, <1>9, <1>10, <1>11, <1>12, <1>13

(* Lines 83-100 of so_util.c, one system call of so_finalize: the pages    *)
(* that are set already stay as they are, those that are set now were      *)
(* fresh, and after the last run every page has its kind's permission.     *)
THEOREM SetPermissionSets ==
  ASSUME prog \in Programs, NEW i \in Mods, DOMAIN perm = Mods,
         HalfProtected(i), SetPermission(i)
  PROVE  /\ \A j \in Mods \ {i} : perm'[j] = perm[j]
         /\ \A pg \in Pages(i) : perm'[i][pg] # perm[i][pg] => perm[i][pg] = "fresh"
         /\ LastRun(i) => Protected(i)'
         /\ ~LastRun(i) => HalfProtected(i)'
<1>1. PICK first \in Pages(i) :
        /\ perm[i][first] = "fresh" /\ PageType(i, first) = Pass(i)
        /\ \A pg \in Pages(i) :
             perm[i][pg] = "fresh" /\ PageType(i, pg) = Pass(i) => first <= pg
        /\ RunOf(i) \subseteq Pages(i) /\ first \in RunOf(i)
        /\ \A pg \in RunOf(i) :
             perm[i][pg] = "fresh" /\ PageType(i, pg) = Pass(i)
        /\ \A pg \in RunOf(i), q \in Pages(i) :
             first <= q /\ q <= pg => q \in RunOf(i)
  BY RunIsFresh
<1> DEFINE new == [pg \in Pages(i) |-> IF pg \in RunOf(i) THEN Pass(i) ELSE perm[i][pg]]
<1>2. perm'[i] = new /\ \A j \in Mods \ {i} : perm'[j] = perm[j]
  BY DEF SetPermission
<1>3. UNCHANGED prog
  BY DEF SetPermission
<1>4. \A pg \in Pages(i) : PageType(i, pg)' = PageType(i, pg)
  BY <1>3 DEF PageType, XPages, AlignUp
<1>5. Pages(i)' = Pages(i) /\ Pages(i) \subseteq Nat
  BY <1>3 DEF Pages, LoadSize, AlignUp
<1>6. \A pg \in Pages(i) : PageType(i, pg) # "fresh"
  BY DEF PageType
<1>7. ASSUME NEW pg \in Pages(i)
      PROVE  perm'[i][pg] = IF pg \in RunOf(i) THEN PageType(i, pg) ELSE perm[i][pg]
  BY <1>1, <1>2
<1>8. DOMAIN perm'[i] = Pages(i)
  BY <1>2
<1>9. ASSUME LastRun(i) PROVE Protected(i)'
  <2>1. \A pg \in Pages(i) : perm'[i][pg] = PageType(i, pg)
    <3> TAKE pg \in Pages(i)
    <3>1. CASE pg \in RunOf(i)
      BY <1>7, <3>1
    <3>2. CASE pg \notin RunOf(i)
      <4>1. perm[i][pg] # "fresh"
        BY <1>9, <3>2 DEF LastRun
      <4>2. perm[i][pg] = PageType(i, pg)
        BY <4>1 DEF HalfProtected, Right
      <4> QED
        BY <1>7, <3>2, <4>2
    <3> QED
      BY <3>1, <3>2
  <2>2. perm'[i] = [pg \in Pages(i) |-> PageType(i, pg)]
    BY <1>2, <2>1
  <2>3. [pg \in Pages(i) |-> PageType(i, pg)]' = [pg \in Pages(i) |-> PageType(i, pg)]
    BY <1>4, <1>5
  <2> QED
    BY <2>2, <2>3 DEF Protected
<1>10. ASSUME ~LastRun(i) PROVE HalfProtected(i)'
  <2>1. Right(i)'
    <3>1. \A pg \in Pages(i) : perm'[i][pg] \in {"fresh", PageType(i, pg)}
      BY <1>7 DEF HalfProtected, Right
    <3> QED
      BY <1>4, <1>5, <3>1 DEF Right
  <2>2. InTurn(i)'
    <3>1. SUFFICES ASSUME NEW p \in Pages(i), NEW q \in Pages(i),
                          PageType(i, p) = PageType(i, q), p < q,
                          perm'[i][q] # "fresh", perm'[i][p] = "fresh"
                   PROVE  FALSE
      BY <1>4, <1>5 DEF InTurn
    <3>2. perm[i][p] = "fresh" /\ p \notin RunOf(i)
      BY <1>6, <1>7, <3>1
    <3>3. perm[i][q] = "fresh"
      BY <3>1, <3>2 DEF HalfProtected, InTurn
    <3>4. q \in RunOf(i)
      BY <1>7, <3>1, <3>3
    <3>5. first <= p /\ p <= q
      BY <1>1, <1>5, <3>1, <3>2, <3>4
    <3> QED
      BY <1>1, <3>2, <3>4, <3>5
  <2>3. \E pg \in Pages(i) : perm'[i][pg] = "fresh"
    BY <1>7, <1>10 DEF LastRun
  <2>4. perm'[i] # <<>>
    BY <1>8, <2>3
  <2> QED
    BY <1>5, <1>8, <2>1, <2>2, <2>3, <2>4 DEF HalfProtected
<1>11. \A pg \in Pages(i) : perm'[i][pg] # perm[i][pg] => perm[i][pg] = "fresh"
  BY <1>1, <1>7
<1> QED
  BY <1>2, <1>9, <1>10, <1>11

LEMMA FirstPage ==
  ASSUME prog \in Programs, NEW i \in Mods
  PROVE  0 \in Pages(i)
<1> DEFINE end == prog[i].load[1].va + prog[i].load[1].msz
<1>1. end \in Nat /\ 0 <= end - 1
  <2>1. prog[i].load[1] \in Segments
    BY LoadFacts
  <2> QED
    BY <2>1 DEF Segments
<1>2. AlignUp(end) \div PageWords <= LoadSize(prog[i]) \div PageWords
  BY LoadFacts, LoadSizeIs
<1> HIDE DEF end
<1>3. 0 <= (end - 1) \div PageWords
  <2>1. PageWords * 0 <= end - 1
    BY <1>1, LoaderAssumption
  <2> QED
    BY <1>1, <2>1, PageOf
<1>4. /\ (end - 1) \div PageWords = AlignUp(end) \div PageWords - 1
      /\ AlignUp(end) \in Int /\ LoadSize(prog[i]) \in Int
  BY <1>1, AlignUpIs, LoadSizeIs
<1>5. AlignUp(end) \div PageWords \in Int /\ LoadSize(prog[i]) \div PageWords \in Int
  BY <1>4, Division
<1> QED
  BY <1>2, <1>3, <1>4, <1>5 DEF Pages

(* The mapping leaves every page to be set. *)
LEMMA MapCodeMaps ==
  ASSUME prog \in Programs, NEW i \in Mods, DOMAIN perm = Mods, MapCode(i)
  PROVE  HalfProtected(i)' /\ \A j \in Mods \ {i} : perm'[j] = perm[j]
<1>1. /\ perm'[i] = [pg \in Pages(i) |-> "fresh"]
      /\ \A j \in Mods \ {i} : perm'[j] = perm[j]
      /\ UNCHANGED prog
  BY DEF MapCode
<1>2. Pages(i)' = Pages(i) /\ 0 \in Pages(i)
  BY <1>1, FirstPage DEF Pages, LoadSize, AlignUp
<1>3. \A pg \in Pages(i) : perm'[i][pg] = "fresh"
  BY <1>1
<1>4. perm'[i] # <<>>
  BY <1>1, <1>2
<1> QED
  BY <1>1, <1>2, <1>3, <1>4 DEF HalfProtected, Right, InTurn
=============================================================================
