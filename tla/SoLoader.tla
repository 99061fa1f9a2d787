------------------------------ MODULE SoLoader ------------------------------
(***************************************************************************)
(* source/so_util.c: an ELF module is copied into a buffer, relocated,     *)
(* bound to the import table and to the other modules, mapped as code and  *)
(* constructed.  The caller's order of these steps is main.c's (Main).     *)
(*                                                                         *)
(* Addresses and sizes count words of 8 bytes, a page is PageWords of      *)
(* them.  A word of memory holds a number, or an address inside a module,  *)
(* or the native function behind a name of the import table.  An image is  *)
(* what the code reads from a file: its PT_LOAD headers, dynamic symbols,  *)
(* .rela entries, packed relocations and constructors; where the sections  *)
(* lie and how names are spelled is left out.                              *)
(***************************************************************************)
EXTENDS Integers, FiniteSets, FiniteSetsExt, SequencesExt

CONSTANTS
  PageWords,
  RelrBits,   \* locations one bitmap entry of RELR stands for (63)
  Table,      \* the names in dynlib_functions
  Programs    \* what may be loaded: sequences of named images, load order

ASSUME LoaderAssumption == PageWords \in Nat \ {0} /\ RelrBits \in Nat \ {0}

(* What a static linker leaves of a module, its offsets in words. *)
Segments == [va : Nat, msz : Nat \ {0}, fsz : Nat, x : BOOLEAN]
Symbols == [name : STRING, undef : BOOLEAN, local : BOOLEAN, val : Nat]
Relocations == [type : STRING, off : Nat, sym : Nat, add : Int]
RelrEntries == [bitmap : BOOLEAN, addr : Nat, bits : SUBSET Nat]
Images ==
  [name : STRING, dynsym : BOOLEAN, load : Seq(Segments) \ {<<>>},
   syms : Seq(Symbols), rela : Seq(Relocations), relr : Seq(RelrEntries)]

VARIABLES
  prog,     \* the modules of this run, in load order
  soList,   \* the registered modules: indices into prog
  temp,     \* modules whose file image so_base is allocated
  mem,      \* the load buffer, seen again at load_virtbase once mapped
  perm,     \* permission of each page of the code mapping
  flushed, constructed,
  misread   \* history: memory was used that was freed or locked out
loader == <<prog, soList, temp, mem, perm, flushed, constructed,
            misread>>

Mods == DOMAIN prog
Number(n) == [at |-> "number", off |-> n]
Address(i, a) == [at |-> prog[i].name, off |-> a]
AlignUp(n) == ((n + PageWords - 1) \div PageWords) * PageWords

(* The end of the highest PT_LOAD segment, in whole pages. *)
LoadSize(img) ==
  AlignUp(Max({img.load[s].va + img.load[s].msz : s \in DOMAIN img.load}))
Pages(i) == 0..(LoadSize(prog[i]) \div PageWords - 1)

(* The buffer is cleared and the file's part of each segment copied; the   *)
(* word the file has for address a is shown as the number a.               *)
Copied(img) ==
  [a \in 0..(LoadSize(img) - 1) |->
     IF \E s \in DOMAIN img.load :
          a \in img.load[s].va..(img.load[s].va + img.load[s].fsz - 1)
     THEN Number(a) ELSE Number(0)]

LoaderInit ==
  /\ prog \in Programs
  /\ soList = <<>> /\ temp = {} /\ constructed = {}
  /\ mem = [i \in Mods |-> <<>>] /\ perm = [i \in Mods |-> <<>>]
  /\ flushed = {} /\ misread = FALSE

(* Whether the mapping has taken the buffer away from load_base. *)
LockedOut(i) == perm[i] # <<>>
(* What a function reads: file images and load buffers. *)
Reads(files, buffers) ==
  misread' = (misread \/ ~(files \subseteq temp)
                      \/ \E j \in buffers : LockedOut(j))

-----------------------------------------------------------------------------
(* so_load, into a buffer of limit words. *)
SoLoad(i, limit) ==
  /\ LoadSize(prog[i]) <= limit /\ prog[i].dynsym
  /\ temp' = temp \cup {i}
  /\ mem' = [mem EXCEPT ![i] = Copied(prog[i])]
  /\ soList' = Append(soList, i)
  /\ UNCHANGED <<prog, perm, flushed, constructed, misread>>

(* Each way of failing releases what has been taken so far: no file, no    *)
(* memory for it, no ELF file or too many headers; too large; no dynamic   *)
(* symbols.  The cleared buffer of the last is all that stays.             *)
SoLoadFails(i, limit) ==
  /\ \/ UNCHANGED mem
     \/ /\ LoadSize(prog[i]) <= limit /\ ~prog[i].dynsym
        /\ mem' = [mem EXCEPT ![i] = Copied(prog[i])]
  /\ UNCHANGED <<prog, soList, temp, perm, flushed, constructed,
                 misread>>

-----------------------------------------------------------------------------
(* so_relocate. *)
Sym(i, r) == prog[i].syms[r.sym]

Relocated(i, m, r) ==
  CASE r.type = "ABS64" /\ Sym(i, r).undef -> [m EXCEPT ![r.off] = Number(r.add)]
    [] r.type = "RELATIVE" -> [m EXCEPT ![r.off] = Address(i, r.add)]
    [] r.type \in {"ABS64", "GLOB_DAT", "JUMP_SLOT"} /\ ~Sym(i, r).undef ->
         [m EXCEPT ![r.off] = Address(i, Sym(i, r).val + r.add)]
    [] OTHER -> m

ProcessRela(i, m0) ==
  FoldLeft(LAMBDA m, r : Relocated(i, m, r), m0, prog[i].rela)

(* The module's base is added to each word of S, which holds a number. *)
Rebased(i, m, S) ==
  [a \in DOMAIN m |->
     IF a \notin S THEN m[a]
     ELSE IF m[a].at = "number" THEN Address(i, m[a].off)
     ELSE [at |-> "wild", off |-> 0]]

\* Mutant: a bitmap advances by the 64 bits of its entry.
RelrStepWide == RelrBits + 1
RelrStep == RelrBits

(* so_process_relr: an even entry is an address, an odd one a bitmap for   *)
(* the words that follow the last location covered.                        *)
RelrEntry(i, st, e) ==
  IF e.bitmap
  THEN [where |-> st.where + RelrStep,
        m |-> Rebased(i, st.m, {st.where + b - 1 : b \in e.bits})]
  ELSE [where |-> e.addr + 1, m |-> Rebased(i, st.m, {e.addr})]
ProcessRelr(i, m0) ==
  FoldLeft(LAMBDA st, e : RelrEntry(i, st, e), [where |-> 0, m |-> m0],
           prog[i].relr).m

KnownTypes == {"ABS64", "RELATIVE", "GLOB_DAT", "JUMP_SLOT"}
SoRelocate(i) ==
  /\ \A k \in DOMAIN prog[i].rela : prog[i].rela[k].type \in KnownTypes
  /\ mem' = [mem EXCEPT ![i] = ProcessRelr(i, ProcessRela(i, @))]
  /\ Reads({i}, {i})
  /\ UNCHANGED <<prog, soList, temp, perm, flushed, constructed>>

SoRelocateFatal(i) ==
  /\ \E k \in DOMAIN prog[i].rela : prog[i].rela[k].type \notin KnownTypes
  /\ UNCHANGED loader

-----------------------------------------------------------------------------
(* so_resolve, with taint_missing_imports set as main.c sets it. *)

(* so_lookup_export: the symbols that define name for others. *)
Export(i, name) ==
  {k \in DOMAIN prog[i].syms : /\ prog[i].syms[k].name = name
                               /\ ~prog[i].syms[k].undef
                               /\ ~prog[i].syms[k].local}

(* Where in the list the exporters of name other than i are. *)
Donors(i, name) ==
  {k \in DOMAIN soList : soList[k] # i /\ Export(soList[k], name) # {}}

(* so_resolve_symbol: the import table first; {} when nobody has it. *)
Resolve(i, name) ==
  IF name \in Table THEN {[at |-> name, off |-> 0]}
  ELSE IF Donors(i, name) = {} THEN {}
  ELSE LET j == soList[Min(Donors(i, name))] IN
       {Address(j, prog[j].syms[Min(Export(j, name))].val)}

Bound(i, m, r) ==
  IF r.type = "RELATIVE" \/ ~Sym(i, r).undef THEN m
  ELSE IF Resolve(i, Sym(i, r).name) = {} THEN [m EXCEPT ![r.off] = Number(r.off)]
  ELSE LET v == CHOOSE v \in Resolve(i, Sym(i, r).name) : TRUE
       IN [m EXCEPT ![r.off] = [at |-> v.at, off |-> v.off + r.add]]

BindImports(i, m0) == FoldLeft(LAMBDA m, r : Bound(i, m, r), m0, prog[i].rela)

SoResolve(i) ==
  /\ mem' = [mem EXCEPT ![i] = BindImports(i, @)]
  /\ Reads({i}, {soList[k] : k \in DOMAIN soList})
  /\ UNCHANGED <<prog, soList, temp, perm, flushed, constructed>>

(* so_find_addr_rx: any symbol of that name will do, imports included. *)
HasSymbol(i, name) ==
  \E k \in DOMAIN prog[i].syms : prog[i].syms[k].name = name

-----------------------------------------------------------------------------
(* so_finalize: the mapping, then one system call per run of pages. *)

(* is_x_page *)
XPages(i) ==
  UNION {LET h == prog[i].load[s] IN
         (h.va \div PageWords)..(AlignUp(h.va + h.msz) \div PageWords - 1) :
         s \in {s \in DOMAIN prog[i].load : prog[i].load[s].x}}

MapCode(i) ==
  /\ perm[i] = <<>>
  /\ perm' = [perm EXCEPT ![i] = [pg \in Pages(i) |-> "fresh"]]
  /\ UNCHANGED <<prog, soList, temp, mem, flushed, constructed,
                 misread>>

(* Pass 0 sets the executable runs, pass 1 the rest. *)
Pass(i) ==
  IF \E pg \in XPages(i) : perm[i][pg] = "fresh" THEN "rx" ELSE "rw"

\* Mutant: the pages that are left become RW in one stretch.
RunOfStretch(i) ==
  LET class == IF Pass(i) = "rx" THEN XPages(i) ELSE Pages(i) \ XPages(i)
      first == Min({pg \in class : perm[i][pg] = "fresh"})
  IN {pg \in Pages(i) : /\ pg >= first
                        /\ Pass(i) = "rw" \/ first..pg \subseteq class}
(* The first run of pages this pass has still to set. *)
RunOf(i) ==
  LET class == IF Pass(i) = "rx" THEN XPages(i) ELSE Pages(i) \ XPages(i)
      first == Min({pg \in class : perm[i][pg] = "fresh"})
  IN {pg \in class : pg >= first /\ first..pg \subseteq class}

(* No page is left after this run. *)
LastRun(i) == \A pg \in Pages(i) \ RunOf(i) : perm[i][pg] # "fresh"

SetPermission(i) ==
  /\ perm[i] # <<>>
  /\ perm' = [perm EXCEPT ![i] =
       [pg \in Pages(i) |-> IF pg \in RunOf(i) THEN Pass(i) ELSE @[pg]]]
  /\ UNCHANGED <<prog, soList, temp, mem, flushed, constructed,
                 misread>>

-----------------------------------------------------------------------------
SoFlushCaches(i) ==
  /\ flushed' = flushed \cup {i}
  /\ UNCHANGED <<prog, soList, temp, mem, perm, constructed, misread>>

(* so_execute_init_array reads the section headers of the file image. *)
SoExecuteInitArray(i) ==
  /\ constructed' = constructed \cup {i}
  /\ Reads({i}, {})
  /\ UNCHANGED <<prog, soList, temp, mem, perm, flushed>>

SoFreeTemp(i) ==
  /\ temp' = temp \ {i}
  /\ UNCHANGED <<prog, soList, mem, perm, flushed, constructed,
                 misread>>

-----------------------------------------------------------------------------
(* What a finished image looks like, said without the order of the work.   *)

(* The locations RELR entry k stands for: a bitmap counts from the word    *)
(* after the last address, past the bitmaps in between.                    *)
EntryLocations(relr, k) ==
  LET base == Max({0} \cup {j \in 1..(k - 1) : ~relr[j].bitmap})
      from == IF base = 0 THEN 0 ELSE relr[base].addr + 1
  IN IF ~relr[k].bitmap THEN {relr[k].addr}
     ELSE {from + RelrBits * (k - 1 - base) + b - 1 : b \in relr[k].bits}
RelrLocations(relr) == UNION {EntryLocations(relr, k) : k \in DOMAIN relr}

(* Where an import must lead: to the native function, else to the first    *)
(* other module of the program that defines the name for others, else to   *)
(* the offset of its own slot, an address nothing is mapped at.            *)
Definitions(j, name) ==
  {k \in DOMAIN prog[j].syms : LET s == prog[j].syms[k] IN
     s.name = name /\ ~s.undef /\ ~s.local}
Definers(i, name) == {j \in Mods \ {i} : Definitions(j, name) # {}}
ImportTarget(i, r) ==
  LET name == Sym(i, r).name
      j == Min(Definers(i, name))
  IN IF name \in Table THEN [at |-> name, off |-> r.add]
     ELSE IF Definers(i, name) = {} THEN Number(r.off)
     ELSE Address(j, prog[j].syms[Min(Definitions(j, name))].val + r.add)

FinishedWord(i, a) ==
  LET rs == {k \in DOMAIN prog[i].rela : prog[i].rela[k].off = a}
      r == prog[i].rela[CHOOSE k \in rs : TRUE]
  IN IF rs = {}
     THEN IF a \in RelrLocations(prog[i].relr)
          THEN Address(i, Copied(prog[i])[a].off) ELSE Copied(prog[i])[a]
     ELSE IF r.type = "RELATIVE" THEN Address(i, r.add)
     ELSE IF Sym(i, r).undef THEN ImportTarget(i, r)
     ELSE Address(i, Sym(i, r).val + r.add)

(* One relocation a word: what the order of the work never matters to. *)
Relocatable(img) ==
  /\ \A r \in DOMAIN img.rela :
       /\ img.rela[r].type # "RELATIVE" => img.rela[r].sym \in DOMAIN img.syms
       /\ img.rela[r].off \notin RelrLocations(img.relr)
       /\ \A s \in DOMAIN img.rela \ {r} : img.rela[r].off # img.rela[s].off
  /\ \A j, k \in DOMAIN img.relr :
       j # k => EntryLocations(img.relr, j) \cap EntryLocations(img.relr, k) = {}

ASSUME ImagesAssumption ==
  \A p \in Programs : p # <<>> /\ p \in Seq({img \in Images : Relocatable(img)})

(* A page holds code exactly if a word of an executable segment is on it. *)
HoldsCode(i, pg) ==
  \E s \in DOMAIN prog[i].load : LET h == prog[i].load[s] IN
    h.x /\ \E a \in h.va..(h.va + h.msz - 1) : a \div PageWords = pg
=============================================================================
