------------------------------- MODULE MCMain -------------------------------
(* Small images, files and inputs for Main. *)
EXTENDS Main

Seg(va, msz, fsz, x) == [va |-> va, msz |-> msz, fsz |-> fsz, x |-> x]
Def(name, val) == [name |-> name, undef |-> FALSE, local |-> FALSE, val |-> val]
Ext(name) == [name |-> name, undef |-> TRUE, local |-> FALSE, val |-> 0]
Rel(type, off, sym, add) == [type |-> type, off |-> off, sym |-> sym, add |-> add]
At(a) == [bitmap |-> FALSE, addr |-> a, bits |-> {}]
Bits(bs) == [bitmap |-> TRUE, addr |-> 0, bits |-> bs]

(* Code, a gap in which no segment lies, data and cleared data. *)
Game ==
  [name |-> "game", dynsym |-> TRUE,
   load |-> <<Seg(0, 5, 5, TRUE), Seg(9, 11, 9, FALSE)>>,
   syms |-> <<Ext("malloc"), Ext("nowhere"), Ext("vtable"), Def("render", 1),
              Def("resume", 2)>>,
   rela |-> <<Rel("JUMP_SLOT", 9, 1, 0), Rel("GLOB_DAT", 10, 2, 0),
              Rel("ABS64", 11, 3, 2), Rel("ABS64", 12, 4, 1),
              Rel("RELATIVE", 13, 1, 3)>>,
   relr |-> <<At(14), Bits({2}), Bits({1})>>]
(* A donor that defines what the game imports, and what is in the table. *)
Donor ==
  [Game EXCEPT !.name = "donor",
     !.syms = <<Def("malloc", 3), [Def("vtable", 1) EXCEPT !.local = TRUE],
                Def("vtable", 4), Ext("nowhere")>>,
     !.rela = <<Rel("GLOB_DAT", 9, 4, 0), Rel("ABS64", 10, 1, 0)>>,
     !.relr = <<>>]
(* Two runs of code pages around data; no cleared tail. *)
Striped ==
  [Game EXCEPT !.load = <<Seg(0, 3, 3, TRUE), Seg(4, 6, 6, FALSE),
                          Seg(12, 4, 4, TRUE), Seg(16, 2, 1, FALSE)>>]

Single == <<Game>>
AllPrograms ==
  {Single, <<Donor, Game>>, <<Striped>>,
   <<[Game EXCEPT !.dynsym = FALSE]>>,
   <<[Game EXCEPT !.rela = Append(@, Rel("COPY", 15, 1, 0))]>>,
   <<[Game EXCEPT !.syms[5] = Def("suspend", 2)]>>,
   <<[Game EXCEPT !.load[2].msz = 20]>>}

Line(n, v) == [name |-> n, value |-> v]
DefaultFile ==
  <<Line("screen_width", -1), Line("screen_height", -1), Line("widescreen", 0),
    Line("language", 3)>>
WideFile == <<Line("show_fps", 1), Line("widescreen", 1), Line("language", 5)>>
SizedFile ==
  <<Line("screen_width", 960), Line("screen_height", 1000), Line("unknown", 1),
    Line("widescreen", 1), Line("widescreen", 0)>>
AllFiles == {NoFile, DefaultFile, WideFile, SizedFile}

(* The usual program, heap and file, with one of them changed. *)
UsualBoot == {<<Single, 60, DefaultFile>>}
FileBoots == {<<Single, 60, f>> : f \in AllFiles}
AllBoots ==
  {<<p, 60, DefaultFile>> : p \in AllPrograms}
    \cup {<<Single, 24, NoFile>>, <<Single, 26, DefaultFile>>}
    \cup {<<Single, 60, f>> : f \in {WideFile, SizedFile}}

PadBits == [Up |-> "up", StickUp |-> "up"]
OneBit == [Up |-> "up"]
=============================================================================
