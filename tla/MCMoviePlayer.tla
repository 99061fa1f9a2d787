--------------------------- MODULE MCMoviePlayer ---------------------------
(* Small instances of MoviePlayer. *)
EXTENDS MoviePlayer

CONSTANT MaxUnits    \* bound: units in a file

(* Every order of frames and sound. *)
AllFiles == UNION {[1..n -> {"video", "audio"}] : n \in 0..MaxUnits}

Sounds(f) == Cardinality({i \in DOMAIN f : f[i] = "audio"})

(* Files with more frames than the ring of frames holds: with one packet   *)
(* of sound somewhere among them, or none, which jams the decoder when a   *)
(* sound stream is announced; and shorter ones whose second packet of      *)
(* sound has to wait for room in the ring of PCM.                          *)
LongFiles ==
  {f \in [1..MaxUnits -> {"video", "audio"}] : Sounds(f) <= 1} \cup
  {f \in [1..(MaxUnits - 1) -> {"video", "audio"}] : Sounds(f) = 2}
=============================================================================
