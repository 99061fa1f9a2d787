--------------------------- MODULE MCMovieAudio ----------------------------
(* Small instances of MovieAudio. *)
EXTENDS MovieAudio
=============================================================================
