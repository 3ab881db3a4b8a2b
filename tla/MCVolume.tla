------------------------------- MODULE MCVolume -------------------------------
(***************************************************************************)
(* Small instances of Volume: two distinguishable states of the sink, next *)
(* to the absent sink.                                                     *)
(***************************************************************************)
EXTENDS Volume

MCSinks == {"muted", "50%"}
=============================================================================
