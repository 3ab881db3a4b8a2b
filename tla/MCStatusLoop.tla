---------------------------- MODULE MCStatusLoop ----------------------------
(***************************************************************************)
(* A small instance of StatusLoop for TLC: three modules, of which the     *)
(* format names two, one of them twice and in an order that is not that of *)
(* the modules, or one; module 2 may keep its buffer.                      *)
(***************************************************************************)
EXTENDS StatusLoop

MCFormats == {<<2, 0, 2>>, <<1>>}
MCMayKeep == {2}
=============================================================================
