------------------------------ MODULE MCBattery ------------------------------
(***************************************************************************)
(* Instances of Battery for TLC: a capacity of 8 makes steps of 12.5 %, so *)
(* a threshold of 25 % is met exactly and 13 % falls between two steps.    *)
(***************************************************************************)
EXTENDS Battery

AnyField == {"status", "now", "full"}
=============================================================================
