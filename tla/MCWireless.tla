------------------------------ MODULE MCWireless ------------------------------
(***************************************************************************)
(* The instance of Wireless for TLC: a network whose SSID fills the buffer *)
(* of three characters, one whose SSID is longer, one with a shorter SSID  *)
(* behind another element, and a hidden one.                               *)
(***************************************************************************)
EXTENDS Wireless

CONSTANTS full, long, short, hidden

MCNetworks == {full, long, short, hidden}

MCElements ==
  (full :> <<[id |-> 0, data |-> <<"x", "y", "z">>], [id |-> 1, data |-> <<"r">>]>>) @@
  (long :> <<[id |-> 0, data |-> <<"y", "y", "y", "y">>]>>) @@
  (short :> <<[id |-> 1, data |-> <<"r">>], [id |-> 0, data |-> <<"w">>]>>) @@
  (hidden :> <<[id |-> 0, data |-> <<>>]>>)

\* Beyond both ends of the scale, at the level that float rounds down, and not
\* reported.
MCLevels ==
  (full :> {-100}) @@ (long :> {-56}) @@ (short :> {-10}) @@ (hidden :> {-80, NoLevel})

MCCharacters == {"w", "x", "y", "z"}

MCLabel == <<"u", "n", "k">>
=============================================================================
