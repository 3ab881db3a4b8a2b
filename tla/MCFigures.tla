----------------------------- MODULE MCFigures -----------------------------
(***************************************************************************)
(* Instances of Figures for TLC: amounts on both sides of every boundary   *)
(* that the code tests or the rounding makes.                              *)
(***************************************************************************)
EXTENDS Figures

\* In KiB: around 1 MiB and 1 GiB, 9.96 GiB (rounds to 10.0), 12 and 12.5 GiB.
MCAmounts == {7, 1023, 1024, 10240, 1048575, 1048576, 10443817, 12582912, 13107200}

\* 1 KiB less than 1 GiB, which smart units show with four digits, and from 99.9
\* GiB, the largest with a cell for its letter, to 100 and 103.5 GiB.
LargeAmounts == {1048575, 1048576, 104752742, 104857600, 108527616}

\* In bytes: likewise around 10 B, 1 KiB, 10 KiB, 1 MiB, and what the float next
\* to it makes 100 MiB.
MCSizes == {9, 10, 1023, 1024, 10199, 12288, 1048575, 1048576, 104857599}

FewSizes == {9}

\* In KHz: around 1 MHz and 1 GHz, 999.9 MHz, 1.96 GHz (rounds to 2.0), 4.7 GHz,
\* and the means 1.45 and 2.85 GHz, which float rounds to different sides.
MCFrequencies == {800, 1000, 999900, 1000000, 1900000, 1960000, 4700000}

\* In thousandths of a degree: around 0, half a degree and the threshold, with
\* means that are odd thousandths.
MCTemperatures == {-5600, -400, 0, 499, 500, 1499, 79499, 79500, 80001, 101000}

MCBrightnesses == {1, 7, 99, 100, 120000}
=============================================================================
