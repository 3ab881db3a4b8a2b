---------------------------------- MODULE Tick ----------------------------------
(***************************************************************************)
(* The arithmetic of the refresh rate (src/src/main.c): from the option to *)
(* a struct timespec, and from the start of a round to the time at which   *)
(* its sleep ends.  StatusLoop counts in ticks of one clock; its proofs    *)
(* show that the pairs of seconds and nanoseconds add up like that.        *)
(***************************************************************************)
EXTENDS Integers

NSEC == 1000000000

\* A struct timespec, and the ones that clock_nanosleep takes.
Timespec == [sec : Nat, nsec : Nat]
Normal(tp) == tp.nsec < NSEC

Nanoseconds(tp) == tp.sec * NSEC + tp.nsec

\* resolve_rate, for a value with the unit "s" and one with the unit "ms".
\* (The option's pattern admits no other unit.)  The milliseconds become
\* nanoseconds in a uint64_t: W is 2^64, at which the product wraps.
RateOfSeconds(val) == [sec |-> val, nsec |-> 0]
RateOfMilliseconds(val, W) ==
  LET nsec == (val * 1000000) % W
  IN  [sec |-> nsec \div NSEC, nsec |-> nsec % NSEC]

compute_tick(ref, rate) ==
  LET sec == ref.sec + rate.sec
      nsec == ref.nsec + rate.nsec
  IN  IF nsec >= NSEC THEN [sec |-> sec + 1, nsec |-> nsec - NSEC]
                      ELSE [sec |-> sec, nsec |-> nsec]

===============================================================================
