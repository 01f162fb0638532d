------------------------------ MODULE Interval -------------------------------
(***************************************************************************)
(* Interval of ic-metrics/src/lib.rs, the length of time that the metrics  *)
(* and the auction count in.                                               *)
(***************************************************************************)
EXTENDS Integers

CONSTANTS
  NanosPerSec,     \* 10^9 in the code
  Nanos64          \* number of values of a u64

ASSUME IntervalAssumption == NanosPerSec \in Nat \ {0} /\ Nanos64 \in Nat \ {0}

\* Interval::from_secs and Interval::nanos: PerMinute, PerHour, PerDay and
\* PerWeek are periods of a fixed number of seconds.  The product is a u64.
Nanos(secs) == (secs * NanosPerSec) % Nanos64
=============================================================================
