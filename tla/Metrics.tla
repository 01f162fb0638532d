------------------------------- MODULE Metrics -------------------------------
(***************************************************************************)
(* Snapshots of the metrics of a canister (ic-metrics/src/lib.rs).  The    *)
(* snapshots are kept in a map ordered by time.  A snapshot that is taken  *)
(* within the interval of the last one replaces it, and snapshots older    *)
(* than the length of the history are dropped.                             *)
(***************************************************************************)
EXTENDS Interval, FiniteSetsExt, Functions

CONSTANTS
  MetricSeconds,   \* intervals that are set, in seconds
  HistoryLength,   \* history_length_nanos
  MaxClock,        \* bound: time
  MaxSamples       \* bound: snapshots

ASSUME MetricsAssumption == MetricSeconds \subseteq Nat /\ HistoryLength \in Nat

VARIABLES
  clock,      \* ic::time()
  interval,   \* MetricsMap::interval, in nanoseconds
  samples,    \* MetricsMap::map: time -> number of the snapshot
  timers,     \* intervals of the timers that were set
  taken,      \* ghost: snapshots taken
  wrapped     \* ghost: last_ts + interval has left the range of u64

metricsVars == << clock, interval, samples, timers, taken, wrapped >>

\* MetricsMap::default; an hour is one second here.
MetricsInit ==
  /\ clock = 0 /\ interval = Nanos(1)
  /\ samples = << >> /\ timers = {}
  /\ taken = 0 /\ wrapped = FALSE

\* What `trim` retains: saturating_sub makes the bound at least 0.
Trim(map) ==
  Restrict(map, {ts \in DOMAIN map : ts >= Max({0, clock - HistoryLength})})

LastTs(map) == IF DOMAIN map = {} THEN clock ELSE Max(DOMAIN map)

\* Mutant: the time is always rounded down to the interval.
NewTsRounded(map) == clock - (clock % interval)

\* The key of a new snapshot.
NewTs(map) ==
  IF clock < (LastTs(map) + interval) % Nanos64 THEN LastTs(map)
  ELSE clock - (clock % interval)

\* MetricsMap::insert with the values of the moment.  With an interval of 0
\* the remainder panics and the call is rolled back.
Insert ==
  LET trimmed == Trim(samples)
  IN /\ interval # 0 /\ taken < MaxSamples
     /\ taken' = taken + 1
     /\ samples' = [ts \in DOMAIN trimmed \cup {NewTs(trimmed)} |->
                      IF ts = NewTs(trimmed) THEN taken + 1 ELSE trimmed[ts]]
     /\ wrapped' = (wrapped \/ LastTs(trimmed) + interval >= Nanos64)
     /\ UNCHANGED << clock, interval, timers >>

UpdateMetrics == Insert

\* update_metrics_timer: a timer is never cleared, and the interval is the one
\* of the last timer, in whole seconds.
UpdateMetricsTimer(secs) ==
  /\ interval' = Nanos(secs)
  /\ timers' = timers \cup {secs}
  /\ UNCHANGED << clock, samples, taken, wrapped >>

\* A timer may run late, but never before its time: all that matters here is
\* that one was set.
TimerFires == timers # {} /\ Insert

SetInterval(secs) ==
  /\ interval' = Nanos(secs)
  /\ UNCHANGED << clock, samples, timers, taken, wrapped >>

MetricsTick ==
  /\ clock < MaxClock
  /\ clock' = clock + 1
  /\ UNCHANGED << interval, samples, timers, taken, wrapped >>

MetricsNext ==
  \/ UpdateMetrics \/ TimerFires \/ MetricsTick
  \/ \E s \in MetricSeconds : SetInterval(s) \/ UpdateMetricsTimer(s)

MetricsSpec == MetricsInit /\ [][MetricsNext]_metricsVars

----------------------------------------------------------------------------
\* The snapshots have a time that has been.
MetricsTypeOK ==
  /\ interval \in 0 .. Nanos64 - 1
  /\ DOMAIN samples \subseteq 0 .. clock
  /\ timers \subseteq MetricSeconds

\* The snapshot that get_metrics shows last is the one that was taken last,
\* and the others are in the order they were taken, however the interval and
\* the timers were changed in between: only a snapshot of the same interval is
\* overwritten.  (An interval of centuries overflows the sum and is excluded.)
NewestIsLast ==
  wrapped \/ DOMAIN samples = {}
  \/ /\ samples[Max(DOMAIN samples)] = taken
     /\ \A s, t \in DOMAIN samples : s < t => samples[s] < samples[t]

\* What makes NewestIsLast inductive: the numbers of the snapshots only grow,
\* and the time of the last one is not after the clock.
MetricsInv ==
  /\ MetricsTypeOK /\ clock \in Nat /\ taken \in Nat
  /\ wrapped \in BOOLEAN
  /\ \A s \in DOMAIN samples : samples[s] \in 0 .. taken
  /\ DOMAIN samples = {}
     \/ \E last \in DOMAIN samples :
          /\ \A s \in DOMAIN samples : s <= last
          /\ wrapped \/ samples[last] = taken
  /\ wrapped \/ \A s, t \in DOMAIN samples : s < t => samples[s] < samples[t]
=============================================================================
