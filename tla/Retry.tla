------------------------------- MODULE Retry -------------------------------
(***************************************************************************)
(* The retry strategy of a task (ic-task-scheduler/src/retry.rs): whether  *)
(* a failed task is executed again, and how many seconds later.  The       *)
(* strategy is plain data stored with the task; this module is the pure    *)
(* part, used by Scheduler and checked by itself in BackoffSchedule.       *)
(*                                                                         *)
(* A policy is a record [kind, arg] and a backoff a record                 *)
(* [kind, secs, multiplier]: the fields an enum variant does not have are  *)
(* 0 or the empty sequence, and the single "secs" of the Fixed and         *)
(* Exponential variants is a sequence of one number.                       *)
(***************************************************************************)
EXTENDS Naturals, Sequences

CONSTANT MaxU32     \* u32::MAX, where the saturating operations stop

ASSUME MaxU32Assumption == MaxU32 \in Nat

RetryPolicy ==
  [kind : {"None", "Infinite", "MaxRetries", "Timeout"}, arg : Nat]

BackoffPolicy ==
  {b \in [kind : {"None", "Fixed", "Variable", "Exponential"},
          secs : Seq(0 .. MaxU32), multiplier : 0 .. MaxU32] :
     b.kind \in {"Fixed", "Exponential"} => Len(b.secs) = 1}

RetryStrategy == [retry_policy : RetryPolicy, backoff_policy : BackoffPolicy]

(***************************************************************************)
(* RetryPolicy::should_retry.  "time" is ic::time(), the nanosecond clock: *)
(* the Timeout variant is the only one that reads it.                      *)
(***************************************************************************)
ShouldRetryPolicy(policy, failed_attempts, time) ==
  \/ failed_attempts = 0
  \/ policy.kind = "Infinite"
  \/ policy.kind = "MaxRetries" /\ policy.arg >= failed_attempts
  \/ policy.kind = "Timeout" /\ time <= policy.arg

\* Mutant: u32 multiplication that wraps around.
Wrap(n) == n % (MaxU32 + 1)

\* u32::saturating_mul and u32::saturating_pow: an overflow yields u32::MAX.
Saturate(n) == IF n \in 0 .. MaxU32 THEN n ELSE MaxU32

Powers(m) == LET power[e \in Nat] == IF e = 0 THEN 1 ELSE power[e - 1] * m IN power

SaturatingPow(m, e) == Saturate(Powers(m)[e])

\* BackoffPolicy::should_wait
ShouldWait(backoff, failed_attempts) ==
  LET secs == backoff.secs
      last == Len(secs)
  IN CASE failed_attempts = 0 \/ backoff.kind = "None" -> 0
       [] failed_attempts # 0 /\ backoff.kind = "Fixed" -> secs[1]
       [] failed_attempts # 0 /\ backoff.kind = "Variable" ->
            IF last = 0 THEN 0
            ELSE secs[IF failed_attempts <= last THEN failed_attempts ELSE last]
       [] OTHER ->
            IF secs[1] = 0 THEN 0
            ELSE Saturate(secs[1] * SaturatingPow(backoff.multiplier, failed_attempts - 1))

\* RetryStrategy::should_retry: the pair (retry again?, seconds to wait)
ShouldRetry(strategy, failed_attempts, time) ==
  << ShouldRetryPolicy(strategy.retry_policy, failed_attempts, time),
     ShouldWait(strategy.backoff_policy, failed_attempts) >>
=============================================================================
