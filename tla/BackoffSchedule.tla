-------------------------- MODULE BackoffSchedule --------------------------
(***************************************************************************)
(* An operation that fails again and again under one retry strategy: what  *)
(* RetryStrategy::should_retry answers each time, against the schedule     *)
(* that the comments of retry.rs describe.  The code computes each delay   *)
(* from the number of failures alone; the comments describe it by the      *)
(* delay before (Exponential) or by the list of delays (Variable).         *)
(***************************************************************************)
EXTENDS Retry

CONSTANTS
  Policies,      \* the retry policies to try
  Backoffs,      \* the backoff policies to try
  MaxFailed      \* bound: failures of the operation

ASSUME StrategiesAssumption ==
  Policies \subseteq RetryPolicy /\ Backoffs \subseteq BackoffPolicy
ASSUME MaxFailedAssumption == MaxFailed \in Nat

VARIABLES
  strategy,   \* the strategy under test
  failed,     \* failures so far
  retries,    \* retries granted so far
  delay,      \* the delay last answered
  reference   \* the delay that the comments describe

backoffVars == << strategy, failed, retries, delay, reference >>

\* "The period to sleep on the first backoff", then "the multiplier to use to
\* generate the next backoff interval from the last"; u32 arithmetic stops at
\* its maximum.  The n-th listed delay, then the last one for ever.
ReferenceDelay(backoff, n, last) ==
  LET secs == backoff.secs
      least(a, b) == IF a <= b THEN a ELSE b
  IN CASE backoff.kind = "None" -> 0
       [] backoff.kind = "Fixed" -> secs[1]
       [] backoff.kind = "Variable" -> IF secs = << >> THEN 0 ELSE secs[least(n, Len(secs))]
       [] backoff.kind = "Exponential" ->
            IF n = 1 THEN secs[1] ELSE least(MaxU32, last * backoff.multiplier)

BackoffInit ==
  /\ strategy \in [retry_policy : Policies, backoff_policy : Backoffs]
  /\ failed = 0
  /\ retries = 0
  /\ delay = 0
  /\ reference = 0

\* The operation fails once more, at the time given by the failure count.
Fail ==
  /\ failed < MaxFailed
  /\ retries = failed
  /\ failed' = failed + 1
  /\ LET answer == ShouldRetry(strategy, failed + 1, failed + 1)
     IN /\ retries' = IF answer[1] THEN retries + 1 ELSE retries
        /\ delay' = answer[2]
  /\ reference' = ReferenceDelay(strategy.backoff_policy, failed + 1, reference)
  /\ UNCHANGED strategy

BackoffNext == Fail

\* The delay computed from the failure count is the one the comments on
\* BackoffPolicy describe, saturation, a zero period and a zero multiplier
\* included, and an operation that fails for ever is given up with exactly the
\* retries its policy allows: MaxRetries {r} after r of them, None after none,
\* Infinite never, Timeout at the first failure after the timeout.
ScheduleAsDocumented ==
  LET policy == strategy.retry_policy
  IN /\ delay = reference
     /\ policy.kind = "None" => retries = 0
     /\ policy.kind \in {"MaxRetries", "Timeout"} =>
          retries = (IF failed <= policy.arg THEN failed ELSE policy.arg)
     /\ policy.kind = "Infinite" => retries = failed

\* What makes ScheduleAsDocumented inductive: the delay that the comments
\* describe is the one the code computes from the number of failures.
BackoffInv ==
  /\ strategy \in RetryStrategy /\ failed \in Nat /\ retries \in Nat
  /\ reference = ShouldWait(strategy.backoff_policy, failed)
  /\ ScheduleAsDocumented
=============================================================================
