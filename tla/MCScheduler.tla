---------------------------- MODULE MCScheduler ----------------------------
(* Small instances of Scheduler for TLC *)
EXTENDS Scheduler

Options(after, policy, backoff) ==
  [failures |-> 0, execute_after |-> after,
   retry_strategy |-> [retry_policy |-> policy, backoff_policy |-> backoff]]

NoRetry == [kind |-> "None", arg |-> 0]
MaxRetries(n) == [kind |-> "MaxRetries", arg |-> n]
Until(time) == [kind |-> "Timeout", arg |-> time]

NoBackoff == [kind |-> "None", secs |-> << >>, multiplier |-> 0]
Fixed(n) == [kind |-> "Fixed", secs |-> << n >>, multiplier |-> 0]

OneRetry == Options(0, MaxRetries(1), NoBackoff)
OneRetryLater == Options(0, MaxRetries(1), Fixed(1))
RetryUntil == Options(1, Until(3), NoBackoff)
Once == Options(0, NoRetry, NoBackoff)

SafetyOptions == {OneRetry, RetryUntil}
FairOptions == {OneRetryLater, Once}
NoOptions == {}
OneRetryOptions == {OneRetry}
OnceOptions == {Once}
=============================================================================
