----------------------------- MODULE Scheduler -----------------------------
(***************************************************************************)
(* The task scheduler of ic-task-scheduler (scheduler.rs, task.rs): a      *)
(* canister keeps its tasks in a stable map, calls run() from a timer, and *)
(* every due task is executed by a future of its own.                      *)
(*                                                                         *)
(* An action is one message of the canister: the state is what is visible  *)
(* between messages.  A task's future takes at least two of them: the one  *)
(* fired by the zero-delay timer that run() sets, up to execute().await,   *)
(* and the one in which execute() returns.  Between the two any other      *)
(* message may be processed, and the canister may be upgraded, which drops *)
(* timers and suspended futures but not the stable map.  A message that    *)
(* panics is rolled back: its future is gone and the map is as before.     *)
(***************************************************************************)
EXTENDS Naturals, FiniteSets, SequencesExt, Retry

CONSTANTS
  AppendOptions,      \* the options tasks are appended with
  RescheduleOptions,  \* the options reschedule() is called with
  Timeouts,           \* the arguments of set_running_task_timeout()
  DefaultTimeout,     \* DEFAULT_RUNNING_TASK_TIMEOUT_SECS
  E9,                 \* clock ticks per second (nanoseconds in the code)
  U64,                \* 2^64, the modulus of u64 arithmetic
  CallbackReenters,   \* does the completion callback call the scheduler?
  MaxTasks,           \* bound: tasks ever appended
  MaxBatch,           \* bound: tasks appended by one call
  MaxFailures,        \* bound: failures of one task that the model explores
  MaxClock            \* bound: the clock stops here

TaskOptions ==
  [failures : Nat, execute_after : Nat, retry_strategy : RetryStrategy]

\* TaskOptions has no public way to set "failures": callers pass 0.
ASSUME OptionsAssumption ==
  \A o \in AppendOptions \cup RescheduleOptions :
    o \in TaskOptions /\ o.failures = 0
ASSUME TimeoutsAssumption == Timeouts \subseteq Nat /\ DefaultTimeout \in Nat
ASSUME ClockAssumption == E9 \in Nat \ {0} /\ U64 \in Nat \ {0}
ASSUME CallbackAssumption == CallbackReenters \in BOOLEAN
ASSUME BoundsAssumption ==
  /\ MaxTasks \in Nat
  /\ MaxBatch \in Nat
  /\ MaxFailures \in Nat
  /\ MaxClock \in Nat

VARIABLES
  pending,     \* stable map: task id -> InnerScheduledTask
  sequence,    \* stable cell: the next task id
  timeout,     \* running_task_timeout_secs of the canister's scheduler
  callback,    \* is an on_completion_callback registered?
  timers,      \* task id -> its futures whose timer has not fired, oldest
               \* first; each is the callback its scheduler clone captured
  executing,   \* task id -> its futures suspended at execute().await
  clock,       \* ic::time()
  outcomes,    \* history: task id -> how it left the map, each time it did
  attempts,    \* history: task id -> executions under its current options
  orphans      \* history: task ids that lost a future to a trap or an upgrade

stable == << pending, sequence >>
heap == << timeout, callback, timers, executing >>
history == << outcomes, attempts, orphans >>
vars == << stable, heap, clock, history >>

TaskId == 0 .. MaxTasks - 1

\* TaskStatus: the three that a stored task has, and the three it leaves with
StoredStatus == {"Waiting", "Scheduled", "Running"}
FinalStatus == {"Completed", "Failed", "TimeoutOrPanic"}

InnerScheduledTask ==
  [options : TaskOptions, status : StoredStatus, timestamp_secs : Nat]

\* What a suspended future holds: the callback captured with its scheduler
\* clone, the time it started, and the options of its copy of the task.
Execution == [cb : BOOLEAN, start : Nat, options : TaskOptions]

Outcome == [status : FinalStatus, told : BOOLEAN]

TimeSecs == clock \div E9

-----------------------------------------------------------------------------
(* The stable map *)

Stored(id, status) == id \in DOMAIN pending /\ pending[id].status = status

Insert(id, task) ==
  [i \in DOMAIN pending \cup {id} |-> IF i = id THEN task ELSE pending[i]]

Without(ids) == Restrict(pending, DOMAIN pending \ ids)

\* A task leaves the map with a status, and a callback, if any, is told.
Finish(ids, status, told) ==
  /\ pending' = Without(ids)
  /\ outcomes' = [i \in TaskId |->
       IF i \in ids THEN Append(outcomes[i], [status |-> status, told |-> told])
       ELSE outcomes[i]]

-----------------------------------------------------------------------------
(* Calls of the canister *)

Init ==
  /\ pending = [i \in {} |-> {}]
  /\ sequence = 0
  /\ timeout = DefaultTimeout
  /\ callback = FALSE
  /\ timers = [i \in TaskId |-> << >>]
  /\ executing = [i \in TaskId |-> << >>]
  /\ clock = 0
  /\ outcomes = [i \in TaskId |-> << >>]
  /\ attempts = [i \in TaskId |-> 0]
  /\ orphans = {}

SetRunningTaskTimeout(secs) ==
  /\ timeout' = secs
  /\ UNCHANGED << stable, callback, timers, executing, clock, history >>

OnCompletionCallback ==
  /\ callback' = TRUE
  /\ UNCHANGED << stable, timeout, timers, executing, clock, history >>

\* Mutant: one id is drawn from the sequence for a whole batch.
NextTaskIdOncePerBatch(n) == sequence + 1

\* next_task_id, called n times
NextTaskId(n) == sequence + n

NewTask(options) ==
  [options |-> options, status |-> "Waiting", timestamp_secs |-> TimeSecs]

\* append_tasks; append_task is the batch of one.
AppendTasks(batch) ==
  /\ sequence + Len(batch) <= MaxTasks
  /\ sequence' = NextTaskId(Len(batch))
  /\ pending' =
       [i \in DOMAIN pending \cup (sequence .. sequence + Len(batch) - 1) |->
          IF i \in sequence .. sequence + Len(batch) - 1
          THEN NewTask(batch[i - sequence + 1])
          ELSE pending[i]]
  /\ UNCHANGED << heap, clock, history >>

\* Mutant: the task is also put back to Waiting.
RescheduleFromStart(id, options) ==
  /\ id \in DOMAIN pending
  /\ pending' = [pending EXCEPT ![id] = NewTask(options)]
  /\ attempts' = [attempts EXCEPT ![id] = 0]
  /\ UNCHANGED << sequence, heap, clock, outcomes, orphans >>

\* reschedule; with an unknown id it does nothing.  The execution in progress,
\* if any, is the first one under the new options.
Reschedule(id, options) ==
  /\ id \in DOMAIN pending
  /\ pending' = [pending EXCEPT ![id].options = options]
  /\ attempts' = [attempts EXCEPT ![id] = IF Stored(id, "Running") THEN 1 ELSE 0]
  /\ UNCHANGED << sequence, heap, clock, outcomes, orphans >>

-----------------------------------------------------------------------------
(* run() *)

\* Mutant: the comparison is strict.
DueStrictly(id) ==
  Stored(id, "Waiting") /\ pending[id].options.execute_after < TimeSecs

Due(id) ==
  Stored(id, "Waiting") /\ pending[id].options.execute_after <= TimeSecs

\* Mutant: only a running task can be stuck.
LateWhenRunning(id) ==
  Stored(id, "Running") /\ pending[id].timestamp_secs + timeout < TimeSecs

\* Without overflow checks, as in a release build, u64 addition wraps.
Late(id) ==
  /\ Stored(id, "Scheduled") \/ Stored(id, "Running")
  /\ (pending[id].timestamp_secs + timeout) % U64 < TimeSecs

\* Mutant: the task is still Waiting until its future starts.
LeaveWaiting(task) == task

\* process_pending_task, before it spawns the future
SetScheduled(task) ==
  [task EXCEPT !.status = "Scheduled", !.timestamp_secs = TimeSecs]

\* The callback is called for an out-of-time task with the map locked: if it
\* calls the scheduler the message cannot finish, and is rolled back.
Run ==
  LET due == {i \in DOMAIN pending : Due(i)}
      late == {i \in DOMAIN pending : Late(i)}
  IN /\ ~ (CallbackReenters /\ callback /\ late # {})
     /\ pending' = [i \in DOMAIN pending \ late |->
                      IF i \in due THEN SetScheduled(pending[i]) ELSE pending[i]]
     /\ timers' = [i \in TaskId |->
                     IF i \in due THEN Append(timers[i], callback) ELSE timers[i]]
     /\ outcomes' = [i \in TaskId |->
                       IF i \in late
                       THEN Append(outcomes[i], [status |-> "TimeoutOrPanic", told |-> callback])
                       ELSE outcomes[i]]
     /\ UNCHANGED << sequence, timeout, callback, executing, clock, attempts, orphans >>

-----------------------------------------------------------------------------
(* The future of a task *)

TimerFires(id) ==
  /\ timers[id] # << >>
  /\ timers' = [timers EXCEPT ![id] = Tail(@)]

\* The future runs up to execute().await.
StartExecution(id) ==
  /\ TimerFires(id)
  /\ Stored(id, "Scheduled")
  /\ pending' = [pending EXCEPT ![id].status = "Running", ![id].timestamp_secs = TimeSecs]
  /\ executing' = [executing EXCEPT ![id] = Append(@,
       [cb |-> Head(timers[id]), start |-> TimeSecs, options |-> pending[id].options])]
  /\ attempts' = [attempts EXCEPT ![id] = @ + 1]
  /\ UNCHANGED << sequence, timeout, callback, clock, outcomes, orphans >>

\* The task is gone, or is no longer Scheduled: the future ends.
StaleTimer(id) ==
  /\ TimerFires(id)
  /\ ~ Stored(id, "Scheduled")
  /\ UNCHANGED << stable, timeout, callback, executing, clock, history >>

\* The task panics before it awaits anything: it stays Scheduled.
StartTraps(id) ==
  /\ TimerFires(id)
  /\ Stored(id, "Scheduled")
  /\ orphans' = orphans \cup {id}
  /\ UNCHANGED << stable, timeout, callback, executing, clock, outcomes, attempts >>

Returns(id, k) ==
  /\ k \in DOMAIN executing[id]
  /\ executing' = [executing EXCEPT ![id] = RemoveAt(@, k)]
  /\ UNCHANGED << sequence, timeout, callback, timers, clock, attempts >>

\* Mutant: a task that succeeds is reported and stays in the map.
ReportOnly(id, e) ==
  /\ id \in DOMAIN pending
  /\ pending' = pending
  /\ outcomes' = [outcomes EXCEPT ![id] = Append(@, [status |-> "Completed", told |-> e.cb])]

\* Mutant: the Completed task is written back instead of removed.
StoreCompleted(id, e) ==
  /\ id \in DOMAIN pending
  /\ pending' = [pending EXCEPT ![id].status = "Completed"]
  /\ UNCHANGED outcomes

\* The task is removed and reported as Completed.
CompleteTask(id, e) ==
  /\ id \in DOMAIN pending
  /\ Finish({id}, "Completed", e.cb)

\* execute() returns Ok
ReturnOk(id, k) ==
  /\ Returns(id, k)
  /\ CompleteTask(id, executing[id][k])
  /\ UNCHANGED orphans

\* Mutant: the failure is not counted.
FailedOptionsUncounted(id, e) ==
  IF id \in DOMAIN pending THEN pending[id].options ELSE e.options

\* After an error: the options now stored, if the task is still there, else
\* those of the future's copy; either way with one failure more.
FailedOptions(id, e) ==
  [IF id \in DOMAIN pending THEN pending[id].options ELSE e.options
     EXCEPT !.failures = @ + 1]

\* An Unrecoverable error is never retried; another one is if the strategy
\* of the options says so.
RetryDecision(options, recoverable) ==
  IF recoverable
  THEN ShouldRetry(options.retry_strategy, options.failures, clock)
  ELSE << FALSE, 0 >>

\* The task waits again: the delay counts from the start of the execution,
\* and the map is written whether or not the task is still in it.
RetryTask(id, e, delay) ==
  pending' = Insert(id,
    [options |-> [FailedOptions(id, e) EXCEPT !.execute_after = e.start + delay],
     status |-> "Waiting", timestamp_secs |-> e.start])

\* execute() returns Err and the task is to be retried
ReturnErrRetry(id, k) ==
  /\ Returns(id, k)
  /\ LET e == executing[id][k]
         options == FailedOptions(id, e)
         decision == RetryDecision(options, TRUE)
     IN /\ options.failures <= MaxFailures
        /\ decision[1]
        /\ RetryTask(id, e, decision[2])
  /\ UNCHANGED << outcomes, orphans >>

\* execute() returns Err and the task is given up
ReturnErrFail(id, k, recoverable) ==
  /\ Returns(id, k)
  /\ LET e == executing[id][k]
     IN /\ ~ RetryDecision(FailedOptions(id, e), recoverable)[1]
        /\ id \in DOMAIN pending
        /\ Finish({id}, "Failed", e.cb)
  /\ UNCHANGED orphans

\* The message panics: the task or the callback does, or the task to remove
\* was removed as out of time (the two unwrap() of process_pending_task).
\* A task that is still there stays Running.
ReturnTraps(id, k) ==
  /\ Returns(id, k)
  /\ orphans' = orphans \cup {id}
  /\ UNCHANGED << pending, outcomes >>

-----------------------------------------------------------------------------
(* The environment *)

\* The canister is upgraded: Scheduler::new over the same stable memory.
Upgrade ==
  /\ timeout' = DefaultTimeout
  /\ callback' = FALSE
  /\ timers' = [i \in TaskId |-> << >>]
  /\ executing' = [i \in TaskId |-> << >>]
  /\ orphans' = orphans \cup {i \in TaskId : timers[i] # << >> \/ executing[i] # << >>}
  /\ UNCHANGED << stable, clock, outcomes, attempts >>

Tick ==
  /\ clock < MaxClock
  /\ clock' = clock + 1
  /\ UNCHANGED << stable, heap, history >>

\* One message of the future of a task
FutureStep(id) ==
  \/ StartExecution(id)
  \/ StaleTimer(id)
  \/ StartTraps(id)
  \/ \E k \in DOMAIN executing[id] :
       \/ ReturnOk(id, k)
       \/ ReturnErrRetry(id, k)
       \/ \E recoverable \in BOOLEAN : ReturnErrFail(id, k, recoverable)
       \/ ReturnTraps(id, k)

Next ==
  \/ \E n \in 1 .. MaxBatch : \E batch \in [1 .. n -> AppendOptions] : AppendTasks(batch)
  \/ \E id \in TaskId, options \in RescheduleOptions : Reschedule(id, options)
  \/ \E secs \in Timeouts : SetRunningTaskTimeout(secs)
  \/ OnCompletionCallback
  \/ Run
  \/ \E id \in TaskId : FutureStep(id)
  \/ Upgrade
  \/ Tick

Spec == Init /\ [][Next]_vars

\* The canister calls run() from an interval timer and the IC fires the timers
\* that are due; time passes.  Nothing makes an execution return.
FairSpec ==
  /\ Spec
  /\ WF_vars(Run)
  /\ WF_vars(Tick)
  /\ \A id \in TaskId : WF_vars(StartExecution(id) \/ StaleTimer(id) \/ StartTraps(id))

-----------------------------------------------------------------------------
(* Invariants *)

TypeOK ==
  /\ sequence \in 0 .. MaxTasks
  /\ DOMAIN pending \subseteq TaskId
  /\ pending \in [DOMAIN pending -> InnerScheduledTask]
  /\ timeout \in Nat
  /\ callback \in BOOLEAN
  /\ timers \in [TaskId -> Seq(BOOLEAN)]
  /\ executing \in [TaskId -> Seq(Execution)]
  /\ clock \in Nat
  /\ outcomes \in [TaskId -> Seq(Outcome)]
  /\ attempts \in [TaskId -> Nat]
  /\ orphans \subseteq TaskId

(***************************************************************************)
(* A task is never executed twice at a time: whatever the interleaving of  *)
(* run(), timeouts, late returns, reschedules and upgrades, at most one    *)
(* future of process_pending_task is alive for a task id.                  *)
(***************************************************************************)
OneFuturePerTask ==
  \A i \in TaskId : Len(timers[i]) + Len(executing[i]) <= 1

(***************************************************************************)
(* Only a trap or an upgrade can leave a task stuck: a Scheduled task has  *)
(* its timer, a Running task the execution that set its timestamp, and a   *)
(* Waiting task no future that could still touch it, unless its future was *)
(* lost.  (What run() removes as out of time is otherwise still going on.) *)
(***************************************************************************)
ActiveTaskHasItsFuture ==
  \A i \in DOMAIN pending \ orphans :
    CASE pending[i].status = "Waiting" -> timers[i] = << >> /\ executing[i] = << >>
      [] pending[i].status = "Scheduled" -> Len(timers[i]) = 1 /\ executing[i] = << >>
      [] OTHER -> /\ timers[i] = << >>
                  /\ Len(executing[i]) = 1
                  /\ executing[i][1].start = pending[i].timestamp_secs

(***************************************************************************)
(* No task is lost: every id that append_tasks handed out is in the map or *)
(* has left it with a status, and no other id is in the map, so that no    *)
(* append overwrites a task.  Upgrades and traps included.                 *)
(***************************************************************************)
NoTaskLost ==
  /\ \A i \in 0 .. sequence - 1 : i \in DOMAIN pending \/ outcomes[i] # << >>
  /\ \A i \in DOMAIN pending : i < sequence

(***************************************************************************)
(* Completed and Failed are final: after either the task is not in the map *)
(* any more, has no future that could bring it back or report it again,    *)
(* and neither status is ever followed by another.                         *)
(***************************************************************************)
FinalIsFinal ==
  \A i \in TaskId : \A n \in DOMAIN outcomes[i] :
    outcomes[i][n].status # "TimeoutOrPanic" =>
      /\ n = Len(outcomes[i])
      /\ i \notin DOMAIN pending
      /\ timers[i] = << >> /\ executing[i] = << >>

\* How many executions a retry policy allows for one set of options.
AttemptsAllowed(policy, n) ==
  /\ policy.kind = "None" => n <= 1
  /\ policy.kind = "MaxRetries" => n <= policy.arg + 1

(***************************************************************************)
(* The retry policy bounds the executions: a task with MaxRetries {r} is   *)
(* executed at most r + 1 times, one without retries once, counted from    *)
(* its last reschedule, where an execution then in progress counts as the  *)
(* first.  Timeouts and late errors do not buy extra executions.           *)
(***************************************************************************)
AttemptsBounded ==
  \A i \in DOMAIN pending :
    AttemptsAllowed(pending[i].options.retry_strategy.retry_policy, attempts[i])

-----------------------------------------------------------------------------
(* The inductive invariant behind the invariants above *)

\* The failures a stored or captured set of options may have counted.
FailuresAllowed(options) ==
  LET policy == options.retry_strategy.retry_policy
  IN /\ policy.kind = "None" => options.failures = 0
     /\ policy.kind = "MaxRetries" => options.failures <= policy.arg

\* The futures of a task follow from its status, and from whether one was lost.
FutureInv(i) ==
  /\ Len(timers[i]) + Len(executing[i]) <= 1
  /\ i \in DOMAIN pending =>
       CASE pending[i].status = "Waiting" -> timers[i] = << >> /\ executing[i] = << >>
         [] pending[i].status = "Scheduled" ->
              executing[i] = << >> /\ (i \notin orphans => timers[i] # << >>)
         [] OTHER ->
              /\ timers[i] = << >>
              /\ i \notin orphans => executing[i] # << >>
              /\ executing[i] # << >> => executing[i][1].start = pending[i].timestamp_secs

\* An id that was not handed out yet has no trace anywhere; one that was is in
\* the map or has left it.
HandedOutInv(i) ==
  IF i < sequence
  THEN i \in DOMAIN pending \/ outcomes[i] # << >>
  ELSE /\ i \notin DOMAIN pending
       /\ timers[i] = << >> /\ executing[i] = << >> /\ outcomes[i] = << >>
       /\ attempts[i] = 0

\* A task still in the map, or with a future that could put it there, has only
\* ever left it as out of time.
OutcomeInv(i) ==
  \A n \in DOMAIN outcomes[i] : outcomes[i][n].status # "TimeoutOrPanic" =>
    /\ n = Len(outcomes[i])
    /\ i \notin DOMAIN pending
    /\ timers[i] = << >> /\ executing[i] = << >>

\* Executions never outnumber the failures counted in the options that the
\* next decision to retry reads: the stored ones, or, once the task timed out,
\* those its future holds.  A reschedule can only lower the stored count.
AttemptsInv(i) ==
  /\ i \in DOMAIN pending =>
       /\ FailuresAllowed(pending[i].options)
       /\ attempts[i] <= pending[i].options.failures
                           + (IF pending[i].status = "Running" THEN 1 ELSE 0)
  /\ executing[i] # << >> =>
       /\ FailuresAllowed(executing[i][1].options)
       /\ IF i \in DOMAIN pending
          THEN pending[i].options.failures <= executing[i][1].options.failures
          ELSE attempts[i] <= executing[i][1].options.failures + 1

TaskInv(i) == FutureInv(i) /\ HandedOutInv(i) /\ OutcomeInv(i) /\ AttemptsInv(i)

IndInv == TypeOK /\ \A i \in TaskId : TaskInv(i)

-----------------------------------------------------------------------------
(* Temporal properties *)

Horizon == MaxClock \div E9

\* Is the task one that nothing has to happen to before the clock stops?
BeyondHorizon(id) ==
  /\ id \in DOMAIN pending
  /\ IF pending[id].status = "Waiting"
     THEN pending[id].options.execute_after > Horizon
     ELSE \E secs \in Timeouts \cup {DefaultTimeout} :
            pending[id].timestamp_secs + secs >= Horizon

(***************************************************************************)
(* run() launches what is due: a Waiting task whose execution time has     *)
(* come does not wait for ever.                                            *)
(***************************************************************************)
DueIsLaunched ==
  LET waits(i) == Stored(i, "Waiting") /\ pending[i].options.execute_after <= TimeSecs
  IN \A i \in TaskId : waits(i) ~> ~ waits(i)

(***************************************************************************)
(* The scheduler drains: once no more tasks arrive, every task leaves the  *)
(* map for good (or is out of the model's time), though executions may     *)
(* trap, never return, return after their timeout, or be cut by upgrades.  *)
(***************************************************************************)
Drains ==
  <>[] \A i \in TaskId : i \in DOMAIN pending => BeyondHorizon(i)

-----------------------------------------------------------------------------
(* What the comments of the code say, and the code does not do *)

(***************************************************************************)
(* run() warns "Removing it from the scheduler" of an out-of-time task: a  *)
(* task that left the map is not there any more.  The retry branch of      *)
(* process_pending_task inserts it again when its execution then fails.    *)
(***************************************************************************)
RemovedStaysRemoved ==
  \A i \in TaskId : outcomes[i] # << >> => i \notin DOMAIN pending
=============================================================================
