-------------------------- MODULE SchedulerProofs --------------------------
(***************************************************************************)
(* Proofs about Scheduler, for every set of options, timeouts and bounds.  *)
(***************************************************************************)
EXTENDS Scheduler, TLAPS

\* Taking one element out of a sequence shortens it by one.
LEMMA RemoveAtType ==
  ASSUME NEW S, NEW s \in Seq(S), NEW k \in DOMAIN s
  PROVE  /\ RemoveAt(s, k) \in Seq(S)
         /\ Len(RemoveAt(s, k)) = Len(s) - 1
  BY DEF RemoveAt

\* A sequence is empty when its length is zero.
LEMMA EmptyIffLen0 ==
  ASSUME NEW S, NEW s \in Seq(S)
  PROVE  Len(s) \in Nat /\ (s = << >> <=> Len(s) = 0)
  OBVIOUS

\* Appending to a sequence lengthens it by one.
LEMMA AppendType ==
  ASSUME NEW S, NEW s \in Seq(S), NEW e \in S
  PROVE  Append(s, e) \in Seq(S) /\ Len(Append(s, e)) = Len(s) + 1
  OBVIOUS

\* The first element of a sequence is one of its elements.
LEMMA HeadType ==
  ASSUME NEW S, NEW s \in Seq(S), s # << >>
  PROVE  Head(s) \in S
  OBVIOUS

\* Nothing is left of a sequence of one element without its head.
LEMMA TailOfOne ==
  ASSUME NEW S, NEW s \in Seq(S), Len(s) = 1
  PROVE  Tail(s) \in Seq(S) /\ Tail(s) = << >>
  <1>1. s # << >> /\ Tail(s) \in Seq(S) /\ Len(Tail(s)) = 0
    OBVIOUS
  <1> QED
    BY <1>1, EmptyIffLen0

\* A backoff is a number of seconds.
LEMMA ShouldWaitType ==
  ASSUME NEW b \in BackoffPolicy, NEW n \in Nat
  PROVE  ShouldWait(b, n) \in Nat
  <1>1. \A i \in DOMAIN b.secs : b.secs[i] \in Nat
    BY MaxU32Assumption DEF BackoffPolicy
  <1>2. b.secs \in Seq(Nat) /\ (b.kind \in {"Fixed", "Exponential"} => Len(b.secs) = 1)
    BY <1>1 DEF BackoffPolicy
  <1>3. \A x : Saturate(x) \in Nat
    BY MaxU32Assumption DEF Saturate
  <1> QED
    BY <1>2, <1>3 DEF ShouldWait, BackoffPolicy

\* Dividing a natural number, as time_secs() does, yields a natural number.
LEMMA DivNat ==
  ASSUME NEW a \in Nat, NEW b \in Nat \ {0}
  PROVE  a \div b \in Nat
  <1>1. a \div b \in Int
    OBVIOUS
  <1>2. ASSUME a \div b <= -1 PROVE FALSE
    <2>1. a = b * (a \div b) + (a % b) /\ a % b \in 0 .. b - 1
      BY Z3
    <2>2. b * (a \div b) <= -b
      BY <1>1, <1>2, Z3
    <2> QED
      BY <2>1, <2>2
  <1> QED
    BY <1>1, <1>2

\* time_secs() is a number of seconds.
LEMMA TimeSecsType == TypeOK => TimeSecs \in Nat
  BY ClockAssumption, DivNat DEF TypeOK, TimeSecs

\* The invariant of a task only depends on what is known of that task.
LEMMA Frame ==
  ASSUME NEW i \in TaskId, TaskInv(i),
         i \in DOMAIN pending' <=> i \in DOMAIN pending,
         i \in DOMAIN pending => pending'[i] = pending[i],
         timers'[i] = timers[i], executing'[i] = executing[i],
         outcomes'[i] = outcomes[i], attempts'[i] = attempts[i],
         i \in orphans => i \in orphans',
         i < sequence' <=> i < sequence
  PROVE  TaskInv(i)'
  BY DEF TaskInv, FutureInv, HandedOutInv, OutcomeInv, AttemptsInv, FailuresAllowed

-----------------------------------------------------------------------------

\* Scheduler::new over an empty map satisfies the invariant.
LEMMA InitInv == Init => IndInv
  <1> SUFFICES ASSUME Init PROVE IndInv
    OBVIOUS
  <1>1. TypeOK
    <2>1. DOMAIN pending \subseteq TaskId /\ pending \in [DOMAIN pending -> InnerScheduledTask]
      BY DEF Init
    <2>2. sequence \in 0 .. MaxTasks /\ clock \in Nat /\ timeout \in Nat
      BY BoundsAssumption, TimeoutsAssumption DEF Init
    <2>3. /\ timers \in [TaskId -> Seq(BOOLEAN)]
          /\ executing \in [TaskId -> Seq(Execution)]
          /\ outcomes \in [TaskId -> Seq(Outcome)]
          /\ attempts \in [TaskId -> Nat]
      BY DEF Init
    <2>4. QED
      BY <2>1, <2>2, <2>3 DEF Init, TypeOK
  <1>2. ASSUME NEW i \in TaskId PROVE TaskInv(i)
    BY BoundsAssumption DEF Init, TaskId, TaskInv, FutureInv, HandedOutInv, OutcomeInv, AttemptsInv
  <1>3. QED
    BY <1>1, <1>2 DEF IndInv

\* Steps that touch no task: the clock and the configuration.
LEMMA NoTaskInv ==
  ASSUME IndInv,
         Tick \/ (\E secs \in Timeouts : SetRunningTaskTimeout(secs)) \/ OnCompletionCallback
  PROVE  IndInv'
  <1>1. UNCHANGED << pending, sequence, timers, executing, outcomes, attempts, orphans >>
    BY DEF Tick, SetRunningTaskTimeout, OnCompletionCallback, stable, heap, history
  <1>2. timeout' \in Nat /\ clock' \in Nat
    BY TimeoutsAssumption DEF IndInv, TypeOK, Tick, SetRunningTaskTimeout, OnCompletionCallback,
      stable, heap, history
  <1>3. callback' \in BOOLEAN
    BY DEF IndInv, TypeOK, Tick, SetRunningTaskTimeout, OnCompletionCallback, heap
  <1>4. TypeOK'
    BY <1>1, <1>2, <1>3 DEF IndInv, TypeOK
  <1>5. QED
    BY <1>1, <1>4, Frame DEF IndInv

\* An upgrade keeps the invariant: the futures it drops are accounted for.
LEMMA UpgradeInv == IndInv /\ Upgrade => IndInv'
  <1> SUFFICES ASSUME IndInv, Upgrade PROVE IndInv'
    OBVIOUS
  <1> USE DEF Upgrade, stable
  <1>1. TypeOK'
    <2>1. /\ timers' \in [TaskId -> Seq(BOOLEAN)]
          /\ executing' \in [TaskId -> Seq(Execution)]
      OBVIOUS
    <2>2. timeout' \in Nat /\ orphans' \subseteq TaskId
      BY TimeoutsAssumption DEF IndInv, TypeOK
    <2>3. QED
      BY <2>1, <2>2 DEF IndInv, TypeOK
  <1>2. ASSUME NEW i \in TaskId PROVE TaskInv(i)'
    <2>1. TaskInv(i)
      BY DEF IndInv
    <2>2. FutureInv(i)'
      BY <2>1 DEF TaskInv, FutureInv
    <2>3. HandedOutInv(i)' /\ OutcomeInv(i)' /\ AttemptsInv(i)'
      BY <2>1 DEF TaskInv, HandedOutInv, OutcomeInv, AttemptsInv
    <2> QED
      BY <2>2, <2>3 DEF TaskInv
  <1>3. QED
    BY <1>1, <1>2 DEF IndInv

\* append_tasks keeps the invariant: the ids it draws were not in use.
LEMMA AppendTasksInv ==
  ASSUME IndInv, NEW n \in 1 .. MaxBatch, NEW batch \in [1 .. n -> AppendOptions],
         AppendTasks(batch)
  PROVE  IndInv'
  <1> DEFINE new == sequence .. sequence + n - 1
  <1>a. batch \in Seq(AppendOptions) /\ Len(batch) = n /\ n \in Nat \ {0}
    BY BoundsAssumption
  <1>b. /\ sequence \in Nat /\ MaxTasks \in Nat
        /\ sequence + n <= MaxTasks
        /\ sequence' = sequence + n
    BY <1>a, BoundsAssumption DEF IndInv, TypeOK, AppendTasks, NextTaskId
  <1>c. /\ pending' = [i \in DOMAIN pending \cup new |->
                         IF i \in new THEN NewTask(batch[i - sequence + 1]) ELSE pending[i]]
        /\ UNCHANGED << timeout, callback, timers, executing, clock, outcomes, attempts, orphans >>
    BY <1>a DEF AppendTasks, heap, history
  <1> HIDE DEF new
  <1>1. /\ new \subseteq TaskId
        /\ DOMAIN pending' = DOMAIN pending \cup new
        /\ \A i \in TaskId : i \in new <=> (i < sequence' /\ ~ i < sequence)
    BY <1>a, <1>b, <1>c DEF TaskId, new
  <1>2. ASSUME NEW i \in new
        PROVE  /\ pending'[i] \in InnerScheduledTask
               /\ pending'[i].status = "Waiting"
               /\ pending'[i].options.failures = 0
    <2>1. batch[i - sequence + 1] \in TaskOptions /\ batch[i - sequence + 1].failures = 0
      BY <1>a, <1>b, OptionsAssumption DEF new
    <2>2. pending'[i] = NewTask(batch[i - sequence + 1])
      BY <1>c
    <2> QED
      BY <2>1, <2>2, TimeSecsType DEF NewTask, InnerScheduledTask, StoredStatus, IndInv
  <1>4. TypeOK'
    <2>1. pending' \in [DOMAIN pending' -> InnerScheduledTask]
      BY <1>c, <1>1, <1>2 DEF IndInv, TypeOK
    <2>2. sequence' \in 0 .. MaxTasks
      BY <1>a, <1>b
    <2> QED
      BY <2>1, <2>2, <1>c, <1>1 DEF IndInv, TypeOK
  <1>5. ASSUME NEW i \in TaskId PROVE TaskInv(i)'
    <2>1. CASE i \in new
      <3>1. TaskInv(i) /\ ~ i < sequence /\ i < sequence'
        BY <1>1, <2>1 DEF IndInv
      <3>2. pending'[i].options \in TaskOptions
        BY <1>2, <2>1 DEF InnerScheduledTask
      <3>3. FailuresAllowed(pending'[i].options)
        BY <1>2, <2>1, <3>2 DEF FailuresAllowed, TaskOptions, RetryStrategy, RetryPolicy
      <3>4. /\ i \in DOMAIN pending'
            /\ timers[i] = << >> /\ executing[i] = << >> /\ outcomes[i] = << >> /\ attempts[i] = 0
        BY <3>1, <1>1, <2>1 DEF TaskInv, HandedOutInv
      <3>5. FutureInv(i)'
        <4>1. timers'[i] = << >> /\ executing'[i] = << >> /\ pending'[i].status = "Waiting"
          BY <3>4, <1>2, <2>1, <1>c
        <4> QED
          BY <4>1 DEF FutureInv
      <3>7. HandedOutInv(i)'
        BY <3>1, <3>4, <1>c DEF HandedOutInv
      <3>8. OutcomeInv(i)'
        BY <3>4, <1>c DEF OutcomeInv
      <3>6. AttemptsInv(i)'
        BY <3>3, <3>4, <1>2, <2>1, <1>c DEF AttemptsInv
      <3> QED
        BY <3>5, <3>6, <3>7, <3>8 DEF TaskInv
    <2>2. CASE i \notin new
      <3>1. TaskInv(i) /\ (i < sequence' <=> i < sequence)
        BY <1>1, <2>2, <1>a, <1>b DEF IndInv, TaskId
      <3> QED
        BY <3>1, <1>c, <1>1, <2>2, Frame
    <2> QED
      BY <2>1, <2>2
  <1> QED
    BY <1>4, <1>5 DEF IndInv

\* reschedule keeps the invariant: it changes options, never the status.
LEMMA RescheduleInv ==
  ASSUME IndInv, NEW id \in TaskId, NEW options \in RescheduleOptions, Reschedule(id, options)
  PROVE  IndInv'
  <1>0. /\ id \in DOMAIN pending
        /\ pending' = [pending EXCEPT ![id].options = options]
        /\ attempts' = [attempts EXCEPT ![id] = IF pending[id].status = "Running" THEN 1 ELSE 0]
        /\ UNCHANGED << sequence, timeout, callback, timers, executing, clock, outcomes, orphans >>
    BY DEF Reschedule, Stored, heap
  <1>1. /\ DOMAIN pending' = DOMAIN pending
        /\ options \in TaskOptions /\ options.failures = 0
        /\ pending \in [DOMAIN pending -> InnerScheduledTask]
        /\ attempts \in [TaskId -> Nat]
    BY <1>0, OptionsAssumption DEF IndInv, TypeOK
  <1>2. TypeOK'
    <2>1. pending' \in [DOMAIN pending' -> InnerScheduledTask]
      BY <1>0, <1>1 DEF InnerScheduledTask
    <2>2. attempts' \in [TaskId -> Nat]
      BY <1>0, <1>1
    <2> QED
      BY <2>1, <2>2, <1>0, <1>1 DEF IndInv, TypeOK
  <1>3. TaskInv(id)'
    <2>1. /\ TaskInv(id)
          /\ pending'[id].status = pending[id].status
          /\ pending'[id].timestamp_secs = pending[id].timestamp_secs
          /\ pending'[id].options = options
          /\ attempts'[id] = IF pending[id].status = "Running" THEN 1 ELSE 0
      BY <1>0, <1>1 DEF IndInv, InnerScheduledTask
    <2>2. FutureInv(id)' /\ HandedOutInv(id)' /\ OutcomeInv(id)'
      BY <1>0, <1>1, <2>1 DEF TaskInv, FutureInv, HandedOutInv, OutcomeInv
    <2>3. FailuresAllowed(options)
      BY <1>1 DEF FailuresAllowed, TaskOptions, RetryStrategy, RetryPolicy
    <2>4. executing[id] # << >> => executing[id][1] \in Execution
      BY DEF IndInv, TypeOK
    <2>5. AttemptsInv(id)'
      BY <1>0, <1>1, <2>1, <2>3, <2>4 DEF TaskInv, AttemptsInv, Execution, TaskOptions
    <2> QED
      BY <2>2, <2>5 DEF TaskInv
  <1>4. ASSUME NEW i \in TaskId, i # id PROVE TaskInv(i)'
    BY <1>0, <1>1, <1>4, Frame DEF IndInv
  <1> QED
    BY <1>2, <1>3, <1>4 DEF IndInv

\* A task that leaves the map was only ever reported as out of time before.
LEMMA AppendOutcome ==
  ASSUME TypeOK, NEW i \in TaskId, TaskInv(i), i \in DOMAIN pending, NEW o \in Outcome
  PROVE  /\ Append(outcomes[i], o) # << >>
         /\ \A n \in DOMAIN Append(outcomes[i], o) :
              Append(outcomes[i], o)[n].status # "TimeoutOrPanic" =>
                n = Len(Append(outcomes[i], o)) /\ o.status # "TimeoutOrPanic"
  <1>1. outcomes[i] \in Seq(Outcome)
    BY DEF TypeOK
  <1>2. \A n \in DOMAIN outcomes[i] : outcomes[i][n].status = "TimeoutOrPanic"
    BY DEF TaskInv, OutcomeInv
  <1> DEFINE q == outcomes[i]
  <1>3. /\ Append(q, o) \in Seq(Outcome)
        /\ Len(Append(q, o)) = Len(q) + 1
        /\ DOMAIN Append(q, o) = 1 .. Len(q) + 1
        /\ Len(q) \in Nat /\ DOMAIN q = 1 .. Len(q)
        /\ Append(q, o)[Len(q) + 1] = o
        /\ \A n \in 1 .. Len(q) : Append(q, o)[n] = q[n]
    BY <1>1
  <1> HIDE DEF q
  <1>4. Append(q, o) # << >>
    BY <1>3
  <1>5. ASSUME NEW n \in DOMAIN Append(q, o), Append(q, o)[n].status # "TimeoutOrPanic"
        PROVE  n = Len(Append(q, o)) /\ o.status # "TimeoutOrPanic"
    <2>1. n \notin 1 .. Len(q)
      BY <1>2, <1>3, <1>5 DEF q
    <2>2. n = Len(q) + 1
      BY <1>3, <2>1
    <2> QED
      BY <1>3, <1>5, <2>2
  <1> QED
    BY <1>4, <1>5 DEF q

\* run() keeps the invariant: it gives a future only to Waiting tasks, which
\* have none, and removes only tasks that are Scheduled or Running.
LEMMA RunInv == IndInv /\ Run => IndInv'
  <1> SUFFICES ASSUME IndInv, Run PROVE IndInv'
    OBVIOUS
  <1> DEFINE due == {i \in DOMAIN pending : Due(i)}
             late == {i \in DOMAIN pending : Late(i)}
             timedOut == [status |-> "TimeoutOrPanic", told |-> callback]
  <1>0. /\ pending' = [i \in DOMAIN pending \ late |->
                         IF i \in due THEN SetScheduled(pending[i]) ELSE pending[i]]
        /\ timers' = [i \in TaskId |->
                        IF i \in due THEN Append(timers[i], callback) ELSE timers[i]]
        /\ outcomes' = [i \in TaskId |->
                          IF i \in late THEN Append(outcomes[i], timedOut) ELSE outcomes[i]]
        /\ UNCHANGED << sequence, timeout, callback, executing, clock, attempts, orphans >>
    BY DEF Run
  <1>1. /\ \A i \in due : i \in DOMAIN pending /\ i \notin late /\ pending[i].status = "Waiting"
        /\ \A i \in late : /\ i \in DOMAIN pending
                           /\ pending[i].status = "Scheduled" \/ pending[i].status = "Running"
    BY DEF Due, Late, Stored
  <1>2. TypeOK /\ \A i \in TaskId : TaskInv(i)
    BY DEF IndInv
  <1>3. timedOut \in Outcome /\ timedOut.status = "TimeoutOrPanic"
    BY <1>2 DEF TypeOK, Outcome, FinalStatus
  <1> HIDE DEF due, late, timedOut
  <1>4. ASSUME NEW task \in InnerScheduledTask
        PROVE  /\ SetScheduled(task) \in InnerScheduledTask
               /\ SetScheduled(task).status = "Scheduled"
               /\ SetScheduled(task).options = task.options
    BY <1>2, TimeSecsType DEF SetScheduled, InnerScheduledTask, StoredStatus
  <1>5. TypeOK'
    <2>1. /\ DOMAIN pending' \subseteq TaskId
          /\ pending' \in [DOMAIN pending' -> InnerScheduledTask]
      BY <1>0, <1>1, <1>2, <1>4 DEF TypeOK
    <2>2. timers' \in [TaskId -> Seq(BOOLEAN)]
      <3>1. ASSUME NEW i \in TaskId
            PROVE  timers[i] \in Seq(BOOLEAN) /\ Append(timers[i], callback) \in Seq(BOOLEAN)
        BY <1>2, AppendType DEF TypeOK
      <3> QED
        BY <3>1, <1>0, Zenon
    <2>3. outcomes' \in [TaskId -> Seq(Outcome)]
      BY <1>0, <1>2, <1>3 DEF TypeOK
    <2> QED
      BY <2>1, <2>2, <2>3, <1>0, <1>2 DEF TypeOK
  <1>6. ASSUME NEW i \in TaskId, i \in due PROVE TaskInv(i)'
    <2>1. /\ TaskInv(i) /\ i \in DOMAIN pending /\ i \in DOMAIN pending'
          /\ pending[i] \in InnerScheduledTask /\ pending[i].status = "Waiting"
          /\ pending'[i] = SetScheduled(pending[i])
          /\ timers'[i] = Append(timers[i], callback)
          /\ outcomes'[i] = outcomes[i] /\ executing'[i] = executing[i]
          /\ attempts'[i] = attempts[i] /\ sequence' = sequence
      BY <1>0, <1>1, <1>2, <1>6 DEF TypeOK
    <2>2. /\ timers[i] = << >> /\ executing[i] = << >>
          /\ Len(timers'[i]) = 1 /\ timers'[i] # << >>
      <3>1. timers[i] = << >> /\ executing[i] = << >>
        BY <2>1 DEF TaskInv, FutureInv
      <3>2. timers[i] \in Seq(BOOLEAN) /\ callback \in BOOLEAN
        BY <1>2 DEF TypeOK
      <3>3. Len(timers'[i]) = Len(timers[i]) + 1
        BY <2>1, <3>2, AppendType
      <3> QED
        BY <3>1, <3>3
    <2>3. pending'[i].status = "Scheduled" /\ pending'[i].options = pending[i].options
      BY <2>1, <1>4
    <2>4. FutureInv(i)'
      BY <2>1, <2>2, <2>3 DEF FutureInv
    <2>5. HandedOutInv(i)' /\ OutcomeInv(i)' /\ AttemptsInv(i)'
      BY <2>1, <2>2, <2>3 DEF TaskInv, HandedOutInv, OutcomeInv, AttemptsInv, FailuresAllowed
    <2> QED
      BY <2>4, <2>5 DEF TaskInv
  <1>7. ASSUME NEW i \in TaskId, i \in late PROVE TaskInv(i)'
    <2>1. /\ TaskInv(i) /\ i \in DOMAIN pending /\ i \notin DOMAIN pending'
          /\ pending[i] \in InnerScheduledTask
          /\ pending[i].status = "Scheduled" \/ pending[i].status = "Running"
          /\ timers'[i] = timers[i]
          /\ outcomes'[i] = Append(outcomes[i], timedOut) /\ executing'[i] = executing[i]
          /\ attempts'[i] = attempts[i] /\ sequence' = sequence
      BY <1>0, <1>1, <1>2, <1>7 DEF TypeOK
    <2>2. FutureInv(i)' /\ HandedOutInv(i)'
      BY <2>1, <1>2, <1>3, AppendOutcome DEF TaskInv, FutureInv, HandedOutInv
    <2>3. OutcomeInv(i)'
      BY <2>1, <1>2, <1>3, AppendOutcome DEF OutcomeInv
    <2>4. executing[i] # << >> => executing[i][1] \in Execution
      BY <1>2 DEF TypeOK
    <2>5. AttemptsInv(i)'
      <3> SUFFICES ASSUME executing[i] # << >>
                   PROVE  /\ FailuresAllowed(executing[i][1].options)
                          /\ attempts[i] <= executing[i][1].options.failures + 1
        BY <2>1 DEF AttemptsInv, FailuresAllowed
      <3>1. pending[i].status = "Running"
        BY <2>1 DEF TaskInv, FutureInv
      <3>2. attempts[i] \in Nat
        BY <1>2 DEF TypeOK
      <3> QED
        BY <2>1, <2>4, <3>1, <3>2 DEF TaskInv, AttemptsInv, InnerScheduledTask, Execution, TaskOptions
    <2> QED
      BY <2>2, <2>3, <2>5 DEF TaskInv
  <1>8. ASSUME NEW i \in TaskId, i \notin due, i \notin late PROVE TaskInv(i)'
    BY <1>0, <1>2, <1>8, Frame
  <1> QED
    BY <1>5, <1>6, <1>7, <1>8 DEF IndInv

-----------------------------------------------------------------------------
(* The steps of a future *)

\* The timer that fires was the task's only future: afterwards it has none in
\* the queue, and none is suspended.
LEMMA TimerFiresFacts ==
  ASSUME IndInv, NEW id \in TaskId, TimerFires(id)
  PROVE  /\ timers' \in [TaskId -> Seq(BOOLEAN)]
         /\ Head(timers[id]) \in BOOLEAN
         /\ Len(timers[id]) = 1 /\ executing[id] = << >>
         /\ timers'[id] = << >>
         /\ \A i \in TaskId \ {id} : timers'[i] = timers[i]
         /\ id < sequence
  <1>1. /\ timers \in [TaskId -> Seq(BOOLEAN)] /\ executing \in [TaskId -> Seq(Execution)]
        /\ FutureInv(id) /\ HandedOutInv(id)
    BY DEF IndInv, TypeOK, TaskInv
  <1>2. timers[id] # << >> /\ timers' = [timers EXCEPT ![id] = Tail(timers[id])]
    BY DEF TimerFires
  <1>3. timers[id] \in Seq(BOOLEAN) /\ executing[id] \in Seq(Execution)
    BY <1>1
  <1>4. Len(timers[id]) = 1 /\ executing[id] = << >> /\ id < sequence
    <2>1. Len(timers[id]) \in Nat /\ Len(timers[id]) # 0
      BY <1>2, <1>3, EmptyIffLen0
    <2>2. Len(timers[id]) + Len(executing[id]) <= 1 /\ Len(executing[id]) \in Nat
      BY <1>1, <1>3 DEF FutureInv
    <2>3. Len(timers[id]) = 1 /\ Len(executing[id]) = 0
      <3> DEFINE a == Len(timers[id])
                 b == Len(executing[id])
      <3>1. a \in Nat /\ b \in Nat /\ a # 0 /\ a + b <= 1
        BY <2>1, <2>2
      <3> HIDE DEF a, b
      <3>2. a = 1 /\ b = 0
        BY <3>1
      <3> QED
        BY <3>2 DEF a, b
    <2>4. executing[id] = << >>
      BY <1>3, <2>3, EmptyIffLen0
    <2> QED
      BY <1>1, <1>2, <2>3, <2>4 DEF HandedOutInv
  <1>5. Tail(timers[id]) \in Seq(BOOLEAN) /\ Tail(timers[id]) = << >>
    BY <1>3, <1>4, TailOfOne
  <1>6. Head(timers[id]) \in BOOLEAN
    BY <1>2, <1>3, HeadType
  <1>7. timers' \in [TaskId -> Seq(BOOLEAN)] /\ timers'[id] = << >>
    BY <1>1, <1>2, <1>5
  <1>8. \A i \in TaskId \ {id} : timers'[i] = timers[i]
    BY <1>1, <1>2
  <1> QED
    BY <1>4, <1>6, <1>7, <1>8

\* The start of an execution keeps the invariant: the task has no other future.
LEMMA StartExecutionInv ==
  ASSUME IndInv, NEW id \in TaskId, StartExecution(id)
  PROVE  IndInv'
  <1> DEFINE e == [cb |-> Head(timers[id]), start |-> TimeSecs, options |-> pending[id].options]
  <1>0. /\ TimerFires(id)
        /\ id \in DOMAIN pending /\ pending[id].status = "Scheduled"
        /\ pending' = [pending EXCEPT ![id].status = "Running", ![id].timestamp_secs = TimeSecs]
        /\ executing' = [executing EXCEPT ![id] = Append(executing[id], e)]
        /\ attempts' = [attempts EXCEPT ![id] = attempts[id] + 1]
        /\ UNCHANGED << sequence, timeout, callback, clock, outcomes, orphans >>
    BY DEF StartExecution, Stored
  <1>1. TypeOK /\ TaskInv(id) /\ TimeSecs \in Nat
    BY TimeSecsType DEF IndInv
  <1>2. /\ DOMAIN pending' = DOMAIN pending
        /\ pending \in [DOMAIN pending -> InnerScheduledTask] /\ pending[id] \in InnerScheduledTask
        /\ executing \in [TaskId -> Seq(Execution)] /\ executing[id] \in Seq(Execution)
        /\ attempts \in [TaskId -> Nat] /\ attempts[id] \in Nat
    BY <1>0, <1>1 DEF TypeOK
  <1>3. /\ e \in Execution /\ e.start = TimeSecs
        /\ e.options = pending[id].options /\ pending[id].options \in TaskOptions
    BY <1>0, <1>1, <1>2, TimerFiresFacts DEF Execution, InnerScheduledTask
  <1> HIDE DEF e
  <1>4. /\ pending'[id] \in InnerScheduledTask
        /\ pending'[id].status = "Running"
        /\ pending'[id].timestamp_secs = TimeSecs
        /\ pending'[id].options = pending[id].options
        /\ \A i \in DOMAIN pending \ {id} : pending'[i] = pending[i]
    BY <1>0, <1>1, <1>2 DEF InnerScheduledTask, StoredStatus
  <1>5. /\ executing'[id] = << e >>
        /\ \A i \in TaskId \ {id} : executing'[i] = executing[i] /\ attempts'[i] = attempts[i]
        /\ attempts'[id] = attempts[id] + 1
    <2>1. executing[id] = << >>
      BY <1>0, TimerFiresFacts
    <2>2. Append(executing[id], e) = << e >>
      BY <2>1
    <2> QED
      BY <1>0, <1>2, <2>2
  <1>6. TypeOK'
    <2>1. pending' \in [DOMAIN pending' -> InnerScheduledTask]
      BY <1>0, <1>2, <1>4
    <2>2. executing' \in [TaskId -> Seq(Execution)] /\ attempts' \in [TaskId -> Nat]
      BY <1>0, <1>2, <1>3, AppendType
    <2>3. timers' \in [TaskId -> Seq(BOOLEAN)]
      BY <1>0, TimerFiresFacts
    <2> QED
      BY <2>1, <2>2, <2>3, <1>0, <1>1, <1>2 DEF TypeOK
  <1>7. TaskInv(id)'
    <2>1. timers'[id] = << >> /\ id < sequence'
      BY <1>0, TimerFiresFacts
    <2>2. executing'[id] # << >> /\ Len(executing'[id]) = 1 /\ executing'[id][1] = e
      BY <1>5
    <2>3. FutureInv(id)'
      BY <1>0, <1>2, <1>3, <1>4, <2>1, <2>2 DEF FutureInv
    <2>4. HandedOutInv(id)' /\ OutcomeInv(id)'
      BY <1>0, <1>1, <1>2, <2>1 DEF TaskInv, HandedOutInv, OutcomeInv
    <2>5. AttemptsInv(id)'
      BY <1>0, <1>1, <1>2, <1>3, <1>4, <1>5, <2>2
      DEF TaskInv, AttemptsInv, FailuresAllowed, TaskOptions
    <2> QED
      BY <2>3, <2>4, <2>5 DEF TaskInv
  <1>8. ASSUME NEW i \in TaskId, i # id PROVE TaskInv(i)'
    <2>1. timers'[i] = timers[i] /\ TaskInv(i)
      BY <1>0, <1>8, TimerFiresFacts DEF IndInv
    <2> QED
      BY <1>0, <1>2, <1>4, <1>5, <1>8, <2>1, Frame
  <1> QED
    BY <1>6, <1>7, <1>8 DEF IndInv

\* A timer that finds the task gone or moved on, or whose task traps at once,
\* changes neither the map nor what is suspended.
LEMMA TimerOnlyInv ==
  ASSUME IndInv, NEW id \in TaskId, StaleTimer(id) \/ StartTraps(id)
  PROVE  IndInv'
  <1>0. /\ TimerFires(id)
        /\ orphans' \subseteq TaskId /\ orphans \subseteq orphans'
        /\ id \in DOMAIN pending /\ pending[id].status = "Scheduled" => id \in orphans'
        /\ UNCHANGED << pending, sequence, timeout, callback, executing, clock, outcomes, attempts >>
    BY DEF StaleTimer, StartTraps, Stored, stable, history, IndInv, TypeOK
  <1>1. TypeOK'
    BY <1>0, TimerFiresFacts DEF IndInv, TypeOK
  <1>2. TaskInv(id)'
    <2>1. TaskInv(id)
      BY DEF IndInv
    <2>2. timers'[id] = << >> /\ executing'[id] = << >> /\ timers[id] # << >>
      BY <1>0, TimerFiresFacts DEF TimerFires
    <2>3. FutureInv(id)'
      <3>1. id \in DOMAIN pending => pending[id].status = "Scheduled" \/ pending[id].status = "Waiting"
                                       \/ pending[id].status = "Running"
        BY DEF IndInv, TypeOK, InnerScheduledTask, StoredStatus
      <3>2. id \in DOMAIN pending => pending[id].status = "Scheduled" /\ id \in orphans'
        BY <3>1, <2>1, <2>2, <1>0 DEF TaskInv, FutureInv
      <3> QED
        BY <1>0, <2>2, <3>2 DEF FutureInv
    <2>4. HandedOutInv(id)' /\ OutcomeInv(id)' /\ AttemptsInv(id)'
      BY <1>0, <2>1, <2>2, TimerFiresFacts DEF TaskInv, HandedOutInv, OutcomeInv, AttemptsInv
    <2> QED
      BY <2>3, <2>4 DEF TaskInv
  <1>3. ASSUME NEW i \in TaskId, i # id PROVE TaskInv(i)'
    <2>1. timers'[i] = timers[i] /\ TaskInv(i)
      BY <1>0, <1>3, TimerFiresFacts DEF IndInv
    <2> QED
      BY <1>0, <1>3, <2>1, Frame
  <1> QED
    BY <1>1, <1>2, <1>3 DEF IndInv

\* The execution that returns was the task's only future: the task, if it is
\* still there, is Running, and afterwards it has no future at all.
LEMMA ReturnsFacts ==
  ASSUME IndInv, NEW id \in TaskId, NEW k \in DOMAIN executing[id], Returns(id, k)
  PROVE  /\ k = 1 /\ executing[id] # << >> /\ executing[id][k] \in Execution
         /\ timers[id] = << >> /\ id < sequence
         /\ id \in DOMAIN pending => pending[id].status = "Running"
         /\ executing' \in [TaskId -> Seq(Execution)]
         /\ executing'[id] = << >>
         /\ \A i \in TaskId \ {id} : executing'[i] = executing[i]
         /\ UNCHANGED << sequence, timeout, callback, timers, clock, attempts >>
         /\ \A n \in DOMAIN outcomes[id] : outcomes[id][n].status = "TimeoutOrPanic"
  <1>1. /\ executing \in [TaskId -> Seq(Execution)] /\ timers \in [TaskId -> Seq(BOOLEAN)]
        /\ FutureInv(id) /\ HandedOutInv(id) /\ OutcomeInv(id)
    BY DEF IndInv, TypeOK, TaskInv
  <1>2. /\ executing' = [executing EXCEPT ![id] = RemoveAt(executing[id], k)]
        /\ UNCHANGED << sequence, timeout, callback, timers, clock, attempts >>
    BY DEF Returns
  <1> DEFINE q == executing[id]
             t == timers[id]
  <1>3. q \in Seq(Execution) /\ k \in 1 .. Len(q) /\ Len(q) \in Nat
    BY <1>1
  <1>4. t \in Seq(BOOLEAN) /\ Len(t) \in Nat
    BY <1>1, EmptyIffLen0
  <1>5. Len(t) + Len(q) <= 1
    BY <1>1 DEF FutureInv
  <1> HIDE DEF q, t
  <1>6. Len(q) = 1 /\ k = 1 /\ Len(t) = 0
    <2> DEFINE a == Len(q)
               b == Len(t)
    <2>1. a \in Nat /\ b \in Nat /\ k \in 1 .. a /\ b + a <= 1
      BY <1>3, <1>4, <1>5
    <2> HIDE DEF a, b
    <2>2. a = 1 /\ k = 1 /\ b = 0
      BY <2>1
    <2> QED
      BY <2>2 DEF a, b
  <1>7. t = << >> /\ q # << >> /\ q[k] \in Execution
    <2>1. t = << >>
      BY <1>4, <1>6, EmptyIffLen0
    <2>2. q # << >>
      BY <1>3, <1>6, EmptyIffLen0
    <2>3. q[k] \in Execution
      BY <1>3
    <2> QED
      BY <2>1, <2>2, <2>3
  <1>8. RemoveAt(q, k) \in Seq(Execution) /\ RemoveAt(q, k) = << >>
    <2>1. RemoveAt(q, k) \in Seq(Execution) /\ Len(RemoveAt(q, k)) = 0
      BY <1>3, <1>6, RemoveAtType DEF q
    <2> QED
      BY <2>1, EmptyIffLen0
  <1>9. /\ executing' \in [TaskId -> Seq(Execution)]
        /\ executing'[id] = << >>
        /\ \A i \in TaskId \ {id} : executing'[i] = executing[i]
    BY <1>1, <1>2, <1>8 DEF q
  <1>10. id < sequence
    BY <1>1, <1>7 DEF HandedOutInv, q
  <1>11. id \in DOMAIN pending => pending[id].status = "Running"
    <2>1. id \in DOMAIN pending => pending[id].status \in StoredStatus
      BY DEF IndInv, TypeOK, InnerScheduledTask
    <2> QED
      BY <1>1, <1>7, <2>1 DEF FutureInv, StoredStatus, q
  <1>12. \A n \in DOMAIN outcomes[id] : outcomes[id][n].status = "TimeoutOrPanic"
    BY <1>1, <1>7 DEF OutcomeInv, q
  <1> QED
    BY <1>2, <1>6, <1>7, <1>9, <1>10, <1>11, <1>12 DEF q, t

\* An execution that ends by removing its task, Completed or Failed.
LEMMA ReturnFinishInv ==
  ASSUME IndInv, NEW id \in TaskId, NEW k \in DOMAIN executing[id], Returns(id, k),
         id \in DOMAIN pending, NEW status \in {"Completed", "Failed"},
         Finish({id}, status, executing[id][k].cb), UNCHANGED orphans
  PROVE  IndInv'
  <1> DEFINE o == [status |-> status, told |-> executing[id][k].cb]
  <1>0. /\ pending' = [i \in DOMAIN pending \ {id} |-> pending[i]]
        /\ outcomes' = [i \in TaskId |-> IF i = id THEN Append(outcomes[i], o) ELSE outcomes[i]]
    BY DEF Finish, Without, Restrict
  <1>1. TypeOK /\ TaskInv(id) /\ outcomes \in [TaskId -> Seq(Outcome)]
    BY DEF IndInv, TypeOK
  <1>2. o \in Outcome
    BY ReturnsFacts DEF Outcome, FinalStatus, Execution
  <1> HIDE DEF o
  <1>3. TypeOK'
    <2>1. pending' \in [DOMAIN pending' -> InnerScheduledTask] /\ DOMAIN pending' \subseteq TaskId
      BY <1>0, <1>1 DEF TypeOK
    <2>2. outcomes' \in [TaskId -> Seq(Outcome)]
      BY <1>0, <1>1, <1>2, AppendType
    <2> QED
      BY <1>1, <2>1, <2>2, ReturnsFacts DEF TypeOK
  <1>4. TaskInv(id)'
    <2>1. /\ timers'[id] = << >> /\ executing'[id] = << >> /\ id < sequence'
          /\ id \notin DOMAIN pending'
          /\ outcomes'[id] = Append(outcomes[id], o)
      BY <1>0, ReturnsFacts
    <2>2. FutureInv(id)' /\ HandedOutInv(id)'
      BY <1>1, <1>2, <2>1, AppendOutcome DEF FutureInv, HandedOutInv
    <2>3. OutcomeInv(id)'
      BY <1>1, <1>2, <2>1, AppendOutcome DEF OutcomeInv
    <2>4. AttemptsInv(id)'
      BY <2>1 DEF AttemptsInv
    <2> QED
      BY <2>2, <2>3, <2>4 DEF TaskInv
  <1>5. ASSUME NEW i \in TaskId, i # id PROVE TaskInv(i)'
    <2>1. TaskInv(i) /\ executing'[i] = executing[i]
      BY <1>5, ReturnsFacts DEF IndInv
    <2>2. UNCHANGED << sequence, timers, attempts >>
      BY ReturnsFacts
    <2>3. outcomes'[i] = outcomes[i]
      BY <1>0, <1>5
    <2>4. /\ i \in DOMAIN pending' <=> i \in DOMAIN pending
          /\ i \in DOMAIN pending => pending'[i] = pending[i]
      BY <1>0, <1>5
    <2> QED
      BY <2>1, <2>2, <2>3, <2>4, Frame
  <1> QED
    BY <1>3, <1>4, <1>5 DEF IndInv

\* The failed execution is counted in well-formed options.
LEMMA FailedOptionsType ==
  ASSUME TypeOK, NEW id \in TaskId, NEW e \in Execution
  PROVE  LET old == IF id \in DOMAIN pending THEN pending[id].options ELSE e.options
         IN /\ old \in TaskOptions
            /\ FailedOptions(id, e) \in TaskOptions
            /\ FailedOptions(id, e).failures = old.failures + 1
            /\ FailedOptions(id, e).retry_strategy = old.retry_strategy
  <1> DEFINE old == IF id \in DOMAIN pending THEN pending[id].options ELSE e.options
  <1>1. old \in TaskOptions
    BY DEF TypeOK, InnerScheduledTask, Execution
  <1>2. FailedOptions(id, e) = [old EXCEPT !.failures = old.failures + 1]
    BY DEF FailedOptions
  <1> HIDE DEF old
  <1>3. /\ FailedOptions(id, e) \in TaskOptions
        /\ FailedOptions(id, e).failures = old.failures + 1
        /\ FailedOptions(id, e).retry_strategy = old.retry_strategy
    BY <1>1, <1>2 DEF TaskOptions
  <1> QED
    BY <1>1, <1>3 DEF old

\* A failed execution that is retried keeps the invariant, also when it puts a
\* task that timed out back into the map: the failure it counts pays for the
\* execution that is to come.
LEMMA ReturnErrRetryInv ==
  ASSUME IndInv, NEW id \in TaskId, NEW k \in DOMAIN executing[id], ReturnErrRetry(id, k)
  PROVE  IndInv'
  <1> DEFINE e == executing[id][k]
             old == IF id \in DOMAIN pending THEN pending[id].options ELSE e.options
             delay == ShouldWait(old.retry_strategy.backoff_policy, old.failures + 1)
             new == [FailedOptions(id, e) EXCEPT !.execute_after = e.start + delay]
             task == [options |-> new, status |-> "Waiting", timestamp_secs |-> e.start]
  <1>0. /\ Returns(id, k) /\ UNCHANGED << outcomes, orphans >>
        /\ RetryDecision(FailedOptions(id, e), TRUE)[1]
        /\ RetryTask(id, e, RetryDecision(FailedOptions(id, e), TRUE)[2])
    BY DEF ReturnErrRetry
  <1>1. TypeOK /\ TaskInv(id) /\ e \in Execution /\ e.start \in Nat
    BY <1>0, ReturnsFacts DEF IndInv, Execution
  <1>2. /\ old \in TaskOptions
        /\ FailedOptions(id, e) \in TaskOptions
        /\ FailedOptions(id, e).failures = old.failures + 1
        /\ FailedOptions(id, e).retry_strategy = old.retry_strategy
    BY <1>1, FailedOptionsType
  <1> HIDE DEF e, old
  <1>3. /\ RetryDecision(FailedOptions(id, e), TRUE)[2] = delay
        /\ ShouldRetryPolicy(old.retry_strategy.retry_policy, old.failures + 1, clock)
    BY <1>0, <1>2 DEF RetryDecision, ShouldRetry
  <1>4. delay \in Nat
    BY <1>2, ShouldWaitType DEF TaskOptions, RetryStrategy
  <1> HIDE DEF delay
  <1>5. /\ new \in TaskOptions
        /\ new.failures = old.failures + 1
        /\ new.retry_strategy = old.retry_strategy
    BY <1>1, <1>2, <1>4 DEF TaskOptions
  <1>6. pending' = [i \in DOMAIN pending \cup {id} |-> IF i = id THEN task ELSE pending[i]]
    BY <1>0, <1>3 DEF RetryTask, Insert
  <1> HIDE DEF new
  <1>7. /\ task \in InnerScheduledTask
        /\ task.status = "Waiting" /\ task.options = new
    BY <1>1, <1>5 DEF InnerScheduledTask, StoredStatus
  <1> HIDE DEF task
  <1>8. FailuresAllowed(new)
    <2>1. old.failures + 1 # 0
      BY <1>2 DEF TaskOptions
    <2> QED
      BY <1>3, <1>5, <2>1 DEF ShouldRetryPolicy, FailuresAllowed
  <1>9. TypeOK'
    <2>1. pending' \in [DOMAIN pending' -> InnerScheduledTask] /\ DOMAIN pending' \subseteq TaskId
      BY <1>1, <1>6, <1>7 DEF TypeOK
    <2> QED
      BY <1>0, <1>1, <2>1, ReturnsFacts DEF TypeOK
  <1>10. TaskInv(id)'
    <2>1. /\ timers'[id] = << >> /\ executing'[id] = << >> /\ id < sequence'
          /\ outcomes'[id] = outcomes[id] /\ attempts'[id] = attempts[id]
          /\ id \in DOMAIN pending' /\ pending'[id] = task
      BY <1>0, <1>6, ReturnsFacts
    <2>2. FutureInv(id)' /\ HandedOutInv(id)'
      BY <1>7, <2>1 DEF FutureInv, HandedOutInv
    <2>3. OutcomeInv(id)'
      BY <1>0, <2>1, ReturnsFacts DEF OutcomeInv
    <2>4. attempts[id] <= old.failures + 1
      <3>1. id \in DOMAIN pending => pending[id].status = "Running"
        BY <1>0, ReturnsFacts
      <3>2. executing[id] # << >> /\ e = executing[id][1]
        BY <1>0, ReturnsFacts DEF e
      <3> QED
        BY <1>1, <3>1, <3>2 DEF TaskInv, AttemptsInv, old
    <2>5. AttemptsInv(id)'
      <3>1. pending'[id].status = "Waiting" /\ pending'[id].options = new
        BY <1>7, <2>1
      <3>2. FailuresAllowed(pending'[id].options) /\ pending'[id].options.failures = old.failures + 1
        BY <1>5, <1>8, <3>1
      <3>3. old.failures \in Nat
        BY <1>2 DEF TaskOptions
      <3> QED
        BY <2>1, <2>4, <3>1, <3>2, <3>3 DEF AttemptsInv, FailuresAllowed
    <2> QED
      BY <2>2, <2>3, <2>5 DEF TaskInv
  <1>11. ASSUME NEW i \in TaskId, i # id PROVE TaskInv(i)'
    <2>1. TaskInv(i) /\ executing'[i] = executing[i]
      BY <1>0, <1>11, ReturnsFacts DEF IndInv
    <2>2. UNCHANGED << sequence, timers, attempts >>
      BY <1>0, ReturnsFacts
    <2>3. /\ i \in DOMAIN pending' <=> i \in DOMAIN pending
          /\ i \in DOMAIN pending => pending'[i] = pending[i]
      BY <1>6, <1>11
    <2> QED
      BY <1>0, <2>1, <2>2, <2>3, Frame
  <1> QED
    BY <1>9, <1>10, <1>11 DEF IndInv

\* A return that panics keeps the invariant: the task stays, without a future.
LEMMA ReturnTrapsInv ==
  ASSUME IndInv, NEW id \in TaskId, NEW k \in DOMAIN executing[id], ReturnTraps(id, k)
  PROVE  IndInv'
  <1>0. Returns(id, k) /\ orphans' = orphans \cup {id} /\ UNCHANGED << pending, outcomes >>
    BY DEF ReturnTraps
  <1>1. /\ executing' \in [TaskId -> Seq(Execution)] /\ executing'[id] = << >>
        /\ timers[id] = << >> /\ id < sequence
        /\ id \in DOMAIN pending => pending[id].status = "Running"
        /\ \A i \in TaskId \ {id} : executing'[i] = executing[i]
        /\ UNCHANGED << sequence, timeout, callback, timers, clock, attempts >>
    BY <1>0, ReturnsFacts
  <1>2. TypeOK'
    BY <1>0, <1>1 DEF IndInv, TypeOK
  <1>3. TaskInv(id)'
    <2>1. TaskInv(id)
      BY DEF IndInv
    <2>2. FutureInv(id)'
      BY <1>0, <1>1 DEF FutureInv
    <2>3. HandedOutInv(id)' /\ OutcomeInv(id)' /\ AttemptsInv(id)'
      BY <1>0, <1>1, <2>1 DEF TaskInv, HandedOutInv, OutcomeInv, AttemptsInv
    <2> QED
      BY <2>2, <2>3 DEF TaskInv
  <1>4. ASSUME NEW i \in TaskId, i # id PROVE TaskInv(i)'
    BY <1>0, <1>1, <1>4, Frame DEF IndInv
  <1> QED
    BY <1>2, <1>3, <1>4 DEF IndInv

\* A message of a task's future.
LEMMA FutureStepInv ==
  ASSUME IndInv, NEW id \in TaskId, FutureStep(id)
  PROVE  IndInv'
  <1>1. CASE StartExecution(id)
    BY <1>1, StartExecutionInv
  <1>2. CASE StaleTimer(id) \/ StartTraps(id)
    BY <1>2, TimerOnlyInv
  <1>3. ASSUME NEW k \in DOMAIN executing[id], ReturnOk(id, k) PROVE IndInv'
    BY <1>3, ReturnFinishInv DEF ReturnOk, CompleteTask
  <1>4. ASSUME NEW k \in DOMAIN executing[id], ReturnErrRetry(id, k) PROVE IndInv'
    BY <1>4, ReturnErrRetryInv
  <1>5. ASSUME NEW k \in DOMAIN executing[id], NEW recoverable \in BOOLEAN,
               ReturnErrFail(id, k, recoverable)
        PROVE  IndInv'
    BY <1>5, ReturnFinishInv DEF ReturnErrFail
  <1>6. ASSUME NEW k \in DOMAIN executing[id], ReturnTraps(id, k) PROVE IndInv'
    BY <1>6, ReturnTrapsInv
  <1> QED
    BY <1>1, <1>2, <1>3, <1>4, <1>5, <1>6 DEF FutureStep

-----------------------------------------------------------------------------
(* The invariant of the specification *)

\* Every step of the scheduler keeps the invariant.
LEMMA NextInv == IndInv /\ [Next]_vars => IndInv'
  <1> SUFFICES ASSUME IndInv, [Next]_vars PROVE IndInv'
    OBVIOUS
  <1>1. ASSUME NEW n \in 1 .. MaxBatch, NEW batch \in [1 .. n -> AppendOptions], AppendTasks(batch)
        PROVE  IndInv'
    BY <1>1, AppendTasksInv
  <1>2. ASSUME NEW id \in TaskId, NEW options \in RescheduleOptions, Reschedule(id, options)
        PROVE  IndInv'
    BY <1>2, RescheduleInv
  <1>3. CASE Tick \/ (\E secs \in Timeouts : SetRunningTaskTimeout(secs)) \/ OnCompletionCallback
    BY <1>3, NoTaskInv
  <1>4. CASE Run
    BY <1>4, RunInv
  <1>5. ASSUME NEW id \in TaskId, FutureStep(id) PROVE IndInv'
    BY <1>5, FutureStepInv
  <1>6. CASE Upgrade
    BY <1>6, UpgradeInv
  <1>7. CASE UNCHANGED vars
    BY <1>7 DEF vars, stable, heap, history, IndInv, TypeOK, TaskInv, FutureInv, HandedOutInv,
      OutcomeInv, AttemptsInv, FailuresAllowed, TimeSecs
  <1> QED
    BY <1>1, <1>2, <1>3, <1>4, <1>5, <1>6, <1>7 DEF Next

\* The inductive invariant holds in every state, whatever the order of run(),
\* timers, returns, reschedules, traps and upgrades.
THEOREM Invariance == Spec => []IndInv
  BY InitInv, NextInv, PTL DEF Spec

\* Type correctness of the scheduler: what the stable map holds is always a
\* task that is Waiting, Scheduled or Running, with well-formed options.
THEOREM TypeCorrect == Spec => []TypeOK
  <1>1. IndInv => TypeOK
    BY DEF IndInv
  <1> QED
    BY <1>1, Invariance, PTL

\* A task is never executed twice at a time: process_pending_task never has
\* two futures alive for one id.
THEOREM OneFuture == Spec => []OneFuturePerTask
  <1>1. IndInv => OneFuturePerTask
    BY DEF IndInv, TaskInv, FutureInv, OneFuturePerTask
  <1> QED
    BY <1>1, Invariance, PTL

\* Only a trap or an upgrade leaves a Scheduled or Running task in the map
\* without the future that will move it on.
THEOREM ActiveOwned == Spec => []ActiveTaskHasItsFuture
  <1>1. IndInv => ActiveTaskHasItsFuture
    <2> SUFFICES ASSUME IndInv, NEW i \in DOMAIN pending \ orphans
                 PROVE  CASE pending[i].status = "Waiting" -> timers[i] = << >> /\ executing[i] = << >>
                          [] pending[i].status = "Scheduled" -> Len(timers[i]) = 1 /\ executing[i] = << >>
                          [] OTHER -> /\ timers[i] = << >>
                                      /\ Len(executing[i]) = 1
                                      /\ executing[i][1].start = pending[i].timestamp_secs
      BY DEF ActiveTaskHasItsFuture
    <2>1. /\ i \in TaskId /\ FutureInv(i)
          /\ timers[i] \in Seq(BOOLEAN) /\ executing[i] \in Seq(Execution)
      BY DEF IndInv, TypeOK, TaskInv
    <2> DEFINE a == Len(timers[i])
               b == Len(executing[i])
    <2>2. a \in Nat /\ b \in Nat /\ (timers[i] = << >> <=> a = 0) /\ (executing[i] = << >> <=> b = 0)
      BY <2>1, EmptyIffLen0
    <2>3. a + b <= 1
      BY <2>1 DEF FutureInv
    <2>4. (a = 0 \/ a = 1) /\ (b = 0 \/ b = 1)
      <3> HIDE DEF a, b
      <3> QED
        BY <2>2, <2>3
    <2> QED
      BY <2>1, <2>2, <2>4 DEF FutureInv
  <1> QED
    BY <1>1, Invariance, PTL

\* No task is lost and no append overwrites one: an id that append_tasks
\* handed out is in the map or has left it with a status.
THEOREM NoLoss == Spec => []NoTaskLost
  <1>1. IndInv => NoTaskLost
    BY BoundsAssumption DEF IndInv, TypeOK, TaskInv, HandedOutInv, NoTaskLost, TaskId
  <1> QED
    BY <1>1, Invariance, PTL

\* A task reported as Completed or Failed is gone for good: nothing can put it
\* back into the map or report it again.
THEOREM Final == Spec => []FinalIsFinal
  <1>1. IndInv => FinalIsFinal
    BY DEF IndInv, TaskInv, OutcomeInv, FinalIsFinal
  <1> QED
    BY <1>1, Invariance, PTL

\* RetryPolicy::MaxRetries {r} means at most r + 1 executions, and None one,
\* whatever times out, fails late or is rescheduled.
THEOREM Attempts == Spec => []AttemptsBounded
  <1>1. IndInv => AttemptsBounded
    <2> SUFFICES ASSUME IndInv, NEW i \in DOMAIN pending
                 PROVE  AttemptsAllowed(pending[i].options.retry_strategy.retry_policy, attempts[i])
      BY DEF AttemptsBounded
    <2>1. /\ i \in TaskId /\ attempts[i] \in Nat
          /\ pending[i].options \in TaskOptions
      BY DEF IndInv, TypeOK, InnerScheduledTask
    <2>2. /\ FailuresAllowed(pending[i].options)
          /\ attempts[i] <= pending[i].options.failures
                              + (IF pending[i].status = "Running" THEN 1 ELSE 0)
      BY <2>1 DEF IndInv, TaskInv, AttemptsInv
    <2> QED
      BY <2>1, <2>2 DEF AttemptsAllowed, FailuresAllowed, TaskOptions, RetryStrategy, RetryPolicy
  <1> QED
    BY <1>1, Invariance, PTL
=============================================================================
