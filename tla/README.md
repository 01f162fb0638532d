# A TLA+ verification of canister-sdk

canister-sdk is a set of Rust crates for canisters of the Internet Computer
(IC). This directory holds TLA+ models of its parts that have state and logic of
their own, TLC configurations that check them on small instances, and TLAPS
proofs of what holds for every instance.

A canister processes one message at a time. A message that traps is rolled back
as a whole; a message that awaits an inter-canister call or a timer is committed
there, and any other message may run before it goes on. Stable memory survives
an upgrade, the heap, timers and suspended futures do not. So an *action* of a
model is one message (or the part of it up to an await), and the hard behaviour
is what happens between two of them.

## Inventory

| part | crate | state | operations | what is hard | correct means |
|---|---|---|---|---|---|
| task scheduler | ic-task-scheduler | stable map of tasks, stable id counter, timeout, callback, futures | append, reschedule, run, callback and timeout settings, the future of a task | futures interleave with run(), timeouts, reschedules; upgrades and traps lose futures | a task is not executed twice at a time, nor more often than allowed; none is lost; due ones are launched |
| retry strategy | ic-task-scheduler | plain data | should_retry | saturation, off-by-one | the delays and limits of the comments |
| ring buffer | ic-stable-structures | stable vector, stable cell with start, length, capacity | push, pop, truncate, clear, resize, reads | wrap-around, stale values behind the indices | it is a bounded history |
| token terminal | ic-payments | recovery list in stable memory, balances, fee configuration, transfer counter | deposit, deposit_all, withdraw, recover_all, set_fee, set_minting_account | lost replies, retries, deduplication that ends, fee changes between steps, concurrent calls | every transfer is executed once, credited or refunded as the ledger says, and ends |
| canister log | ic-log | in-memory ring of records with absolute ids, settings, access lists | print, take_records, capacity, filter, access | ids against eviction and capacity changes | a page shows the records with the ids it names |
| cached maps | ic-stable-structures | LRU cache before a stable map or multimap | get, insert, remove, remove_partial, pop, clear, iteration | readers interleave between two lock regions; eviction; the cache against storage | the cache is invisible |
| stable maps, vectors, log | ic-stable-structures | wrappers over dfinity_stable_structures | the same, without a cache | bounds of the multimap's ranges | they are ordered maps |
| memory-mapped files | ic-stable-structures | files, mappings, locks | open, grow, write, back up, drop | threads; a killed process; loss of power between write-backs | what was flushed survives, new pages are zero, a backup shows one instant |
| cycle auction | ic-auction | bids, history, period, fee ratio, controller | bid, run, configure | the hook holds an auction before the method that was called | every bid is in one auction |
| metrics | ic-metrics | map from time to snapshot, interval, timers | insert, set the interval, set a timer | rounding while the interval changes | the newest snapshot is the last |
| versioned storage | ic-storage, ic-canister-macros | stable memory with a version and an encoded state | read, write, the upgrade hooks | chains of upgrades, downgrades, no memory left | an upgrade keeps the state |
| ic-kit | ic-kit | mock context: cycles, handlers, storage, watcher | the system API on the host, builders of handlers | panics half-way that a test catches | cycles are conserved, and the watcher tells the truth |
| canister macros | ic-canister, ic-canister-macros | global variables of the macros; caller and id of the test context; responders | attributes, generate_exports!, generate_idl!, canister_call! and its relatives | order of macro uses; nested calls that fail | each method is listed once; a method runs as its own canister |
| token helpers | ic-helpers | none | arithmetic and conversions | limits of u128, U256 and f64 | what the integers do, or None |
| client, exports, randomness | ic-canister-client, ic-exports, ic-crypto-getrandom-for-wasm | none | | input and output | not modelled |

The parts meet in stable memory: the scheduler keeps its tasks in a stable map
and its counter in a stable cell; the log and the scheduler's users use the ring
buffer and the cached maps; versioned state lies in stable memory between two
releases; on the host, stable memory may be a memory-mapped file, and calls go
through the mock context. The auction counts in the intervals of the metrics.
The terminal keeps its recovery list in a stable map
and calls an ICRC-1 ledger, which is not part of the repository.

## Plan

1. *Done:* the scheduler with its retry strategies; the ring buffer with its
   abstract specification; the token terminal; the canister log. Proofs about
   the first two.
2. *Done:* the cached maps, shown to implement the plain map; memory-mapped
   files with crashes; auction, metrics, versioned storage; the mock of the IC,
   calls between canisters in tests, and the macros; token amounts.
3. *Done:* proofs of every safety invariant of the runs, of the action
   properties and of the two refinements, with the inductive invariants they
   need.
4. *Done:* the terminal for fees that change while no reply is lost.
5. Left: nothing of the plan. What the prover cannot do is under "Model-checked
   only".

## Modules

| module | models |
|---|---|
| `Retry` | retry and backoff policies, as operators |
| `BackoffSchedule` | an operation that keeps failing, against the schedule that the comments describe |
| `Scheduler`, `MCScheduler` | `Scheduler`, extends `Retry` |
| `SchedulerProofs` | the theorems about `Scheduler` |
| `BoundedHistory` | what a bounded history promises (abstract) |
| `RingBuffer` | `StableRingBuffer`, with the mapping to `BoundedHistory` |
| `RingBufferProofs` | the theorems about `RingBuffer` |
| `Transfer` | the data of a transfer: accounts, fees, id, next step |
| `TokenTerminal`, `MCTokenTerminal` | `TokenTerminal`, its recovery list and the ledger, extends `Transfer` |
| `TokenTerminalProofs` | the theorems about what the terminal does by itself |
| `TokenLedgerProofs` | those about the terminal and its ledger, extends `TokenTerminalProofs` |
| `LogCanister`, `MCLogCanister` | `InMemoryWriter`, `LogState` and the methods of `LogCanister` |
| `LogCanisterProofs` | the theorems about `LogCanister` |
| `KeyOrder` | maps from pairs of keys, and the order of the pairs |
| `OrderedMap` | what the map traits promise (abstract), extends `KeyOrder` |
| `LruCache` | `SyncLruCache`, one operator per lock region |
| `CachedMap` | `CachedStableBTreeMap` and `CachedStableMultimap`, with the mapping to `OrderedMap` |
| `CachedMapProofs` | the theorems about `CachedMap`: coherence and the refinement |
| `MappedMemory` | `MemoryMappedFileMemoryManager` and `MemoryMappedFile` |
| `MCStableStructures` | ring buffer, cached maps and mapped files for TLC |
| `MappedMemoryProofs` | the theorems about `MappedMemory`, and about the structures as `MCStableStructures` composes them |
| `Interval` | `Interval` of ic-metrics |
| `Metrics` | `MetricsMap` and its timers, extends `Interval` |
| `Auction` | `Auction`, `AuctionState` and its hook, extends `Interval` |
| `VersionedStorage` | ic-storage's stable module and the upgrade hooks of `derive(Canister)` |
| `MockHandlers` | cycles and call handlers of `MockContext` |
| `MockState` | storage, certified data, call state and watcher of `MockContext` |
| `CanisterCalls` | `canister_call!` and its relatives on the host, virtual responders |
| `ApiMacros` | the method attributes, `generate_exports!`, `generate_idl!`, `Idl::merge` |
| `Tokens` | `Tokens128` and `Tokens256` |
| `MCLibraries` | `BackoffSchedule`, `Metrics`, `Auction`, `VersionedStorage`, `MockHandlers`, `MockState`, `CanisterCalls`, `ApiMacros`, `Tokens` and `LogCanister` for TLC |
| `LibraryProofs` | the theorems about each of these libraries but the log, and about all of them as `MCLibraries` composes them |

A definition marked "Mutant" is a plausible bug next to the definition it would
replace; `PROJECT.json` names the property that each one breaks.

`MCStableStructures` and `MCLibraries` check several components in one run. The
components share no state, so their product would show nothing more: a variable
`subject` names the one that a behaviour is about, and the others keep one
initial state. The state graph is the disjoint union of the components' graphs.

### Scheduler

`pending` and `sequence` are the stable structures. `timers[id]` and
`executing[id]` are the futures that `process_pending_task` spawned: first those
whose zero-delay timer has not fired, then those suspended at `execute().await`,
each with what it has captured. `run_with_timestamp` is one action (`Run`): it
sets due tasks to Scheduled, sets their timers, and removes the late ones. The
future of a task is `StartExecution` or `StaleTimer`, then one of `ReturnOk`,
`ReturnErrRetry`, `ReturnErrFail` and `ReturnTraps`. The two `unwrap()` calls on
a task that was removed meanwhile are the guard `id \in DOMAIN pending` and, as
the panic they are, part of `ReturnTraps`. `Upgrade` forgets the heap.

`outcomes`, `attempts` and `orphans` are history. An attempt counts from the
last reschedule; a running execution is the first of the new options, as the
comment on `reschedule` says.

The clock counts in units of which `E9` are a second, because retry timeouts
compare nanoseconds and everything else seconds. Task contents and the context
are left out: a task is what its `execute()` returns, and that is any result.

### Ring buffer

One action per method; `returned` is what the method returned, so that the
refinement also covers results. The mapping takes the history `Items` out of the
vector along the indices. `resize` copies what `Preserved` names.

### Token terminal

A *flow* is one call of a public method with the terminal it works on (the
methods borrow the terminal mutably across awaits, so concurrent calls have
terminals of their own and share only the list, the balances and the saved
configuration). An inter-canister call is two steps: the ledger's
(`LedgerTransfers`, `ReplyLost`, `CallLost`, `LedgerReads`, `QueryLost`) and the
continuation (`OnSuccess`, `OnUnknown`, `OnWrongFee`, `OnRejected`, ...). The
continuation runs the code to its next await through the operators `Complete`,
`Reject`, `Retry` and `Return`, which have the names of the functions they
stand for; `Return` ends a deposit or a withdrawal, and goes on with the next
transfer in `recover_all`.

The ledger is external and modelled from its use: it refuses a fee that is not
its own, then a transfer that is too old, then a duplicate (all fields and the
memo equal), then one that is not covered. Its other refusals (no such token,
GenericError, BadBurn, CreatedInFuture) take the same way through the code as
the last one and are not told apart. Memos identify transfers in the
histories `requests`, `credits` and `outcome`.

Left out: other tokens in the list, more than one user, a minting account that
is one of the accounts used, errors of the `Balances` implementation, calls of
`transfer()` with transfers made by hand, and upgrades.

### Canister log

`records` is `LOG_RECORDS` (the count of all records and the ring), `config` the
filter of the logger, `cell` the settings and the access list in stable memory.
A record is its number, so that what `take_records` returns can be compared with
what was logged. A successful `set_logger_filter` logs a record itself.
`Upgrade` forgets the heap and runs `reload`; `init` is called once, by the
canister's own `init`, as its comment demands. The purely reading methods are
not actions: the properties quantify over all their arguments. `since` is
history: the count of records when the capacity last changed so that the ring
has room for records that it had dropped. Capacities are arbitrary: `settings.rs`
asks the old `LogSettings` for powers of two, but `LogSettingsV2` and
`set_logger_in_memory_records` take any number.

Left out: text, its cut at `max_record_length`, the console, several modules
with filters of their own.

### Cached maps

`inner` is the stable map, `cache` the LRU map as a function from keys to values
and ages. A `get` is two steps, `LookUp` and `Fill`, because
`get_or_try_insert_with` locks the cache twice, and any number of readers may be
between the two; writers borrow the structure mutably, so they are excluded
(`Exclusive`). `answered` is what the last operation returned: with the mapping
to `OrderedMap` the refinement covers every result as well as the contents. One
specification serves the map and the multimap (`structure`): the operations they
share differ in the type of the key only. `Reopen` is a new structure over the
same memory.

### Memory-mapped files

A memory is a file of pages; `view` is what processes see of it, `durable` what
would be left after a loss of power. `WriteBack` is the system's right to write
a page at any time. `save_copies_to` is a sequence of steps (the lock of the
table, each memory's lock in the order of the table, then flush, copy and unlock one after
the other), and between them other threads use the memories whose locks are
free. `ProcessKilled` keeps the view, `PowerLoss` goes back to the disk.

### Versioned storage

A cell of the stable memory is the version or a chunk of an encoded value, so a
shorter value leaves cells of a longer one behind it, as in the code. `Read`
goes through `RecursiveUpgrade`; a state carries the list of the upgrades it has been
through. The upgrade is `PreUpgrade` of the old code, then `PostUpgrade` or
`PostUpgradeTraps` of any release, which the IC undoes as a whole. A release
without upgrade methods writes nothing (`PreUpgradeNone`): what an older one has
written (`persisted`, history) is then read again.

### Metrics and auction

Time is counted in small units. A snapshot is its number, so that the
order of the keys can be compared with the order of the snapshots. In the
auction every method runs after the hook `canister_pre_update` (`PreUpdate`),
except `run_auction` itself; whether the canister's own `disburse_rewards`
succeeds is a choice. The fee ratio is none, all or a part.

### The mock of the IC

`MockHandlers` has the builders of a handler as well as the calls: a test
assembles a pipeline of methods, closures and a canister with a context of its
own, then the code under test sends cycles through it. Each atom of a
method is applied in turn; a panic, which a test may catch, leaves what was done
before it. A closure may also set the cycles or the balance of its context.
`ledger` is history: the cycles that were put into the two contexts (`held`), and
those that calls which panicked carried (`risked`), the only ones that may get lost.
`MockState` has the storage by type, the stable storage, certified data and
the watcher's flags; a reference from `get_mut` may be written later
(`WriteBorrowed`), also under another watcher.

### Calls between canisters in tests

On the host the macros run the callee in place and switch `who` and `id` of the
global context. `open` is the stack of running calls; `wrote` remembers which
canister wrote which state. `Panic` unwinds past the restoring lines; the
context is then wrong until the next `inject()`, which is the next test.

### Macros

A behaviour is the expansion of one crate: any sequence of attributes on
methods with any signature, state getters, exports and IDLs. The four global
variables of the macros are the state. Names need not differ: a second method of
one name replaces the first in `METHODS` (`repeated`), and an export name that is
used twice does not link (`broken`), as with two `#[init]` methods.

### Tokens

A u128 has two bytes, a U256 four, and a byte `Byte` values; `left` and `right`
run through all pairs of amounts. The operators follow the code's own way
(through bytes, their weights `256u128.pow(i)`, limbs and casts), the laws
compare them with the integers.

## Runs

| run | question | result |
|---|---|---|
| `scheduler_tasks` | two tasks, batches, timeouts, reschedules, upgrades: can a task be executed twice at a time, end twice, be stuck without cause, vanish, or be executed too often? | no |
| `scheduler_live` | are due tasks launched, and does the scheduler drain? | yes |
| `scheduler_late_error` | does a removed task stay removed? | no: a late error inserts it again |
| `stable_structures` | is the ring buffer a bounded history? is the cache invisible, with two readers and with capacities 0 and 2? do flushed pages survive, are new pages zero, is a backup one instant? | yes |
| `terminal_faults` | two transfers, two concurrent calls, lost calls and replies: exactly once, settled right and none given up too early, solvent, one owner? | yes |
| `terminal_fees` | the fees change at any time and calls do not reach the ledger: settled with the fee that was paid, nothing lost, and does recovery come to an end? | yes |
| `terminal_recovery` | calls, replies and balance queries are lost while the fee stays: settled or kept, and does recovery come to an end? | yes |
| `terminal_fee_lost_reply` | exactly once, if a reply is lost and the fee changes? | no |
| `terminal_collision` | are two transfers that differ in the memo both kept? | no |
| `terminal_zeroed` | is a new deposit settled right, if the list is rewritten when the fee is learnt? | no: it is given up as too old |
| `libraries` | do retry delays follow the comments; are snapshots in order; is token arithmetic exact; is each bid in one auction; are cycles conserved and watched; do nested calls keep their context; do upgrades keep the state; is each method in one IDL; do pages of the log show the right records under the right numbers, does the logger run with the stored settings, does a log without administrators stay as it is? | yes |
| `log_page` | does a page start at the record asked for? | no: not after the ring has dropped records and grown |

The runs that end in a violation each state a sentence of the documentation;
`PROJECT.json` quotes it and names the line that disagrees.

### Other disagreements met while modelling

These follow from the same modules; no run is kept for them.

- `scheduler.rs:161`: a timer that was set before a reschedule still executes
  the task, before the new `execute_after` (`task.rs:215`).
- `scheduler.rs:200`: the delay of a retry counts from the start of the
  execution, not from the failure (`retry.rs:75`).
- `scheduler.rs:101`: the sum of a very large timeout and the start time
  overflows, and a task in time is removed (`scheduler.rs:57`).
- `scheduler.rs:127`: the completion callback runs with the task map locked; one
  that uses the scheduler makes every `run()` fail once a task is out of time
  (`CallbackReenters`), though `run()` executes all pending tasks
  (`scheduler.rs:71`).
- `writer.rs:112`: an underflow of the offset (`log_page`) panics in a build with
  overflow checks; without them a reduction of the capacity can keep an older
  record and drop the latest, whose number the older one then has
  (`canister.rs:72`). `IdsAreAbsolute` bounds the damage: such records are older
  than the change that left room, and so are the numbers they bear.
- `state.rs:153`: when the last permission has been removed, `reload()` fails with
  InvalidMemory, though the memory holds the settings it has stored itself.
- `token_terminal.rs:475`: after the deduplication period TransferFailed(TooOld) is returned
  for a deposit that the ledger may have executed (`error.rs:42`; `lib.rs:26` says
  so). `Settled` allows that, and `terminal_zeroed` shows the case before that
  time.
- `token_terminal.rs:259`: if the fee rises above what is left, the second step is invalid and
  the tokens stay on the interim account (`lib.rs:31`).
- `token_terminal.rs:441`: a fee of zero is never learnt, so that a transfer with an expected
  fee of zero keeps being refused (`lib.rs:29`).
- `token_terminal.rs:444`: a failing `get_minting_account` loses a withdrawal that was
  already debited.
- `token_terminal.rs:477`: when the balance query of a recovery fails, the error is returned and
  the transfer is in no list any more, though "If the recovery was not
  successful [...] the transfer is returned to the recovery list"
  (`token_terminal.rs:360`); `FailingQueries` of `TokenTerminal` has the case.
- `ic-auction/src/state.rs:76`: the nanoseconds until the next auction are divided by
  1_000_000, and TooEarlyToBeginAuction shows the milliseconds as "{0}s remaining"
  (`error.rs:15`).
- `ic-canister/src/lib.rs:611`: `from_principal` is said to panic for a principal that was
  not initialised; the generated code makes a default state for it.
- `handler.rs:20`: `perform` is "Only called if `accept()` first returned true",
  but a `Canister` with a default accepts on its own and then runs the named
  method without asking it.
- `api.rs:545`: after `generate_idl!` the init arguments are an empty list, not
  none: a second IDL is a class too, and merging the two panics (`idl.rs:65`).
- `api.rs:395`: `generate_exports!` leaves the exports for the next one, so two of
  them in one crate export a method twice.
- `tokens.rs:88`: `to_f64` is said to floor the mantissa; the cast rounds to
  nearest, and so does every sum in `to_f64` of `Tokens256` (`tokens.rs:275`).
- `tokens.rs:82`: `from_f64` of `Tokens128` returns `u128::MAX` for 2^128, which is
  larger, though its comment says None (`tokens.rs:78`), and 0 for NaN.
  `FloatLaws` leaves the float of `u128::MAX` out.
- `tokens.rs:265`: the "rounded" square root is the floor.
- `memory.rs:150`: `grow` returns the new size in pages; the `Memory` trait it
  implements (external) specifies the old one.

### Bounds

*Scheduler.* Two tasks share the id counter, `run()` and the clock, and may be
appended as a batch; one task has the whole life of a task. Failures go to 2
with one retry allowed, so that exhaustion, and a failure after a reschedule,
happen. The clock (0 to 3) passes the timeout twice.
`set_running_task_timeout` is called with 0, the harshest value.

*Ring buffer.* `stable_structures`, capacities 1 to 3 with four values wrap around and shrink at
every offset. `U64` is 8, so that all arguments of the reads are tried.

*Log.* Capacities 0, 1, 2, 3 and 5 with ten records: rings fill, wrap around
twice, grow, shrink and pause, and the modulus (16 for 2^32) is a multiple of
some capacities and not of others. Two principals, with all access lists.

*Cached maps.* Two values for each half of a key, so that a first key has several
entries and every key has neighbours; two readers, both of which may miss one
key; capacity 0 takes nothing and capacity 2 evicts. Values and readers are
symmetric.

*Mapped files.* Two memories of up to two pages, three in all: they grow twice,
one can be locked while the other is written, and a page can be written back
before or after its neighbour.

*Libraries.* Metrics: intervals of 0 to 3 seconds of 4 units, a history of 8 and
a clock to 9, so that snapshots are overwritten, rounded and dropped; u64 ends
at 16, and what lies beyond is excluded by name. Auction: two bidders with two
cycles each and time for two auctions and a changed period. Mock: two handlers,
three builder calls, closures that accept, set the cycles or the balance, or panic. Calls: two canisters and a virtual one,
three calls deep. Storage: three versions, encodings of one to three cells in at most two
pages of two, so that a write can run out of memory. Macros: two methods and two
IDLs. Tokens: bytes of four values, all pairs of amounts.

*Backoff.* `u32::MAX` is 31, reached by the periods and multipliers up to 4
within the five failures.

*Terminal.* The deduplication period is 3 ticks, its margin 1, and the attempts
at one transfer may take up to the margin (`MaxLatency`), as the comment on
`TX_WINDOW` intends; recovery happens within, at and after the period. In
`terminal_faults` the canister knows the fee of the ledger, and the three faults
put two transfers in the list, or let a recovery fail as well; in
`terminal_fees` every first attempt may be refused for its fee, and the fee is
learnt or set while another call is suspended with the old one; transfers may
fail to reach the ledger besides, so that the list holds transfers of any fee.
Lost replies (`LostReplies`) and changing fees are not in one passing run
(`terminal_fee_lost_reply` and `terminal_zeroed` have both). In `terminal_recovery` the query of a balance may
fail too, but not that of the interim account: `recover_old_tx` drops the
transfer then (hence not `RecoverableIsKept`). In `terminal_zeroed` the clock
ends before anything is old. In the passing runs every amount is used once, because the key of the recovery list lacks the memo
(`terminal_collision` is without that). The clock starts at the length of the
period, so that a time of 0 is old, as it is in the code.

`CHECK_DEADLOCK FALSE` is set where the bounds let everything come to rest.

### Fairness

*Scheduler (`FairSpec`).* `run()` is called again and again: the crate's
example canister calls it from an interval timer that it sets in `init` and in
`post_upgrade`. The IC fires timers that are due, and time passes. Nothing is
assumed of executions: they may never return.

*Terminal (`FairSpec`).* Calls are answered (the IC guarantees a reply or a
rejection), time passes, and the canister keeps calling `recover_all`, which is
what its documentation asks the canister's owner to do. The number of faults is
bounded: recovery can succeed only if calls succeed in the end.

## Proofs

`SchedulerProofs` proves `TypeOK`, `OneFuturePerTask`,
`ActiveTaskHasItsFuture`, `NoTaskLost`, `FinalIsFinal` and `AttemptsBounded` for
all options, timeouts and bounds, from the assumptions named in `Scheduler`
(options are well formed and carry no failures when they are passed in).

None of them is inductive. `IndInv` says for each task id how the parts belong
together: `FutureInv`, which futures a status allows, where a lost future is the
only excuse for a missing one; `HandedOutInv`, that an id not handed out has left no
trace; `OutcomeInv`, that only a timeout may be followed by anything; and
`AttemptsInv`, that the executions never outnumber the failures counted in the
options that the next decision to retry will read. The last is the subtle one:
those options are the stored ones while the task is in the map, and the future's
own copy once it was removed as out of time, so the invariant relates both to
the attempts, and a reschedule may only lower the stored count. The proof has a
lemma per action.

`RingBufferProofs` proves `TypeOK`, which is inductive as it stands (the vector
has wrapped around only if it is as long as the capacity), `NeverPanics` and
`ReadsTheHistory` from it, and that the ring buffer implements `BoundedHistory`:
every operation is mapped to the one of the same name, with lemmas on the
arithmetic of offsets modulo the capacity. Values, capacities and arguments are
arbitrary.

`CachedMapProofs` proves `CacheCoherent` and that the cached maps implement
`OrderedMap`. `CacheInv` adds to coherence that the ages of the cached keys are
exactly 0 to n-1: the model of the LRU list evicts the oldest key, and without
this the next eviction could drop two keys or none. The refinement maps `inner`
to the map and `answered` to the answer; a `Fill` between two lock regions is a
stutter, because what a waiting reader has read is still what is stored
(writers are excluded).

`MappedMemoryProofs` proves `FlushedSurvives`, `UnwrittenIsZero` and
`BackupIsOneInstant`. `DiskInv` of `FileInv` says the first two of the disk as well as
of the view, because a loss of power puts one in place of the other;
`BackupInv` says that the memories a backup still holds locked are as they were
at its instant. `StructuresTypeOK` follows from `FileInv`, `CacheInv` and the
ring buffer's `TypeOK`, each kept by a step of its structure and by a stutter.

`LogCanisterProofs` proves `LogTypeOK`, `IdsAreAbsolute`, `PageFromOffset`,
`ConfigAsStored` and the action property `LockedForGood`, for any set of
capacities. `RingInv` of `LogInv` says which record each place of the ring holds,
counted back from the number of all records: those logged since the last change
of capacity that left room for dropped ones (`since`) are in their places, and
what else is in the ring is older. A page that wraps around can bring up such
older records only. `SettingsInv` says that heap and stable memory agree for
whoever may still change them.

`TokenTerminalProofs` is about the canister alone, for all fees, amounts and
faults: `TypeOK`, `OneOwner`, and that nothing is credited twice. `TerminalInv`
numbers transfers by their memos; a live memo is in one flow or in the list and
has not been credited. `TokenLedgerProofs` goes on with the ledger, first for
replies that get lost and one fee, in three layers that build on one another:

- `OnceInv` for `ExactlyOnce`: what is kept or under way is the first or the
  second step of a request, the ledger's blocks are such steps, an interim
  account holds the net amount exactly between its two steps, and a step that the
  ledger might no longer recognise as a duplicate is not sent again.
- `SolventInv` for `Solvent`: a reply that has arrived tells the truth about the
  ledger, and the main account is the user's balance and the sum of what is owed
  for each request. The sum is stated by the existence of its partial sums.
- `SettledInv` for `SettledOrKept` and `SettledRight`: a request is live or
  settled, and one reported as recoverable is live. A deposit that is given up
  has expired by the time of its request, because a transfer keeps that time:
  `AsCreatedInv`, which holds as long as the list is not rewritten.

These hold under named conditions, each with its reason: the ledger has one fee, not zero (`OneFee`;
`terminal_fee_lost_reply` is without it); no amount is used twice
(`DistinctAmounts`; `terminal_collision`), and for settlement no two are a fee
apart (`Spaced`: the key of the list would be the same for the first step of one
and the second of the other); for solvency the canister is not
configured with less than the ledger's fee (`FeeCovered`: otherwise a request
can become invalid when the fee is learnt, `token_terminal.rs:259`); for settlement it is
configured with the ledger's fee (`RightFee`: otherwise the list is rewritten when
the fee is learnt; `terminal_zeroed` is without it) and the
queries of a recovery are answered (`RecoveryAnswered`; `token_terminal.rs:477`). Calls
and replies may be lost at any time. The constants of `terminal_faults` satisfy
all of them.

The second part is about fees that change at any time, on the ledger and in the
configuration, while no call is lost. A step then has another block for each fee
it may pay, and an answer is about the fee of one attempt, so the invariants
above do not hold. Again three layers:

- `KnownInv` for `ExactlyOnce`: with every answer heard, a flow knows what became
  of its transfer. It `Moved`, at the fee it has, if the answer is Ok; otherwise it is
  `ToDo`, and so is everything in the list. A second step moves what its first step
  left in the interim account, at one of the ledger's fees (`PartOf`).
- `SettledInv`, as above, for `SettledOrKept`. What is credited for a deposit is
  the amount of its block because a transfer keeps the fee it was executed with.
- `DueInv` for `Solvent`: the main account is the balance and what is due, which
  is the amount of the block of a deposit that is not yet credited, and of a withdrawal the
  whole amount until its first step is executed.

The conditions are that no call is lost (`Lossless`; `terminal_fee_lost_reply` is
without it), that withdrawals pay for both steps at any fee of the ledger
(`FeesPaid`; otherwise `token_terminal.rs:259` leaves the amount in the interim
account), `DistinctAmounts`, and for settlement that ids tell steps apart
whatever fee was paid (`Spread`, for `Spaced`). The configured fee may be anything,
also less than the ledger's, and the ledger's may be zero. The constants of
`terminal_fees` satisfy all but the first of them (`MaxFaults` there lets calls be
lost that the ledger never gets, which only TLC checks). TLC checked the three invariants with two
requests, two flows and fees of zero and two, before they were proved.

`LibraryProofs` has one section per library:

| library | property | inductive invariant |
|---|---|---|
| calls between canisters | `CallIsolation` | `CallsInv`: every open call has saved the context its caller runs in |
| `MockState` | `ModificationsAreWatched` | `WatchInv`: the property, and the types of the storage |
| metrics | `NewestIsLast` | `MetricsInv`: numbers grow along the keys, and the last key is the newest number |
| macros | `IdlListsEachMethodOnce` | `MacrosInv`: the maps of the IDLs and of what waits are disjoint and as written, save repeated names, and no export name is used twice |
| auction | `BidsSettledOnce` | `AuctionInv`: the property, and the types |
| versioned storage | `UpgradesKeepState` | `StorageInv`: between the hooks the memory is blank or holds the old release's state, and a trap finds what was before |
| `MockHandlers` | `CyclesConserved`, and the watcher's part of `WatcherIsTruthful` | `MockInv`: both properties, the types of all handlers, whose atoms are followed one by one, and that what a panic has left in the canister's context was carried by a call that panicked |
| retry strategy | `ScheduleAsDocumented` | `BackoffInv`: the described delay is the computed one at every count |
| tokens | `TokenArithmetic` | `TokensInv`: the operands are amounts; the laws are lemmas about all of them |

and ends with `LibrariesTypeOK`, `WatcherIsTruthful`, `ScheduleAsDocumented` and
`TokenArithmetic` of the composition. The constants are arbitrary within the named assumptions:
numbers are natural, periods and multipliers are of u32, the set of bidders is
finite, None is not a value, a byte has at least two values and a mantissa one. Sums, folds over a sequence and powers are recursive
functions: the proofs take the smallest set or number at which a function would
not exist, or would differ, from the well-foundedness of `<` on the naturals.
The delay of an exponential backoff needs one fact of arithmetic more, that a
product which stops at `u32::MAX` may be continued from where it stopped
(`SaturatedSteps`). The laws of the amounts rest on two: a number is the sum of
its digits (`Digits`, by dividing once for each byte), which makes `to_tokens128`,
`from_nat` and `to_nat` what they say; and the cast to f64 keeps the order
(`AsF64Monotone`: within one exponent it rounds alike, and the largest float of
one exponent is not above the smallest of the next), so that no amount is above
the float of `u128::MAX`. With bytes of 2^64 values, two and four of them are a
u128 and a U256.

Model-checked only:

- liveness (`DueIsLaunched`, `Drains`, `AllRecovered`): the prover has no rules
  for fairness here;
- the mutants and the runs that end in a violation.

## Not modelled

- ic-canister-client, ic-exports, the randomness source and the test support:
  each function is one call of another crate, without state.
- ic-kit on wasm, and its interfaces of the management canister: bindings.
- ic-helpers' wrappers of the management canister and the ledger: one call each.
- The text that the log's formatter and filters parse and write, and the syntax
  that the macros generate: conversions of text, out of TLC's reach at any size
  that would say something.
- Log, cell and vector in stable memory, and the heap versions of the maps: they
  pass calls on to a library.
- Upgrades of a canister with a token terminal: `TX_COUNTER` restarts, and
  transfers that `recover_all` has taken out of the list are gone with its
  future. The crate has no upgrade code to check that against.
- The ring buffer over mapped files: nothing orders write-backs of its two
  memories, so a loss of power may leave old indices over new data; on the IC
  a message is atomic.
