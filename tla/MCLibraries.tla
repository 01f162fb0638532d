----------------------------- MODULE MCLibraries -----------------------------
(***************************************************************************)
(* Small instances of the libraries a canister is written with.  They      *)
(* share no state: a behaviour is about one of them, and the others stay   *)
(* as they are made.                                                       *)
(***************************************************************************)
EXTENDS BackoffSchedule, Metrics, Tokens, Auction, MockHandlers, MockState,
        CanisterCalls, VersionedStorage, ApiMacros, LogCanister

VARIABLE subject

Periods == 0 .. 4
Multipliers == 0 .. 4

AllPolicies ==
  [kind : {"None", "Infinite"}, arg : {0}] \cup [kind : {"MaxRetries", "Timeout"}, arg : 0 .. 3]

SmallBackoffs ==
     {[kind |-> "None", secs |-> << >>, multiplier |-> 0]}
  \cup [kind : {"Fixed"}, secs : [1 .. 1 -> Periods], multiplier : {0}]
  \cup [kind : {"Variable"}, secs : UNION {[1 .. n -> 0 .. 2] : n \in 0 .. 3}, multiplier : {0}]
  \cup [kind : {"Exponential"}, secs : [1 .. 1 -> Periods], multiplier : Multipliers]

SmallClosures ==
  {[kind |-> "raw", op |-> "Accept", amount |-> 1, panics |-> FALSE],
   [kind |-> "raw", op |-> "Accept", amount |-> 1, panics |-> TRUE],
   [kind |-> "raw", op |-> "SetCycles", amount |-> 2, panics |-> FALSE],
   [kind |-> "raw", op |-> "SetBalance", amount |-> 0, panics |-> FALSE]}

SmallInitArgs == {<< "T" >>, << >>}
SmallCertBytes == {<< 1 >>, << 1, 0 >>}

Subjects == {"backoff", "metrics", "tokens", "auction", "handlers", "context",
             "calls", "storage", "macros", "log"}

libraryVars == << subject, backoffVars, metricsVars, tokensVars, auctionVars, mockVars,
                  stateVars, callVars, storageVars, macroVars, logVars >>

\* One initial state of each of the others is enough.
LibrariesInit ==
  /\ subject \in Subjects
  /\ BackoffInit /\ MetricsInit /\ TokensInit /\ AuctionInit /\ MockInit /\ StateInit
  /\ CallsInit /\ StorageInit /\ MacrosInit /\ LogInit
  /\ subject # "backoff" =>
       /\ strategy.retry_policy.kind = "None"
       /\ strategy.backoff_policy.kind = "None"

Moves(name) == subject = name /\ UNCHANGED subject

OthersThan(name) ==
  /\ name # "backoff" => UNCHANGED backoffVars
  /\ name # "metrics" => UNCHANGED metricsVars
  /\ name # "tokens" => UNCHANGED tokensVars
  /\ name # "auction" => UNCHANGED auctionVars
  /\ name # "handlers" => UNCHANGED mockVars
  /\ name # "context" => UNCHANGED stateVars
  /\ name # "calls" => UNCHANGED callVars
  /\ name # "storage" => UNCHANGED storageVars
  /\ name # "macros" => UNCHANGED macroVars
  /\ name # "log" => UNCHANGED logVars

LibrariesNext ==
  \/ Moves("backoff") /\ BackoffNext /\ OthersThan("backoff")
  \/ Moves("metrics") /\ MetricsNext /\ OthersThan("metrics")
  \/ Moves("tokens") /\ TokensNext /\ OthersThan("tokens")
  \/ Moves("auction") /\ AuctionNext /\ OthersThan("auction")
  \/ Moves("handlers") /\ MockNext /\ OthersThan("handlers")
  \/ Moves("context") /\ StateNext /\ OthersThan("context")
  \/ Moves("calls") /\ CallsNext /\ OthersThan("calls")
  \/ Moves("storage") /\ StorageNext /\ OthersThan("storage")
  \/ Moves("macros") /\ MacrosNext /\ OthersThan("macros")
  \/ Moves("log") /\ LogNext /\ OthersThan("log")

LibrariesSpec == LibrariesInit /\ [][LibrariesNext]_libraryVars

----------------------------------------------------------------------------
\* The state of the library under test has its type.
LibrariesTypeOK ==
  /\ MetricsTypeOK /\ AuctionTypeOK
  /\ subject = "handlers" => MockTypeOK
  /\ subject = "context" => StateTypeOK
  /\ subject = "calls" => CallsTypeOK
  /\ subject = "storage" => StorageTypeOK
  /\ subject = "macros" => MacrosTypeOK
  /\ subject = "log" => LogTypeOK

\* What a Watcher tells a test is what happened (mock.rs, Watcher and
\* WatcherCall): the cycles of the recorded calls explain the balance, no call
\* is refunded more than it was sent, and no write to the storage is missing.
WatcherIsTruthful ==
  /\ subject = "handlers" => WatcherExplainsBalance /\ RefundAtMostSent
  /\ subject = "context" => ModificationsAreWatched
=============================================================================
