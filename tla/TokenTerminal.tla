--------------------------- MODULE TokenTerminal ---------------------------
(***************************************************************************)
(* TokenTerminal of ic-payments (token_terminal.rs, recovery_list.rs,      *)
(* icrc1.rs, error.rs): deposits and withdrawals of ICRC-1 tokens by calls *)
(* to a ledger whose replies may be lost, and the recovery of the          *)
(* transfers whose result is not known.                                    *)
(*                                                                         *)
(* Every public method is async and runs as a flow of its own, with its    *)
(* own terminal (the methods borrow it mutably across awaits); the flows   *)
(* share the recovery list in stable memory, the balances and the saved    *)
(* configuration.  One inter-canister call is two steps: the ledger's, and *)
(* the message that continues the flow with the reply.                     *)
(***************************************************************************)
EXTENDS Transfer, Sequences, FiniteSets

CONSTANTS
  Flow,            \* the calls that may be in progress at a time
  Amounts,         \* the amounts deposited and withdrawn
  DistinctAmounts, \* is every amount used once?
  Funds,           \* tokens in the deposit and in the main account at first
  InitialFee,      \* the fee the canister is configured with
  LedgerFees,      \* the fees of the ledger
  AdminFees,       \* the fees that the canister's owner sets
  NRetries,        \* N_RETRIES
  DedupPeriod,     \* how long the ledger recognises duplicates
  TxWindow,        \* TX_WINDOW, the margin to that
  MaxLatency,      \* how long the calls of one transfer take, retries included
  FailingQueries,  \* the queries that may fail
  LostReplies,     \* may a transfer be executed and its reply be lost?
  MaxFaults,       \* bound: calls that go wrong
  MaxTransfers,    \* bound: transfers ever created
  MaxClock         \* bound: the clock stops here

Query == {"deposit_balance", "interim_balance", "minting_account"}

ASSUME AmountsAssumption ==
  Amounts \cup LedgerFees \cup AdminFees \cup {Funds, InitialFee} \subseteq Nat
ASSUME RetriesAssumption == NRetries \in Nat \ {0}
ASSUME PeriodsAssumption ==
  /\ DedupPeriod \in Nat /\ TxWindow \in Nat /\ TxWindow < DedupPeriod
  /\ MaxLatency \in 0 .. TxWindow
ASSUME FailingAssumption == FailingQueries \subseteq Query /\ LostReplies \in BOOLEAN
ASSUME BoundsAssumption == MaxFaults \in Nat /\ MaxTransfers \in Nat /\ MaxClock \in Nat

VARIABLES
  flows,       \* the calls in progress
  recovery,    \* stable map of transfers by id(), as the set of its values
  balance,     \* the user's balance in the canister
  saved_fee,   \* the fee in the configuration that the canister keeps
  funds,       \* ledger (external): account -> tokens
  blocks,      \* ledger (external): the transfers it executed
  ledger_fee,  \* ledger (external): its fee
  clock,       \* ic::time()
  faults,      \* calls that went wrong so far
  requests,    \* history: the transfer created with each memo (TX_COUNTER,
               \* counted from 1)
  credits,     \* history: the amounts credited for each memo
  outcome      \* history: the result last returned for each memo

canister == << flows, recovery, balance, saved_fee >>
ledger == << funds, blocks, ledger_fee >>
history == << requests, credits, outcome >>
vars == << canister, ledger, clock, faults, history >>

NoTx == NewTransfer("CreditOnSuccess", 0, 0, 0, 0)
NoReply == [kind |-> "None", value |-> 0]
Reply(kind, value) == [kind |-> kind, value |-> value]

\* A flow: the call it awaits and the reply, the transfer it is about, whether
\* execute_recovery_transfer (or execute_transfer) awaits, the retries left,
\* the transfers recover_all has still to do, the fee of its terminal, and
\* when it began the transfer.
Idle ==
  [call |-> "None", reply |-> NoReply, tx |-> NoTx, recovering |-> FALSE,
   retries |-> 0, queue |-> {}, fee |-> 0, since |-> 0]

Busy(f) == flows[f].call # "None"

\* The flow f has its reply to a call.
Replied(f, call) == flows[f].call = call /\ flows[f].reply # NoReply

-----------------------------------------------------------------------------
(* The recovery list *)

\* push: a transfer with the same id is replaced.
Pushed(list, tx) == {t \in list : Id(t) # Id(tx)} \cup {tx}

\* Mutant: the transfers stay in the list while they are recovered.
TakenNone == recovery

\* take_all clears the map.
Taken == {}

\* Mutant: the list is taken and not written again.
RewrittenForgets(fee) == {{}}

\* update_recovery_fees: all are taken and pushed again with the fee and no
\* time.  Which of two with the same id stays depends on their order by hash.
Rewritten(fee) ==
  LET all == {ResetTs(WithFee(t, fee)) : t \in recovery}
  IN {list \in SUBSET all :
        /\ {Id(t) : t \in list} = {Id(t) : t \in all}
        /\ \A t, u \in list : Id(t) = Id(u) => t = u}

-----------------------------------------------------------------------------
(* The course of a flow between two awaits *)

\* Mutant: no margin to the deduplication period.
CanDeduplicateLate(tx) == clock - tx.created_at < DedupPeriod

CanDeduplicate(tx) == clock - tx.created_at < DedupPeriod - TxWindow

\* Await the ledger's answer to a transfer, from its first attempt on.
Send(f, tx, n, recovering) ==
  [flows[f] EXCEPT !.call = "transfer", !.reply = NoReply, !.tx = tx,
                   !.retries = n, !.recovering = recovering, !.since = clock]

\* recover_tx: what it awaits first.  An old deposit needs no call.
Recover(f, tx) ==
  IF CanDeduplicate(tx) THEN Send(f, tx, NRetries, TRUE)
  ELSE [flows[f] EXCEPT !.call = "interim_balance", !.reply = NoReply, !.tx = tx]

TooOld(tx) == tx.stage = "Single" /\ ~ CanDeduplicate(tx)

\* The transfer with this memo ends with a result.  A deposit or a withdrawal
\* returns it; recover_all goes on with the next transfer it took.  Those that
\* are too old fail at once: nothing is awaited, so they fail together.
Return(f, fee, memo, result) ==
  LET queue == flows[f].queue
      late == {t \in queue : TooOld(t)}
  IN /\ outcome' = [m \in DOMAIN outcome |->
            IF m = memo THEN result
            ELSE IF \E t \in late : t.memo = m THEN "TooOld" ELSE outcome[m]]
     /\ IF queue = late
        THEN flows' = [flows EXCEPT ![f] = Idle]
        ELSE \E t \in queue \ late :
               flows' = [flows EXCEPT ![f] =
                 [Recover(f, t) EXCEPT !.fee = fee, !.queue = queue \ (late \cup {t})]]

Credit(memo, amount) ==
  /\ balance' = balance + amount
  /\ credits' = [credits EXCEPT ![memo] = Append(@, amount)]

NoCredit == UNCHANGED << balance, credits >>

\* Mutant: a deposit is credited with the fee.
CompleteWholeAmount(f, tx, n) ==
  /\ UNCHANGED << recovery, saved_fee >>
  /\ IF tx.stage = "First"
     THEN /\ NoCredit
          /\ flows' = [flows EXCEPT ![f] = Send(f, NextStep(tx, clock), n, FALSE)]
          /\ UNCHANGED outcome
     ELSE /\ IF tx.operation = "CreditOnSuccess" THEN Credit(tx.memo, tx.amount) ELSE NoCredit
          /\ Return(f, flows[f].fee, tx.memo, "Ok")

\* complete(): the second step follows the first; a deposit is credited.
Complete(f, tx, n) ==
  /\ UNCHANGED << recovery, saved_fee >>
  /\ IF tx.stage = "First"
     THEN LET second == NextStep(tx, clock)
          IN /\ NoCredit
             /\ IF Valid(second)
                THEN /\ flows' = [flows EXCEPT ![f] = Send(f, second, n, FALSE)]
                     /\ UNCHANGED outcome
                ELSE Return(f, flows[f].fee, tx.memo, "InvalidParameters")
     ELSE /\ IF tx.operation = "CreditOnSuccess"
             THEN Credit(tx.memo, AmountMinusFee(tx)) ELSE NoCredit
          /\ Return(f, flows[f].fee, tx.memo, "Ok")

\* Mutant: the second step is rejected like the first.
RejectAnyStep(f, tx) ==
  /\ UNCHANGED << recovery, saved_fee >>
  /\ IF tx.operation = "CreditOnError" THEN Credit(tx.memo, tx.amount) ELSE NoCredit
  /\ Return(f, flows[f].fee, tx.memo, "TransferFailed")

\* reject(): tokens in an interim account can only go on, so a second step is
\* kept; the user gets back what a withdrawal was to move.
Reject(f, tx) ==
  /\ UNCHANGED saved_fee
  /\ IF tx.stage = "Second"
     THEN /\ recovery' = Pushed(recovery, tx)
          /\ NoCredit
          /\ Return(f, flows[f].fee, tx.memo, "Recoverable")
     ELSE /\ UNCHANGED recovery
          /\ IF tx.operation = "CreditOnError" THEN Credit(tx.memo, tx.amount) ELSE NoCredit
          /\ Return(f, flows[f].fee, tx.memo, "TransferFailed")

\* Mutant: the transfer is renewed before every attempt.
RetryRenewed(f, fee, tx, n, list) ==
  /\ NoCredit
  /\ IF n = 0
     THEN /\ recovery' = Pushed(list, tx)
          /\ Return(f, fee, tx.memo, "Recoverable")
     ELSE /\ recovery' = list
          /\ flows' = [flows EXCEPT ![f] =
               [Send(f, Renew(tx, clock), n, TRUE) EXCEPT !.fee = fee]]
          /\ UNCHANGED outcome

\* Mutant: the retries are not limited.
RetryWithoutLimit(f, fee, tx, n, list) ==
  /\ NoCredit
  /\ recovery' = list
  /\ flows' = [flows EXCEPT ![f] = [Send(f, tx, n, TRUE) EXCEPT !.fee = fee]]
  /\ UNCHANGED outcome

\* retry(), of a terminal with this fee and with the list as it is by then
Retry(f, fee, tx, n, list) ==
  /\ NoCredit
  /\ IF n = 0
     THEN /\ recovery' = Pushed(list, tx)
          /\ Return(f, fee, tx.memo, "Recoverable")
     ELSE /\ recovery' = list
          /\ flows' = [flows EXCEPT ![f] =
               [Send(f, tx, n, TRUE) EXCEPT !.fee = fee, !.since = flows[f].since]]
          /\ UNCHANGED outcome

\* Mutant: the retry still has the old fee.
UpdateConfigOnly(f, fee, n) ==
  /\ saved_fee' = fee
  /\ \E list \in Rewritten(fee) : Retry(f, fee, flows[f].tx, n, list)

\* update_config_and_retry, once it knows the configuration: the list is
\* rewritten and the canister's callback saves the fee.
UpdateConfigAndRetry(f, fee, n) ==
  /\ saved_fee' = fee
  /\ \E list \in Rewritten(fee) : Retry(f, fee, WithFee(flows[f].tx, fee), n, list)

-----------------------------------------------------------------------------
(* The methods, up to their first await *)

Init ==
  /\ flows = [f \in Flow |-> Idle]
  /\ recovery = {}
  /\ balance = Funds
  /\ saved_fee = InitialFee
  /\ funds = [a \in {Own("main"), Own("deposit"), Own("user")} |->
                IF a = Own("user") THEN 0 ELSE Funds]
  /\ blocks = {}
  /\ ledger_fee \in LedgerFees
  /\ clock = DedupPeriod
  /\ faults = 0
  /\ requests = << >>
  /\ credits = << >>
  /\ outcome = << >>

\* A flow sends the new transfer tx.
Begin(f, tx) ==
  /\ Len(requests) < MaxTransfers
  /\ Valid(tx)
  /\ DistinctAmounts => \A m \in DOMAIN requests : requests[m].amount # tx.amount
  /\ flows' = [flows EXCEPT ![f] = [Send(f, tx, NRetries, FALSE) EXCEPT !.fee = tx.fee]]
  /\ requests' = Append(requests, tx)
  /\ credits' = Append(credits, << >>)
  /\ outcome' = Append(outcome, "Pending")
  /\ UNCHANGED << recovery, saved_fee, ledger, clock, faults >>

\* The transfer of a call that is made now.
New(operation, amount) ==
  NewTransfer(operation, amount, saved_fee, clock, Len(requests) + 1)

Deposit(f, amount) ==
  /\ ~ Busy(f)
  /\ Begin(f, New("CreditOnSuccess", amount))
  /\ UNCHANGED balance

DepositAll(f) ==
  /\ ~ Busy(f)
  /\ Len(requests) < MaxTransfers
  /\ flows' = [flows EXCEPT ![f] = [Idle EXCEPT !.call = "deposit_balance", !.fee = saved_fee]]
  /\ UNCHANGED << recovery, balance, saved_fee, ledger, clock, faults, history >>

Withdraw(f, amount) ==
  /\ ~ Busy(f)
  /\ amount <= balance
  /\ balance' = balance - amount
  /\ Begin(f, New("CreditOnError", amount))

RecoverAll(f) ==
  /\ ~ Busy(f)
  /\ recovery # {}
  /\ recovery' = Taken
  /\ LET late == {t \in recovery : TooOld(t)}
     IN /\ outcome' = [m \in DOMAIN outcome |->
              IF \E t \in late : t.memo = m THEN "TooOld" ELSE outcome[m]]
        /\ IF recovery = late
           THEN UNCHANGED flows
           ELSE \E t \in recovery \ late :
                  flows' = [flows EXCEPT ![f] =
                    [Recover(f, t) EXCEPT !.fee = saved_fee, !.queue = recovery \ (late \cup {t})]]
  /\ UNCHANGED << balance, saved_fee, ledger, clock, faults, requests, credits >>

\* set_fee on the canister's terminal.  (set_minting_account rewrites the list
\* in the same way, with the fee that is saved.)
SetFee(fee) ==
  /\ saved_fee' = fee
  /\ recovery' \in Rewritten(fee)
  /\ UNCHANGED << flows, balance, ledger, clock, faults, history >>

-----------------------------------------------------------------------------
(* The messages that continue a flow *)

OnTransfer(f) ==
  /\ Replied(f, "transfer")
  /\ UNCHANGED << ledger, clock, faults, requests >>

OnSuccess(f) ==
  /\ OnTransfer(f)
  /\ \/ flows[f].reply.kind = "Ok"
     \/ flows[f].reply.kind = "Duplicate" /\ flows[f].recovering
  /\ Complete(f, flows[f].tx, flows[f].retries)

OnUnknown(f) ==
  /\ OnTransfer(f)
  /\ \/ flows[f].reply.kind = "MaybeFailed"
     \/ flows[f].reply.kind = "Unavailable" /\ flows[f].recovering
  /\ Retry(f, flows[f].fee, flows[f].tx, flows[f].retries - 1, recovery)
  /\ UNCHANGED saved_fee

\* A fee of zero, or the one configured, means that the minting account is not
\* the one configured; another fee is taken over.
OnWrongFee(f) ==
  /\ OnTransfer(f)
  /\ flows[f].reply.kind = "BadFee"
  /\ LET expected == flows[f].reply.value
     IN IF expected \in {0, flows[f].fee}
        THEN /\ flows' = [flows EXCEPT ![f].call = "minting_account", ![f].reply = NoReply]
             /\ UNCHANGED << recovery, balance, saved_fee, credits, outcome >>
        ELSE UpdateConfigAndRetry(f, expected, flows[f].retries - 1)

OnRejected(f) ==
  /\ OnTransfer(f)
  /\ \/ flows[f].reply.kind \in {"InsufficientFunds", "TooOld"}
     \/ flows[f].reply.kind \in {"Duplicate", "Unavailable"} /\ ~ flows[f].recovering
  /\ Reject(f, flows[f].tx)

OnMintingAccount(f) ==
  /\ Replied(f, "minting_account")
  /\ flows[f].reply.kind = "Value"
  /\ UpdateConfigAndRetry(f, flows[f].fee, flows[f].retries - 1)
  /\ UNCHANGED << ledger, clock, faults, requests >>

\* recover_old_tx: the interim account tells whether the step was executed.
RecoverOldTx(f, tx, interim_balance) ==
  \/ tx.stage = "First" /\ interim_balance = 0 /\ Reject(f, tx)
  \/ tx.stage = "First" /\ interim_balance # 0 /\ Complete(f, tx, NRetries)
  \/ tx.stage = "Second" /\ interim_balance = 0 /\ Complete(f, tx, NRetries)
  \/ /\ tx.stage = "Second" /\ interim_balance # 0
     /\ flows' = [flows EXCEPT ![f] = Send(f, Renew(tx, clock), NRetries, TRUE)]
     /\ UNCHANGED << recovery, balance, saved_fee, credits, outcome >>

OnInterimBalance(f) ==
  /\ Replied(f, "interim_balance")
  /\ flows[f].reply.kind = "Value"
  /\ RecoverOldTx(f, flows[f].tx, flows[f].reply.value)
  /\ UNCHANGED << ledger, clock, faults, requests >>

\* deposit_all goes on as deposit, which refuses an amount that is too small.
OnDepositBalance(f) ==
  /\ Replied(f, "deposit_balance")
  /\ flows[f].reply.kind = "Value"
  /\ LET tx == NewTransfer("CreditOnSuccess", flows[f].reply.value, flows[f].fee,
                           clock, Len(requests) + 1)
     IN \/ Begin(f, tx) /\ UNCHANGED balance
        \/ /\ ~ Valid(tx)
           /\ flows' = [flows EXCEPT ![f] = Idle]
           /\ UNCHANGED << recovery, balance, saved_fee, ledger, clock, faults, history >>

\* A query failed, and with "?" so does the method: the transfer it was about
\* is in no list.
OnQueryFailed(f) ==
  /\ \E q \in Query : Replied(f, q)
  /\ flows[f].reply.kind = "MaybeFailed"
  /\ NoCredit
  /\ IF flows[f].call = "deposit_balance"
     THEN flows' = [flows EXCEPT ![f] = Idle] /\ UNCHANGED outcome
     ELSE Return(f, flows[f].fee, flows[f].tx.memo,
                 IF flows[f].call = "minting_account" THEN "BadFee" ELSE "Recoverable")
  /\ UNCHANGED << recovery, saved_fee, ledger, clock, faults, requests >>

-----------------------------------------------------------------------------
(* The ledger and the IC (external) *)

BalanceOf(a) == IF a \in DOMAIN funds THEN funds[a] ELSE 0

Block(tx) ==
  [from |-> From(tx), to |-> To(tx), amount |-> AmountMinusFee(tx), fee |-> tx.fee,
   created_at |-> tx.created_at, memo |-> tx.memo]

\* What an ICRC-1 ledger answers to icrc1_transfer
Answer(tx) ==
  CASE tx.fee # ledger_fee -> Reply("BadFee", ledger_fee)
    [] tx.fee = ledger_fee /\ clock - tx.created_at >= DedupPeriod -> Reply("TooOld", 0)
    [] OTHER ->
         IF Block(tx) \in blocks THEN Reply("Duplicate", 0)
         ELSE IF BalanceOf(From(tx)) < AmountMinusFee(tx) + tx.fee
         THEN Reply("InsufficientFunds", 0)
         ELSE Reply("Ok", 0)

Execute(tx) ==
  /\ blocks' = blocks \cup {Block(tx)}
  /\ funds' = [a \in DOMAIN funds \cup {To(tx)} |->
       BalanceOf(a) + (IF a = To(tx) THEN AmountMinusFee(tx) ELSE 0)
                    - (IF a = From(tx) THEN AmountMinusFee(tx) + tx.fee ELSE 0)]

\* The call of flow f reaches the ledger, or not; the flow gets a reply.
Handled(f, call, reply) ==
  /\ flows[f].call = call /\ flows[f].reply = NoReply
  /\ flows' = [flows EXCEPT ![f].reply = reply]
  /\ UNCHANGED << recovery, balance, saved_fee, ledger_fee, clock, history >>

Executed(f) ==
  IF Answer(flows[f].tx).kind = "Ok" THEN Execute(flows[f].tx) ELSE UNCHANGED << blocks, funds >>

LedgerTransfers(f) ==
  /\ Handled(f, "transfer", Answer(flows[f].tx))
  /\ Executed(f)
  /\ UNCHANGED faults

Fault == faults < MaxFaults /\ faults' = faults + 1

\* The transfer is handled but the caller gets an error of the IC.
ReplyLost(f) ==
  /\ LostReplies
  /\ Fault
  /\ Handled(f, "transfer", Reply("MaybeFailed", 0))
  /\ Executed(f)

\* The transfer is not handled: an error of the IC, or a ledger that panics or
\* is temporarily unavailable.
CallLost(f) ==
  /\ Fault
  /\ \E kind \in {"MaybeFailed", "Unavailable"} : Handled(f, "transfer", Reply(kind, 0))
  /\ UNCHANGED << blocks, funds >>

LedgerReads(f) ==
  /\ \E q \in Query :
       Handled(f, q, Reply("Value",
         CASE q = "deposit_balance" -> BalanceOf(Own("deposit"))
           [] q = "interim_balance" -> BalanceOf(flows[f].tx.interim)
           [] q = "minting_account" -> 0))
  /\ UNCHANGED << blocks, funds, faults >>

QueryLost(f) ==
  /\ Fault
  /\ \E q \in FailingQueries : Handled(f, q, Reply("MaybeFailed", 0))
  /\ UNCHANGED << blocks, funds >>

LedgerFeeChanges ==
  /\ \E fee \in LedgerFees \ {ledger_fee} : ledger_fee' = fee
  /\ UNCHANGED << canister, funds, blocks, clock, faults, history >>

\* Calls are answered in time: the attempts at a transfer take no longer than
\* MaxLatency, which TX_WINDOW is the margin for.
Tick ==
  /\ clock < MaxClock
  /\ \A f \in Flow : flows[f].call \in {"transfer", "minting_account"} =>
       clock - flows[f].since < MaxLatency
  /\ clock' = clock + 1
  /\ UNCHANGED << canister, ledger, faults, history >>

-----------------------------------------------------------------------------

Continue(f) ==
  \/ OnSuccess(f)
  \/ OnUnknown(f)
  \/ OnWrongFee(f)
  \/ OnRejected(f)
  \/ OnMintingAccount(f)
  \/ OnInterimBalance(f)
  \/ OnDepositBalance(f)
  \/ OnQueryFailed(f)

LedgerStep(f) == LedgerTransfers(f) \/ ReplyLost(f) \/ CallLost(f) \/ LedgerReads(f) \/ QueryLost(f)

Next ==
  \/ \E f \in Flow :
       \/ \E amount \in Amounts : Deposit(f, amount) \/ Withdraw(f, amount)
       \/ DepositAll(f)
       \/ RecoverAll(f)
       \/ Continue(f)
       \/ LedgerStep(f)
  \/ \E fee \in AdminFees : SetFee(fee)
  \/ LedgerFeeChanges
  \/ Tick

Spec == Init /\ [][Next]_vars

\* Calls are answered and flows go on, time passes, and the canister keeps
\* calling recover_all.
FairSpec ==
  /\ Spec
  /\ WF_vars(Tick)
  /\ \A f \in Flow : WF_vars(Continue(f)) /\ WF_vars(LedgerStep(f)) /\ WF_vars(RecoverAll(f))

-----------------------------------------------------------------------------
(* Properties *)

TypeOK ==
  /\ \A f \in Flow :
       /\ flows[f].call \in Query \cup {"None", "transfer"}
       /\ flows[f].tx \in TransferRecord
       /\ flows[f].recovering \in BOOLEAN
       /\ flows[f].retries \in 0 .. NRetries
       /\ flows[f].call \in {"transfer", "minting_account"} => flows[f].retries > 0
       /\ \A t \in flows[f].queue : t \in TransferRecord
       /\ flows[f].fee \in Nat
  /\ \A t \in recovery : t \in TransferRecord
  /\ balance \in Nat
  /\ saved_fee \in Nat
  /\ \A a \in DOMAIN funds : a \in Account /\ funds[a] \in Nat
  /\ DOMAIN credits = DOMAIN requests /\ DOMAIN outcome = DOMAIN requests

\* Is the transfer with this memo the one that flow f, or the list, has?
HeldBy(f, m) ==
  \/ flows[f].call \in {"transfer", "minting_account", "interim_balance"} /\ flows[f].tx.memo = m
  \/ \E t \in flows[f].queue : t.memo = m

Listed(m) == \E t \in recovery : t.memo = m

Live(m) == Listed(m) \/ \E f \in Flow : HeldBy(f, m)

BlocksOf(m, kind) == {b \in blocks : b.memo = m /\ b.from.kind = kind}

(***************************************************************************)
(* No step is executed twice and nothing is credited twice, however many   *)
(* replies are lost and however often the transfer is retried, recovered   *)
(* or recovered by two calls at a time.                                    *)
(***************************************************************************)
ExactlyOnce ==
  \A m \in DOMAIN requests :
    /\ \A kind \in {"main", "deposit", "interim"} : Cardinality(BlocksOf(m, kind)) <= 1
    /\ Len(credits[m]) <= 1

\* The time in which the ledger recognises request m is over, by the time that
\* it was made.
Expired(m) == clock - requests[m].created_at >= DedupPeriod - TxWindow

\* The books agree with the ledger on request m, or it is a deposit that is
\* given up when it has expired.
Settled(m) ==
  IF requests[m].operation = "CreditOnSuccess"
  THEN \/ {b.amount : b \in BlocksOf(m, "deposit")} = {credits[m][i] : i \in DOMAIN credits[m]}
       \/ outcome[m] = "TooOld" /\ credits[m] = << >> /\ Expired(m)
  ELSE IF BlocksOf(m, "main") = {}
       THEN BlocksOf(m, "interim") = {} /\ credits[m] = << requests[m].amount >>
       ELSE BlocksOf(m, "interim") # {} /\ credits[m] = << >>

(***************************************************************************)
(* A transfer that is neither in progress nor in the recovery list is      *)
(* settled as the ledger says: a deposit is credited with what the main    *)
(* account received, or nothing happened (save that one that is not        *)
(* recovered within the deduplication period is given up); a withdrawal    *)
(* arrived, or was refunded in full and no step of it executed.  (When the *)
(* list is rewritten with another fee its transfers lose their time, and a *)
(* deposit is given up while it is new: see TokenTerminal_zeroed.cfg.)     *)
(***************************************************************************)
SettledRight == \A m \in DOMAIN requests : ~ Live(m) => Settled(m)

(***************************************************************************)
(* The canister can pay what it owes: its main account always holds at     *)
(* least what the user's balance says, with every deposit and withdrawal   *)
(* at whatever point it is.                                                *)
(***************************************************************************)
Solvent == BalanceOf(Own("main")) >= balance

(***************************************************************************)
(* A transfer has one owner: it is never in the recovery list and in a     *)
(* flow, nor in two flows, so that two concurrent recover_all never work   *)
(* at the same transfer.                                                   *)
(***************************************************************************)
OneOwner ==
  \A m \in DOMAIN requests :
    /\ Cardinality({t \in recovery : t.memo = m}) <= 1
    /\ Cardinality({f \in Flow : HeldBy(f, m)}) + (IF Listed(m) THEN 1 ELSE 0) <= 1

(***************************************************************************)
(* Recovery comes to an end: once calls stop failing and the fee of the    *)
(* ledger stays what it is, no transfer remains in the recovery list or in *)
(* progress for ever.                                                      *)
(***************************************************************************)
AllRecovered ==
  (\E fee \in LedgerFees : <>[](ledger_fee = fee))
    => <>[] \A m \in DOMAIN requests : ~ Live(m)

(***************************************************************************)
(* "the transfer is added to the `for recovery` list" when the error is    *)
(* Recoverable: until it is settled it is in the list or in progress,      *)
(* though other calls take, rewrite and fill the list.  (When the query of *)
(* an interim balance fails, and with two transfers of one id, it does not *)
(* hold: recover_old_tx drops the transfer, push replaces the other one.)  *)
(***************************************************************************)
RecoverableIsKept ==
  \A m \in DOMAIN requests : outcome[m] = "Recoverable" => Live(m)

(***************************************************************************)
(* Whatever happens between the attempts of a transfer (replies are lost,  *)
(* or set_fee and update_config_and_retry change the fee, and in both      *)
(* cases calls do not reach the ledger), the transfer is settled with the  *)
(* fee that it paid, or it is kept: under way or in the recovery list.     *)
(***************************************************************************)
SettledOrKept == SettledRight /\ RecoverableIsKept

-----------------------------------------------------------------------------
(* Inductive invariants *)

ReplyRecord ==
  [kind : {"None", "Ok", "Duplicate", "BadFee", "TooOld", "InsufficientFunds", "MaybeFailed",
           "Unavailable", "Value"},
   value : Nat]

FlowRecord ==
  [call : Query \cup {"None", "transfer"}, reply : ReplyRecord, tx : TransferRecord,
   recovering : BOOLEAN, retries : 0 .. NRetries, queue : SUBSET TransferRecord, fee : Nat,
   since : Nat]

Outcome ==
  {"Pending", "Ok", "TransferFailed", "Recoverable", "TooOld", "InvalidParameters", "BadFee"}

OwnMemo(r) == r.call \in {"transfer", "minting_account", "interim_balance"}

\* A flow is about one transfer, and recover_all has others waiting.
CleanFlow(r) ==
  /\ r \in FlowRecord
  /\ r.call \in {"transfer", "minting_account"} => r.retries > 0
  /\ r.call \in {"None", "deposit_balance"} => r.queue = {}
  /\ \A t, u \in r.queue : t.memo = u.memo => t = u
  /\ OwnMemo(r) => \A t \in r.queue : t.memo # r.tx.memo

CanisterInv ==
  /\ flows \in [Flow -> FlowRecord] /\ \A f \in Flow : CleanFlow(flows[f])
  /\ recovery \subseteq TransferRecord /\ \A t, u \in recovery : t.memo = u.memo => t = u
  /\ balance \in Nat /\ saved_fee \in Nat

LedgerInv ==
  /\ \A a \in DOMAIN funds : a \in Account /\ funds[a] \in Nat
  /\ ledger_fee \in Nat /\ clock \in Nat /\ clock >= DedupPeriod /\ faults \in Nat

HistoryInv ==
  /\ requests \in Seq(TransferRecord) /\ credits \in Seq(Seq(Nat)) /\ outcome \in Seq(Outcome)
  /\ Len(credits) = Len(requests) /\ Len(outcome) = Len(requests)

\* Memos are the ones of requests; no two flows have one in common, nor a flow
\* and the list; what is under way or in the list has not been credited.
OwnerInv ==
  /\ \A m \in Nat : Live(m) => m \in DOMAIN requests /\ credits[m] = << >>
  /\ \A f, g \in Flow, m \in Nat : HeldBy(f, m) /\ HeldBy(g, m) => f = g
  /\ \A f \in Flow, m \in Nat : HeldBy(f, m) => ~ Listed(m)
  /\ \A m \in DOMAIN credits : Len(credits[m]) <= 1

\* What makes TypeOK and OneOwner inductive.
TerminalInv == CanisterInv /\ LedgerInv /\ HistoryInv /\ OwnerInv

\* The ledger's fee is not zero, stays what it is, and is the one that the
\* owner sets, if any: what is configured at first may still be another.
OneFee == \E fee \in Nat \ {0} : LedgerFees = {fee} /\ AdminFees \subseteq {fee}

\* The block of the first step of a request, and what arrives by it
FirstBlock(m) == Block(WithFee(requests[m], ledger_fee))

Started(m) == FirstBlock(m) \in blocks

Net(m) == AmountMinusFee(WithFee(requests[m], ledger_fee))

\* A transfer that is kept or under way is a step of its request: the first one
\* with the request's amount and time (or none, when the list was rewritten), or
\* the second one, of what the first one moved.
StepOf(t) ==
  /\ t.operation = requests[t.memo].operation /\ t.interim = requests[t.memo].interim
  /\ t.stage # "Second" =>
       /\ t.stage = requests[t.memo].stage /\ t.amount = requests[t.memo].amount
       /\ t.created_at \in {0, requests[t.memo].created_at}
  /\ t.stage = "Second" =>
       /\ requests[t.memo].stage = "First" /\ Started(t.memo)
       /\ t.amount = Net(t.memo) /\ t.amount > ledger_fee
  /\ Started(t.memo) => t.fee = ledger_fee

\* What the reply that a flow has got tells about the ledger
TrueReply(r) ==
  /\ /\ r.call = "transfer" /\ r.reply.kind \in {"Ok", "Duplicate"}
     /\ r.tx.stage = "First"
     => Started(r.tx.memo)
  /\ /\ r.call = "interim_balance" /\ r.reply.kind = "Value" /\ r.reply.value # 0
     /\ r.tx.stage = "First"
     => Started(r.tx.memo)
  /\ r.call = "transfer" /\ r.reply.kind = "BadFee" => r.reply.value = ledger_fee
  /\ r.call = "minting_account" => r.fee = ledger_fee

FlowOnce(r) ==
  (OwnMemo(r) => StepOf(r.tx)) /\ (\A t \in r.queue : StepOf(t)) /\ TrueReply(r)

RequestsInv ==
  \A m \in DOMAIN requests :
    /\ requests[m] = NewTransfer(requests[m].operation, requests[m].amount, requests[m].fee,
                                 requests[m].created_at, m)
    /\ \A k \in DOMAIN requests : requests[k].amount = requests[m].amount => k = m

\* The blocks of a request are that of the first step and those from its
\* interim account.
BlocksInv ==
  \A b \in blocks :
    /\ b.memo \in DOMAIN requests
    /\ \/ b = FirstBlock(b.memo)
       \/ /\ b.from = requests[b.memo].interim /\ Started(b.memo)
          /\ requests[b.memo].stage = "First"

\* An interim account holds what the first step moved until the second one
\* moves all of it.
InterimInv ==
  /\ \A a \in DOMAIN funds :
       a.kind = "interim" => \E m \in DOMAIN requests : a = requests[m].interim
  /\ \A m \in DOMAIN requests :
       /\ \A b, c \in BlocksOf(m, "interim") : b = c
       /\ requests[m].stage = "First" =>
            BalanceOf(requests[m].interim) =
              IF Started(m) /\ BlocksOf(m, "interim") = {} THEN Net(m) ELSE 0

\* What makes ExactlyOnce inductive, with TerminalInv
OnceInv ==
  /\ ledger_fee \in LedgerFees
  /\ RequestsInv /\ BlocksInv /\ InterimInv
  /\ \A f \in Flow : FlowOnce(flows[f])
  /\ \A t \in recovery : StepOf(t)

\* The canister is not configured with less than the ledger's fee, so that a
\* request that is valid stays so when the terminal learns the fee.
FeeCovered == \A fee \in LedgerFees : InitialFee >= fee

\* A request pays for the fees of its steps.
PaidInv ==
  /\ saved_fee >= ledger_fee
  /\ \A m \in DOMAIN requests :
       /\ Valid(WithFee(requests[m], ledger_fee))
       /\ requests[m].operation = "CreditOnError" => requests[m].amount \in Amounts

\* The second step is not executed before its time.
InOrder(t) == t.stage = "First" => BlocksOf(t.memo, "interim") = {}

\* A flow whose reply tells that the first step was not executed
Refuted(r) ==
  /\ r.tx.stage # "Second"
  /\ \/ /\ r.call = "transfer"
        /\ \/ r.reply.kind \in {"InsufficientFunds", "TooOld"}
           \/ ~ r.recovering /\ r.reply.kind \notin {"Ok", "MaybeFailed"}
     \/ r.call = "interim_balance" /\ r.reply.kind = "Value" /\ r.reply.value = 0

\* A flow whose reply tells that its step was executed
Confirmed(r) ==
  \/ r.call = "transfer" /\ r.reply.kind \in {"Ok", "Duplicate"}
  \/ /\ r.call = "interim_balance" /\ r.reply.kind = "Value" /\ r.reply.value = 0
     /\ r.tx.stage = "Second"

\* Replies tell the truth, since no attempt at a first step comes so late that
\* the ledger has forgotten an earlier one.
FlowTells(r) ==
  /\ OwnMemo(r) => InOrder(r.tx)
  /\ \A t \in r.queue : InOrder(t)
  /\ Refuted(r) => ~ Started(r.tx.memo)
  /\ Confirmed(r) =>
       IF r.tx.stage = "Second" THEN BlocksOf(r.tx.memo, "interim") # {} ELSE Started(r.tx.memo)
  /\ r.call = "interim_balance" => r.tx.stage # "Single"
  /\ r.call = "deposit_balance" => r.fee >= ledger_fee
  /\ r.call \in {"transfer", "minting_account"} =>
       /\ clock - r.since <= MaxLatency
       /\ r.tx.stage # "Second" => r.since - r.tx.created_at < DedupPeriod - TxWindow

\* What the canister owes for a request, out of its main account
Owed(m) ==
  IF credits[m] # << >> THEN 0
  ELSE IF requests[m].operation = "CreditOnSuccess"
  THEN IF Started(m) THEN Net(m) ELSE 0
  ELSE IF Started(m) THEN 0 ELSE requests[m].amount

\* sums[k] is the sum of the first k of n numbers.
Adds(sums, numbers, n) ==
  /\ sums \in [0 .. n -> Nat] /\ sums[0] = 0
  /\ \A k \in 1 .. n : sums[k] = sums[k - 1] + numbers[k]
  /\ \A j, k \in 0 .. n : j <= k => sums[j] <= sums[k]

AllOwed == [m \in DOMAIN requests |-> Owed(m)]

\* The main account holds the user's balance and what is owed for requests.
Covered ==
  \E sums :
    /\ Adds(sums, AllOwed, Len(requests))
    /\ BalanceOf(Own("main")) = balance + sums[Len(requests)]

\* What makes Solvent inductive, with TerminalInv and OnceInv
SolventInv ==
  /\ PaidInv
  /\ \A f \in Flow : FlowTells(flows[f])
  /\ \A t \in recovery : InOrder(t)
  /\ Covered

\* Ids tell the steps of two withdrawals apart: what the second step of one
\* moves is not the amount of another.
Spaced == \A a, b \in Amounts, fee \in LedgerFees : a # b + fee

\* The queries in the recovery of a transfer are answered.
RecoveryAnswered == FailingQueries \subseteq {"deposit_balance"}

\* The canister is configured with the fee of the ledger and nobody changes it,
\* so that the recovery list is never rewritten.
RightFee == \E fee \in Nat \ {0} : LedgerFees = {fee} /\ InitialFee = fee /\ AdminFees = {}

\* A transfer has the fee of the ledger, and the first step has the time that
\* it was requested at.
AsCreated(t) ==
  t.fee = ledger_fee /\ (t.stage # "Second" => t.created_at = requests[t.memo].created_at)

FlowAsCreated(r) ==
  /\ r.call # "None" => r.fee = ledger_fee
  /\ r.call # "minting_account" /\ r.reply.kind # "BadFee"
  /\ OwnMemo(r) => AsCreated(r.tx)
  /\ \A t \in r.queue : AsCreated(t)

\* What makes SettledInv inductive, with the right fee: no transfer loses its
\* time.
AsCreatedInv ==
  /\ saved_fee = ledger_fee
  /\ \A f \in Flow : FlowAsCreated(flows[f])
  /\ \A t \in recovery : AsCreated(t)

Done(m) == Settled(m) /\ outcome[m] # "Recoverable"

Answered(r) ==
  r.call \in Query /\ r.reply.kind = "MaybeFailed" => r.call \in FailingQueries

\* What makes SettledOrKept inductive, with the other invariants
SettledInv ==
  /\ \A m \in DOMAIN requests : Live(m) \/ Done(m)
  /\ \A f \in Flow : Answered(flows[f])

-----------------------------------------------------------------------------
(* Inductive invariants for fees that change while no call is lost *)

\* No call goes wrong.
Lossless == MaxFaults = 0

\* A withdrawal pays for both of its steps, whatever the ledger's fees.
FeesPaid == \A amount \in Amounts, fee \in LedgerFees : amount > 2 * fee

\* Ids tell the steps of two withdrawals apart, whatever fees they have paid.
Spread ==
  \A a, b \in Amounts, paid, other \in LedgerFees \cup {0} : a # b => a + other # b + paid

\* A transfer is a step of its request: the first one, or the second one with
\* what the first one moved at one of the ledger's fees.
PartOf(t) ==
  /\ t.operation = requests[t.memo].operation /\ t.interim = requests[t.memo].interim
  /\ t.stage # "Second" => t.stage = requests[t.memo].stage /\ t.amount = requests[t.memo].amount
  /\ t.stage = "Second" =>
       /\ requests[t.memo].stage = "First"
       /\ \E paid \in LedgerFees : requests[t.memo].amount = t.amount + paid

\* The step has not been executed, and those before it have.
ToDo(t) ==
  /\ t.stage # "Second" => \A b \in blocks : b.memo # t.memo
  /\ t.stage = "First" => BalanceOf(t.interim) = 0
  /\ t.stage = "Second" =>
       /\ BlocksOf(t.memo, "main") # {} /\ BlocksOf(t.memo, "interim") = {}
       /\ BalanceOf(t.interim) = t.amount

\* The step has been executed, at the fee that the transfer has.
Moved(t) ==
  /\ t.fee \in LedgerFees
  /\ t.stage = "Single" => {b.amount : b \in BlocksOf(t.memo, "deposit")} = {AmountMinusFee(t)}
  /\ t.stage # "Single" => BlocksOf(t.memo, "main") # {}
  /\ t.stage = "First" =>
       BlocksOf(t.memo, "interim") = {} /\ BalanceOf(t.interim) = AmountMinusFee(t)
  /\ t.stage = "Second" => BlocksOf(t.memo, "interim") # {}

\* A transfer that waits for a flow
Waits(t) == PartOf(t) /\ ToDo(t)

\* A flow knows what became of its transfer: it moved if the ledger said so,
\* and otherwise it did not.
FlowKnows(r) ==
  /\ OwnMemo(r) =>
       PartOf(r.tx) /\ IF r.call = "transfer" /\ r.reply.kind = "Ok" THEN Moved(r.tx) ELSE ToDo(r.tx)
  /\ \A t \in r.queue : Waits(t)
  /\ r.reply.kind \notin {"Duplicate", "MaybeFailed", "Unavailable"}
  /\ r.call = "interim_balance" =>
       /\ r.tx.stage # "Single"
       /\ r.reply.kind = "Value" => (r.reply.value = 0 <=> r.tx.stage = "First")

\* The ledger has one block for a step of a request, and the interim accounts
\* are those of requests.
StepBlocksInv ==
  /\ \A b \in blocks : b.memo \in DOMAIN requests
  /\ \A b, c \in blocks : b.memo = c.memo /\ b.from.kind = c.from.kind => b = c
  /\ \A a \in DOMAIN funds :
       a.kind = "interim" => \E m \in DOMAIN requests : a = requests[m].interim

\* What makes ExactlyOnce, and with SettledInv SettledOrKept, inductive when no
\* call is lost
KnownInv ==
  /\ ledger_fee \in LedgerFees
  /\ RequestsInv /\ StepBlocksInv
  /\ \A m \in DOMAIN requests :
       requests[m].operation = "CreditOnError" => requests[m].amount \in Amounts
  /\ \A f \in Flow : FlowKnows(flows[f])
  /\ \A t \in recovery : Waits(t)

\* What the block for a deposit moved, if there is one
Deposited(moved) == IF moved = {} THEN 0 ELSE (CHOOSE b \in moved : TRUE).amount

\* What the canister owes for a request, whatever its steps have paid
Due(m) ==
  IF credits[m] # << >> THEN 0
  ELSE IF requests[m].operation = "CreditOnSuccess" THEN Deposited(BlocksOf(m, "deposit"))
  ELSE IF BlocksOf(m, "main") = {} THEN requests[m].amount ELSE 0

AllDue == [m \in DOMAIN requests |-> Due(m)]

\* What makes Solvent inductive, with TerminalInv and KnownInv
DueInv ==
  /\ \A b \in blocks : b.amount \in Nat
  /\ \E sums :
       /\ Adds(sums, AllDue, Len(requests))
       /\ BalanceOf(Own("main")) = balance + sums[Len(requests)]
=============================================================================
